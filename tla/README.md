# Verification of yukino.go

TLA+ models of the distributed components of this repository, TLC runs that
check them on small instances, and TLAPS proofs of the properties that matter
most for every value of the constants. `PROJECT.json` lists the components, the
runs, the mutants that show each property can fail, the source lines behind
every definition, the disagreements between code and documentation that the
runs exhibit, the hazards of the code, and the theorems.

## The system

The repository is a collection of Go modules that share ideas more than code.

| Part | What it does | State that matters | Models |
| --- | --- | --- | --- |
| `components/raft` | consensus core after etcd/raft, with PreVote and ReadIndex; `Node` with Ready/Advance | terms, votes, logs, progress, pending reads; unstable entries and storage | `Raft`, `RaftLog`, `RaftRestart` |
| `components/redis_lock` | a lock in Redis with a watchdog; RedLock over several nodes | key, lease, token, watchdogs | `RedisLock` |
| `components/consistent_cache` | cache-aside with a marker that disables filling during writes | row, cached value, marker | `ConsistentCache` |
| `components/tcc` | try/confirm/cancel transactions with a monitor | the record's try results and status, the participants' states | `TCC` |
| `components/red_mq` | a message queue on Redis Streams, with retries and dead letters | stream, pending entries, failure counts | `RedMQ` |
| `components/lsm_tree` | LSM tree: WAL, memtables, SSTables, compaction | memtables, levels | planned |
| `components/time_wheel`, `components/timer` | timers in memory and in Redis; a distributed timer service | slots, minute buckets, locks | planned |
| `components/consistent_hash` | a hash ring with data migration | ring, node data | planned |
| `libs/yukino_cache` | groupcache-like cache | LRU, singleflight, peers | planned |
| `libs/yukino_rpc` | multiplexed RPC with breaker and limiter | pending calls, breaker state | planned |
| `libs/yukino_http`, `libs/yukino_orm` | web framework, query builder | little beyond a request | not planned, but for routing |
| `apps/task_flow` | workflow engine over the components | flow instances, node states | planned |
| `apps/agent`, `agent_proxy`, `creative_agent`, `takeout_agent` | applications around language models | requests and storage | queues and accounting only, later |

`apps/task_flow` builds on all of the components; the other parts stand alone. The models therefore treat each component with its
environment (Redis, MySQL, the network, its callers) and do not compose
components yet, except that `RaftLog` takes what it assumes of the logs that
arrive from the properties checked of `Raft`.

## Modules

### Raft

`Raft` models every handler that `raft.Step` reaches, for a fixed set of
voters. A variable is a field of the Go struct, as a function on `Server`; an
action is one call of `Step` or `tick`, with the switch of terms at its start.
`msgs` only grows: any message sent so far may be delivered at any time, which
covers loss, repetition and reordering. Time is not measured; a server may
campaign or send heartbeats whenever it could. `LogOps` has the pure functions
on logs (`term`, `matchTerm`, `findConflict`, `maybeAppend`, `commitTo`).
`asked` and `served` are history variables of the ReadIndex calls: what was
committed anywhere when a read was asked for, and the index it returned, with
the terms in which the leader queued and released it and whether its own
acknowledgements did so (`own`). A leader releases every read queued before the
one that was acknowledged, and `reset` keeps the queue. `ReadSeesCommitted` is
therefore about a read that its own acknowledgements release in the term in
which it was queued; that every read is linearizable (`LinearizableReads`) is
what the README of the component says and is false. Within one
term, too, a read may be released by others' acknowledgements: a `MsgReadIndex`
that is delivered twice is queued again behind a newer read, and repeated
acknowledgements of the first time then release both.

`RaftLog` is the log of one server the way the code keeps it: unstable entries
with an offset, the storage, and the goroutine of `node.run` between Ready and
Advance. `PlainLog` is what the raft core believes it has: one sequence with a
commit and an apply index. `RaftLog` is shown to implement it.

`RaftRestart` adds `newRaft` on the stored HardState to `Raft`.

For TLC, `MCRaft` lets a behaviour be one of the plain protocol or one of two
instances with PreVote (`config`), and has the view and the symmetry;
`MCRaftReads` restricts the protocol to a schedule in which a leader is replaced
and comes back; `MCTCC` runs `RaftLog` next to `TCC`, with which it shares
nothing.

### Redis lock

`RedisLock`: callers that lock, work, unlock and crash, on one Redis or by
RedLock on `N` nodes, with a fixed lease or a watchdog (the initial state picks
one of `Handles`). A unit of time is five seconds. A `SET` may take effect and
still be reported as failed, a renewal is in flight for any time, a watchdog
stops with the context of Lock or after an error.

### Consistent cache

`ConsistentCache`: `Put` and `Get` of one key by several processes, step by step,
each call of Redis or the database possibly failing with or without effect.
The component's promise depends on time, so the marker has a remaining life;
`late` records that a row was written without the marker's protection or that a
reader took longer than `ReadTime` from the database to the cache. The
guarantee is for behaviours in which neither happened.

### TCC

`TCC`: one transaction. `Transaction` and the monitor are the two parties that
advance it; each takes a copy of the record, decides, and confirms or cancels
the participants one after another. The participants and the store are those of
`tcc/example`, with a half-done Try, Confirm or Cancel wherever one of their
writes may fail. `Delays` says whether the timeout may pass between a party's
copy and its decision.

### Message queue

`RedMQ`: one topic and its group. The consumers' loop is split where it calls
Redis: claim, read, handle, dead letters, pending. Failure counts are kept per
`MsgEntity`, as in the code, so a message that was trimmed and comes back empty
has a count of its own. What the callback or mailbox took and its XACK are one
step, in which the XACK may fail: a crash between them is that failure followed
by the crash. A message number stands for its stream id. `claimIdle` is a
constant: with 0, the default of the code, nobody claims, and what a consumer
leaves behind waits until it comes back under its id. A dead letter whose XACK
answers 0, because another consumer or an XACK with a lost reply has
acknowledged the message already, keeps its failure count, as in the code, and is
delivered to the mailbox in every round from then on; `LettersLeave` is about
the letters that are still pending.

## Runs

| Run | Instance | Shows |
| --- | --- | --- |
| `raft_elections` | 3 servers; plain: 3 campaigns, terms to 4, logs to 2; PreVote: 4 campaigns, or 3 and a heartbeat, terms to 3 | type correctness, one leader per term, `lead` was elected, log matching, no two committed entries that differ at an index, committed entries stay, Match is held by the follower and lies in the leader's term; a term is raised by a PreVote campaign only with a quorum of pre-votes; the invariant of the proofs |
| `raft_reads` | 3 servers, 2 campaigns, one read context | a read released by its own acknowledgements in its term covers what was committed anywhere when it was asked |
| `raft_nil_reads` | the same with the nil context and plain heartbeats | **violated**: such a read may be stale |
| `raft_stale_reads` | 3 servers, 3 campaigns, two read contexts, the schedule of `MCRaftReads` | **violated**: a read that survives its leader's reset is released with its old index |
| `raft_restart_vote` | 3 servers, restarts | **violated**: a server votes twice in a term |
| `redis_lock` | 2 callers; 1 node with either lease, 3 nodes with a fixed one | a renewed lock is protected, exclusion within the lease, only the owner releases or renews, a crash frees the lock |
| `redis_lock_token` | 2 lock objects with one token | **violated**: one object releases the lock of the other |
| `consistent_cache` | 2 writers, 2 readers, 3 puts | nothing stale stays in the cache; the cache is enabled again |
| `tcc` | 2 participants, no delays; a `RaftLog` over the logs of `MCTCC` | all or nothing, a reported commit stays, nothing stays frozen; the split log implements a plain log, no panic or slice out of range |
| `tcc_delays` | 2 participants, delays | **violated**: participants are cancelled although every Try was logged |
| `red_mq` | 2 consumers that claim, 2 messages, MAXLEN 1 or 2, 2 faults, 2 retries | nothing is acknowledged unseen; every message is handled or becomes a dead letter; dead letters leave the pending entries |
| `red_mq_unclaimed` | 2 consumers that do not claim, 1 message, 1 crash | **violated**: the message of a consumer that died stays with it |

The violated properties quote the documentation; `findings` in
`PROJECT.json` has the lines.

### Bounds

Three servers are the smallest cluster in which a minority and two quorums
exist. Three campaigns let a leader be deposed and come back, and logs of two
entries let a conflict arise and be overwritten. That a quorum's entry of an
earlier term is not committed takes a fourth campaign to matter, which is out of
reach; but in this code the term check of `maybeCommit` never decides. A
`MsgApp` always runs to the end of the leader's log, which begins its term with
an empty entry, so Match is 0 or at an entry of the leader's own term. That is
`MatchInTerm`, and the bounds do reach what would break it. Message contents are complete, so a bound on
campaigns, log length and heartbeats bounds the messages too. `View` leaves out
the messages that no handler would act on any more, and servers and values are
symmetric. One read context and two campaigns do not let a read outlive
its leader's term; `raft_stale_reads` has the two contexts and three campaigns
for that, on one schedule. `PreVoteBacked` counts the grants of all pre-vote
rounds of a term, as the code does. Of `ElectionInv`, which speaks of every message, the run thus sees
one representative of each class; its theorem covers all of them. The lock's two callers and three nodes are the smallest case where a
majority is contested; the lease, the dog's step and its extension keep the
proportions of the code. Two writers and two readers let markers overlap and a
slow fill race a write. Two participants allow a partial outcome. With MAXLEN 1
and two messages a pending message is trimmed while the next one waits behind
it, with MAXLEN 2 both are there as a whole; two faults allow a lost acknowledgement followed by a crash.

### Fairness

* `RedisLock`: time passes and a dog whose tick is due runs. Callers need not
  do anything.
* `ConsistentCache`: time passes and the goroutine that calls Enable runs. No
  other call has to succeed.
* `TCC`: the goroutines of Transaction run (Try and TXUpdate carry timeouts),
  the monitor's loop runs, time passes, and a participant that is asked again
  and again in the end answers (strong fairness of `Acknowledged` and
  `Refused`), since the monitor repeats for as long as the transaction hangs.
* `RedMQ`: the loop of a consumer that is up runs; the cursor of XAUTOCLAIM
  comes round to every idle entry (strong fairness of claiming a message). Failing
  calls are bounded by `MaxFaults`; the callback is allowed to fail always.
* `Raft` has safety properties only and no fairness.

`CHECK_DEADLOCK FALSE` is set where the bounds end every behaviour (`Raft`) and
where a transaction that is over has nothing left to do (`TCC`).

## Proofs

All proofs hold for every value of the constants that meets the named
assumptions.

**Raft** (`RaftInv`, `RaftLemmas`, `RaftElectionSteps`, `RaftLogSteps`,
`RaftProofs`; from `RaftAssumption`: a finite, non-empty set of servers, bounds
that are natural numbers). `ElectionInv` is inductive. One leader per term is
not inductive by itself: two quorums share a server, and that server's vote has
to be tied to the messages in which it was given. So `ElectionInv` says of
every message what its sender and addressee have to show for it (`MsgInv`), of
every server where its grants came from (`ServerInv`), and that no server
granted two votes in a term. `Led` - a server leads a term or has gone beyond
it - is the form of leadership that old messages preserve. Typing is part of
the invariant because `Next` and the commit index stay within the log only for
leaders that were elected. `GoodStepInv` reduces a step to what changes at one
server and to the messages it adds; each handler has one lemma. Theorems:
`ElectionInvariant`, `TypeCorrect`, `OneLeaderPerTerm`, `VotesOnce`,
`LeadElected`, `CommitInLog`.

**Consistent cache** (`ConsistentCacheProofs`, from `CacheAssumption`: the
marker and its shortened form outlive `ReadTime`). The invariant relates each
reader's row and its age to the marker: a row that is out of date is held only
by a reader that will find the marker, because the marker's remaining life
exceeds the time the reader has left. `NeverStale` follows.

**TCC** (`TCCProofs`, from `TCCAssumption`; any number of participants, without
delays). The status computed from the record is final once it is not hanging
(`StatusFinal`), so the verdict of any party agrees with the record of any
later moment (`VerdictFinal`), and so with the other party's. `Atomic` and
`ReturnIsFinal` follow.

Only model-checked: log matching, state machine safety, `MatchInTerm`,
`PreVoteBacked`, `ReadSeesCommitted`,
the refinement of `PlainLog`, all of `RedisLock` and `RedMQ`, and every
liveness property (temporal proofs under fairness are outside the prover's
reach).

## What is left out

* Raft: configuration changes (`addNode`, `removeNode`, `pendingConf`), the
  application `raftkv`, restarts beyond the vote, crashes between Ready and
  Advance.
* Redis lock: one lock object shared by several goroutines. RedLock with a
  watchdog on every node, its default lease, is in `RedisLock` but in no run:
  one caller alone has more than 17 million states. Among what is thus
  unchecked is the key of a slow node, which `Lock` leaves out of `acquired` and
  whose watchdog goes on renewing it after a `Lock` that failed.
* Consistent cache: rows written after the marker has ended (`late`), whether
  the writer was slow or another writer's Enable had shortened the marker.
* TCC: more than one transaction, the registry, the back-off of the monitor;
  its lock is taken as held by one process at a time. A failure that
  `Transaction` reports and the monitor confirms is allowed, as in the code.
* Payloads, logging, HTTP and configuration everywhere.

## Plan

1. `lsm_tree`: memtables, flush, compaction and restore against a plain map.
2. `yukino_cache`: `Group` with singleflight, the LRU levels and peers;
   `yukino_rpc`: the breaker, and the client with its futures and shutdown.
3. `timer` and `time_wheel`: migrator, scheduler, trigger and executor over one
   bucket; the wheel against the due times.
4. `task_flow`: dispatcher, executor, monitor and `tccstore`, composed of what
   `RedMQ` and `TCC` promise; the ledger on `Raft`.
5. `consistent_hash`: ring and migration as operators with a reference
   definition.
6. Raft: the restart with the Ready loop, two-server reads. Proofs: log
   matching and state machine safety on top of `ElectionInv`; the refinement of
   `PlainLog`; `OwnerOnly` and `Protected`; `NothingForgotten`.
