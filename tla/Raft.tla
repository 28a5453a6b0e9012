-------------------------------- MODULE Raft --------------------------------
(***************************************************************************)
(* The consensus core of components/raft/raft: the state machine that      *)
(* raft.Step, the tick functions and the Node calls drive, for a cluster   *)
(* with a fixed membership.  A variable is a field of the Go struct raft,  *)
(* as a function on Server; an action is one call of raft.Step (the whole  *)
(* handler, term switch included) or of tick.                              *)
(*                                                                         *)
(* The transport is not part of the repository.  msgs holds every message  *)
(* ever handed to it: a message may be delivered late, in any order, many  *)
(* times or never.  Timeouts are not measured: MsgHup and MsgBeat may come *)
(* at any time.  The log is a plain sequence here; module RaftLog shows    *)
(* that its unstable/storage split behaves like one.                       *)
(***************************************************************************)
EXTENDS LogOps, FiniteSets

CONSTANTS
  Server,    \* the ids in raft.prs
  Value,     \* the data clients propose
  Ctx,       \* the contexts clients pass to ReadIndex
  None,      \* the id 0: no vote, no leader, no sender
  NoData,    \* the nil data of the entry a new leader appends
  NoCtx,     \* the nil context of an ordinary heartbeat
  PreVote,   \* Config.PreVote
  MaxTerm,       \* bound: no server campaigns beyond this term
  MaxCampaigns,  \* bound: elections and pre-elections called
  MaxLog,        \* bound: no leader appends beyond this index
  MaxBeats       \* bound: ordinary heartbeats that are sent

ASSUME RaftAssumption ==
  /\ IsFiniteSet(Server) /\ Server # {}
  /\ None \notin Server
  /\ PreVote \in BOOLEAN
  /\ {MaxTerm, MaxCampaigns, MaxLog, MaxBeats} \subseteq Nat

VARIABLES
  term,      \* raft.Term
  vote,      \* raft.Vote
  state,     \* raft.state
  lead,      \* raft.lead
  granted,   \* the ids that raft.votes maps to true
  rejected,  \* the ids that raft.votes maps to false
  log,       \* raft.raftLog: the entries, index 1 first
  commit,    \* raft.raftLog.commitIndex
  match,     \* raft.prs[_].Match
  next,      \* raft.prs[_].Next
  reads,     \* raft.readOnly: the queue of pending reads
  msgs,      \* every message sent so far
  asked,     \* history: the indices committed when a client asked to read
  served     \* history: the answers put in raft.readStates

electionVars == <<term, vote, state, lead, granted, rejected>>
logVars == <<log, commit>>
progressVars == <<match, next>>
readVars == <<reads, asked, served>>
vars == <<electionVars, logVars, progressVars, readVars, msgs>>

Follower == "StateFollower"
PreCandidate == "StatePreCandidate"
Candidate == "StateCandidate"
Leader == "StateLeader"

Entry == [term : Nat \ {0}, data : Value \cup {NoData}]

---------------------------------------------------------------------------
(* Messages.  raft.send stamps every message but MsgProp and MsgReadIndex  *)
(* with the sender's current term, a MsgPreVote included.                  *)

VoteRequest ==
  [type : {"MsgVote", "MsgPreVote"}, from : Server, to : Server, term : Nat,
   logIndex : Nat, logTerm : Nat]

VoteReply ==
  [type : {"MsgVoteResp", "MsgPreVoteResp"}, from : Server, to : Server,
   term : Nat, reject : BOOLEAN]

AppendRequest ==
  [type : {"MsgApp"}, from : Server, to : Server, term : Nat,
   logIndex : Nat, logTerm : Nat, entries : Seq(Entry), commit : Nat]

AppendReply ==
  [type : {"MsgAppResp"}, from : Server, to : Server, term : Nat,
   logIndex : Nat, reject : BOOLEAN, hint : Nat]

Heartbeat ==
  [type : {"MsgHeartbeat"}, from : Server, to : Server, term : Nat,
   commit : Nat, ctx : Ctx \cup {NoCtx}]

HeartbeatReply ==
  [type : {"MsgHeartbeatResp"}, from : Server, to : Server, term : Nat,
   ctx : Ctx \cup {NoCtx}]

Proposal ==
  [type : {"MsgProp"}, from : Server, to : Server, data : Value]

ReadRequest ==
  [type : {"MsgReadIndex"}, from : Server, to : Server, ctx : Ctx]

\* queuedIn and own are history: the leader's term when it queued the request,
\* and whether the acknowledgements that released it were for its context.
ReadReply ==
  [type : {"MsgReadIndexResp"}, from : Server, to : Server, term : Nat,
   logIndex : Nat, ctx : Ctx, queuedIn : Nat, own : BOOLEAN]

Message ==
  VoteRequest \cup VoteReply \cup AppendRequest \cup AppendReply
    \cup Heartbeat \cup HeartbeatReply \cup Proposal
    \cup ReadRequest \cup ReadReply

ReadStatus ==
  [ctx : Ctx, index : Nat, from : Server \cup {None}, acks : SUBSET Server,
   queuedIn : Nat]

ReadState ==
  [ctx : Ctx, index : Nat, queuedIn : Nat, servedIn : Nat, own : BOOLEAN]

---------------------------------------------------------------------------
(* The progress of the peers.                                              *)

quorum == Cardinality(Server) \div 2 + 1

\* Mutant: one server less than a quorum is enough.
QuorumMatchLess(ms) ==
  {n \in {ms[j] : j \in Server} :
     /\ Cardinality({j \in Server : ms[j] >= n}) >= quorum - 1
     /\ Cardinality({j \in Server : ms[j] > n}) < quorum - 1}

\* The quorum-th largest value of ms (a set of that one value).
QuorumMatch(ms) ==
  {n \in {ms[j] : j \in Server} :
     /\ Cardinality({j \in Server : ms[j] >= n}) >= quorum
     /\ Cardinality({j \in Server : ms[j] > n}) < quorum}

\* raft.maybeCommit: the commit index of a leader of term t after it.
maybeCommit(l, ms, t, c) ==
  LET N == {n \in QuorumMatch(ms) : n > c /\ TermAt(l, n) = t}
  IN  IF N = {} THEN c ELSE CHOOSE n \in N : TRUE

---------------------------------------------------------------------------
(* What servers send.                                                      *)

voteRequests(i, type, t) ==
  {[type |-> type, from |-> i, to |-> j, term |-> t,
    logIndex |-> Len(log[i]), logTerm |-> LastTerm(log[i])] :
     j \in Server \ {i}}

\* Mutant: a message carries one entry, not all that the peer lacks.
sendOne(i, j, t, l, nx, c) ==
  [type |-> "MsgApp", from |-> i, to |-> j, term |-> t,
   logIndex |-> nx[j] - 1, logTerm |-> TermAt(l, nx[j] - 1),
   entries |-> SubSeq(l, nx[j], Least(nx[j], Len(l))), commit |-> c]

sendAppend(i, j, t, l, nx, c) ==
  [type |-> "MsgApp", from |-> i, to |-> j, term |-> t,
   logIndex |-> nx[j] - 1, logTerm |-> TermAt(l, nx[j] - 1),
   entries |-> SubSeq(l, nx[j], Len(l)), commit |-> c]

broadcastAppend(i, t, l, nx, c) ==
  {sendAppend(i, j, t, l, nx, c) : j \in Server \ {i}}

broadcastHeartbeatWithCtx(i, ctx) ==
  {[type |-> "MsgHeartbeat", from |-> i, to |-> j, term |-> term[i],
    commit |-> Least(commit[i], match[i][j]), ctx |-> ctx] :
     j \in Server \ {i}}

Send(ms) == msgs' = msgs \cup ms

\* The (pre-)elections called and the ordinary heartbeats sent so far.
Campaigns ==
  {<<m.type, m.from, m.term>> :
     m \in {x \in msgs : x.type \in {"MsgVote", "MsgPreVote"}}}
Beats == {m \in msgs : m.type = "MsgHeartbeat" /\ m.ctx = NoCtx}

\* The data proposed so far.
Proposed ==
  {m.data : m \in {x \in msgs : x.type = "MsgProp"}}
    \cup UNION {{log[i][k].data : k \in DOMAIN log[i]} : i \in Server}
    \cup UNION {{m.entries[k].data : k \in DOMAIN m.entries} :
                  m \in {x \in msgs : x.type = "MsgApp"}}

---------------------------------------------------------------------------
(* Changes of role.                                                        *)

\* raft.reset and becomeFollower(t, l): a new term forgets the vote.
becomeFollower(i, t, l) ==
  /\ term' = [term EXCEPT ![i] = t]
  /\ vote' = [vote EXCEPT ![i] = IF term[i] = t THEN @ ELSE None]
  /\ state' = [state EXCEPT ![i] = Follower]
  /\ lead' = [lead EXCEPT ![i] = l]
  /\ granted' = [granted EXCEPT ![i] = {}]
  /\ rejected' = [rejected EXCEPT ![i] = {}]

\* The progress of the peers when i becomes leader: its own is kept.
leaderMatch(i, l) ==
  [j \in Server |-> IF j = i THEN Greatest(match[i][i], Len(l)) ELSE 0]

leaderNext(i, l) ==
  [j \in Server |->
     IF j = i THEN Greatest(next[i][i], Len(l) + 1) ELSE Len(log[i]) + 1]

\* becomeLeader in term t, the empty entry it appends included; send says
\* whether broadcastAppend follows.
becomeLeader(i, t, send) ==
  LET l == Append(log[i], [term |-> t, data |-> NoData])
      ms == leaderMatch(i, l)
      nx == leaderNext(i, l)
      c == maybeCommit(l, ms, t, commit[i])
  IN  /\ Len(log[i]) < MaxLog
      /\ state' = [state EXCEPT ![i] = Leader]
      /\ lead' = [lead EXCEPT ![i] = i]
      /\ granted' = [granted EXCEPT ![i] = {}]
      /\ rejected' = [rejected EXCEPT ![i] = {}]
      /\ log' = [log EXCEPT ![i] = l]
      /\ commit' = [commit EXCEPT ![i] = c]
      /\ match' = [match EXCEPT ![i] = ms]
      /\ next' = [next EXCEPT ![i] = nx]
      /\ Send(IF send THEN broadcastAppend(i, t, l, nx, c) ELSE {})

\* campaign(campaignElection): a lone server wins at once.
campaignElection(i) ==
  /\ term[i] < MaxTerm /\ Cardinality(Campaigns) < MaxCampaigns
  /\ term' = [term EXCEPT ![i] = @ + 1]
  /\ vote' = [vote EXCEPT ![i] = i]
  /\ IF quorum = 1
       THEN becomeLeader(i, term[i] + 1, FALSE)
       ELSE /\ state' = [state EXCEPT ![i] = Candidate]
            /\ lead' = [lead EXCEPT ![i] = None]
            /\ granted' = [granted EXCEPT ![i] = {i}]
            /\ rejected' = [rejected EXCEPT ![i] = {}]
            /\ Send(voteRequests(i, "MsgVote", term[i] + 1))
            /\ UNCHANGED <<logVars, progressVars>>

\* campaign(campaignPreElection): term, vote and lead stay as they are.
campaignPreElection(i) ==
  /\ Cardinality(Campaigns) < MaxCampaigns
  /\ state' = [state EXCEPT ![i] = PreCandidate]
  /\ granted' = [granted EXCEPT ![i] = {i}]
  /\ rejected' = [rejected EXCEPT ![i] = {}]
  /\ Send(voteRequests(i, "MsgPreVote", term[i]))
  /\ UNCHANGED <<term, vote, lead, logVars, progressVars>>

---------------------------------------------------------------------------
(* Elections.                                                              *)

\* MsgHup, from tickElection or Node.Campaign.
Hup(i) ==
  /\ state[i] # Leader
  /\ IF PreVote /\ quorum > 1 THEN campaignPreElection(i)
                              ELSE campaignElection(i)
  /\ UNCHANGED readVars

\* Mutants: a vote forgotten within its term; a candidate taken for leader.
forgottenVote(i, m) == IF m.term >= term[i] THEN None ELSE vote[i]
candidateAsLead(i, m) == IF m.term > term[i] THEN m.from ELSE lead[i]

\* The term switch of Step: vote, state and lead when the handler of a vote
\* request runs.
steppedVote(i, m) == IF m.term > term[i] THEN None ELSE vote[i]
steppedState(i, m) == IF m.term > term[i] THEN Follower ELSE state[i]
steppedLead(i, m) == IF m.term > term[i] THEN None ELSE lead[i]

HandleVote(i, m) ==
  LET v == steppedVote(i, m)
      grant == /\ isUpToDate(log[i], m.logIndex, m.logTerm)
               /\ v \in {None, m.from}
  IN  /\ m.type = "MsgVote" /\ m.to = i /\ m.term >= term[i]
      /\ term' = [term EXCEPT ![i] = m.term]
      /\ state' = [state EXCEPT ![i] = steppedState(i, m)]
      /\ lead' = [lead EXCEPT ![i] = steppedLead(i, m)]
      /\ granted' = [granted EXCEPT ![i] = IF m.term > term[i] THEN {} ELSE @]
      /\ rejected' = [rejected EXCEPT ![i] = IF m.term > term[i] THEN {} ELSE @]
      /\ vote' = [vote EXCEPT ![i] = IF grant THEN m.from ELSE v]
      /\ Send({[type |-> "MsgVoteResp", from |-> i, to |-> m.from,
                term |-> m.term, reject |-> ~grant]})
      /\ UNCHANGED <<logVars, progressVars, readVars>>

\* A pre-vote changes nothing but the network.
HandlePreVote(i, m) ==
  LET grant == /\ isUpToDate(log[i], m.logIndex, m.logTerm)
               /\ vote[i] \in {None, m.from} \/ m.term > term[i]
  IN  /\ m.type = "MsgPreVote" /\ m.to = i /\ m.term >= term[i]
      /\ Send({[type |-> "MsgPreVoteResp", from |-> i, to |-> m.from,
                term |-> term[i], reject |-> ~grant]})
      /\ UNCHANGED <<electionVars, logVars, progressVars, readVars>>

\* Mutant: every answer counts as a grant.
polledAny(i, m) == granted[i] \cup {m.from}

\* raft.poll: the first answer of a peer counts.
polledGranted(i, m) ==
  IF m.from \in rejected[i] \/ m.reject THEN granted[i]
                                        ELSE granted[i] \cup {m.from}
polledRejected(i, m) ==
  IF m.from \in granted[i] \/ ~m.reject THEN rejected[i]
                                        ELSE rejected[i] \cup {m.from}

\* The votes are recorded and neither side has its quorum yet.
recordVote(i, m) ==
  /\ granted' = [granted EXCEPT ![i] = polledGranted(i, m)]
  /\ rejected' = [rejected EXCEPT ![i] = polledRejected(i, m)]
  /\ UNCHANGED <<term, vote, state, lead, logVars, progressVars, msgs>>

\* stepCandidate's count in the role that expects m, win being the step
\* taken on a quorum of grants.
countVote(i, m, win) ==
  IF Cardinality(polledGranted(i, m)) = quorum
    THEN win
    ELSE IF Cardinality(polledRejected(i, m)) = quorum
           THEN /\ becomeFollower(i, term[i], None)
                /\ UNCHANGED <<logVars, progressVars, msgs>>
           ELSE recordVote(i, m)

\* An answer from a later term makes a follower of i, and is then ignored.
HandleVoteResp(i, m) ==
  /\ m.type = "MsgVoteResp" /\ m.to = i /\ m.term >= term[i]
  /\ IF m.term > term[i]
       THEN /\ becomeFollower(i, m.term, m.from)
            /\ UNCHANGED <<logVars, progressVars, msgs>>
       ELSE /\ state[i] = Candidate
            /\ countVote(i, m, becomeLeader(i, term[i], TRUE)
                                 /\ UNCHANGED <<term, vote>>)
  /\ UNCHANGED readVars

HandlePreVoteResp(i, m) ==
  /\ m.type = "MsgPreVoteResp" /\ m.to = i /\ m.term >= term[i]
  /\ IF m.term > term[i] /\ m.reject
       THEN /\ becomeFollower(i, m.term, m.from)
            /\ UNCHANGED <<logVars, progressVars, msgs>>
       ELSE /\ state[i] = PreCandidate
            /\ countVote(i, m, campaignElection(i))
  /\ UNCHANGED readVars

---------------------------------------------------------------------------
(* Replication.                                                            *)

\* stepLeader's MsgProp: append and broadcast.
appendAndBroadcast(i, v) ==
  LET l == Append(log[i], [term |-> term[i], data |-> v])
      ms == [match[i] EXCEPT ![i] = Greatest(@, Len(l))]
      nx == [next[i] EXCEPT ![i] = Greatest(@, Len(l) + 1)]
      c == maybeCommit(l, ms, term[i], commit[i])
  IN  /\ Len(log[i]) < MaxLog
      /\ log' = [log EXCEPT ![i] = l]
      /\ commit' = [commit EXCEPT ![i] = c]
      /\ match' = [match EXCEPT ![i] = ms]
      /\ next' = [next EXCEPT ![i] = nx]
      /\ Send(broadcastAppend(i, term[i], l, nx, c))

\* A MsgProp at i: a leader appends it, a follower sends it on to the leader
\* it knows; a candidate drops it.
stepProp(i, from, v) ==
  \/ state[i] = Leader /\ appendAndBroadcast(i, v)
  \/ /\ state[i] = Follower /\ lead[i] # None
     /\ Send({[type |-> "MsgProp", from |-> from, to |-> lead[i], data |-> v]})
     /\ UNCHANGED <<logVars, progressVars>>

\* Node.Propose.  Clients propose a value once.
Propose(i, v) ==
  /\ v \notin Proposed
  /\ stepProp(i, i, v)
  /\ UNCHANGED <<electionVars, readVars>>

\* A forwarded proposal.
HandleProp(i, m) ==
  /\ m.type = "MsgProp" /\ m.to = i
  /\ stepProp(i, m.from, m.data)
  /\ UNCHANGED <<electionVars, readVars>>

\* MsgBeat, from tickHeartbeat.
Beat(i) ==
  /\ state[i] = Leader
  /\ Cardinality(Beats) < MaxBeats
  /\ Send(broadcastHeartbeatWithCtx(i, NoCtx))
  /\ UNCHANGED <<electionVars, logVars, progressVars, readVars>>

\* A MsgApp or MsgHeartbeat of the current or a later term makes a follower
\* of anyone but the leader of that term.
followLeader(i, m) ==
  /\ m.term >= term[i]
  /\ m.term = term[i] => state[i] # Leader
  /\ becomeFollower(i, m.term, m.from)

\* handleAppendEntries and raftLog.maybeAppend.  A conflict at or below the
\* commit index is a panic: no step is taken then (see NoCommittedConflict).
HandleApp(i, m) ==
  LET accept == matchTerm(log[i], m.logIndex, m.logTerm)
      conflict == findConflict(log[i], m.logIndex, m.entries)
      lastNewI == m.logIndex + Len(m.entries)
      reply(index, rejectMsg, hint) ==
        [type |-> "MsgAppResp", from |-> i, to |-> m.from, term |-> m.term,
         logIndex |-> index, reject |-> rejectMsg, hint |-> hint]
  IN  /\ m.type = "MsgApp" /\ m.to = i
      /\ followLeader(i, m)
      /\ IF accept
           THEN /\ conflict = 0 \/ conflict > commit[i]
                /\ log' = [log EXCEPT ![i] =
                             appendFrom(@, m.logIndex, m.entries, conflict)]
                /\ commit' = [commit EXCEPT ![i] =
                                commitTo(@, Least(m.commit, lastNewI))]
                /\ Send({reply(lastNewI, FALSE, 0)})
           ELSE /\ Send({reply(m.logIndex, TRUE, Len(log[i]))})
                /\ UNCHANGED logVars
      /\ UNCHANGED <<progressVars, readVars>>

HandleHeartbeat(i, m) ==
  /\ m.type = "MsgHeartbeat" /\ m.to = i
  /\ followLeader(i, m)
  /\ commit' = [commit EXCEPT ![i] =
                  commitTo(@, Least(m.commit, Len(log[i])))]
  /\ Send({[type |-> "MsgHeartbeatResp", from |-> i, to |-> m.from,
            term |-> m.term, ctx |-> m.ctx]})
  /\ UNCHANGED <<log, progressVars, readVars>>

\* Progress.mayDecreaseTo, and the retry it triggers.
backOff(i, m) ==
  LET nx == [next[i] EXCEPT ![m.from] =
               Greatest(1, Least(m.logIndex, m.hint + 1))]
  IN  /\ next[i][m.from] - 1 = m.logIndex
      /\ next' = [next EXCEPT ![i] = nx]
      /\ Send({sendAppend(i, m.from, term[i], log[i], nx, commit[i])})
      /\ UNCHANGED <<match, commit>>

\* Mutant: Match takes the value meant for Next.
updatedMatchHigh(i, m) ==
  [match[i] EXCEPT ![m.from] = Greatest(@, m.logIndex + 1)]

updatedMatch(i, m) ==
  [match[i] EXCEPT ![m.from] = Greatest(@, m.logIndex)]

\* Progress.maybeUpdate, then maybeCommit and the broadcast of a new commit.
advanceProgress(i, m) ==
  LET ms == updatedMatch(i, m)
      nx == [next[i] EXCEPT ![m.from] = Greatest(@, m.logIndex + 1)]
      c == maybeCommit(log[i], ms, term[i], commit[i])
      committed == match[i][m.from] < m.logIndex /\ c # commit[i]
  IN  /\ match' = [match EXCEPT ![i] = ms]
      /\ next' = [next EXCEPT ![i] = nx]
      /\ commit' = [commit EXCEPT ![i] = IF committed THEN c ELSE @]
      /\ Send(IF committed THEN broadcastAppend(i, term[i], log[i], nx, c)
                           ELSE {})

HandleAppResp(i, m) ==
  /\ m.type = "MsgAppResp" /\ m.to = i /\ m.term >= term[i]
  /\ IF m.term > term[i]
       THEN becomeFollower(i, m.term, m.from)
              /\ UNCHANGED <<commit, progressVars, msgs>>
       ELSE /\ state[i] = Leader
            /\ IF m.reject THEN backOff(i, m) ELSE advanceProgress(i, m)
            /\ UNCHANGED electionVars
  /\ UNCHANGED <<log, readVars>>

---------------------------------------------------------------------------
(* Linearizable reads.                                                     *)

Queued(i) == {reads[i][k].ctx : k \in DOMAIN reads[i]}

answer(ctx, index, queuedIn, servedIn, own) ==
  [ctx |-> ctx, index |-> index, queuedIn |-> queuedIn, servedIn |-> servedIn,
   own |-> own]

\* Mutant: a leader answers before it has committed in its term.
anyCommit(i) == TRUE

\* The leader knows which entries are committed.
committedInTerm(i) == TermAt(log[i], commit[i]) = term[i]

\* stepLeader's MsgReadIndex: a lone server answers; otherwise the leader
\* must have committed in its term, and queues a context it does not hold.
queueRead(i, from, ctx) ==
  IF Cardinality(Server) = 1
    THEN /\ served' = served \cup {answer(ctx, commit[i], term[i], term[i], TRUE)}
         /\ UNCHANGED <<reads, msgs>>
    ELSE /\ committedInTerm(i)
         /\ ctx \notin Queued(i)
         /\ reads' = [reads EXCEPT ![i] =
                        Append(@, [ctx |-> ctx, index |-> commit[i],
                                   from |-> from, acks |-> {},
                                   queuedIn |-> term[i]])]
         /\ Send(broadcastHeartbeatWithCtx(i, ctx))
         /\ UNCHANGED served

\* A MsgReadIndex at i: dropped by a candidate and without a known leader.
stepReadIndex(i, from, ctx) ==
  \/ state[i] = Leader /\ queueRead(i, from, ctx)
  \/ /\ state[i] = Follower /\ lead[i] # None
     /\ Send({[type |-> "MsgReadIndex", to |-> lead[i], ctx |-> ctx,
               from |-> IF from = None THEN i ELSE from]})
     /\ UNCHANGED <<reads, served>>

\* Node.ReadIndex.  A client asks once for each context.
ReadIndex(i, ctx) ==
  /\ asked[ctx] = {}
  /\ asked' = [asked EXCEPT ![ctx] = UNION {0..commit[j] : j \in Server}]
  /\ stepReadIndex(i, None, ctx)
  /\ UNCHANGED <<electionVars, logVars, progressVars>>

\* A forwarded read.
HandleReadIndex(i, m) ==
  /\ m.type = "MsgReadIndex" /\ m.to = i
  /\ stepReadIndex(i, m.from, m.ctx)
  /\ UNCHANGED <<electionVars, logVars, progressVars, asked>>

\* readOnly.recvAck: the queue of i after m acknowledged position k.
acknowledged(i, m, k) ==
  [reads[i] EXCEPT ![k].acks = @ \cup {m.from}]

\* readOnly.advance: everything up to position k of queue q leaves it,
\* answered to i's own clients or to the server that forwarded it.
release(i, q, k) ==
  LET mine == {n \in 1..k : q[n].from \in {None, i}}
  IN  /\ reads' = [reads EXCEPT ![i] = SubSeq(q, k + 1, Len(q))]
      /\ served' = served \cup
           {answer(q[n].ctx, q[n].index, q[n].queuedIn, term[i], n = k) : n \in mine}
      /\ Send({[type |-> "MsgReadIndexResp", from |-> i, to |-> q[n].from,
                term |-> term[i], logIndex |-> q[n].index, ctx |-> q[n].ctx,
                queuedIn |-> q[n].queuedIn, own |-> n = k] : n \in (1..k) \ mine})

\* The leader does not count itself among the acknowledgements.
HandleHeartbeatResp(i, m) ==
  /\ m.type = "MsgHeartbeatResp" /\ m.to = i /\ m.term >= term[i]
  /\ IF m.term > term[i]
       THEN becomeFollower(i, m.term, m.from) /\ UNCHANGED <<readVars, msgs>>
       ELSE /\ state[i] = Leader
            /\ \E k \in DOMAIN reads[i] :
                 /\ reads[i][k].ctx = m.ctx
                 /\ LET q == acknowledged(i, m, k)
                    IN  IF Cardinality(q[k].acks) < quorum
                          THEN /\ reads' = [reads EXCEPT ![i] = q]
                               /\ UNCHANGED <<served, msgs>>
                          ELSE release(i, q, k)
            /\ UNCHANGED <<electionVars, asked>>
  /\ UNCHANGED <<logVars, progressVars>>

\* Only a follower keeps the answer.
HandleReadIndexResp(i, m) ==
  /\ m.type = "MsgReadIndexResp" /\ m.to = i /\ m.term >= term[i]
  /\ steppedState(i, m) = Follower
  /\ IF m.term > term[i] THEN becomeFollower(i, m.term, m.from)
                         ELSE UNCHANGED electionVars
  /\ served' = served \cup {answer(m.ctx, m.logIndex, m.queuedIn, m.term, m.own)}
  /\ UNCHANGED <<logVars, progressVars, reads, asked, msgs>>

---------------------------------------------------------------------------
Init ==
  /\ term = [i \in Server |-> 1]
  /\ vote = [i \in Server |-> None]
  /\ state = [i \in Server |-> Follower]
  /\ lead = [i \in Server |-> None]
  /\ granted = [i \in Server |-> {}]
  /\ rejected = [i \in Server |-> {}]
  /\ log = [i \in Server |-> <<>>]
  /\ commit = [i \in Server |-> 0]
  /\ match = [i \in Server |-> [j \in Server |-> 0]]
  /\ next = [i \in Server |-> [j \in Server |-> 1]]
  /\ reads = [i \in Server |-> <<>>]
  /\ msgs = {}
  /\ asked = [c \in Ctx |-> {}]
  /\ served = {}

Local(i) ==
  \/ Hup(i)
  \/ Beat(i)
  \/ \E v \in Value : Propose(i, v)
  \/ \E c \in Ctx : ReadIndex(i, c)

Receive(i, m) ==
  \/ HandleVote(i, m)
  \/ HandleVoteResp(i, m)
  \/ HandlePreVote(i, m)
  \/ HandlePreVoteResp(i, m)
  \/ HandleApp(i, m)
  \/ HandleAppResp(i, m)
  \/ HandleHeartbeat(i, m)
  \/ HandleHeartbeatResp(i, m)
  \/ HandleProp(i, m)
  \/ HandleReadIndex(i, m)
  \/ HandleReadIndexResp(i, m)

Next ==
  \/ \E i \in Server : Local(i)
  \/ \E i \in Server, m \in msgs : Receive(i, m)

Spec == Init /\ [][Next]_vars

---------------------------------------------------------------------------
(* Properties.                                                             *)

\* Every variable keeps its type.
TypeOK ==
  /\ term \in [Server -> Nat \ {0}]
  /\ vote \in [Server -> Server \cup {None}]
  /\ state \in [Server -> {Follower, PreCandidate, Candidate, Leader}]
  /\ lead \in [Server -> Server \cup {None}]
  /\ granted \in [Server -> SUBSET Server]
  /\ rejected \in [Server -> SUBSET Server]
  /\ log \in [Server -> Seq(Entry)]
  /\ commit \in [Server -> Nat]
  /\ match \in [Server -> [Server -> Nat]]
  /\ next \in [Server -> [Server -> Nat \ {0}]]
  /\ reads \in [Server -> Seq(ReadStatus)]
  /\ msgs \subseteq Message
  /\ asked \in [Ctx -> SUBSET Nat]
  /\ served \subseteq ReadState

\* A server grants its vote to at most one candidate of a term: HardState
\* makes Term and Vote durable for this.
OneVotePerTerm ==
  \A m, n \in {x \in msgs : x.type = "MsgVoteResp" /\ ~x.reject} :
    m.from = n.from /\ m.term = n.term => m.to = n.to

\* The votes that stepCandidate counts never make two leaders of one term.
ElectionSafety ==
  \A i, j \in Server :
    state[i] = Leader /\ state[j] = Leader /\ term[i] = term[j] => i = j

\* raft.lead, to which followers forward proposals and reads, is a server
\* that was elected in the follower's term: it leads that term still, or has
\* moved on to a later one.  No reply ever sets lead to a mere follower.
LeadWasElected ==
  \A i \in Server :
    lead[i] # None =>
      \/ term[lead[i]] > term[i]
      \/ term[lead[i]] = term[i] /\ state[lead[i]] = Leader

\* A server that campaigns with PreVote has been told by a majority, in its
\* current term, that it could win.
CampaignBacked ==
  \A i \in Server :
    PreVote /\ state'[i] = Candidate /\ term'[i] # term[i] =>
      quorum <= 1 + Cardinality(
        {j \in Server \ {i} : \E m \in msgs :
           /\ m.type = "MsgPreVoteResp" /\ ~m.reject
           /\ m.from = j /\ m.to = i /\ m.term = term[i]})

\* Two logs that hold an entry of one term at one index agree up to there:
\* what matchTerm in maybeAppend relies on.
LogMatching ==
  \A i, j \in Server : \A k \in 1..Least(Len(log[i]), Len(log[j])) :
    log[i][k].term = log[j][k].term =>
      SubSeq(log[i], 1, k) = SubSeq(log[j], 1, k)

\* The commit index stays within the log: commitTo does not panic with "commit
\* index over last index", and nextEntries finds what it slices.
CommitWithinLog == \A i \in Server : commit[i] <= Len(log[i])

\* What two servers have committed, and hand out as CommittedEntries, agrees.
StateMachineSafety ==
  \A i, j \in Server : \A k \in 1..Least(commit[i], commit[j]) :
    log[i][k] = log[j][k]

\* No message in flight, however old, makes maybeAppend panic with "conflict
\* before commit index".
NoCommittedConflict ==
  \A m \in msgs :
    /\ m.type = "MsgApp"
    /\ m.term >= term[m.to]
    /\ m.term = term[m.to] => state[m.to] # Leader
    /\ matchTerm(log[m.to], m.logIndex, m.logTerm)
    => \A k \in Conflicts(log[m.to], m.logIndex, m.entries) : k > commit[m.to]

\* A leader's Match is what its peer really holds, as long as the peer has
\* not moved on to a later term: late or repeated replies do not inflate it.
\* (Its own Match, which becomeLeader keeps, may be too large.)
MatchIsHeld ==
  \A i, j \in Server :
    i # j /\ state[i] = Leader /\ term[j] = term[i] =>
      /\ match[i][j] <= Len(log[j]) /\ match[i][j] <= Len(log[i])
      /\ SubSeq(log[j], 1, match[i][j]) = SubSeq(log[i], 1, match[i][j])

\* What a leader counts for its commit index are entries of its own term: a
\* MsgApp carries the log to its end, the empty entry of the new term included,
\* so Match is 0 or has passed all entries of earlier terms, although replies
\* come late or after a conflict.  An entry of an earlier term is thus never
\* counted as committed by itself, even before maybeCommit compares terms.
MatchInTerm ==
  \A i, j \in Server :
    i # j /\ state[i] = Leader /\ match[i][j] > 0 =>
      TermAt(log[i], match[i][j]) = term[i]

\* What a quorum that answers the heartbeats of a read vouches for: released
\* by acknowledgements of its own context, which no ordinary heartbeat has,
\* and in the term in which it was queued, a read sees every write that was
\* committed anywhere when the client asked.  readOnly.advance releases
\* others too, for which LinearizableReads is false: reads queued in front,
\* those of an earlier term included, which raft.reset leaves in the queue.
ReadSeesCommitted ==
  \A s \in served :
    s.own /\ s.queuedIn = s.servedIn /\ s.ctx # NoCtx =>
      \A c \in asked[s.ctx] : s.index >= c

\* Every read sees every write that was committed when the client asked,
\* whichever acknowledgements made readOnly.advance release it.
LinearizableReads ==
  \A s \in served : \A c \in asked[s.ctx] : s.index >= c

\* Committed entries are final: the commit index never goes back and nothing
\* at or below it is overwritten, whatever maybeAppend truncates.
CommittedIsFinal ==
  [][\A i \in Server :
       /\ commit'[i] >= commit[i]
       /\ SubSeq(log'[i], 1, commit[i]) = SubSeq(log[i], 1, commit[i])]_vars

=============================================================================
