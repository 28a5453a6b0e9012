------------------------------ MODULE RaftLog -------------------------------
(***************************************************************************)
(* The log of one server in components/raft/raft: MemoryStorage holds a    *)
(* stable part, unstable the entries from offset on, and Node.run passes   *)
(* the unstable entries and the committed ones out in a Ready and, after   *)
(* Advance, moves them to the storage.  Steps of the raft core come in     *)
(* between: the entries in flight may have been truncated when Advance     *)
(* arrives.                                                                *)
(*                                                                         *)
(* The raft core is the environment: it appends as leader, or accepts      *)
(* parts of the logs of leaders, any two of which agree up to an entry of  *)
(* the same term (LogMatching of Raft) and with what is committed here     *)
(* (NoCommittedConflict of Raft).                                          *)
(***************************************************************************)
EXTENDS LogOps

CONSTANT Logs   \* the logs that leaders hold, and send parts of

\* What the raft core guarantees of them.
LogsAssumption ==
  /\ Logs \subseteq Seq([term : Nat \ {0}])
  /\ \A l, m \in Logs : \A k \in 1..Least(Len(l), Len(m)) :
       l[k] = m[k] => SubSeq(l, 1, k) = SubSeq(m, 1, k)

VARIABLES
  stable,       \* MemoryStorage.entries, the dummy entry left out
  unstable,     \* raftLog.unstable: its offset and its entries
  commitIndex,  \* raftLog.commitIndex
  applyIndex,   \* raftLog.applyIndex
  advancing,    \* advanceChan # nil: a Ready is out, Advance is awaited
  rd,           \* what run keeps of that Ready: its Entries and their first index
  prevHard,     \* prevHard.CommitIndex
  handed        \* history: the CommittedEntries of all Readys

coreVars == <<unstable, commitIndex>>
nodeVars == <<advancing, rd, prevHard, handed>>
logVars == <<stable, coreVars, applyIndex, nodeVars>>

---------------------------------------------------------------------------
entries == unstable.entries
offset == unstable.offset

lastIndex == IF entries # <<>> THEN offset + Len(entries) - 1 ELSE Len(stable)

\* raftLog.term: the unstable entries first, then the storage.
term(k) ==
  IF k > lastIndex \/ k = 0 THEN 0
  ELSE IF k >= offset /\ entries # <<>> THEN entries[k - offset + 1].term
  ELSE stable[k].term

\* raftLog.slice, both ends included.
slice(lo, hi) ==
  SubSeq(stable, lo, Least(offset - 1, hi))
    \o SubSeq(entries, Greatest(lo, offset) - offset + 1, hi - offset + 1)

\* raftLog.nextEntries.
nextEntries == slice(applyIndex + 1, commitIndex)

---------------------------------------------------------------------------
(* What the raft core does.                                                *)

\* What unstable.truncateAndAppend(es) leaves, es starting at index after.
truncateAndAppend(after, es) ==
  IF after = offset + Len(entries) THEN [offset |-> offset, entries |-> entries \o es]
  ELSE IF after <= offset THEN [offset |-> after, entries |-> es]
  ELSE [offset |-> offset, entries |-> SubSeq(entries, 1, after - offset) \o es]

\* raftLog.append.  Below the commit index it is a panic.
append(after, es) ==
  IF es = <<>>
    THEN UNCHANGED unstable
    ELSE /\ after > commitIndex
         /\ unstable' = truncateAndAppend(after, es)

\* appendEntry of a leader.
AppendEntry ==
  /\ \E l \in Logs :
       /\ Len(l) = lastIndex + 1
       /\ \A k \in 1..lastIndex : term(k) = l[k].term
       /\ append(Len(l), <<l[Len(l)]>>)
  /\ UNCHANGED <<stable, commitIndex, applyIndex, nodeVars>>

\* raftLog.maybeAppend of entries prev + 1 .. last of the log l of a leader
\* that announces commit index c.
MaybeAppend(l, prev, last, c) ==
  LET es == SubSeq(l, prev + 1, last)
      C == {k \in prev + 1..last : term(k) # l[k].term}
      conflict == IF C = {} THEN 0 ELSE CHOOSE k \in C : \A j \in C : k <= j
  IN  /\ commitIndex <= Len(l)
      /\ \A k \in 1..commitIndex : term(k) = l[k].term
      /\ term(prev) = TermAt(l, prev)
      /\ IF conflict = 0
           THEN UNCHANGED unstable
           ELSE append(conflict, SubSeq(es, conflict - prev, Len(es)))
      /\ commitIndex' = commitTo(commitIndex, Least(c, last))
      /\ UNCHANGED <<stable, applyIndex, nodeVars>>

\* A quorum, or a heartbeat, moves the commit index.
CommitTo ==
  /\ \E c \in 0..lastIndex : commitIndex' = commitTo(commitIndex, c)
  /\ UNCHANGED <<stable, unstable, applyIndex, nodeVars>>

---------------------------------------------------------------------------
(* What Node.run does.                                                     *)

\* readyChan <- rd.  There may always be other news for a Ready (messages,
\* a new role), so nothing else is asked.
Ready ==
  /\ ~advancing
  /\ advancing' = TRUE
  /\ rd' = [first |-> offset, entries |-> entries]
  /\ prevHard' = commitIndex
  /\ handed' = handed \o nextEntries
  /\ UNCHANGED <<stable, coreVars, applyIndex>>

\* Mutant: what was written is stable, whatever happened since.
stableAnyway(i, t) ==
  IF i \in offset..lastIndex
    THEN [offset |-> i + 1,
          entries |-> SubSeq(entries, i - offset + 2, Len(entries))]
    ELSE unstable

\* unstable.stableTo: only if the entry at i still has term t.
stableTo(i, t) ==
  IF entries # <<>> /\ i \in offset..lastIndex /\ term(i) = t
    THEN [offset |-> i + 1,
          entries |-> SubSeq(entries, i - offset + 2, Len(entries))]
    ELSE unstable

\* Mutant: the dummy entry is not counted.
storedShort == SubSeq(stable, 1, rd.first - 2) \o rd.entries

\* MemoryStorage.Append, which overwrites.
stored == SubSeq(stable, 1, rd.first - 1) \o rd.entries

\* <-advanceChan.
Advance ==
  LET n == Len(rd.entries)
  IN  /\ advancing
      /\ advancing' = FALSE
      /\ applyIndex' = prevHard
      /\ IF n = 0
           THEN UNCHANGED <<stable, unstable>>
           ELSE /\ stable' = stored
                /\ unstable' = stableTo(rd.first + n - 1, rd.entries[n].term)
      /\ UNCHANGED <<commitIndex, rd, prevHard, handed>>

---------------------------------------------------------------------------
LogInit ==
  /\ stable = <<>> /\ unstable = [offset |-> 1, entries |-> <<>>]
  /\ commitIndex = 0 /\ applyIndex = 0
  /\ advancing = FALSE /\ rd = [first |-> 1, entries |-> <<>>]
  /\ prevHard = 0 /\ handed = <<>>

LogNext ==
  \/ AppendEntry
  \/ \E l \in Logs : \E prev \in 0..Len(l) : \E last \in prev..Len(l), c \in 0..Len(l) :
       MaybeAppend(l, prev, last, c)
  \/ CommitTo
  \/ Ready
  \/ Advance

LogSpec == LogInit /\ [][LogNext]_logVars

---------------------------------------------------------------------------
(* Properties.                                                             *)

\* The log that the two halves stand for.
view == slice(1, lastIndex)

PL == INSTANCE PlainLog WITH log <- view, commit <- commitIndex, given <- handed

\* The split log behaves like one sequence, whatever happens between a Ready
\* and its Advance, and the application gets every committed entry once.
ImplementsPlainLog == PL!PlainSpec

\* None of the panics of raftLog, unstable and run is reached: the storage
\* has no gap, the commit index is within the log, appliedTo only goes
\* forward, and an Advance finds what the storage's Append needs.
NoPanic ==
  /\ offset \in 1..Len(stable) + 1
  /\ applyIndex <= commitIndex /\ commitIndex <= lastIndex
  /\ advancing => /\ prevHard \in applyIndex..commitIndex
                  /\ rd.entries # <<>> => rd.first <= Len(stable) + 1

=============================================================================
