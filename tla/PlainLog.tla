------------------------------ MODULE PlainLog ------------------------------
(***************************************************************************)
(* What raftLog promises the raft core and the application: one sequence   *)
(* of entries with a commit index, changed as LogOps says, whose committed *)
(* part is handed out in order, each entry once.  Module RaftLog, with its *)
(* stable and unstable halves and its two-step Ready/Advance, implements   *)
(* it.                                                                     *)
(***************************************************************************)
EXTENDS LogOps

CONSTANT Logs   \* the logs that leaders hold, and send parts of

VARIABLES
  log,      \* the entries, index 1 first
  commit,   \* the commit index
  given     \* history: what was handed out as CommittedEntries

plainVars == <<log, commit, given>>

\* What append-only agreement asks of a leader's log: it never contradicts
\* what is committed here (NoCommittedConflict of Raft).
Agrees(lg, c, l) == c <= Len(l) /\ SubSeq(lg, 1, c) = SubSeq(l, 1, c)

PlainInit == log = <<>> /\ commit = 0 /\ given = <<>>

\* A leader appends the next entry of its log.
PlainAppend ==
  /\ \E l \in Logs :
       Len(l) = Len(log) + 1 /\ SubSeq(l, 1, Len(log)) = log /\ log' = l
  /\ UNCHANGED <<commit, given>>

\* A follower accepts entries prev + 1 .. last of a leader's log.
PlainAccept ==
  \E l \in Logs : \E prev \in 0..Len(l) : \E last \in prev..Len(l), c \in 0..Len(l) :
    LET es == SubSeq(l, prev + 1, last)
    IN  /\ Agrees(log, commit, l)
        /\ matchTerm(log, prev, TermAt(l, prev))
        /\ log' = appendFrom(log, prev, es, findConflict(log, prev, es))
        /\ commit' = commitTo(commit, Least(c, last))
        /\ UNCHANGED given

\* The commit index advances within the log.
PlainCommit ==
  /\ \E c \in commit..Len(log) : commit' = c
  /\ UNCHANGED <<log, given>>

\* Everything committed is handed out.
PlainReady ==
  /\ given' = SubSeq(log, 1, commit)
  /\ UNCHANGED <<log, commit>>

PlainNext == PlainAppend \/ PlainAccept \/ PlainCommit \/ PlainReady

PlainSpec == PlainInit /\ [][PlainNext]_plainVars

=============================================================================
