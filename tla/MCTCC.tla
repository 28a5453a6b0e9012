------------------------------- MODULE MCTCC --------------------------------
(***************************************************************************)
(* TCC and RaftLog in one run.  They do not interact: a behaviour is of    *)
(* one of them (sys), and the other one stays in its initial state.        *)
(***************************************************************************)
EXTENDS TCC, Sequences

VARIABLES
  sys, stable, unstable, commitIndex, applyIndex, advancing, rd, prevHard, handed

\* Every prefix of the logs of four terms that overwrite one another.
Terms(l) == [k \in DOMAIN l |-> [term |-> l[k]]]
LeaderLogs == {Terms(l) : l \in {<<1, 1, 1>>, <<1, 2, 2>>, <<3, 3>>, <<1, 1, 4>>}}
AllLogs == UNION {{SubSeq(l, 1, n) : n \in 0..Len(l)} : l \in LeaderLogs}

RL == INSTANCE RaftLog WITH Logs <- AllLogs

logVars ==
  <<stable, unstable, commitIndex, applyIndex, advancing, rd, prevHard, handed>>

ASSUME LogsAgree == RL!LogsAssumption

TCCOrLogInit == Init /\ RL!LogInit /\ sys \in {"tcc", "raftLog"}

TCCOrLogNext ==
  /\ UNCHANGED sys
  /\ \/ sys = "tcc" /\ Next /\ UNCHANGED logVars
     \/ sys = "raftLog" /\ RL!LogNext /\ UNCHANGED vars

TCCOrLogSpec ==
  TCCOrLogInit /\ [][TCCOrLogNext]_<<sys, vars, logVars>> /\ Fairness

\* The split log of raftLog behaves like one sequence, whatever happens between
\* a Ready and its Advance.
ImplementsPlainLog == RL!ImplementsPlainLog

\* None of the panics of raftLog, unstable and run is reached.
NoPanic == RL!NoPanic

=============================================================================
