---------------------------- MODULE MCRaftReads -----------------------------
(***************************************************************************)
(* The behaviours of Raft in which reads outlive the term they were queued *)
(* in, cut down to what TLC searches in seconds.  Server s1 is elected and *)
(* its first entry committed everywhere; then s3 may campaign, clients     *)
(* read at s1, and s1 may campaign again while a read waits in its queue.  *)
(* Every step is one of Raft, from its initial state.                      *)
(***************************************************************************)
EXTENDS MCRaft

CONSTANTS s1, s3

Contexts == Permutations(Ctx)

StartedUp == \A j \in Server : commit[j] > 0 /\ match[s1][j] > 0

Deposed ==
  \/ ~StartedUp /\ Hup(s1)
  \/ StartedUp /\ term[s3] = 2 /\ Hup(s3)
  \/ reads[s1] # <<>> /\ Hup(s1)
  \/ StartedUp /\ \E c \in Ctx : ReadIndex(s1, c)
  \/ \E i \in Server, m \in msgs : Receive(i, m)

DeposedSpec ==
  Init /\ config = "votes" /\ [][Deposed /\ UNCHANGED config]_<<vars, config>>

=============================================================================
