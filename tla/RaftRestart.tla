---------------------------- MODULE RaftRestart -----------------------------
(***************************************************************************)
(* Raft with servers that stop and start again over the same Storage.  The *)
(* driver is the one the README of components/raft asks for: it persists   *)
(* HardState and the unstable entries of a Ready before it sends the       *)
(* messages, so whatever a peer may have seen is in Storage.               *)
(***************************************************************************)
EXTENDS Raft

\* newRaft and StartNode: the term and the entries come back from Storage,
\* the vote of HardState is not read, and everything in the log is taken for
\* committed.
Restart(i) ==
  /\ vote' = [vote EXCEPT ![i] = None]
  /\ state' = [state EXCEPT ![i] = Follower]
  /\ lead' = [lead EXCEPT ![i] = None]
  /\ granted' = [granted EXCEPT ![i] = {}]
  /\ rejected' = [rejected EXCEPT ![i] = {}]
  /\ commit' = [commit EXCEPT ![i] = Len(log[i])]
  /\ match' = [match EXCEPT ![i] = [j \in Server |-> 0]]
  /\ next' = [next EXCEPT ![i] = [j \in Server |-> Len(log[i]) + 1]]
  /\ reads' = [reads EXCEPT ![i] = <<>>]
  /\ UNCHANGED <<term, log, msgs, asked, served>>

RestartNext == Next \/ \E i \in Server : Restart(i)

RestartSpec == Init /\ [][RestartNext]_vars

=============================================================================
