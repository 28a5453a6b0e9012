------------------------------ MODULE RaftInv -------------------------------
(***************************************************************************)
(* The inductive invariant behind the theorems of RaftProofs.              *)
(***************************************************************************)
EXTENDS Raft

\* Server i leads term t, or has left it for a later one.
Led(i, t) == term[i] > t \/ (term[i] = t /\ state[i] = Leader)

\* Server j told i, by a message, that i has its vote in term t.
Granted(j, i, t) ==
  \E m \in msgs : /\ m.type = "MsgVoteResp" /\ ~m.reject
                  /\ m.from = j /\ m.to = i /\ m.term = t

\* What every message says of its sender and its addressee, however old it
\* is: who asked for a vote has reached the term of the request and of its
\* answers; a vote is remembered as long as its term lasts; what only a
\* leader sends, or only a leader is answered, names a server that led that
\* term, and as long as it does the entries sent and acknowledged are in its
\* log; the entry that a MsgApp builds on has a term; none answers itself.
MsgInv(m) ==
  /\ m.type \in {"MsgVote", "MsgPreVote"} => term[m.from] >= m.term
  /\ m.type \in {"MsgVoteResp", "MsgPreVoteResp"} => term[m.to] >= m.term
  /\ m.type = "MsgVoteResp" /\ ~m.reject =>
       \/ term[m.from] > m.term
       \/ term[m.from] = m.term /\ vote[m.from] = m.to
  /\ m.type \in {"MsgApp", "MsgHeartbeat", "MsgReadIndexResp"} =>
       Led(m.from, m.term)
  /\ m.type \in {"MsgAppResp", "MsgHeartbeatResp"} => Led(m.to, m.term)
  /\ m.type = "MsgApp" =>
       /\ m.logIndex = 0 \/ m.logTerm # 0
       /\ term[m.from] = m.term =>
            m.logIndex + Len(m.entries) <= Len(log[m.from])
  /\ m.type = "MsgAppResp" =>
       /\ m.from # m.to
       /\ ~m.reject /\ term[m.to] = m.term => m.logIndex <= Len(log[m.to])

\* What holds of a server: a candidate has its own vote and has counted
\* grants of its term only; a leader had a quorum of them, and its Next stays
\* within its log; the commit index does too, and lead was elected.
ServerInv(i) ==
  /\ state[i] \in {Candidate, Leader} => vote[i] = i
  /\ state[i] = Candidate =>
       \A j \in granted[i] : j = i \/ Granted(j, i, term[i])
  /\ state[i] = Leader =>
       \E Q \in SUBSET Server :
         /\ Cardinality(Q) >= quorum
         /\ \A j \in Q : j = i \/ Granted(j, i, term[i])
  /\ state[i] = Leader =>
       \A j \in Server \ {i} : next[i][j] <= Len(log[i]) + 1
  /\ commit[i] <= Len(log[i])
  /\ lead[i] # None => Led(lead[i], term[i])

\* The inductive invariant of the elections: every message and every server
\* is as the handlers of Step leave them, and no server has granted its vote
\* to two candidates in a term.
ElectionInv ==
  /\ TypeOK
  /\ \A m \in msgs : MsgInv(m)
  /\ \A i \in Server : ServerInv(i)
  /\ OneVotePerTerm

=============================================================================
