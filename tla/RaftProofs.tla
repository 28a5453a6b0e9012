----------------------------- MODULE RaftProofs -----------------------------
(***************************************************************************)
(* Theorems about Raft, for every set of servers and every bound.          *)
(***************************************************************************)
EXTENDS RaftElectionSteps, RaftLogSteps

---------------------------------------------------------------------------
(* Reads.                                                                  *)

\* MsgReadIndex at a leader or a follower preserves ElectionInv.
LEMMA ReadStep ==
  ASSUME ElectionInv, NEW i \in Server, NEW from \in Server \cup {None},
         NEW ctx \in Ctx, stepReadIndex(i, from, ctx), asked' \in [Ctx -> SUBSET Nat],
         UNCHANGED electionVars, UNCHANGED logVars, UNCHANGED progressVars
  PROVE  GoodStep(i)
  <1>0. /\ TypeOK /\ ReadTypes /\ term[i] \in Nat /\ commit[i] \in Nat
        /\ lead[i] \in Server \cup {None}
    BY TypeParts DEF ElectionInv, TypeOK
  <1>1. CASE state[i] = Leader /\ queueRead(i, from, ctx)
    <2>1. CASE Cardinality(Server) = 1
      <3> DEFINE ms == {}
                 a == answer(ctx, commit[i], term[i], term[i], TRUE)
      <3>1. served' = served \cup {a} /\ reads' = reads /\ msgs' = msgs \cup ms
        BY <1>1, <2>1 DEF queueRead
      <3>2. a \in ReadState
        BY Zenon, <1>0 DEF answer, ReadState
      <3> HIDE DEF a
      <3>3. ReadTypes'
        BY <1>0, <3>1, <3>2 DEF ReadTypes
      <3>4. ms \subseteq Message /\ \A x \in ms : MsgInv(x) /\ x.type # "MsgVoteResp"
        OBVIOUS
      <3> HIDE DEF ms
      <3> QED
        BY <3>1, <3>3, <3>4, QuietStep
    <2>2. CASE Cardinality(Server) # 1
      <3> DEFINE ms == broadcastHeartbeatWithCtx(i, ctx)
                 r == [ctx |-> ctx, index |-> commit[i], from |-> from,
                       acks |-> {}, queuedIn |-> term[i]]
      <3>1. /\ reads' = [reads EXCEPT ![i] = Append(reads[i], r)]
            /\ msgs' = msgs \cup ms /\ served' = served
        BY <1>0, <1>1, <2>2 DEF queueRead, Send, ReadTypes
      <3>2. r \in ReadStatus
        BY <1>0 DEF ReadStatus
      <3> HIDE DEF r
      <3>3. reads[i] \in Seq(ReadStatus)
        BY <1>0 DEF ReadTypes
      <3>4. Append(reads[i], r) \in Seq(ReadStatus)
        BY <3>2, <3>3, AppendProperties
      <3>5. ReadTypes'
        BY <1>0, <3>1, <3>4 DEF ReadTypes
      <3>6. ms \subseteq Message /\ \A x \in ms : MsgInv(x) /\ x.type # "MsgVoteResp"
        BY <1>0, <1>1, Heartbeats
      <3> HIDE DEF ms
      <3> QED
        BY <3>1, <3>5, <3>6, QuietStep
    <2> QED
      BY <2>1, <2>2
  <1>2. CASE /\ state[i] = Follower /\ lead[i] # None
             /\ Send({[type |-> "MsgReadIndex", to |-> lead[i], ctx |-> ctx,
                       from |-> IF from = None THEN i ELSE from]})
             /\ UNCHANGED <<reads, served>>
    <2> DEFINE n == [type |-> "MsgReadIndex", to |-> lead[i], ctx |-> ctx,
                     from |-> IF from = None THEN i ELSE from]
               ms == {n}
    <2>1. n \in ReadRequest /\ MsgInv(n) /\ n.type # "MsgVoteResp"
      BY <1>0, <1>2 DEF ReadRequest, MsgInv
    <2>2. msgs' = msgs \cup ms
      BY <1>2 DEF Send
    <2>3. ReadTypes'
      BY <1>0, <1>2 DEF ReadTypes
    <2> HIDE DEF n
    <2>4. ms \subseteq Message /\ \A x \in ms : MsgInv(x) /\ x.type # "MsgVoteResp"
      BY <2>1 DEF Message
    <2> HIDE DEF ms
    <2> QED
      BY <2>2, <2>3, <2>4, QuietStep
  <1> QED
    BY <1>1, <1>2 DEF stepReadIndex

\* A local ReadIndex preserves ElectionInv.
LEMMA ReadIndexStep ==
  ASSUME ElectionInv, NEW i \in Server, NEW ctx \in Ctx, ReadIndex(i, ctx)
  PROVE  GoodStep(i)
  <1>1. asked \in [Ctx -> SUBSET Nat] /\ \A j \in Server : commit[j] \in Nat
    BY DEF ElectionInv, TypeOK
  <1>2. UNION {0..commit[j] : j \in Server} \in SUBSET Nat
    BY <1>1
  <1> DEFINE S == UNION {0..commit[j] : j \in Server}
             from == None
  <1>3. asked' = [asked EXCEPT ![ctx] = S] /\ stepReadIndex(i, from, ctx)
    BY DEF ReadIndex
  <1> HIDE DEF S
  <1>4. asked' \in [Ctx -> SUBSET Nat]
    BY <1>1, <1>2, <1>3 DEF S
  <1>5. from \in Server \cup {None}
    OBVIOUS
  <1> HIDE DEF from
  <1> QED
    BY <1>3, <1>4, <1>5, ReadStep DEF ReadIndex

\* A forwarded MsgReadIndex preserves ElectionInv.
LEMMA HandleReadIndexStep ==
  ASSUME ElectionInv, NEW i \in Server, NEW m \in msgs, HandleReadIndex(i, m)
  PROVE  GoodStep(i)
  <1>1. /\ m \in Message /\ m.type = "MsgReadIndex"
        /\ asked' \in [Ctx -> SUBSET Nat]
    BY DEF ElectionInv, TypeOK, HandleReadIndex
  <1>2. m.from \in Server /\ m.ctx \in Ctx
    BY <1>1, MessageKinds DEF ReadRequest
  <1> QED
    BY <1>1, <1>2, ReadStep DEF HandleReadIndex

\* MsgReadIndexResp preserves ElectionInv.
LEMMA HandleReadIndexRespStep ==
  ASSUME ElectionInv, NEW i \in Server, NEW m \in msgs, HandleReadIndexResp(i, m)
  PROVE  GoodStep(i)
  <1> DEFINE a == answer(m.ctx, m.logIndex, m.queuedIn, m.term, m.own)
  <1>0. /\ TypeOK /\ ReadTypes /\ ServerInv(i) /\ MsgInv(m)
        /\ m \in Message /\ m.type = "MsgReadIndexResp" /\ m.term >= term[i]
    BY TypeParts DEF ElectionInv, TypeOK, HandleReadIndexResp
  <1>1. m \in ReadReply
    BY <1>0, MessageKinds
  <1>2. m.from \in Server /\ m.term \in Nat /\ term[i] \in Nat
    BY <1>0, <1>1 DEF ReadReply, TypeOK
  <1>3. a \in ReadState
    BY Zenon, <1>1 DEF ReadReply, ReadState, answer
  <1>4. /\ served' = served \cup {a} /\ reads' = reads /\ asked' = asked
        /\ UNCHANGED logVars /\ UNCHANGED progressVars /\ msgs' = msgs
    BY DEF HandleReadIndexResp
  <1> HIDE DEF a
  <1>5. ReadTypes'
    BY <1>0, <1>3, <1>4 DEF ReadTypes
  <1>6. CASE m.term > term[i]
    <2>1. Led(m.from, m.term) /\ becomeFollower(i, m.term, m.from)
      BY <1>0, <1>6 DEF MsgInv, HandleReadIndexResp
    <2>2. /\ ElectionTypes'
          /\ term'[i] = m.term /\ state'[i] = Follower /\ lead'[i] = m.from
          /\ \A j \in Server \ {i} :
               /\ term'[j] = term[j] /\ vote'[j] = vote[j]
               /\ state'[j] = state[j] /\ lead'[j] = lead[j]
               /\ granted'[j] = granted[j]
      BY <1>0, <1>2, <1>6, <2>1, BecomeFollower
    <2>3. TypeOK'
      <3>1. msgs' \subseteq Message
        BY <1>0, <1>4 DEF TypeOK
      <3> QED
        BY <1>0, <1>4, <1>5, <2>2, <3>1, Unchanged, TypePartsPrimed
    <2>4. Kept(i)
      BY <1>2, <1>4, <1>6, <2>2 DEF Kept, logVars, progressVars
    <2>5. state'[i] \notin {Candidate, Leader} /\ commit'[i] <= Len(log'[i])
      BY <1>0, <1>4, <2>2 DEF ServerInv, logVars, Follower, Candidate, Leader
    <2>6. ServerInv(i)'
      BY <1>0, <1>2, <2>1, <2>2, <2>3, <2>4, <2>5, FollowerInv
    <2> QED
      BY <1>4, <2>3, <2>4, <2>6 DEF GoodStep
  <1>7. CASE ~(m.term > term[i])
    <2> DEFINE ms == {}
    <2>1. UNCHANGED electionVars
      BY <1>7 DEF HandleReadIndexResp
    <2>2. /\ msgs' = msgs \cup ms /\ ms \subseteq Message
          /\ \A x \in ms : MsgInv(x) /\ x.type # "MsgVoteResp"
      BY <1>4
    <2> HIDE DEF ms
    <2> QED
      BY <1>4, <1>5, <2>1, <2>2, QuietStep
  <1> QED
    BY <1>6, <1>7

\* MsgHeartbeatResp (recvAck, advance) preserves ElectionInv.
LEMMA HandleHeartbeatRespStep ==
  ASSUME ElectionInv, NEW i \in Server, NEW m \in msgs, HandleHeartbeatResp(i, m)
  PROVE  GoodStep(i)
  <1>0. /\ TypeOK /\ ReadTypes /\ MsgInv(m) /\ m \in Message
        /\ m.type = "MsgHeartbeatResp" /\ m.to = i /\ m.term >= term[i]
    BY TypeParts DEF ElectionInv, TypeOK, HandleHeartbeatResp
  <1>1. m.from \in Server /\ m.term \in Nat /\ term[i] \in Nat
    BY <1>0, MessageKinds DEF HeartbeatReply, TypeOK
  <1>2. ~(m.term > term[i])
    BY <1>0, <1>1 DEF MsgInv, Led
  <1>3. PICK k \in DOMAIN reads[i] :
          \/ /\ reads' = [reads EXCEPT ![i] = acknowledged(i, m, k)]
             /\ UNCHANGED <<served, msgs>>
          \/ release(i, acknowledged(i, m, k), k)
    BY <1>2 DEF HandleHeartbeatResp
  <1>4. /\ state[i] = Leader
        /\ UNCHANGED electionVars /\ UNCHANGED logVars
        /\ UNCHANGED progressVars /\ asked' = asked
    BY <1>2 DEF HandleHeartbeatResp
  <1> DEFINE q == acknowledged(i, m, k)
  <1>5. reads[i] \in Seq(ReadStatus)
    BY <1>0 DEF ReadTypes
  <1>6. k \in 1..Len(reads[i]) /\ Len(reads[i]) \in Nat
    BY <1>5, LenProperties
  <1>7. q \in Seq(ReadStatus) /\ Len(q) = Len(reads[i])
    <2> DEFINE r == [reads[i][k] EXCEPT !.acks = reads[i][k].acks \cup {m.from}]
    <2>1. reads[i][k] \in ReadStatus
      BY <1>5, <1>6, ElementOfSeq
    <2>2. r \in ReadStatus
      BY <1>1, <2>1 DEF ReadStatus
    <2>3. q = [reads[i] EXCEPT ![k] = r]
      BY DEF acknowledged
    <2> HIDE DEF r, q
    <2> QED
      BY <1>5, <1>6, <2>2, <2>3, ExceptSeq
  <1> HIDE DEF q
  <1>8. CASE reads' = [reads EXCEPT ![i] = q] /\ UNCHANGED <<served, msgs>>
    <2> DEFINE ms == {}
    <2>1. ReadTypes'
      BY <1>0, <1>4, <1>7, <1>8 DEF ReadTypes
    <2>2. /\ msgs' = msgs \cup ms /\ ms \subseteq Message
          /\ \A x \in ms : MsgInv(x) /\ x.type # "MsgVoteResp"
      BY <1>8
    <2> HIDE DEF ms
    <2> QED
      BY <1>4, <2>1, <2>2, QuietStep
  <1>9. CASE release(i, q, k)
    <2> DEFINE mine == {n \in 1..k : q[n].from \in {None, i}}
               as == {answer(q[n].ctx, q[n].index, q[n].queuedIn, term[i], n = k) : n \in mine}
               ms == {[type |-> "MsgReadIndexResp", from |-> i, to |-> q[n].from,
                       term |-> term[i], logIndex |-> q[n].index, ctx |-> q[n].ctx,
                       queuedIn |-> q[n].queuedIn, own |-> n = k] : n \in (1..k) \ mine}
               rest == SubSeq(q, k + 1, Len(q))
    <2>1. /\ reads' = [reads EXCEPT ![i] = rest]
          /\ served' = served \cup as
          /\ msgs' = msgs \cup ms
      BY <1>9 DEF release, Send
    <2>2. \A n \in 1..k : q[n] \in ReadStatus
      BY <1>6, <1>7, ElementOfSeq
    <2>3. rest \in Seq(ReadStatus)
      BY <1>6, <1>7, SubSeqProperties
    <2>4. ASSUME NEW x \in as
          PROVE  x \in ReadState
      <3>1. PICK n \in mine :
              x = answer(q[n].ctx, q[n].index, q[n].queuedIn, term[i], n = k)
        BY Zenon
      <3>2. q[n] \in ReadStatus
        BY Zenon, <2>2
      <3> QED
        BY Zenon, <1>1, <3>1, <3>2 DEF answer, ReadState, ReadStatus
    <2>5. ASSUME NEW x \in ms
          PROVE  x \in Message /\ MsgInv(x) /\ x.type # "MsgVoteResp"
      <3>1. PICK n \in (1..k) \ mine :
              x = [type |-> "MsgReadIndexResp", from |-> i, to |-> q[n].from,
                   term |-> term[i], logIndex |-> q[n].index, ctx |-> q[n].ctx,
                   queuedIn |-> q[n].queuedIn, own |-> n = k]
        BY Zenon
      <3>2. q[n].from \in Server
        BY <2>2, <3>1 DEF ReadStatus
      <3>3. x \in ReadReply
        BY Zenon, <1>1, <2>2, <3>1, <3>2 DEF ReadReply, ReadStatus
      <3>4. MsgInv(x) /\ x.type # "MsgVoteResp"
        BY <1>4, <3>1 DEF MsgInv, Led
      <3> QED
        BY <3>3, <3>4 DEF Message
    <2> HIDE DEF as, ms, rest
    <2>6. ReadTypes'
      BY <1>0, <1>4, <2>1, <2>3, <2>4 DEF ReadTypes
    <2> QED
      BY <1>4, <2>1, <2>5, <2>6, QuietStep
  <1> QED
    BY <1>3, <1>8, <1>9 DEF q

---------------------------------------------------------------------------
(* The theorems.                                                           *)

\* ElectionInv is inductive.
LEMMA NextInv == ElectionInv /\ [Next]_vars => ElectionInv'
  <1> SUFFICES ASSUME ElectionInv, [Next]_vars PROVE ElectionInv'
    OBVIOUS
  <1>1. ASSUME NEW i \in Server, Local(i) PROVE ElectionInv'
    <2>1. GoodStep(i)
      <3>1. CASE Hup(i)
        BY <3>1, HupStep
      <3>2. CASE Beat(i)
        BY <3>2, BeatStep
      <3>3. ASSUME NEW v \in Value, Propose(i, v) PROVE GoodStep(i)
        BY <3>3, PropStep DEF Propose
      <3>4. ASSUME NEW c \in Ctx, ReadIndex(i, c) PROVE GoodStep(i)
        BY <3>4, ReadIndexStep
      <3> QED
        BY <1>1, <3>1, <3>2, <3>3, <3>4 DEF Local
    <2> QED
      BY <2>1, GoodStepInv
  <1>2. ASSUME NEW i \in Server, NEW m \in msgs, Receive(i, m)
        PROVE  ElectionInv'
    <2>1. GoodStep(i)
      BY <1>2, HandleVoteStep, HandleVoteRespStep, HandlePreVoteStep,
         HandlePreVoteRespStep, HandleAppStep, HandleAppRespStep,
         HandleHeartbeatStep, HandleHeartbeatRespStep, HandlePropStep,
         HandleReadIndexStep, HandleReadIndexRespStep
      DEF Receive
    <2> QED
      BY <2>1, GoodStepInv
  <1>3. CASE UNCHANGED vars
    <2>1. PICK i \in Server : TRUE
      BY RaftAssumption
    <2> DEFINE ms == {}
    <2>2. /\ msgs' = msgs \cup ms /\ UNCHANGED electionVars /\ UNCHANGED logVars
          /\ UNCHANGED progressVars /\ UNCHANGED readVars
      BY <1>3 DEF vars
    <2>3. /\ ms \subseteq Message
          /\ \A m \in ms : MsgInv(m) /\ m.type # "MsgVoteResp"
      OBVIOUS
    <2> HIDE DEF ms
    <2>4. ReadTypes'
      BY <2>2, Unchanged DEF ElectionInv
    <2>5. GoodStep(i)
      BY <2>2, <2>3, <2>4, QuietStep
    <2> QED
      BY <2>5, GoodStepInv
  <1> QED
    BY <1>1, <1>2, <1>3 DEF Next

\* The election invariant holds throughout every behaviour of the raft core.
THEOREM ElectionInvariant == Spec => []ElectionInv
  BY InitInv, NextInv, PTL DEF Spec

\* Every field of the raft struct and every message keeps its type.
THEOREM TypeCorrect == Spec => []TypeOK
  <1>1. ElectionInv => TypeOK
    BY DEF ElectionInv
  <1> QED
    BY <1>1, ElectionInvariant, PTL

\* stepCandidate never elects two leaders of one term, whatever the transport
\* loses, repeats, delays or reorders.
THEOREM OneLeaderPerTerm == Spec => []ElectionSafety
  <1>1. ElectionInv => ElectionSafety
    BY InvElectionSafety
  <1> QED
    BY <1>1, ElectionInvariant, PTL

\* No server grants two candidates of a term its vote, as long as it keeps
\* what HardState makes durable.
THEOREM VotesOnce == Spec => []OneVotePerTerm
  <1>1. ElectionInv => OneVotePerTerm
    BY DEF ElectionInv
  <1> QED
    BY <1>1, ElectionInvariant, PTL

\* raft.lead always names a server that was elected in the follower's term.
THEOREM LeadElected == Spec => []LeadWasElected
  <1>1. ElectionInv => LeadWasElected
    BY InvLeadWasElected
  <1> QED
    BY <1>1, ElectionInvariant, PTL

\* No commit index ever passes the end of its log, so commitTo never panics.
THEOREM CommitInLog == Spec => []CommitWithinLog
  <1>1. ElectionInv => CommitWithinLog
    BY InvCommitWithinLog
  <1> QED
    BY <1>1, ElectionInvariant, PTL

=============================================================================
