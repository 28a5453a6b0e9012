----------------------------- MODULE RaftLemmas -----------------------------
(***************************************************************************)
(* Lemmas for RaftProofs: what the operators of Raft return, what a step   *)
(* of one server leaves as it is, and what the invariant says.             *)
(***************************************************************************)
EXTENDS RaftInv, FiniteSetTheorems, SequenceTheorems, WellFoundedInduction, TLAPS

---------------------------------------------------------------------------
(* What the operators return.                                              *)

\* raftLog.term is a natural number for every index.
LEMMA TermAtType ==
  ASSUME NEW l \in Seq(Entry), NEW k \in Int
  PROVE  TermAt(l, k) \in Nat
  <1>1. ASSUME k \in 1..Len(l) PROVE l[k] \in Entry
    BY <1>1, ElementOfSeq
  <1>2. ASSUME NEW e \in Entry PROVE e.term \in Nat
    BY DEF Entry
  <1> QED
    BY <1>1, <1>2 DEF TermAt

\* lastTerm of a log of Entry records is a natural number (0 for the empty log).
LEMMA LastTermType ==
  ASSUME NEW l \in Seq(Entry)
  PROVE  LastTerm(l) \in Nat
  BY TermAtType DEF LastTerm

\* A nonempty set of natural numbers has a least element.
LEMMA LeastElement ==
  ASSUME NEW S \in SUBSET Nat, S # {}
  PROVE  \E k \in S : \A j \in S : k <= j
  <1>1. IsWellFoundedOn(OpToRel(<, Nat), Nat)
    BY NatLessThanWellFounded
  <1>2. PICK k \in S : \A j \in S : ~(<<j, k>> \in OpToRel(<, Nat))
    BY <1>1, WFMin
  <1>3. \A j \in S : ~(j < k)
    BY <1>2 DEF OpToRel
  <1> QED
    BY <1>3

\* findConflict returns 0 or the least conflict.
LEMMA FindConflictLeast ==
  ASSUME NEW l \in Seq(Entry), NEW a \in Nat, NEW es \in Seq(Entry)
  PROVE  LET C == Conflicts(l, a, es)
             k == findConflict(l, a, es)
         IN  \/ C = {} /\ k = 0
             \/ k \in C /\ k \in a + 1..a + Len(es) /\ \A j \in C : k <= j
  <1> DEFINE C == Conflicts(l, a, es)
  <1>1. C \subseteq a + 1..a + Len(es)
    BY DEF Conflicts
  <1>2. CASE C = {}
    BY <1>2 DEF findConflict
  <1>3. CASE C # {}
    <2>1. C \in SUBSET Nat
      BY <1>1
    <2>2. \E k \in C : \A j \in C : k <= j
      BY <2>1, <1>3, LeastElement
    <2> HIDE DEF C
    <2>3. PICK d : d = (CHOOSE k \in C : \A j \in C : k <= j)
      OBVIOUS
    <2>4. d \in C /\ \A j \in C : d <= j
      BY <2>2, <2>3
    <2>5. findConflict(l, a, es) = d
      BY <1>3, <2>3 DEF findConflict, C
    <2> QED
      BY <1>1, <2>4, <2>5 DEF C
  <1> QED
    BY <1>2, <1>3

\* A log that maybeAppend accepts reaches up to logIndex, so what it leaves
\* behind is a log that ends with the entries it was sent, if not beyond.
LEMMA AppendFromType ==
  ASSUME NEW l \in Seq(Entry), NEW a \in Nat, NEW t \in Nat,
         NEW es \in Seq(Entry), a = 0 \/ t # 0, matchTerm(l, a, t)
  PROVE  LET k == findConflict(l, a, es)
             n == appendFrom(l, a, es, k)
         IN  /\ n \in Seq(Entry)
             /\ a + Len(es) <= Len(n)
             /\ k = 0 => n = l
             /\ k # 0 => k <= Len(n) /\ Len(n) = a + Len(es)
  <1> DEFINE k == findConflict(l, a, es)
             n == appendFrom(l, a, es, k)
  <1>0. a <= Len(l)
    BY DEF matchTerm, TermAt
  <1>1. \/ Conflicts(l, a, es) = {} /\ k = 0
        \/ /\ k \in a + 1..a + Len(es)
           /\ \A j \in Conflicts(l, a, es) : k <= j
    BY FindConflictLeast
  <1> HIDE DEF k
  <1>2. CASE Conflicts(l, a, es) = {} /\ k = 0
    <2>1. SUFFICES a + Len(es) <= Len(l)
      BY <1>2 DEF appendFrom, k
    <2>2. CASE Len(es) = 0
      BY <2>2, <1>0
    <2>3. CASE Len(es) # 0
      <3>1. a + Len(es) \in a + 1..a + Len(es) /\ Len(es) \in 1..Len(es)
        BY <2>3
      <3>2. es[Len(es)] \in Entry
        BY <3>1, ElementOfSeq
      <3>3. matchTerm(l, a + Len(es), es[Len(es)].term)
        <4>1. a + Len(es) - a = Len(es)
          OBVIOUS
        <4> QED
          BY <3>1, <4>1, <1>2 DEF Conflicts, matchTerm
      <3>4. es[Len(es)].term # 0
        BY <3>2 DEF Entry
      <3> QED
        BY <3>1, <3>3, <3>4 DEF matchTerm, TermAt
    <2> QED
      BY <2>2, <2>3
  <1>3. CASE /\ k \in a + 1..a + Len(es)
             /\ \A j \in Conflicts(l, a, es) : k <= j
    <2>0. k - a \in 1..Len(es) /\ k - 1 \in Nat
      BY <1>3
    <2>1. /\ SubSeq(es, k - a, Len(es)) \in Seq(Entry)
          /\ Len(SubSeq(es, k - a, Len(es))) = Len(es) - (k - a) + 1
      <3>1. \A q \in k - a..Len(es) : es[q] \in Entry
        BY <2>0, ElementOfSeq
      <3> QED
        BY <2>0, <3>1, SubSeqProperties
    <2>2. k - 1 <= Len(l)
      <3>1. CASE k = a + 1
        BY <3>1, <1>0
      <3>2. CASE k # a + 1
        <4>1. k - 1 \in a + 1..a + Len(es) /\ k - 1 - a \in 1..Len(es)
          BY <1>3, <3>2
        <4>2. k - 1 \notin Conflicts(l, a, es)
          BY <1>3, <4>1
        <4>3. matchTerm(l, k - 1, es[k - 1 - a].term)
          BY <4>1, <4>2 DEF Conflicts
        <4>4. es[k - 1 - a] \in Entry
          BY <4>1, ElementOfSeq
        <4> QED
          BY <4>1, <4>3, <4>4 DEF matchTerm, TermAt, Entry
      <3> QED
        BY <3>1, <3>2
    <2>3. SubSeq(l, 1, k - 1) \in Seq(Entry) /\ Len(SubSeq(l, 1, k - 1)) = k - 1
      <3>1. \A q \in 1..k - 1 : l[q] \in Entry
        BY <2>0, <2>2, ElementOfSeq
      <3> QED
        BY <2>0, <3>1, SubSeqProperties
    <2>4. n = SubSeq(l, 1, k - 1) \o SubSeq(es, k - a, Len(es))
      <3>1. k # 0
        BY <1>3
      <3> QED
        BY <3>1, Zenon DEF appendFrom, n
    <2>5. n \in Seq(Entry) /\ Len(n) = a + Len(es)
      <3> DEFINE p == SubSeq(l, 1, k - 1)
                 q == SubSeq(es, k - a, Len(es))
      <3> HIDE DEF p, q, n
      <3>1. p \in Seq(Entry) /\ q \in Seq(Entry) /\ n = p \o q
        BY <2>1, <2>3, <2>4 DEF p, q
      <3>2. n \in Seq(Entry) /\ Len(n) = Len(p) + Len(q)
        BY <3>1, ConcatProperties
      <3>3. Len(p) = k - 1 /\ Len(q) = Len(es) - (k - a) + 1
        BY <2>1, <2>3 DEF p, q
      <3> QED
        BY <1>3, <3>2, <3>3
    <2> QED
      BY <1>3, <2>5 DEF k
  <1> QED
    BY <1>1, <1>2, <1>3

\* maybeCommit keeps the commit index or moves it forward within the log.
LEMMA MaybeCommitRange ==
  ASSUME NEW l \in Seq(Entry), NEW ms \in [Server -> Nat],
         NEW t \in Nat \ {0}, NEW c \in Nat
  PROVE  LET d == maybeCommit(l, ms, t, c)
         IN  d \in Nat /\ d >= c /\ (d = c \/ d \in 1..Len(l))
  <1> DEFINE N == {n \in QuorumMatch(ms) : n > c /\ TermAt(l, n) = t}
  <1>1. \A n \in N : n \in Nat /\ n > c /\ TermAt(l, n) = t
    BY DEF QuorumMatch
  <1>2. \A n \in N : n \in Nat /\ n > c /\ n \in 1..Len(l)
    BY <1>1 DEF TermAt
  <1>3. maybeCommit(l, ms, t, c) = IF N = {} THEN c ELSE CHOOSE n \in N : TRUE
    BY DEF maybeCommit
  <1> HIDE DEF N
  <1>4. CASE N = {}
    BY <1>3, <1>4
  <1>5. CASE N # {}
    <2>1. (CHOOSE n \in N : TRUE) \in N
      BY <1>5
    <2> QED
      BY <1>2, <1>3, <1>5, <2>1
  <1> QED
    BY <1>4, <1>5

---------------------------------------------------------------------------
(* Messages.                                                               *)

\* The type field of a message tells which fields it has.
LEMMA MessageKinds ==
  ASSUME NEW m \in Message
  PROVE  /\ m.type \in {"MsgVote", "MsgPreVote"} => m \in VoteRequest
         /\ m.type \in {"MsgVoteResp", "MsgPreVoteResp"} => m \in VoteReply
         /\ m.type = "MsgApp" => m \in AppendRequest
         /\ m.type = "MsgAppResp" => m \in AppendReply
         /\ m.type = "MsgHeartbeat" => m \in Heartbeat
         /\ m.type = "MsgHeartbeatResp" => m \in HeartbeatReply
         /\ m.type = "MsgProp" => m \in Proposal
         /\ m.type = "MsgReadIndex" => m \in ReadRequest
         /\ m.type = "MsgReadIndexResp" => m \in ReadReply
  BY DEF Message, VoteRequest, VoteReply, AppendRequest, AppendReply,
         Heartbeat, HeartbeatReply, Proposal, ReadRequest, ReadReply

\* sendAppend announces the whole rest of a log, from Next on.
LEMMA SendAppendType ==
  ASSUME NEW i \in Server, NEW j \in Server, NEW t \in Nat,
         NEW l \in Seq(Entry), NEW nx \in [Server -> Nat \ {0}],
         nx[j] <= Len(l) + 1, NEW c \in Nat
  PROVE  LET m == sendAppend(i, j, t, l, nx, c)
         IN  /\ m \in AppendRequest
             /\ m.type = "MsgApp" /\ m.from = i /\ m.to = j /\ m.term = t
             /\ m.logIndex = 0 \/ m.logTerm # 0
             /\ m.logIndex + Len(m.entries) = Len(l)
  <1> DEFINE es == SubSeq(l, nx[j], Len(l))
  <1>1. nx[j] \in Nat \ {0} /\ nx[j] - 1 \in 0..Len(l)
    OBVIOUS
  <1>2. es \in Seq(Entry) /\ Len(es) = Len(l) - nx[j] + 1
    <2>1. \A q \in nx[j]..Len(l) : l[q] \in Entry
      BY <1>1, ElementOfSeq
    <2> QED
      BY <1>1, <2>1, SubSeqProperties
  <1>3. TermAt(l, nx[j] - 1) \in Nat
    BY <1>1, TermAtType
  <1>4. nx[j] - 1 = 0 \/ TermAt(l, nx[j] - 1) # 0
    <2>1. CASE nx[j] - 1 # 0
      <3>1. nx[j] - 1 \in 1..Len(l)
        BY <1>1, <2>1
      <3>2. l[nx[j] - 1] \in Entry
        BY <3>1, ElementOfSeq
      <3>3. l[nx[j] - 1].term # 0
        BY <3>2 DEF Entry
      <3> QED
        BY <3>1, <3>3 DEF TermAt
    <2> QED
      BY <2>1
  <1> HIDE DEF es
  <1>5. sendAppend(i, j, t, l, nx, c) =
          [type |-> "MsgApp", from |-> i, to |-> j, term |-> t,
           logIndex |-> nx[j] - 1, logTerm |-> TermAt(l, nx[j] - 1),
           entries |-> es, commit |-> c]
    BY DEF sendAppend, es
  <1>6. nx[j] - 1 \in Nat /\ nx[j] - 1 + Len(es) = Len(l)
    <2>1. Len(l) \in Nat /\ nx[j] \in Nat /\ nx[j] - 1 \in Nat
      BY <1>1, LenProperties
    <2> QED
      BY <1>2, <2>1
  <1> DEFINE a == nx[j] - 1
             b == TermAt(l, nx[j] - 1)
  <1> HIDE DEF a, b
  <1>7. sendAppend(i, j, t, l, nx, c) =
          [type |-> "MsgApp", from |-> i, to |-> j, term |-> t,
           logIndex |-> a, logTerm |-> b, entries |-> es, commit |-> c]
    BY <1>5 DEF a, b
  <1>8. a \in Nat /\ b \in Nat /\ (a = 0 \/ b # 0) /\ a + Len(es) = Len(l)
    BY <1>3, <1>4, <1>6 DEF a, b
  <1>9. sendAppend(i, j, t, l, nx, c) \in AppendRequest
    BY <1>2, <1>7, <1>8 DEF AppendRequest
  <1> QED
    BY <1>7, <1>8, <1>9

---------------------------------------------------------------------------
(* A step of server i.                                                     *)

\* A step of i sends messages, leaves the other servers alone, and as long
\* as i's term lasts it stays leader, loses no entry as leader, and keeps its
\* vote.
Kept(i) ==
  /\ msgs \subseteq msgs'
  /\ \A j \in Server \ {i} :
       /\ term'[j] = term[j] /\ vote'[j] = vote[j] /\ state'[j] = state[j]
       /\ lead'[j] = lead[j] /\ granted'[j] = granted[j]
       /\ log'[j] = log[j] /\ commit'[j] = commit[j] /\ next'[j] = next[j]
  /\ term'[i] >= term[i]
  /\ term'[i] = term[i] =>
       /\ state[i] = Leader =>
            state'[i] = Leader /\ Len(log'[i]) >= Len(log[i])
       /\ vote[i] # None => vote'[i] = vote[i]

\* What is to be shown of each action.
GoodStep(i) ==
  /\ TypeOK'
  /\ Kept(i)
  /\ \A m \in msgs' \ msgs :
       /\ MsgInv(m)'
       /\ m.type = "MsgVoteResp" /\ ~m.reject => term'[m.from] = m.term
  /\ ServerInv(i)'

\* The same, seen from any server.
LEMMA KeptAt ==
  ASSUME TypeOK, TypeOK', NEW i \in Server, Kept(i), NEW j \in Server
  PROVE  /\ term[j] \in Nat /\ term'[j] \in Nat
         /\ Len(log[j]) \in Nat /\ Len(log'[j]) \in Nat
         /\ term'[j] >= term[j]
         /\ term'[j] = term[j] =>
              /\ state[j] = Leader =>
                   state'[j] = Leader /\ Len(log'[j]) >= Len(log[j])
              /\ vote[j] # None => vote'[j] = vote[j]
  <1>1. /\ term \in [Server -> Nat \ {0}] /\ term' \in [Server -> Nat \ {0}]
        /\ log \in [Server -> Seq(Entry)] /\ log' \in [Server -> Seq(Entry)]
    BY DEF TypeOK
  <1>2. /\ term[j] \in Nat /\ term'[j] \in Nat
        /\ Len(log[j]) \in Nat /\ Len(log'[j]) \in Nat
    BY <1>1, LenProperties
  <1>3. CASE i = j
    BY <1>2, <1>3 DEF Kept
  <1>4. CASE i # j
    BY <1>2, <1>4 DEF Kept
  <1> QED
    BY <1>3, <1>4

\* A server that led a term has led it ever after.
LEMMA LedKept ==
  ASSUME TypeOK, TypeOK', NEW i \in Server, Kept(i),
         NEW j \in Server, NEW t \in Nat, Led(j, t)
  PROVE  Led(j, t)'
  BY KeptAt DEF Led

\* MsgInv of a message survives a step that only adds leaders, grants and terms.
LEMMA MsgInvKept ==
  ASSUME TypeOK, TypeOK', NEW i \in Server, Kept(i),
         NEW m \in msgs, MsgInv(m)
  PROVE  MsgInv(m)'
  <1>0. m \in Message
    BY DEF TypeOK
  <1>1. ASSUME m.type \in {"MsgVote", "MsgPreVote"}
        PROVE  term'[m.from] >= m.term
    <2>1. m.from \in Server /\ m.term \in Nat
      BY <1>0, <1>1, MessageKinds DEF VoteRequest
    <2> QED
      BY <1>1, <2>1, KeptAt DEF MsgInv
  <1>2. ASSUME m.type \in {"MsgVoteResp", "MsgPreVoteResp"}
        PROVE  term'[m.to] >= m.term
    <2>1. m.to \in Server /\ m.term \in Nat
      BY <1>0, <1>2, MessageKinds DEF VoteReply
    <2> QED
      BY <1>2, <2>1, KeptAt DEF MsgInv
  <1>3. ASSUME m.type = "MsgVoteResp", ~m.reject
        PROVE  \/ term'[m.from] > m.term
               \/ term'[m.from] = m.term /\ vote'[m.from] = m.to
    <2>1. m.from \in Server /\ m.to \in Server /\ m.term \in Nat
      BY <1>0, <1>3, MessageKinds DEF VoteReply
    <2>2. m.to # None
      BY <2>1, RaftAssumption
    <2> QED
      BY <1>3, <2>1, <2>2, KeptAt DEF MsgInv
  <1>4. ASSUME m.type \in {"MsgApp", "MsgHeartbeat", "MsgReadIndexResp"}
        PROVE  Led(m.from, m.term)'
    <2>1. m.from \in Server /\ m.term \in Nat
      BY <1>0, <1>4, MessageKinds DEF AppendRequest, Heartbeat, ReadReply
    <2> QED
      BY <1>4, <2>1, LedKept DEF MsgInv
  <1>5. ASSUME m.type \in {"MsgAppResp", "MsgHeartbeatResp"}
        PROVE  Led(m.to, m.term)'
    <2>1. m.to \in Server /\ m.term \in Nat
      BY <1>0, <1>5, MessageKinds DEF AppendReply, HeartbeatReply
    <2> QED
      BY <1>5, <2>1, LedKept DEF MsgInv
  <1>6. ASSUME m.type = "MsgApp", term'[m.from] = m.term
        PROVE  m.logIndex + Len(m.entries) <= Len(log'[m.from])
    <2>1. /\ m.from \in Server /\ m.term \in Nat /\ m.logIndex \in Nat
          /\ m.entries \in Seq(Entry)
      BY <1>0, <1>6, MessageKinds DEF AppendRequest
    <2>2. Led(m.from, m.term)
      BY <1>6 DEF MsgInv
    <2>3. term[m.from] = m.term /\ state[m.from] = Leader
      BY <1>6, <2>1, <2>2, KeptAt DEF Led
    <2>4. Len(log'[m.from]) >= Len(log[m.from])
      BY <1>6, <2>1, <2>3, KeptAt
    <2>5. m.logIndex + Len(m.entries) <= Len(log[m.from])
      BY <1>6, <2>3 DEF MsgInv
    <2>6. Len(log'[m.from]) \in Nat /\ Len(log[m.from]) \in Nat /\ Len(m.entries) \in Nat
      BY <2>1, LenProperties DEF TypeOK
    <2> QED
      BY <2>1, <2>4, <2>5, <2>6
  <1>7. ASSUME m.type = "MsgAppResp", ~m.reject, term'[m.to] = m.term
        PROVE  m.logIndex <= Len(log'[m.to])
    <2>1. m.to \in Server /\ m.term \in Nat /\ m.logIndex \in Nat
      BY <1>0, <1>7, MessageKinds DEF AppendReply
    <2>2. Led(m.to, m.term)
      BY <1>7 DEF MsgInv
    <2>3. term[m.to] = m.term /\ state[m.to] = Leader
      BY <1>7, <2>1, <2>2, KeptAt DEF Led
    <2>4. Len(log'[m.to]) >= Len(log[m.to])
      BY <1>7, <2>1, <2>3, KeptAt
    <2>5. m.logIndex <= Len(log[m.to])
      BY <1>7, <2>3 DEF MsgInv
    <2>6. Len(log'[m.to]) \in Nat /\ Len(log[m.to]) \in Nat
      BY <2>1, LenProperties DEF TypeOK
    <2> QED
      BY <2>1, <2>4, <2>5, <2>6
  <1>8. m.type = "MsgApp" => m.logIndex = 0 \/ m.logTerm # 0
    BY DEF MsgInv
  <1> QED
    BY <1>1, <1>2, <1>3, <1>4, <1>5, <1>6, <1>7, <1>8 DEF MsgInv

\* The servers whose variables a step leaves alone, i itself perhaps.
LEMMA ServerInvKept ==
  ASSUME TypeOK, TypeOK', NEW i \in Server, Kept(i),
         NEW j \in Server, ServerInv(j),
         term'[j] = term[j] /\ vote'[j] = vote[j] /\ state'[j] = state[j],
         lead'[j] = lead[j] /\ granted'[j] = granted[j],
         log'[j] = log[j] /\ commit'[j] = commit[j] /\ next'[j] = next[j]
  PROVE  ServerInv(j)'
  <1>0. /\ term'[j] = term[j] /\ vote'[j] = vote[j] /\ state'[j] = state[j]
        /\ lead'[j] = lead[j] /\ granted'[j] = granted[j]
        /\ log'[j] = log[j] /\ commit'[j] = commit[j] /\ next'[j] = next[j]
    OBVIOUS
  <1>1. \A k, l, t : Granted(k, l, t) => Granted(k, l, t)'
    BY DEF Granted, Kept
  <1>2. ASSUME lead'[j] # None PROVE Led(lead[j], term[j])'
    <2>1. lead[j] \in Server /\ term[j] \in Nat
      BY <1>0, <1>2 DEF TypeOK
    <2>2. \A l \in Server, t \in Nat : Led(l, t) => Led(l, t)'
      BY LedKept
    <2>3. PICK l \in Server, t \in Nat : l = lead[j] /\ t = term[j]
      BY <2>1
    <2>4. Led(l, t)'
      BY <1>0, <1>2, <2>2, <2>3 DEF ServerInv
    <2> QED
      BY <1>0, <2>3, <2>4 DEF Led
  <1>3. PICK t : t = term[j] /\ t = term'[j]
    BY <1>0
  <1>4. ASSUME state'[j] = Leader
        PROVE  \E Q \in SUBSET Server :
                 /\ Cardinality(Q) >= quorum
                 /\ \A k \in Q : k = j \/ Granted(k, j, t)'
    BY <1>0, <1>1, <1>3, <1>4 DEF ServerInv
  <1>5. ASSUME state'[j] = Candidate
        PROVE  \A k \in granted'[j] : k = j \/ Granted(k, j, t)'
    BY <1>0, <1>1, <1>3, <1>5 DEF ServerInv
  <1>6. \A k : Granted(k, j, t)' <=> Granted(k, j, term[j])'
    BY <1>3 DEF Granted
  <1>7. /\ state'[j] \in {Candidate, Leader} => vote'[j] = j
        /\ state'[j] = Leader =>
             \A k \in Server \ {j} : next'[j][k] <= Len(log'[j]) + 1
        /\ commit'[j] <= Len(log'[j])
    BY <1>0 DEF ServerInv
  <1> QED
    BY <1>2, <1>4, <1>5, <1>6, <1>7 DEF ServerInv

\* Every action keeps the invariant, if it is a good step.
LEMMA GoodStepInv ==
  ASSUME ElectionInv, NEW i \in Server, GoodStep(i)
  PROVE  ElectionInv'
  <1>0. TypeOK /\ TypeOK' /\ Kept(i)
    BY DEF ElectionInv, GoodStep
  <1>1. ASSUME NEW m \in msgs' PROVE MsgInv(m)'
    <2>1. CASE m \in msgs
      BY <1>0, <2>1, MsgInvKept DEF ElectionInv
    <2>2. CASE m \notin msgs
      BY <2>2 DEF GoodStep
    <2> QED
      BY <2>1, <2>2
  <1>2. ASSUME NEW j \in Server PROVE ServerInv(j)'
    <2>1. CASE j = i
      BY <2>1 DEF GoodStep
    <2>2. CASE j # i
      <3>1. /\ term'[j] = term[j] /\ vote'[j] = vote[j] /\ state'[j] = state[j]
            /\ lead'[j] = lead[j] /\ granted'[j] = granted[j]
            /\ log'[j] = log[j] /\ commit'[j] = commit[j] /\ next'[j] = next[j]
        BY <1>0, <2>2 DEF Kept
      <3> QED
        BY <1>0, <3>1, ServerInvKept DEF ElectionInv
    <2> QED
      BY <2>1, <2>2
  <1>3. ASSUME NEW m \in msgs', NEW n \in msgs',
               m.type = "MsgVoteResp", ~m.reject,
               n.type = "MsgVoteResp", ~n.reject,
               m.from = n.from, m.term = n.term
        PROVE  m.to = n.to
    <2>1. /\ m \in Message /\ n \in Message
          /\ term' \in [Server -> Nat \ {0}]
      BY <1>0 DEF TypeOK
    <2>2. m.from \in Server /\ m.term \in Nat
      BY <2>1, <1>3, MessageKinds DEF VoteReply
    <2>3. CASE term'[m.from] = m.term
      <3>1. MsgInv(m)' /\ MsgInv(n)'
        BY <1>1
      <3>2. vote'[m.from] = m.to /\ vote'[n.from] = n.to
        BY <1>3, <2>1, <2>2, <2>3, <3>1 DEF MsgInv
      <3> QED
        BY <3>2, <1>3
    <2>4. CASE term'[m.from] # m.term
      <3>1. m \in msgs /\ n \in msgs
        BY <1>3, <2>4 DEF GoodStep
      <3> QED
        BY <1>3, <3>1 DEF ElectionInv, OneVotePerTerm
    <2> QED
      BY <2>3, <2>4
  <1> QED
    BY <1>0, <1>1, <1>2, <1>3 DEF ElectionInv, OneVotePerTerm

---------------------------------------------------------------------------
(* What the invariant says.                                                *)

\* Two quorums of the cluster share a server.
LEMMA QuorumsIntersect ==
  ASSUME NEW P \in SUBSET Server, NEW Q \in SUBSET Server,
         Cardinality(P) >= quorum, Cardinality(Q) >= quorum
  PROVE  \E k \in Server : k \in P /\ k \in Q
  <1>1. IsFiniteSet(Server) /\ Cardinality(Server) \in Nat
    BY RaftAssumption, FS_CardinalityType
  <1>2. Cardinality(P) \in Nat /\ Cardinality(Q) \in Nat
    BY <1>1, FS_Subset, FS_CardinalityType
  <1>3. Cardinality(P) + Cardinality(Q) > Cardinality(Server)
    BY <1>1, <1>2 DEF quorum
  <1> QED
    BY <1>1, <1>3, FS_MajoritiesIntersect

\* A server that granted its vote in a term did not also vote for itself.
LEMMA GrantedVote ==
  ASSUME ElectionInv, NEW j \in Server, NEW i \in Server, NEW t \in Nat,
         Granted(j, i, t), term[j] = t
  PROVE  vote[j] = i
  BY DEF ElectionInv, MsgInv, Granted

\* ElectionInv implies ElectionSafety: two quorums of grants of one term meet.
LEMMA InvElectionSafety ==
  ASSUME ElectionInv
  PROVE  ElectionSafety
  <1> SUFFICES ASSUME NEW i \in Server, NEW j \in Server,
                      state[i] = Leader, state[j] = Leader, term[i] = term[j]
               PROVE  i = j
    BY DEF ElectionSafety
  <1>0. ServerInv(i) /\ ServerInv(j) /\ term[i] \in Nat
    BY DEF ElectionInv, TypeOK
  <1>1. vote[i] = i /\ vote[j] = j
    BY <1>0 DEF ServerInv
  <1>2. PICK P \in SUBSET Server :
          /\ Cardinality(P) >= quorum
          /\ \A k \in P : k = i \/ Granted(k, i, term[i])
    BY <1>0 DEF ServerInv
  <1>3. PICK Q \in SUBSET Server :
          /\ Cardinality(Q) >= quorum
          /\ \A k \in Q : k = j \/ Granted(k, j, term[j])
    BY <1>0 DEF ServerInv
  <1>4. PICK k \in Server : k \in P /\ k \in Q
    BY <1>2, <1>3, QuorumsIntersect
  <1>5. CASE k = i
    BY <1>0, <1>1, <1>3, <1>4, <1>5, GrantedVote
  <1>6. CASE k = j
    BY <1>0, <1>1, <1>2, <1>4, <1>6, GrantedVote
  <1>7. CASE k # i /\ k # j
    <2>1. Granted(k, i, term[i]) /\ Granted(k, j, term[i])
      BY <1>2, <1>3, <1>4, <1>7
    <2> QED
      BY <2>1 DEF ElectionInv, OneVotePerTerm, Granted
  <1> QED
    BY <1>5, <1>6, <1>7

\* ElectionInv implies LeadWasElected: whom a server follows led its term.
LEMMA InvLeadWasElected ==
  ASSUME ElectionInv
  PROVE  LeadWasElected
  BY DEF ElectionInv, ServerInv, Led, LeadWasElected

\* ElectionInv implies CommitWithinLog: no commit index beyond the log.
LEMMA InvCommitWithinLog ==
  ASSUME ElectionInv
  PROVE  CommitWithinLog
  BY DEF ElectionInv, ServerInv, CommitWithinLog

\* newRaft on empty storage establishes ElectionInv.
LEMMA InitInv == Init => ElectionInv
  <1> SUFFICES ASSUME Init PROVE ElectionInv
    OBVIOUS
  <1>1. TypeOK
    BY DEF Init, TypeOK
  <1>2. \A m \in msgs : MsgInv(m)
    BY DEF Init
  <1>3. OneVotePerTerm
    BY DEF Init, OneVotePerTerm
  <1>4. ASSUME NEW i \in Server PROVE ServerInv(i)
    BY DEF Init, ServerInv, Follower, Candidate, Leader
  <1> QED
    BY <1>1, <1>2, <1>3, <1>4 DEF ElectionInv

---------------------------------------------------------------------------
(* Steps of the actions.                                                   *)

ElectionTypes ==
  /\ term \in [Server -> Nat \ {0}]
  /\ vote \in [Server -> Server \cup {None}]
  /\ state \in [Server -> {Follower, PreCandidate, Candidate, Leader}]
  /\ lead \in [Server -> Server \cup {None}]
  /\ granted \in [Server -> SUBSET Server]
  /\ rejected \in [Server -> SUBSET Server]

LogTypes ==
  /\ log \in [Server -> Seq(Entry)]
  /\ commit \in [Server -> Nat]

ProgressTypes ==
  /\ match \in [Server -> [Server -> Nat]]
  /\ next \in [Server -> [Server -> Nat \ {0}]]

ReadTypes ==
  /\ reads \in [Server -> Seq(ReadStatus)]
  /\ asked \in [Ctx -> SUBSET Nat]
  /\ served \subseteq ReadState

\* The conjuncts of TypeOK, one by one, for steps that need few of them.
LEMMA TypeParts ==
  TypeOK <=> /\ ElectionTypes /\ LogTypes /\ ProgressTypes /\ ReadTypes
             /\ msgs \subseteq Message
  BY DEF TypeOK, ElectionTypes, LogTypes, ProgressTypes, ReadTypes

\* The same for the next state.
LEMMA TypePartsPrimed ==
  TypeOK' <=> /\ ElectionTypes' /\ LogTypes' /\ ProgressTypes' /\ ReadTypes'
              /\ msgs' \subseteq Message
  BY DEF TypeOK, ElectionTypes, LogTypes, ProgressTypes, ReadTypes

\* A step that leaves a group of variables alone keeps their types.
LEMMA Unchanged ==
  ASSUME TypeOK
  PROVE  /\ UNCHANGED electionVars => ElectionTypes'
         /\ UNCHANGED logVars => LogTypes'
         /\ UNCHANGED progressVars => ProgressTypes'
         /\ UNCHANGED readVars => ReadTypes'
  BY TypeParts DEF electionVars, logVars, progressVars, readVars,
                   ElectionTypes, LogTypes, ProgressTypes, ReadTypes

\* becomeFollower in a term that i does not lead.
LEMMA BecomeFollower ==
  ASSUME TypeOK, NEW i \in Server, NEW t \in Nat, t >= term[i],
         t = term[i] => state[i] # Leader,
         NEW l \in Server \cup {None}, becomeFollower(i, t, l)
  PROVE  /\ ElectionTypes'
         /\ term'[i] = t /\ state'[i] = Follower /\ lead'[i] = l
         /\ t = term[i] => vote'[i] = vote[i]
         /\ \A j \in Server \ {i} :
              /\ term'[j] = term[j] /\ vote'[j] = vote[j]
              /\ state'[j] = state[j] /\ lead'[j] = lead[j]
              /\ granted'[j] = granted[j]
  <1>1. ElectionTypes /\ t \in Nat \ {0}
    BY TypeParts DEF ElectionTypes
  <1> QED
    BY <1>1 DEF ElectionTypes, becomeFollower

\* Who is neither candidate nor leader needs a commit index within its log
\* and a lead that led.
LEMMA FollowerInv ==
  ASSUME TypeOK, TypeOK', NEW i \in Server, Kept(i),
         state'[i] \notin {Candidate, Leader},
         commit'[i] <= Len(log'[i]),
         lead'[i] = None \/ \E l \in Server, t \in Nat :
                              lead'[i] = l /\ term'[i] = t /\ Led(l, t)
  PROVE  ServerInv(i)'
  <1>1. \A l \in Server, t \in Nat : Led(l, t) => Led(l, t)'
    BY LedKept
  <1>2. ASSUME lead'[i] # None PROVE Led(lead[i], term[i])'
    <2>1. PICK l \in Server, t \in Nat :
                 lead'[i] = l /\ term'[i] = t /\ Led(l, t)
      BY <1>2
    <2>2. Led(l, t)'
      BY <1>1, <2>1
    <2> QED
      BY <2>1, <2>2 DEF Led
  <1> QED
    BY <1>2 DEF ServerInv

\* A step that changes no role and no log, only reads and messages.
LEMMA QuietStep ==
  ASSUME ElectionInv, NEW i \in Server, NEW ms, ms \subseteq Message,
         msgs' = msgs \cup ms, UNCHANGED electionVars, UNCHANGED logVars,
         UNCHANGED progressVars, ReadTypes',
         \A m \in ms : MsgInv(m) /\ m.type # "MsgVoteResp"
  PROVE  GoodStep(i)
  <1>0. TypeOK /\ ServerInv(i)
    BY DEF ElectionInv
  <1>1. msgs' \subseteq Message
    BY <1>0 DEF TypeOK
  <1>2. TypeOK'
    BY <1>0, <1>1, Unchanged, TypePartsPrimed
  <1>3. Kept(i)
    BY <1>0 DEF Kept, electionVars, logVars, progressVars, TypeOK
  <1>4. ASSUME NEW m \in msgs' \ msgs
        PROVE  MsgInv(m)' /\ m.type # "MsgVoteResp"
    <2>1. m \in ms
      OBVIOUS
    <2>2. MsgInv(m) /\ m.type # "MsgVoteResp"
      BY <2>1
    <2>3. term' = term /\ vote' = vote /\ state' = state /\ log' = log
      BY DEF electionVars, logVars
    <2> QED
      BY <2>2, <2>3 DEF MsgInv, Led
  <1>5. /\ term'[i] = term[i] /\ vote'[i] = vote[i] /\ state'[i] = state[i]
        /\ lead'[i] = lead[i] /\ granted'[i] = granted[i]
        /\ log'[i] = log[i] /\ commit'[i] = commit[i] /\ next'[i] = next[i]
    BY DEF electionVars, logVars, progressVars
  <1>6. ServerInv(i)'
    BY <1>0, <1>2, <1>3, <1>5, ServerInvKept
  <1> QED
    BY <1>2, <1>3, <1>4, <1>6 DEF GoodStep

\* The heartbeats of a leader.
LEMMA Heartbeats ==
  ASSUME TypeOK, NEW i \in Server, state[i] = Leader,
         NEW ctx \in Ctx \cup {NoCtx}
  PROVE  LET ms == broadcastHeartbeatWithCtx(i, ctx)
         IN  /\ ms \subseteq Message
             /\ \A m \in ms : MsgInv(m) /\ m.type # "MsgVoteResp"
  <1> SUFFICES ASSUME NEW m \in broadcastHeartbeatWithCtx(i, ctx)
               PROVE  m \in Message /\ MsgInv(m) /\ m.type # "MsgVoteResp"
    OBVIOUS
  <1>1. PICK j \in Server :
          m = [type |-> "MsgHeartbeat", from |-> i, to |-> j,
               term |-> term[i], commit |-> Least(commit[i], match[i][j]),
               ctx |-> ctx]
    BY DEF broadcastHeartbeatWithCtx
  <1>2. term[i] \in Nat /\ commit[i] \in Nat /\ match[i][j] \in Nat
    BY DEF TypeOK
  <1>3. Least(commit[i], match[i][j]) \in Nat
    BY <1>2 DEF Least
  <1>4. m \in Heartbeat
    BY <1>1, <1>2, <1>3 DEF Heartbeat
  <1>5. MsgInv(m) /\ m.type # "MsgVoteResp"
    BY <1>1 DEF MsgInv, Led
  <1> QED
    BY <1>4, <1>5 DEF Message

\* broadcastAppend sends well-typed MsgApp messages of the leader's own term.
LEMMA BroadcastAppend ==
  ASSUME NEW i \in Server, NEW t \in Nat, NEW l \in Seq(Entry),
         NEW nx \in [Server -> Nat \ {0}],
         \A j \in Server \ {i} : nx[j] <= Len(l) + 1, NEW c \in Nat,
         NEW m \in broadcastAppend(i, t, l, nx, c)
  PROVE  /\ m \in Message
         /\ m.type = "MsgApp" /\ m.from = i /\ m.term = t
         /\ m.logIndex = 0 \/ m.logTerm # 0
         /\ m.logIndex + Len(m.entries) = Len(l)
  <1>1. PICK j \in Server \ {i} : m = sendAppend(i, j, t, l, nx, c)
    BY DEF broadcastAppend
  <1> DEFINE a == sendAppend(i, j, t, l, nx, c)
  <1>a. j \in Server /\ nx[j] <= Len(l) + 1
    OBVIOUS
  <1>b. /\ a \in AppendRequest
        /\ a.type = "MsgApp" /\ a.from = i /\ a.to = j /\ a.term = t
        /\ a.logIndex = 0 \/ a.logTerm # 0
        /\ a.logIndex + Len(a.entries) = Len(l)
    BY <1>a, SendAppendType
  <1>c. m = a
    BY <1>1
  <1> HIDE DEF a
  <1>2. /\ m \in AppendRequest
        /\ m.type = "MsgApp" /\ m.from = i /\ m.term = t
        /\ m.logIndex = 0 \/ m.logTerm # 0
        /\ m.logIndex + Len(m.entries) = Len(l)
    BY <1>b, <1>c
  <1> QED
    BY <1>2 DEF Message

\* What a leader announces is true of it.
LEMMA AppendMsgInv ==
  ASSUME TypeOK', NEW i \in Server, state'[i] = Leader, NEW m,
         m.type = "MsgApp", m.from = i, m.term = term'[i],
         m.logIndex = 0 \/ m.logTerm # 0,
         m.logIndex + Len(m.entries) = Len(log'[i])
  PROVE  MsgInv(m)' /\ m.type # "MsgVoteResp"
  <1>1. Len(log'[i]) \in Nat
    BY LenProperties DEF TypeOK
  <1> QED
    BY <1>1 DEF MsgInv, Led

=============================================================================
