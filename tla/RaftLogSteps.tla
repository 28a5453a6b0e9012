---------------------------- MODULE RaftLogSteps ----------------------------
(***************************************************************************)
(* Every step of replication preserves ElectionInv.                        *)
(***************************************************************************)
EXTENDS RaftLemmas

---------------------------------------------------------------------------
(* Replication.                                                            *)

\* A leader stays leader, its log does not shrink, and it sends MsgApps.
LEMMA StayLeader ==
  ASSUME ElectionInv, NEW i \in Server, state[i] = Leader,
         UNCHANGED electionVars, UNCHANGED readVars,
         LogTypes', ProgressTypes',
         commit'[i] <= Len(log'[i]), Len(log'[i]) >= Len(log[i]),
         \A j \in Server \ {i} :
           /\ next'[i][j] <= Len(log'[i]) + 1
           /\ log'[j] = log[j] /\ commit'[j] = commit[j] /\ next'[j] = next[j],
         msgs \subseteq msgs',
         \A m \in msgs' \ msgs :
           /\ m \in Message
           /\ m.type = "MsgApp" /\ m.from = i /\ m.term = term[i]
           /\ m.logIndex = 0 \/ m.logTerm # 0
           /\ m.logIndex + Len(m.entries) = Len(log'[i])
  PROVE  GoodStep(i)
  <1>0. TypeOK /\ ServerInv(i) /\ term[i] \in Nat
    BY DEF ElectionInv, TypeOK
  <1>1. /\ term' = term /\ vote' = vote /\ state' = state
        /\ lead' = lead /\ granted' = granted
    BY DEF electionVars
  <1>2. TypeOK'
    <2>1. msgs' \subseteq Message
      BY <1>0 DEF TypeOK
    <2> QED
      BY <1>0, <2>1, Unchanged, TypePartsPrimed
  <1>3. Kept(i)
    BY <1>0, <1>1 DEF Kept
  <1>4. ASSUME NEW m \in msgs' \ msgs
        PROVE  MsgInv(m)' /\ m.type # "MsgVoteResp"
    BY <1>1, <1>2, AppendMsgInv
  <1>5. ServerInv(i)'
    <2>1. PICK Q \in SUBSET Server :
            /\ Cardinality(Q) >= quorum
            /\ \A j \in Q : j = i \/ Granted(j, i, term[i])
      BY <1>0 DEF ServerInv
    <2>2. \A j \in Q : j = i \/ Granted(j, i, term[i])'
      BY <1>1, <2>1 DEF Granted
    <2>3. lead[i] # None => Led(lead[i], term[i])'
      BY <1>0, <1>1 DEF ServerInv, Led
    <2>4. vote[i] = i
      BY <1>0 DEF ServerInv
    <2> QED
      BY <1>1, <2>1, <2>2, <2>3, <2>4 DEF ServerInv, Candidate, Leader
  <1> QED
    BY <1>2, <1>3, <1>4, <1>5 DEF GoodStep

\* appendEntry and the broadcast after it preserve ElectionInv.
LEMMA AppendStep ==
  ASSUME ElectionInv, NEW i \in Server, state[i] = Leader, NEW v \in Value,
         appendAndBroadcast(i, v), UNCHANGED electionVars, UNCHANGED readVars
  PROVE  GoodStep(i)
  <1> DEFINE l == Append(log[i], [term |-> term[i], data |-> v])
             ms == [match[i] EXCEPT ![i] = Greatest(@, Len(l))]
             nx == [next[i] EXCEPT ![i] = Greatest(@, Len(l) + 1)]
             c == maybeCommit(l, ms, term[i], commit[i])
  <1>0. TypeOK /\ ServerInv(i)
    BY DEF ElectionInv
  <1>1. /\ log \in [Server -> Seq(Entry)] /\ commit \in [Server -> Nat]
        /\ match \in [Server -> [Server -> Nat]]
        /\ next \in [Server -> [Server -> Nat \ {0}]]
        /\ log[i] \in Seq(Entry) /\ Len(log[i]) \in Nat /\ commit[i] \in Nat
        /\ term[i] \in Nat \ {0} /\ msgs \subseteq Message
    BY <1>0, LenProperties DEF TypeOK
  <1>2. [term |-> term[i], data |-> v] \in Entry
    BY <1>1 DEF Entry
  <1>3. l \in Seq(Entry) /\ Len(l) = Len(log[i]) + 1
    BY <1>1, <1>2, AppendProperties
  <1>4. /\ log' = [log EXCEPT ![i] = l]
        /\ commit' = [commit EXCEPT ![i] = c]
        /\ match' = [match EXCEPT ![i] = ms]
        /\ next' = [next EXCEPT ![i] = nx]
        /\ msgs' = msgs \cup broadcastAppend(i, term[i], l, nx, c)
    BY DEF appendAndBroadcast, Send
  <1> HIDE DEF l
  <1>5. ms \in [Server -> Nat]
    BY <1>1, <1>3 DEF Greatest
  <1>6. /\ nx \in [Server -> Nat \ {0}]
        /\ \A j \in Server \ {i} : nx[j] = next[i][j]
    BY <1>1, <1>3 DEF Greatest
  <1>7. \A j \in Server \ {i} : next[i][j] <= Len(log[i]) + 1
    BY <1>0 DEF ServerInv
  <1> HIDE DEF ms, nx
  <1>8. c \in Nat /\ (c = commit[i] \/ c \in 1..Len(l))
    BY <1>1, <1>3, <1>5, MaybeCommitRange
  <1> HIDE DEF c
  <1>9. LogTypes' /\ ProgressTypes'
    BY <1>1, <1>3, <1>4, <1>5, <1>6, <1>8 DEF LogTypes, ProgressTypes
  <1>10. log'[i] = l /\ commit'[i] = c /\ next'[i] = nx
    BY <1>1, <1>4
  <1>11. commit[i] <= Len(log[i])
    BY <1>0 DEF ServerInv
  <1>12. commit'[i] <= Len(log'[i]) /\ Len(log'[i]) >= Len(log[i])
    BY <1>1, <1>3, <1>8, <1>10, <1>11
  <1>13. \A j \in Server \ {i} : nx[j] <= Len(l) + 1
    BY <1>1, <1>3, <1>6, <1>7
  <1>14. \A j \in Server \ {i} :
           /\ next'[i][j] <= Len(log'[i]) + 1
           /\ log'[j] = log[j] /\ commit'[j] = commit[j] /\ next'[j] = next[j]
    BY <1>1, <1>4, <1>10, <1>13
  <1>15. ASSUME NEW m \in msgs' \ msgs
         PROVE  /\ m \in Message
                /\ m.type = "MsgApp" /\ m.from = i /\ m.term = term[i]
                /\ m.logIndex = 0 \/ m.logTerm # 0
                /\ m.logIndex + Len(m.entries) = Len(log'[i])
    <2> DEFINE t == term[i]
    <2>1. m \in broadcastAppend(i, t, l, nx, c)
      BY <1>4
    <2>2. t \in Nat /\ l \in Seq(Entry) /\ nx \in [Server -> Nat \ {0}] /\ c \in Nat
      BY <1>1, <1>3, <1>6, <1>8
    <2> HIDE DEF t
    <2>3. /\ m \in Message
          /\ m.type = "MsgApp" /\ m.from = i /\ m.term = t
          /\ m.logIndex = 0 \/ m.logTerm # 0
          /\ m.logIndex + Len(m.entries) = Len(l)
      BY <1>13, <2>1, <2>2, BroadcastAppend
    <2> QED
      BY <1>10, <2>3 DEF t
  <1> QED
    BY <1>4, <1>9, <1>12, <1>14, <1>15, StayLeader

\* stepProp (MsgProp at a leader, or forwarded) preserves ElectionInv.
LEMMA PropStep ==
  ASSUME ElectionInv, NEW i \in Server, NEW from \in Server, NEW v \in Value,
         stepProp(i, from, v), UNCHANGED electionVars, UNCHANGED readVars
  PROVE  GoodStep(i)
  <1>1. CASE state[i] = Leader /\ appendAndBroadcast(i, v)
    BY <1>1, AppendStep
  <1>2. CASE /\ state[i] = Follower /\ lead[i] # None
             /\ Send({[type |-> "MsgProp", from |-> from, to |-> lead[i],
                       data |-> v]})
             /\ UNCHANGED <<logVars, progressVars>>
    <2> DEFINE n == [type |-> "MsgProp", from |-> from, to |-> lead[i], data |-> v]
               ms == {n}
    <2>0. TypeOK /\ lead[i] \in Server
      BY <1>2 DEF ElectionInv, TypeOK
    <2>1. n \in Proposal /\ MsgInv(n) /\ n.type # "MsgVoteResp"
      BY <2>0 DEF Proposal, MsgInv
    <2>2. msgs' = msgs \cup ms
      BY <1>2 DEF Send
    <2>3. ReadTypes'
      BY <2>0, Unchanged
    <2> HIDE DEF n
    <2>4. ms \subseteq Message /\ \A x \in ms : MsgInv(x) /\ x.type # "MsgVoteResp"
      BY <2>1 DEF Message
    <2> HIDE DEF ms
    <2> QED
      BY <1>2, <2>2, <2>3, <2>4, QuietStep
  <1> QED
    BY <1>1, <1>2 DEF stepProp

\* A forwarded MsgProp preserves ElectionInv.
LEMMA HandlePropStep ==
  ASSUME ElectionInv, NEW i \in Server, NEW m \in msgs, HandleProp(i, m)
  PROVE  GoodStep(i)
  <1>1. m \in Message /\ m.type = "MsgProp"
    BY DEF ElectionInv, TypeOK, HandleProp
  <1>2. m.from \in Server /\ m.data \in Value
    BY <1>1, MessageKinds DEF Proposal
  <1> QED
    BY <1>2, PropStep DEF HandleProp

\* What a step to a follower of another server needs, and what it gives.
LEMMA FollowStep ==
  ASSUME ElectionInv, NEW i \in Server, NEW t \in Nat, NEW l \in Server,
         t >= term[i], t = term[i] => state[i] # Leader, Led(l, t),
         becomeFollower(i, t, l), LogTypes', UNCHANGED progressVars,
         UNCHANGED readVars, commit'[i] <= Len(log'[i]),
         \A j \in Server \ {i} : log'[j] = log[j] /\ commit'[j] = commit[j],
         NEW n, msgs' = msgs \cup {n}, n \in Message,
         \/ n.type = "MsgAppResp"
            /\ (~n.reject /\ term[l] = t => n.logIndex <= Len(log[l]))
         \/ n.type = "MsgHeartbeatResp",
         n.from = i, n.to = l, n.term = t
  PROVE  GoodStep(i)
  <1>0. TypeOK /\ ServerInv(i) /\ term[i] \in Nat
    BY DEF ElectionInv, TypeOK
  <1>1. /\ ElectionTypes'
        /\ term'[i] = t /\ state'[i] = Follower /\ lead'[i] = l
        /\ t = term[i] => vote'[i] = vote[i]
        /\ \A j \in Server \ {i} :
             /\ term'[j] = term[j] /\ vote'[j] = vote[j]
             /\ state'[j] = state[j] /\ lead'[j] = lead[j]
             /\ granted'[j] = granted[j]
    BY <1>0, BecomeFollower
  <1>2. TypeOK'
    <2>1. msgs' \subseteq Message
      BY <1>0 DEF TypeOK
    <2> QED
      BY <1>0, <1>1, <2>1, Unchanged, TypePartsPrimed
  <1>3. Kept(i)
    BY <1>0, <1>1 DEF Kept, progressVars
  <1>4. state'[i] \notin {Candidate, Leader}
    BY <1>1 DEF Follower, Candidate, Leader
  <1>5. ServerInv(i)'
    BY <1>0, <1>1, <1>2, <1>3, <1>4, FollowerInv
  <1>6. Led(l, t)'
    BY <1>0, <1>2, <1>3, LedKept
  <1>7. l # i
    BY <1>0 DEF Led
  <1>8. MsgInv(n)' /\ n.type # "MsgVoteResp"
    BY <1>1, <1>6, <1>7 DEF MsgInv
  <1> QED
    BY <1>2, <1>3, <1>5, <1>8 DEF GoodStep

\* MsgApp (handleAppendEntries) preserves ElectionInv.
LEMMA HandleAppStep ==
  ASSUME ElectionInv, NEW i \in Server, NEW m \in msgs, HandleApp(i, m)
  PROVE  GoodStep(i)
  <1> DEFINE l == log[i]
             k == findConflict(l, m.logIndex, m.entries)
             lg == appendFrom(l, m.logIndex, m.entries, k)
             last == m.logIndex + Len(m.entries)
  <1>0. TypeOK /\ ServerInv(i) /\ MsgInv(m) /\ m \in Message /\ m.type = "MsgApp"
    BY DEF ElectionInv, TypeOK, HandleApp
  <1>1. /\ m.from \in Server /\ m.term \in Nat /\ m.logIndex \in Nat
        /\ m.logTerm \in Nat /\ m.entries \in Seq(Entry) /\ m.commit \in Nat
        /\ Len(m.entries) \in Nat
    BY <1>0, MessageKinds, LenProperties DEF AppendRequest
  <1>2. /\ log \in [Server -> Seq(Entry)] /\ commit \in [Server -> Nat]
        /\ l \in Seq(Entry) /\ Len(l) \in Nat /\ commit[i] \in Nat
        /\ commit[i] <= Len(l)
    BY <1>0, LenProperties DEF TypeOK, ServerInv
  <1>3. /\ m.term >= term[i] /\ (m.term = term[i] => state[i] # Leader)
        /\ becomeFollower(i, m.term, m.from)
        /\ UNCHANGED progressVars /\ UNCHANGED readVars
    BY DEF HandleApp, followLeader
  <1>4. /\ Led(m.from, m.term) /\ (m.logIndex = 0 \/ m.logTerm # 0)
        /\ term[m.from] = m.term => last <= Len(log[m.from])
    BY <1>0 DEF MsgInv
  <1>5. CASE matchTerm(l, m.logIndex, m.logTerm)
    <2> DEFINE n == [type |-> "MsgAppResp", from |-> i, to |-> m.from,
                     term |-> m.term, logIndex |-> last, reject |-> FALSE,
                     hint |-> 0]
    <2>1. /\ k = 0 \/ k > commit[i]
          /\ log' = [log EXCEPT ![i] = lg]
          /\ commit' = [commit EXCEPT ![i] =
                          commitTo(commit[i], Least(m.commit, last))]
          /\ msgs' = msgs \cup {n}
      BY <1>2, <1>5 DEF HandleApp, Send
    <2>2. /\ lg \in Seq(Entry)
          /\ last <= Len(lg)
          /\ k = 0 => lg = l
          /\ k # 0 => k <= Len(lg)
      <3>1. /\ appendFrom(l, m.logIndex, m.entries, k) \in Seq(Entry)
            /\ m.logIndex + Len(m.entries) <= Len(appendFrom(l, m.logIndex, m.entries, k))
            /\ k = 0 => appendFrom(l, m.logIndex, m.entries, k) = l
            /\ k # 0 => k <= Len(appendFrom(l, m.logIndex, m.entries, k))
        <4> DEFINE a == m.logIndex
                   t == m.logTerm
                   es == m.entries
        <4>1. a \in Nat /\ t \in Nat /\ es \in Seq(Entry) /\ l \in Seq(Entry)
          BY <1>1, <1>2
        <4>2. (a = 0 \/ t # 0) /\ matchTerm(l, a, t)
          BY <1>4, <1>5
        <4> HIDE DEF a, t, es, l
        <4>3. LET q == findConflict(l, a, es)
                  n1 == appendFrom(l, a, es, q)
              IN  /\ n1 \in Seq(Entry)
                  /\ a + Len(es) <= Len(n1)
                  /\ q = 0 => n1 = l
                  /\ q # 0 => q <= Len(n1) /\ Len(n1) = a + Len(es)
          BY <4>1, <4>2, AppendFromType
        <4> QED
          BY <4>3 DEF a, es
      <3> QED
        BY <3>1
    <2>3. Len(lg) \in Nat /\ last \in Nat
      BY <1>1, <2>2, LenProperties
    <2>4. k = 0 \/ k \in Nat
      <3>1. \A x \in Conflicts(l, m.logIndex, m.entries) : x \in Nat
        BY <1>1 DEF Conflicts
      <3> QED
        BY <1>1, <1>2, FindConflictLeast
    <2> HIDE DEF lg, k, last
    <2>5. commitTo(commit[i], Least(m.commit, last)) \in Nat
      BY <1>1, <1>2, <2>3 DEF commitTo, Least, Greatest
    <2>6. commitTo(commit[i], Least(m.commit, last)) <= Len(lg)
      <3>1. commit[i] <= Len(lg)
        BY <1>2, <2>1, <2>2, <2>3, <2>4
      <3> QED
        BY <1>1, <1>2, <2>2, <2>3, <3>1 DEF commitTo, Least, Greatest
    <2>7. LogTypes' /\ commit'[i] <= Len(log'[i])
      BY <1>2, <2>1, <2>2, <2>5, <2>6 DEF LogTypes
    <2>8. \A j \in Server \ {i} : log'[j] = log[j] /\ commit'[j] = commit[j]
      BY <1>2, <2>1
    <2>9. n \in AppendReply
      BY <1>1, <2>3 DEF AppendReply
    <2>10. /\ n.type = "MsgAppResp" /\ n.from = i /\ n.to = m.from /\ n.term = m.term
           /\ term[m.from] = m.term => n.logIndex <= Len(log[m.from])
      BY <1>4 DEF last
    <2> HIDE DEF n
    <2>11. n \in Message
      BY <2>9 DEF Message
    <2> QED
      BY <1>1, <1>3, <1>4, <2>1, <2>7, <2>8, <2>10, <2>11, FollowStep
  <1>6. CASE ~matchTerm(l, m.logIndex, m.logTerm)
    <2> DEFINE n == [type |-> "MsgAppResp", from |-> i, to |-> m.from,
                     term |-> m.term, logIndex |-> m.logIndex, reject |-> TRUE,
                     hint |-> Len(log[i])]
    <2>1. /\ log' = log /\ commit' = commit
          /\ msgs' = msgs \cup {n}
      BY <1>6 DEF HandleApp, Send, logVars
    <2>2. LogTypes' /\ commit'[i] <= Len(log'[i])
      BY <1>2, <2>1 DEF LogTypes
    <2>3. n \in AppendReply
      BY <1>1, <1>2 DEF AppendReply
    <2>4. /\ n.type = "MsgAppResp" /\ n.from = i /\ n.to = m.from
          /\ n.term = m.term /\ n.reject
      OBVIOUS
    <2> HIDE DEF n
    <2>5. n \in Message
      BY <2>3 DEF Message
    <2>6. \A j \in Server \ {i} : log'[j] = log[j] /\ commit'[j] = commit[j]
      BY <2>1
    <2> QED
      BY <1>1, <1>3, <1>4, <2>1, <2>2, <2>4, <2>5, <2>6, FollowStep
  <1> QED
    BY <1>5, <1>6

\* MsgHeartbeat (handleHeartbeat) preserves ElectionInv.
LEMMA HandleHeartbeatStep ==
  ASSUME ElectionInv, NEW i \in Server, NEW m \in msgs, HandleHeartbeat(i, m)
  PROVE  GoodStep(i)
  <1> DEFINE c == commitTo(commit[i], Least(m.commit, Len(log[i])))
             n == [type |-> "MsgHeartbeatResp", from |-> i, to |-> m.from,
                   term |-> m.term, ctx |-> m.ctx]
  <1>0. TypeOK /\ ServerInv(i) /\ MsgInv(m) /\ m \in Message /\ m.type = "MsgHeartbeat"
    BY DEF ElectionInv, TypeOK, HandleHeartbeat
  <1>1. /\ m.from \in Server /\ m.term \in Nat /\ m.commit \in Nat
        /\ m.ctx \in Ctx \cup {NoCtx}
    BY <1>0, MessageKinds DEF Heartbeat
  <1>2. /\ log \in [Server -> Seq(Entry)] /\ commit \in [Server -> Nat]
        /\ Len(log[i]) \in Nat /\ commit[i] \in Nat /\ commit[i] <= Len(log[i])
    BY <1>0, LenProperties DEF TypeOK, ServerInv
  <1>3. /\ m.term >= term[i] /\ (m.term = term[i] => state[i] # Leader)
        /\ becomeFollower(i, m.term, m.from)
        /\ commit' = [commit EXCEPT ![i] = c]
        /\ msgs' = msgs \cup {n}
        /\ log' = log /\ UNCHANGED progressVars /\ UNCHANGED readVars
    BY <1>2 DEF HandleHeartbeat, followLeader, Send
  <1>4. Led(m.from, m.term)
    BY <1>0 DEF MsgInv
  <1>5. c \in Nat /\ c <= Len(log[i])
    BY <1>1, <1>2 DEF commitTo, Least, Greatest
  <1>6. n \in HeartbeatReply
    BY <1>1 DEF HeartbeatReply
  <1>7. /\ n.type = "MsgHeartbeatResp" /\ n.from = i
        /\ n.to = m.from /\ n.term = m.term
    OBVIOUS
  <1> HIDE DEF c, n
  <1>8. LogTypes' /\ commit'[i] <= Len(log'[i])
    BY <1>2, <1>3, <1>5 DEF LogTypes
  <1>9. \A j \in Server \ {i} : log'[j] = log[j] /\ commit'[j] = commit[j]
    BY <1>2, <1>3
  <1>10. n \in Message
    BY <1>6 DEF Message
  <1> QED
    BY <1>1, <1>3, <1>4, <1>7, <1>8, <1>9, <1>10, FollowStep

\* A rejected MsgAppResp (mayDecreaseTo, sendAppend) preserves ElectionInv.
LEMMA BackOffStep ==
  ASSUME ElectionInv, NEW i \in Server, state[i] = Leader, NEW m \in AppendReply,
         m.from # i, backOff(i, m), log' = log,
         UNCHANGED electionVars, UNCHANGED readVars
  PROVE  GoodStep(i)
  <1> DEFINE j == m.from
             x == Greatest(1, Least(m.logIndex, m.hint + 1))
             nx == [next[i] EXCEPT ![j] = x]
             n == sendAppend(i, j, term[i], log[i], nx, commit[i])
  <1>0. TypeOK /\ ServerInv(i)
    BY DEF ElectionInv
  <1>1. /\ log \in [Server -> Seq(Entry)] /\ commit \in [Server -> Nat]
        /\ match \in [Server -> [Server -> Nat]]
        /\ next \in [Server -> [Server -> Nat \ {0}]]
        /\ log[i] \in Seq(Entry) /\ Len(log[i]) \in Nat /\ commit[i] \in Nat
        /\ term[i] \in Nat /\ msgs \subseteq Message
    BY <1>0, LenProperties DEF TypeOK
  <1>2. j \in Server \ {i} /\ m.logIndex \in Nat /\ m.hint \in Nat
    BY DEF AppendReply
  <1>3. /\ \A q \in Server \ {i} : next[i][q] <= Len(log[i]) + 1
        /\ commit[i] <= Len(log[i])
    BY <1>0 DEF ServerInv
  <1>4. /\ next[i][j] - 1 = m.logIndex
        /\ next' = [next EXCEPT ![i] = nx]
        /\ msgs' = msgs \cup {n}
        /\ match' = match /\ commit' = commit
    BY DEF backOff, Send
  <1>5. x \in Nat \ {0} /\ x <= Len(log[i]) + 1
    <2>1. next[i][j] \in Nat /\ next[i][j] <= Len(log[i]) + 1
      BY <1>1, <1>2, <1>3
    <2>2. m.logIndex <= Len(log[i])
      BY <1>1, <1>2, <1>4, <2>1
    <2>3. Least(m.logIndex, m.hint + 1) \in Nat /\ Least(m.logIndex, m.hint + 1) <= m.logIndex
      BY <1>2 DEF Least
    <2> DEFINE y == Least(m.logIndex, m.hint + 1)
               b == Len(log[i])
    <2>4. y \in Nat /\ b \in Nat /\ y <= b
      BY <1>1, <1>2, <2>2, <2>3
    <2>5. x = Greatest(1, y)
      OBVIOUS
    <2> HIDE DEF x, y, b
    <2>6. x \in Nat \ {0} /\ x <= b + 1
      BY <2>4, <2>5 DEF Greatest
    <2> QED
      BY <2>6 DEF b
  <1> HIDE DEF x
  <1>6. nx \in [Server -> Nat \ {0}]
    BY <1>1, <1>5
  <1>7. \A q \in Server \ {i} : nx[q] <= Len(log[i]) + 1
    BY <1>1, <1>3, <1>5
  <1> HIDE DEF nx, j
  <1>8. /\ n \in AppendRequest
        /\ n.type = "MsgApp" /\ n.from = i /\ n.term = term[i]
        /\ n.logIndex = 0 \/ n.logTerm # 0
        /\ n.logIndex + Len(n.entries) = Len(log[i])
    <2> DEFINE t == term[i]
               l == log[i]
               c == commit[i]
    <2>1. t \in Nat /\ l \in Seq(Entry) /\ c \in Nat /\ nx[j] <= Len(l) + 1
      BY <1>1, <1>2, <1>7
    <2> HIDE DEF t, l, c
    <2>2. LET y == sendAppend(i, j, t, l, nx, c)
          IN  /\ y \in AppendRequest
              /\ y.type = "MsgApp" /\ y.from = i /\ y.term = t
              /\ y.logIndex = 0 \/ y.logTerm # 0
              /\ y.logIndex + Len(y.entries) = Len(l)
      BY <1>2, <1>6, <2>1, SendAppendType
    <2> QED
      BY <2>2 DEF t, l, c
  <1> HIDE DEF n
  <1>9. LogTypes' /\ ProgressTypes'
    BY <1>1, <1>4, <1>6 DEF LogTypes, ProgressTypes
  <1>10. \A q \in Server \ {i} :
           /\ next'[i][q] <= Len(log'[i]) + 1
           /\ log'[q] = log[q] /\ commit'[q] = commit[q] /\ next'[q] = next[q]
    BY <1>1, <1>4, <1>7
  <1>11. commit'[i] <= Len(log'[i]) /\ Len(log'[i]) >= Len(log[i])
    BY <1>1, <1>3, <1>4
  <1>12. \A y \in msgs' \ msgs :
           /\ y \in Message
           /\ y.type = "MsgApp" /\ y.from = i /\ y.term = term[i]
           /\ y.logIndex = 0 \/ y.logTerm # 0
           /\ y.logIndex + Len(y.entries) = Len(log'[i])
    BY <1>4, <1>8 DEF Message
  <1> QED
    BY <1>4, <1>9, <1>10, <1>11, <1>12, StayLeader

\* An accepted MsgAppResp (maybeUpdate, maybeCommit) preserves ElectionInv.
LEMMA AdvanceStep ==
  ASSUME ElectionInv, NEW i \in Server, state[i] = Leader, NEW m \in AppendReply,
         m.logIndex <= Len(log[i]), advanceProgress(i, m), log' = log,
         UNCHANGED electionVars, UNCHANGED readVars
  PROVE  GoodStep(i)
  <1> DEFINE ms == updatedMatch(i, m)
             nx == [next[i] EXCEPT ![m.from] = Greatest(@, m.logIndex + 1)]
             c == maybeCommit(log[i], ms, term[i], commit[i])
  <1>0. TypeOK /\ ServerInv(i)
    BY DEF ElectionInv
  <1>1. /\ log \in [Server -> Seq(Entry)] /\ commit \in [Server -> Nat]
        /\ match \in [Server -> [Server -> Nat]]
        /\ next \in [Server -> [Server -> Nat \ {0}]]
        /\ log[i] \in Seq(Entry) /\ Len(log[i]) \in Nat /\ commit[i] \in Nat
        /\ term[i] \in Nat \ {0} /\ msgs \subseteq Message
    BY <1>0, LenProperties DEF TypeOK
  <1>2. m.from \in Server /\ m.logIndex \in Nat
    BY DEF AppendReply
  <1>3. /\ \A q \in Server \ {i} : next[i][q] <= Len(log[i]) + 1
        /\ commit[i] <= Len(log[i])
    BY <1>0 DEF ServerInv
  <1>4. PICK committed \in BOOLEAN :
          /\ match' = [match EXCEPT ![i] = ms]
          /\ next' = [next EXCEPT ![i] = nx]
          /\ commit' = [commit EXCEPT ![i] = IF committed THEN c ELSE @]
          /\ msgs' = msgs \cup
               (IF committed THEN broadcastAppend(i, term[i], log[i], nx, c) ELSE {})
    BY DEF advanceProgress, Send
  <1>5. ms \in [Server -> Nat]
    <2>1. match[i] \in [Server -> Nat] /\ match[i][m.from] \in Nat
      BY <1>1, <1>2
    <2>2. Greatest(match[i][m.from], m.logIndex) \in Nat
      BY <1>2, <2>1 DEF Greatest
    <2> QED
      BY <1>2, <2>1, <2>2 DEF updatedMatch
  <1>6. nx \in [Server -> Nat \ {0}]
    <2>1. next[i] \in [Server -> Nat \ {0}] /\ next[i][m.from] \in Nat \ {0}
      BY <1>1, <1>2
    <2>2. Greatest(next[i][m.from], m.logIndex + 1) \in Nat \ {0}
      BY <1>2, <2>1 DEF Greatest
    <2> QED
      BY <1>2, <2>1, <2>2
  <1>7. \A q \in Server \ {i} : nx[q] <= Len(log[i]) + 1
    <2> TAKE q \in Server \ {i}
    <2>1. next[i] \in [Server -> Nat \ {0}] /\ next[i][q] \in Nat
      BY <1>1
    <2>2. nx[q] = IF q = m.from THEN Greatest(next[i][q], m.logIndex + 1)
                                ELSE next[i][q]
      BY <1>2, <2>1
    <2>3. next[i][q] <= Len(log[i]) + 1 /\ Len(log[i]) \in Nat
      BY <1>1, <1>3
    <2> HIDE DEF nx
    <2> QED
      BY <1>2, <2>1, <2>2, <2>3 DEF Greatest
  <1> HIDE DEF ms, nx
  <1>8. c \in Nat /\ (c = commit[i] \/ c \in 1..Len(log[i]))
    <2> DEFINE l == log[i]
               t == term[i]
               d == commit[i]
    <2>1. l \in Seq(Entry) /\ t \in Nat \ {0} /\ d \in Nat
      BY <1>1
    <2> HIDE DEF l, t, d
    <2>2. LET e == maybeCommit(l, ms, t, d)
          IN  e \in Nat /\ e >= d /\ (e = d \/ e \in 1..Len(l))
      BY <1>5, <2>1, MaybeCommitRange
    <2> QED
      BY <2>2 DEF l, t, d
  <1> HIDE DEF c
  <1>9. LogTypes' /\ ProgressTypes'
    BY <1>1, <1>4, <1>5, <1>6, <1>8 DEF LogTypes, ProgressTypes
  <1>10. \A q \in Server \ {i} :
           /\ next'[i][q] <= Len(log'[i]) + 1
           /\ log'[q] = log[q] /\ commit'[q] = commit[q] /\ next'[q] = next[q]
    BY <1>1, <1>4, <1>7
  <1>11. commit'[i] <= Len(log'[i]) /\ Len(log'[i]) >= Len(log[i])
    BY <1>1, <1>3, <1>4, <1>8
  <1>12. ASSUME NEW y \in msgs' \ msgs
         PROVE  /\ y \in Message
                /\ y.type = "MsgApp" /\ y.from = i /\ y.term = term[i]
                /\ y.logIndex = 0 \/ y.logTerm # 0
                /\ y.logIndex + Len(y.entries) = Len(log'[i])
    <2> DEFINE t == term[i]
               l == log[i]
    <2>1. y \in broadcastAppend(i, t, l, nx, c)
      BY <1>4
    <2>2. t \in Nat /\ l \in Seq(Entry) /\ \A q \in Server \ {i} : nx[q] <= Len(l) + 1
      BY <1>1, <1>7
    <2>3. Len(log'[i]) = Len(l)
      OBVIOUS
    <2> HIDE DEF t, l
    <2>4. /\ y \in Message
          /\ y.type = "MsgApp" /\ y.from = i /\ y.term = t
          /\ y.logIndex = 0 \/ y.logTerm # 0
          /\ y.logIndex + Len(y.entries) = Len(l)
      BY <1>6, <1>8, <2>1, <2>2, BroadcastAppend
    <2> QED
      BY <2>3, <2>4 DEF t
  <1> QED
    BY <1>4, <1>9, <1>10, <1>11, <1>12, StayLeader

\* MsgAppResp preserves ElectionInv.
LEMMA HandleAppRespStep ==
  ASSUME ElectionInv, NEW i \in Server, NEW m \in msgs, HandleAppResp(i, m)
  PROVE  GoodStep(i)
  <1>0. TypeOK /\ MsgInv(m) /\ m \in Message
    BY DEF ElectionInv, TypeOK
  <1>1. m.type = "MsgAppResp" /\ m.to = i /\ m.term >= term[i]
    BY DEF HandleAppResp
  <1>2. m \in AppendReply
    BY <1>0, <1>1, MessageKinds
  <1>3. m.term \in Nat /\ term[i] \in Nat
    BY <1>0, <1>2 DEF AppendReply, TypeOK
  <1>4. /\ m.term = term[i] /\ m.from # i
        /\ ~m.reject => m.logIndex <= Len(log[i])
    BY <1>0, <1>1, <1>3 DEF MsgInv, Led
  <1>5. /\ state[i] = Leader
        /\ \/ backOff(i, m)
           \/ ~m.reject /\ advanceProgress(i, m)
        /\ UNCHANGED electionVars /\ log' = log /\ UNCHANGED readVars
    <2>1. ~(m.term > term[i])
      BY <1>3, <1>4
    <2> QED
      BY <2>1 DEF HandleAppResp
  <1> QED
    BY <1>2, <1>4, <1>5, BackOffStep, AdvanceStep

=============================================================================
