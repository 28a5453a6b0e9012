------------------------- MODULE RaftElectionSteps --------------------------
(***************************************************************************)
(* Every step of an election, and of a heartbeat, preserves ElectionInv.   *)
(***************************************************************************)
EXTENDS RaftLemmas

\* MsgBeat (broadcastHeartbeat) preserves ElectionInv.
LEMMA BeatStep ==
  ASSUME ElectionInv, NEW i \in Server, Beat(i)
  PROVE  GoodStep(i)
  <1> DEFINE ms == broadcastHeartbeatWithCtx(i, NoCtx)
  <1>1. TypeOK /\ state[i] = Leader
    BY DEF ElectionInv, Beat
  <1>2. ms \subseteq Message /\ \A m \in ms : MsgInv(m) /\ m.type # "MsgVoteResp"
    BY <1>1, Heartbeats
  <1>3. /\ msgs' = msgs \cup ms
        /\ UNCHANGED electionVars /\ UNCHANGED logVars
        /\ UNCHANGED progressVars /\ UNCHANGED readVars
    BY DEF Beat, Send
  <1>4. ReadTypes'
    BY <1>1, <1>3, Unchanged
  <1> HIDE DEF ms
  <1> QED
    BY <1>2, <1>3, <1>4, QuietStep

\* Answering MsgPreVote preserves ElectionInv: it changes no vote and no term.
LEMMA HandlePreVoteStep ==
  ASSUME ElectionInv, NEW i \in Server, NEW m \in msgs, HandlePreVote(i, m)
  PROVE  GoodStep(i)
  <1>1. TypeOK /\ MsgInv(m) /\ m \in Message /\ m.type = "MsgPreVote"
    BY DEF ElectionInv, HandlePreVote, TypeOK
  <1>2. m.from \in Server /\ m.term \in Nat /\ term[m.from] \in Nat /\ term[i] \in Nat
    BY <1>1, MessageKinds DEF VoteRequest, TypeOK
  <1>3. PICK r \in BOOLEAN :
          msgs' = msgs \cup {[type |-> "MsgPreVoteResp", from |-> i,
                              to |-> m.from, term |-> term[i], reject |-> r]}
    BY DEF HandlePreVote, Send
  <1> DEFINE n == [type |-> "MsgPreVoteResp", from |-> i,
                   to |-> m.from, term |-> term[i], reject |-> r]
  <1>4. n \in VoteReply
    BY <1>2 DEF VoteReply
  <1>5. term[m.from] >= m.term /\ m.term >= term[i]
    BY <1>1 DEF MsgInv, HandlePreVote
  <1>6. MsgInv(n) /\ n.type # "MsgVoteResp"
    BY <1>2, <1>5 DEF MsgInv
  <1>7. /\ UNCHANGED electionVars /\ UNCHANGED logVars
        /\ UNCHANGED progressVars /\ UNCHANGED readVars
    BY DEF HandlePreVote
  <1>8. ReadTypes'
    BY <1>1, <1>7, Unchanged
  <1> DEFINE ms == {n}
  <1>9. msgs' = msgs \cup ms
    BY <1>3
  <1> HIDE DEF n
  <1>10. /\ ms \subseteq Message
         /\ \A x \in ms : MsgInv(x) /\ x.type # "MsgVoteResp"
    BY <1>4, <1>6 DEF Message
  <1> HIDE DEF ms
  <1> QED
    BY <1>7, <1>8, <1>9, <1>10, QuietStep

---------------------------------------------------------------------------
(* Elections.                                                              *)

\* becomeLeader appends one entry, and all of its parts fit together.
LEMMA BecomeLeader ==
  ASSUME TypeOK, NEW i \in Server, NEW t \in Nat \ {0}, NEW send \in BOOLEAN,
         commit[i] <= Len(log[i]), becomeLeader(i, t, send)
  PROVE  /\ LogTypes' /\ ProgressTypes'
         /\ state' = [state EXCEPT ![i] = Leader]
         /\ lead' = [lead EXCEPT ![i] = i]
         /\ granted' = [granted EXCEPT ![i] = {}]
         /\ rejected' = [rejected EXCEPT ![i] = {}]
         /\ Len(log'[i]) = Len(log[i]) + 1
         /\ commit'[i] <= Len(log'[i])
         /\ \A j \in Server \ {i} :
              /\ next'[i][j] <= Len(log'[i]) + 1
              /\ log'[j] = log[j] /\ commit'[j] = commit[j] /\ next'[j] = next[j]
         /\ msgs \subseteq msgs'
         /\ \A m \in msgs' \ msgs :
              /\ m \in Message
              /\ m.type = "MsgApp" /\ m.from = i /\ m.term = t
              /\ m.logIndex = 0 \/ m.logTerm # 0
              /\ m.logIndex + Len(m.entries) = Len(log'[i])
  <1> DEFINE l == Append(log[i], [term |-> t, data |-> NoData])
             ms == leaderMatch(i, l)
             nx == leaderNext(i, l)
             c == maybeCommit(l, ms, t, commit[i])
  <1>1. /\ log \in [Server -> Seq(Entry)] /\ commit \in [Server -> Nat]
        /\ match \in [Server -> [Server -> Nat]]
        /\ next \in [Server -> [Server -> Nat \ {0}]]
        /\ log[i] \in Seq(Entry) /\ Len(log[i]) \in Nat /\ commit[i] \in Nat
    BY LenProperties DEF TypeOK
  <1>2. [term |-> t, data |-> NoData] \in Entry
    BY DEF Entry
  <1>3. l \in Seq(Entry) /\ Len(l) = Len(log[i]) + 1
    BY <1>1, <1>2, AppendProperties
  <1> HIDE DEF l
  <1>4. ms \in [Server -> Nat]
    BY <1>1, <1>3 DEF leaderMatch, Greatest
  <1>5. /\ nx \in [Server -> Nat \ {0}]
        /\ \A j \in Server \ {i} : nx[j] = Len(log[i]) + 1
    BY <1>1, <1>3 DEF leaderNext, Greatest
  <1> HIDE DEF ms, nx
  <1>6. c \in Nat /\ (c = commit[i] \/ c \in 1..Len(l))
    BY <1>1, <1>3, <1>4, MaybeCommitRange
  <1> HIDE DEF c
  <1>7. /\ state' = [state EXCEPT ![i] = Leader]
        /\ lead' = [lead EXCEPT ![i] = i]
        /\ granted' = [granted EXCEPT ![i] = {}]
        /\ rejected' = [rejected EXCEPT ![i] = {}]
        /\ log' = [log EXCEPT ![i] = l]
        /\ commit' = [commit EXCEPT ![i] = c]
        /\ match' = [match EXCEPT ![i] = ms]
        /\ next' = [next EXCEPT ![i] = nx]
        /\ msgs' = msgs \cup (IF send THEN broadcastAppend(i, t, l, nx, c) ELSE {})
    BY DEF becomeLeader, Send, l, ms, nx, c
  <1>8. LogTypes' /\ ProgressTypes'
    BY <1>1, <1>3, <1>4, <1>5, <1>6, <1>7 DEF LogTypes, ProgressTypes
  <1>9. log'[i] = l /\ commit'[i] = c /\ next'[i] = nx
    BY <1>1, <1>7
  <1>10. commit'[i] <= Len(log'[i])
    BY <1>1, <1>3, <1>6, <1>9
  <1>11. \A j \in Server \ {i} :
           /\ next'[i][j] <= Len(log'[i]) + 1
           /\ log'[j] = log[j] /\ commit'[j] = commit[j] /\ next'[j] = next[j]
    BY <1>1, <1>3, <1>5, <1>7, <1>9
  <1>12. ASSUME NEW m \in msgs' \ msgs
         PROVE  /\ m \in Message
                /\ m.type = "MsgApp" /\ m.from = i /\ m.term = t
                /\ m.logIndex = 0 \/ m.logTerm # 0
                /\ m.logIndex + Len(m.entries) = Len(log'[i])
    <2>1. m \in broadcastAppend(i, t, l, nx, c)
      BY <1>7
    <2>2. \A j \in Server \ {i} : nx[j] <= Len(l) + 1
      BY <1>1, <1>3, <1>5
    <2> QED
      BY <1>3, <1>5, <1>6, <1>9, <2>1, <2>2, BroadcastAppend
  <1> QED
    BY <1>3, <1>7, <1>8, <1>9, <1>10, <1>11, <1>12

\* A server that becomes leader of a term in which it had not led.
LEMMA LeaderStep ==
  ASSUME ElectionInv, NEW i \in Server, state[i] # Leader,
         NEW t \in Nat \ {0}, NEW send \in BOOLEAN, becomeLeader(i, t, send),
         UNCHANGED readVars, ElectionTypes',
         term' = [term EXCEPT ![i] = t], vote' = [vote EXCEPT ![i] = i],
         t >= term[i], t = term[i] => vote[i] = i,
         NEW Q \in SUBSET Server, Cardinality(Q) >= quorum,
         \A j \in Q : j = i \/ Granted(j, i, t)
  PROVE  GoodStep(i)
  <1>1. TypeOK /\ ServerInv(i) /\ commit[i] <= Len(log[i])
    BY DEF ElectionInv, ServerInv
  <1>2. /\ LogTypes' /\ ProgressTypes'
        /\ state' = [state EXCEPT ![i] = Leader]
        /\ lead' = [lead EXCEPT ![i] = i]
        /\ granted' = [granted EXCEPT ![i] = {}]
        /\ commit'[i] <= Len(log'[i])
        /\ \A j \in Server \ {i} :
             /\ next'[i][j] <= Len(log'[i]) + 1
             /\ log'[j] = log[j] /\ commit'[j] = commit[j] /\ next'[j] = next[j]
        /\ msgs \subseteq msgs'
        /\ \A m \in msgs' \ msgs :
             /\ m \in Message
             /\ m.type = "MsgApp" /\ m.from = i /\ m.term = t
             /\ m.logIndex = 0 \/ m.logTerm # 0
             /\ m.logIndex + Len(m.entries) = Len(log'[i])
    BY <1>1, BecomeLeader
  <1>3. /\ term \in [Server -> Nat \ {0}] /\ vote \in [Server -> Server \cup {None}]
        /\ state \in [Server -> {Follower, PreCandidate, Candidate, Leader}]
        /\ lead \in [Server -> Server \cup {None}]
        /\ granted \in [Server -> SUBSET Server]
        /\ msgs \subseteq Message
    BY <1>1 DEF TypeOK
  <1>4. /\ term'[i] = t /\ vote'[i] = i /\ state'[i] = Leader /\ lead'[i] = i
        /\ \A j \in Server \ {i} :
             /\ term'[j] = term[j] /\ vote'[j] = vote[j] /\ state'[j] = state[j]
             /\ lead'[j] = lead[j] /\ granted'[j] = granted[j]
    BY <1>2, <1>3
  <1>5. TypeOK'
    <2>1. ReadTypes'
      BY <1>1, Unchanged
    <2>2. msgs' \subseteq Message
      BY <1>2, <1>3
    <2> QED
      BY <1>2, <2>1, <2>2, TypePartsPrimed
  <1>6. Kept(i)
    BY <1>2, <1>4 DEF Kept
  <1>7. ASSUME NEW m \in msgs' \ msgs
        PROVE  MsgInv(m)' /\ m.type # "MsgVoteResp"
    BY <1>2, <1>4, <1>5, AppendMsgInv
  <1>8. ServerInv(i)'
    <2>1. \A j \in Q : j = i \/ Granted(j, i, term[i])'
      BY <1>2, <1>4 DEF Granted
    <2>2. Led(lead[i], term[i])'
      BY <1>4 DEF Led
    <2> QED
      BY <1>2, <1>4, <2>1, <2>2 DEF ServerInv, Leader, Candidate
  <1> QED
    BY <1>5, <1>6, <1>7, <1>8 DEF GoodStep

\* campaign sends well-typed vote requests that carry the candidate's log end.
LEMMA VoteRequests ==
  ASSUME TypeOK, NEW i \in Server, NEW t \in Nat,
         NEW type \in {"MsgVote", "MsgPreVote"}, NEW m \in voteRequests(i, type, t)
  PROVE  m \in Message /\ m.type = type /\ m.from = i /\ m.term = t
  <1>1. PICK j \in Server :
          m = [type |-> type, from |-> i, to |-> j, term |-> t,
               logIndex |-> Len(log[i]), logTerm |-> LastTerm(log[i])]
    BY DEF voteRequests
  <1>2. log[i] \in Seq(Entry)
    BY DEF TypeOK
  <1>3. Len(log[i]) \in Nat /\ LastTerm(log[i]) \in Nat
    BY <1>2, LastTermType, LenProperties
  <1>4. m \in VoteRequest
    BY <1>1, <1>3 DEF VoteRequest
  <1> QED
    BY <1>1, <1>4 DEF Message

\* campaign(campaignElection) preserves ElectionInv.
LEMMA CampaignStep ==
  ASSUME ElectionInv, NEW i \in Server, state[i] # Leader,
         campaignElection(i), UNCHANGED readVars
  PROVE  GoodStep(i)
  <1> DEFINE t == term[i] + 1
  <1>0. TypeOK /\ ServerInv(i) /\ ElectionTypes
    BY TypeParts DEF ElectionInv
  <1>1. t \in Nat \ {0} /\ t > term[i] /\ term[i] \in Nat
    BY <1>0 DEF ElectionTypes
  <1>2. term' = [term EXCEPT ![i] = t] /\ vote' = [vote EXCEPT ![i] = i]
    BY <1>0 DEF campaignElection, ElectionTypes
  <1>3. CASE quorum = 1
    <2>1. becomeLeader(i, t, FALSE)
      BY <1>3 DEF campaignElection
    <2> HIDE DEF t
    <2>2. ElectionTypes'
      <3>1. /\ state' = [state EXCEPT ![i] = Leader]
            /\ lead' = [lead EXCEPT ![i] = i]
            /\ granted' = [granted EXCEPT ![i] = {}]
            /\ rejected' = [rejected EXCEPT ![i] = {}]
        BY <2>1 DEF becomeLeader
      <3> QED
        BY <1>0, <1>1, <1>2, <3>1 DEF ElectionTypes
    <2> DEFINE Q == {i}
    <2>3. Q \in SUBSET Server /\ Cardinality(Q) >= quorum
      BY <1>3, FS_Singleton
    <2>4. \A j \in Q : j = i \/ Granted(j, i, t)
      OBVIOUS
    <2> HIDE DEF Q
    <2>5. t >= term[i] /\ t # term[i]
      BY <1>1
    <2>6. PICK send \in BOOLEAN : becomeLeader(i, t, send)
      BY <2>1
    <2> QED
      BY <1>1, <1>2, <2>2, <2>3, <2>4, <2>5, <2>6, LeaderStep
  <1>4. CASE quorum # 1
    <2>1. /\ state' = [state EXCEPT ![i] = Candidate]
          /\ lead' = [lead EXCEPT ![i] = None]
          /\ granted' = [granted EXCEPT ![i] = {i}]
          /\ rejected' = [rejected EXCEPT ![i] = {}]
          /\ msgs' = msgs \cup voteRequests(i, "MsgVote", t)
          /\ UNCHANGED logVars /\ UNCHANGED progressVars
      BY <1>4 DEF campaignElection, Send
    <2> HIDE DEF t
    <2>2. ElectionTypes'
      BY <1>0, <1>1, <1>2, <2>1 DEF ElectionTypes
    <2>3. /\ term'[i] = t /\ vote'[i] = i /\ state'[i] = Candidate
          /\ lead'[i] = None /\ granted'[i] = {i}
          /\ \A j \in Server \ {i} :
               /\ term'[j] = term[j] /\ vote'[j] = vote[j] /\ state'[j] = state[j]
               /\ lead'[j] = lead[j] /\ granted'[j] = granted[j]
      BY <1>0, <1>2, <2>1 DEF ElectionTypes
    <2>4. \A m \in msgs' \ msgs :
            m \in Message /\ m.type = "MsgVote" /\ m.from = i /\ m.term = t
      BY <1>0, <1>1, <2>1, VoteRequests
    <2>5. TypeOK'
      <3>1. msgs' \subseteq Message
        BY <1>0, <2>4 DEF TypeOK
      <3> QED
        BY <1>0, <2>1, <2>2, <3>1, Unchanged, TypePartsPrimed
    <2>6. Kept(i)
      BY <1>1, <2>1, <2>3 DEF Kept, logVars, progressVars
    <2>7. ASSUME NEW m \in msgs' \ msgs
          PROVE  MsgInv(m)' /\ m.type # "MsgVoteResp"
      BY <1>1, <2>3, <2>4 DEF MsgInv
    <2>8. ServerInv(i)'
      BY <1>0, <2>1, <2>3 DEF ServerInv, logVars, Candidate, Leader
    <2> QED
      BY <2>5, <2>6, <2>7, <2>8 DEF GoodStep
  <1> QED
    BY <1>3, <1>4

\* campaign(campaignPreElection) preserves ElectionInv.
LEMMA PreCampaignStep ==
  ASSUME ElectionInv, NEW i \in Server, state[i] # Leader,
         campaignPreElection(i), UNCHANGED readVars
  PROVE  GoodStep(i)
  <1>0. TypeOK /\ ServerInv(i) /\ ElectionTypes
    BY TypeParts DEF ElectionInv
  <1>1. /\ state' = [state EXCEPT ![i] = PreCandidate]
        /\ granted' = [granted EXCEPT ![i] = {i}]
        /\ rejected' = [rejected EXCEPT ![i] = {}]
        /\ msgs' = msgs \cup voteRequests(i, "MsgPreVote", term[i])
        /\ term' = term /\ vote' = vote /\ lead' = lead
        /\ UNCHANGED logVars /\ UNCHANGED progressVars
    BY DEF campaignPreElection, Send
  <1>2. ElectionTypes' /\ term[i] \in Nat
    BY <1>0, <1>1 DEF ElectionTypes
  <1>3. /\ state'[i] = PreCandidate
        /\ \A j \in Server \ {i} :
             state'[j] = state[j] /\ granted'[j] = granted[j]
    BY <1>0, <1>1 DEF ElectionTypes
  <1>4. \A m \in msgs' \ msgs :
          m \in Message /\ m.type = "MsgPreVote" /\ m.from = i /\ m.term = term[i]
    BY <1>0, <1>1, <1>2, VoteRequests
  <1>5. TypeOK'
    <2>1. msgs' \subseteq Message
      BY <1>0, <1>4 DEF TypeOK
    <2> QED
      BY <1>0, <1>1, <1>2, <2>1, Unchanged, TypePartsPrimed
  <1>6. Kept(i)
    BY <1>1, <1>2, <1>3 DEF Kept, logVars, progressVars
  <1>7. ASSUME NEW m \in msgs' \ msgs
        PROVE  MsgInv(m)' /\ m.type # "MsgVoteResp"
    BY <1>1, <1>2, <1>4 DEF MsgInv
  <1>8. ServerInv(i)'
    <2>1. lead'[i] = None \/ \E l \in Server, t \in Nat :
                               lead'[i] = l /\ term'[i] = t /\ Led(l, t)
      BY <1>0, <1>1, <1>2 DEF ServerInv, ElectionTypes
    <2>2. commit'[i] <= Len(log'[i]) /\ state'[i] \notin {Candidate, Leader}
      BY <1>0, <1>1, <1>3
      DEF ServerInv, logVars, PreCandidate, Candidate, Leader
    <2> QED
      BY <1>0, <1>5, <1>6, <2>1, <2>2, FollowerInv
  <1> QED
    BY <1>5, <1>6, <1>7, <1>8 DEF GoodStep

\* MsgHup, with and without pre-vote, preserves ElectionInv.
LEMMA HupStep ==
  ASSUME ElectionInv, NEW i \in Server, Hup(i)
  PROVE  GoodStep(i)
  BY CampaignStep, PreCampaignStep DEF Hup

\* Answering MsgVote preserves ElectionInv: a vote of a term is never replaced.
LEMMA HandleVoteStep ==
  ASSUME ElectionInv, NEW i \in Server, NEW m \in msgs, HandleVote(i, m)
  PROVE  GoodStep(i)
  <1> DEFINE v == steppedVote(i, m)
  <1>0. TypeOK /\ ServerInv(i) /\ MsgInv(m) /\ ElectionTypes
    BY TypeParts DEF ElectionInv
  <1>1. m \in Message /\ m.type = "MsgVote" /\ m.term >= term[i]
    BY <1>0 DEF HandleVote, TypeOK
  <1>2. /\ m.from \in Server /\ m.term \in Nat
        /\ term[i] \in Nat \ {0} /\ m.term \in Nat \ {0}
    BY <1>0, <1>1, MessageKinds DEF VoteRequest, ElectionTypes
  <1>3. PICK grant \in BOOLEAN :
          /\ grant => v \in {None, m.from}
          /\ vote' = [vote EXCEPT ![i] = IF grant THEN m.from ELSE v]
          /\ msgs' = msgs \cup {[type |-> "MsgVoteResp", from |-> i, to |-> m.from,
                                 term |-> m.term, reject |-> ~grant]}
    BY DEF HandleVote, Send
  <1> DEFINE n == [type |-> "MsgVoteResp", from |-> i, to |-> m.from,
                   term |-> m.term, reject |-> ~grant]
  <1>4. n \in VoteReply
    BY <1>2 DEF VoteReply
  <1>5. /\ term' = [term EXCEPT ![i] = m.term]
        /\ state' = [state EXCEPT ![i] = steppedState(i, m)]
        /\ lead' = [lead EXCEPT ![i] = steppedLead(i, m)]
        /\ granted' = [granted EXCEPT ![i] = IF m.term > term[i] THEN {} ELSE @]
        /\ rejected' = [rejected EXCEPT ![i] = IF m.term > term[i] THEN {} ELSE @]
        /\ UNCHANGED logVars /\ UNCHANGED progressVars /\ UNCHANGED readVars
    BY DEF HandleVote
  <1>6. /\ v \in Server \cup {None}
        /\ steppedState(i, m) \in {Follower, PreCandidate, Candidate, Leader}
        /\ steppedLead(i, m) \in Server \cup {None}
    BY <1>0 DEF steppedVote, steppedState, steppedLead, ElectionTypes
  <1>7. ElectionTypes'
    BY <1>0, <1>2, <1>3, <1>5, <1>6 DEF ElectionTypes
  <1>8. /\ term'[i] = m.term /\ state'[i] = steppedState(i, m)
        /\ lead'[i] = steppedLead(i, m)
        /\ vote'[i] = IF grant THEN m.from ELSE v
        /\ granted'[i] = IF m.term > term[i] THEN {} ELSE granted[i]
        /\ \A j \in Server \ {i} :
             /\ term'[j] = term[j] /\ vote'[j] = vote[j] /\ state'[j] = state[j]
             /\ lead'[j] = lead[j] /\ granted'[j] = granted[j]
    BY <1>0, <1>3, <1>5 DEF ElectionTypes
  <1>9. TypeOK'
    <2>1. msgs' \subseteq Message
      BY <1>0, <1>3, <1>4 DEF TypeOK, Message
    <2> QED
      BY <1>0, <1>5, <1>7, <2>1, Unchanged, TypePartsPrimed
  <1>10. m.term = term[i] =>
           /\ state'[i] = state[i] /\ lead'[i] = lead[i] /\ granted'[i] = granted[i]
           /\ v = vote[i]
    BY <1>2, <1>8 DEF steppedState, steppedLead, steppedVote
  <1>11. Kept(i)
    BY <1>1, <1>2, <1>3, <1>5, <1>8, <1>10 DEF Kept, logVars, progressVars
  <1>12. ASSUME NEW x \in msgs' \ msgs
         PROVE  MsgInv(x)' /\ (~x.reject => term'[x.from] = x.term)
    <2>1. x = n
      BY <1>3
    <2>2. term'[m.from] >= m.term
      <3>1. term[m.from] >= m.term
        BY <1>0, <1>1 DEF MsgInv
      <3>2. term'[m.from] >= term[m.from] /\ term[m.from] \in Nat /\ term'[m.from] \in Nat
        BY <1>0, <1>2, <1>9, <1>11, KeptAt
      <3> QED
        BY <1>2, <3>1, <3>2
    <2> QED
      BY <1>8, <2>1, <2>2 DEF MsgInv
  <1>13. ServerInv(i)'
    <2>1. CASE m.term = term[i] /\ vote'[i] = vote[i]
      <3>1. /\ log'[i] = log[i] /\ commit'[i] = commit[i] /\ next'[i] = next[i]
        BY <1>5 DEF logVars, progressVars
      <3> QED
        BY <1>0, <1>8, <1>9, <1>10, <1>11, <2>1, <3>1, ServerInvKept
    <2>2. CASE m.term # term[i] \/ vote'[i] # vote[i]
      <3>1. state'[i] \notin {Candidate, Leader}
        <4>1. CASE m.term # term[i]
          BY <1>1, <1>2, <1>8, <4>1
          DEF steppedState, Follower, Candidate, Leader
        <4>2. CASE m.term = term[i]
          BY <1>0, <1>3, <1>8, <1>10, <2>2, <4>2, RaftAssumption DEF ServerInv
        <4> QED
          BY <4>1, <4>2
      <3>2. lead'[i] = None \/ \E l \in Server, t \in Nat :
                                 lead'[i] = l /\ term'[i] = t /\ Led(l, t)
        <4>1. CASE m.term # term[i]
          BY <1>1, <1>2, <1>8, <4>1 DEF steppedLead
        <4>2. CASE m.term = term[i]
          BY <1>0, <1>2, <1>8, <1>10, <4>2 DEF ServerInv, ElectionTypes
        <4> QED
          BY <4>1, <4>2
      <3>3. commit'[i] <= Len(log'[i])
        BY <1>0, <1>5 DEF ServerInv, logVars
      <3> QED
        BY <1>0, <1>9, <1>11, <3>1, <3>2, <3>3, FollowerInv
    <2> QED
      BY <2>1, <2>2
  <1> QED
    BY <1>9, <1>11, <1>12, <1>13 DEF GoodStep

\* stepCandidate gives up.
LEMMA LossStep ==
  ASSUME ElectionInv, NEW i \in Server, state[i] # Leader,
         becomeFollower(i, term[i], None), UNCHANGED logVars,
         UNCHANGED progressVars, UNCHANGED readVars, msgs' = msgs
  PROVE  GoodStep(i)
  <1>0. TypeOK /\ ServerInv(i) /\ term[i] \in Nat
    BY DEF ElectionInv, TypeOK
  <1>1. /\ ElectionTypes'
        /\ term'[i] = term[i] /\ state'[i] = Follower /\ lead'[i] = None
        /\ vote'[i] = vote[i]
        /\ \A j \in Server \ {i} :
             /\ term'[j] = term[j] /\ vote'[j] = vote[j]
             /\ state'[j] = state[j] /\ lead'[j] = lead[j]
             /\ granted'[j] = granted[j]
    <2> DEFINE t == term[i]
               l == None
    <2>1. t \in Nat /\ t >= term[i] /\ l \in Server \cup {None}
      BY <1>0
    <2>2. becomeFollower(i, t, l)
      OBVIOUS
    <2>3. (t = term[i] => state[i] # Leader) /\ t = term[i] /\ l = None
      OBVIOUS
    <2> HIDE DEF t, l
    <2> QED
      BY <1>0, <2>1, <2>2, <2>3, BecomeFollower
  <1>2. TypeOK'
    <2>1. msgs' \subseteq Message
      BY <1>0 DEF TypeOK
    <2> QED
      BY <1>0, <1>1, <2>1, Unchanged, TypePartsPrimed
  <1>3. Kept(i)
    BY <1>0, <1>1 DEF Kept, logVars, progressVars
  <1>4. commit'[i] <= Len(log'[i]) /\ state'[i] \notin {Candidate, Leader}
    BY <1>0, <1>1 DEF ServerInv, logVars, Follower, Candidate, Leader
  <1>5. ServerInv(i)'
    BY <1>0, <1>1, <1>2, <1>3, <1>4, FollowerInv
  <1> QED
    BY <1>2, <1>3, <1>5 DEF GoodStep

\* A candidate counts only grants of its own term.
LEMMA PolledGrants ==
  ASSUME ElectionInv, NEW i \in Server, NEW m \in msgs, m.to = i,
         m.type = "MsgVoteResp", m.term = term[i], state[i] = Candidate
  PROVE  /\ polledGranted(i, m) \in SUBSET Server
         /\ \A j \in polledGranted(i, m) : j = i \/ Granted(j, i, term[i])
  <1>1. ServerInv(i) /\ granted[i] \in SUBSET Server /\ m \in Message
    BY DEF ElectionInv, TypeOK
  <1>2. m.from \in Server
    BY <1>1, MessageKinds DEF VoteReply
  <1>3. ~m.reject => Granted(m.from, i, term[i])
    BY DEF Granted
  <1> QED
    BY <1>1, <1>2, <1>3 DEF polledGranted, ServerInv

\* poll only records grants that were given in the candidate's term.
LEMMA RecordStep ==
  ASSUME ElectionInv, NEW i \in Server, NEW m \in msgs, m.to = i,
         m.type \in {"MsgVoteResp", "MsgPreVoteResp"},
         \/ state[i] = PreCandidate
         \/ /\ state[i] = Candidate
            /\ m.type = "MsgVoteResp" /\ m.term = term[i],
         recordVote(i, m), UNCHANGED readVars
  PROVE  GoodStep(i)
  <1>0. TypeOK /\ ServerInv(i) /\ ElectionTypes /\ m \in Message
    BY TypeParts DEF ElectionInv, TypeOK
  <1>1. m.from \in Server
    BY <1>0, MessageKinds DEF VoteReply
  <1>2. /\ granted' = [granted EXCEPT ![i] = polledGranted(i, m)]
        /\ rejected' = [rejected EXCEPT ![i] = polledRejected(i, m)]
        /\ term' = term /\ vote' = vote /\ state' = state /\ lead' = lead
        /\ UNCHANGED logVars /\ UNCHANGED progressVars /\ msgs' = msgs
    BY DEF recordVote
  <1>3. polledGranted(i, m) \in SUBSET Server /\ polledRejected(i, m) \in SUBSET Server
    BY <1>0, <1>1 DEF polledGranted, polledRejected, ElectionTypes
  <1>4. ElectionTypes'
    BY <1>0, <1>2, <1>3 DEF ElectionTypes
  <1>5. /\ granted'[i] = polledGranted(i, m)
        /\ \A j \in Server \ {i} : granted'[j] = granted[j]
        /\ term[i] \in Nat
    BY <1>0, <1>2 DEF ElectionTypes
  <1>6. TypeOK'
    <2>1. msgs' \subseteq Message
      BY <1>0, <1>2 DEF TypeOK
    <2> QED
      BY <1>0, <1>2, <1>4, <2>1, Unchanged, TypePartsPrimed
  <1>7. Kept(i)
    BY <1>2, <1>5 DEF Kept, logVars, progressVars
  <1>8. ServerInv(i)'
    <2>1. CASE state[i] = PreCandidate
      <3>1. lead'[i] = None \/ \E l \in Server, t \in Nat :
                                 lead'[i] = l /\ term'[i] = t /\ Led(l, t)
        BY <1>0, <1>2, <1>5 DEF ServerInv, ElectionTypes
      <3>2. commit'[i] <= Len(log'[i]) /\ state'[i] \notin {Candidate, Leader}
        BY <1>0, <1>2, <2>1
        DEF ServerInv, logVars, PreCandidate, Candidate, Leader
      <3> QED
        BY <1>0, <1>6, <1>7, <3>1, <3>2, FollowerInv
    <2>2. CASE state[i] = Candidate
      <3>1. m.type = "MsgVoteResp" /\ m.term = term[i]
        BY <2>2 DEF PreCandidate, Candidate
      <3>2. \A j \in granted'[i] : j = i \/ Granted(j, i, term[i])
        BY <1>5, <2>2, <3>1, PolledGrants
      <3>3. \A j \in granted'[i] : j = i \/ Granted(j, i, term[i])'
        BY <1>2, <3>2 DEF Granted
      <3>4. lead[i] # None => Led(lead[i], term[i])'
        BY <1>0, <1>2 DEF ServerInv, Led
      <3> QED
        BY <1>0, <1>2, <2>2, <3>3, <3>4
        DEF ServerInv, logVars, Candidate, Leader
    <2> QED
      BY <2>1, <2>2
  <1> QED
    BY <1>2, <1>6, <1>7, <1>8 DEF GoodStep

\* MsgVoteResp preserves ElectionInv, the quorum that elects included.
LEMMA HandleVoteRespStep ==
  ASSUME ElectionInv, NEW i \in Server, NEW m \in msgs, HandleVoteResp(i, m)
  PROVE  GoodStep(i)
  <1>0. TypeOK /\ ServerInv(i) /\ MsgInv(m) /\ ElectionTypes /\ m \in Message
    BY TypeParts DEF ElectionInv, TypeOK
  <1>1. m.type = "MsgVoteResp" /\ m.to = i /\ m.term >= term[i]
    BY DEF HandleVoteResp
  <1>2. m.term \in Nat /\ term[i] \in Nat \ {0}
    BY <1>0, <1>1, MessageKinds DEF VoteReply, ElectionTypes
  <1>3. m.term = term[i]
    BY <1>0, <1>1, <1>2 DEF MsgInv
  <1>4. /\ state[i] = Candidate
        /\ \/ /\ Cardinality(polledGranted(i, m)) = quorum
              /\ becomeLeader(i, term[i], TRUE) /\ term' = term /\ vote' = vote
           \/ /\ becomeFollower(i, term[i], None)
              /\ UNCHANGED <<logVars, progressVars, msgs>>
           \/ recordVote(i, m)
        /\ UNCHANGED readVars
    <2>1. ~(m.term > term[i])
      BY <1>2, <1>3
    <2> QED
      BY <2>1 DEF HandleVoteResp, countVote
  <1>5. state[i] # Leader /\ vote[i] = i
    BY <1>0, <1>4 DEF ServerInv, Candidate, Leader
  <1>6. CASE /\ Cardinality(polledGranted(i, m)) = quorum
             /\ becomeLeader(i, term[i], TRUE) /\ term' = term /\ vote' = vote
    <2> DEFINE Q == polledGranted(i, m)
               t == term[i]
    <2>1. becomeLeader(i, t, TRUE) /\ term' = term /\ vote' = vote
      BY <1>6
    <2>2. Q \in SUBSET Server /\ \A j \in Q : j = i \/ Granted(j, i, t)
      BY <1>1, <1>3, <1>4, PolledGrants
    <2>3. quorum \in Nat
      BY RaftAssumption, FS_CardinalityType DEF quorum
    <2>4. Cardinality(Q) >= quorum
      BY <1>6, <2>3
    <2>5. t \in Nat \ {0} /\ t >= term[i]
      BY <1>2
    <2>6. term' = [term EXCEPT ![i] = t] /\ vote' = [vote EXCEPT ![i] = i]
      BY <1>0, <1>5, <2>1 DEF ElectionTypes
    <2>7. ElectionTypes'
      <3>1. /\ state' = [state EXCEPT ![i] = Leader]
            /\ lead' = [lead EXCEPT ![i] = i]
            /\ granted' = [granted EXCEPT ![i] = {}]
            /\ rejected' = [rejected EXCEPT ![i] = {}]
        BY <2>1 DEF becomeLeader
      <3> QED
        BY <1>0, <2>1, <3>1 DEF ElectionTypes
    <2>8. PICK send \in BOOLEAN : becomeLeader(i, t, send)
      BY <2>1
    <2> HIDE DEF Q, t
    <2> QED
      BY <1>4, <1>5, <2>2, <2>4, <2>5, <2>6, <2>7, <2>8, LeaderStep
  <1>7. CASE /\ becomeFollower(i, term[i], None)
             /\ UNCHANGED <<logVars, progressVars, msgs>>
    BY <1>4, <1>5, <1>7, LossStep
  <1>8. CASE recordVote(i, m)
    BY <1>1, <1>3, <1>4, <1>8, RecordStep
  <1> QED
    BY <1>4, <1>6, <1>7, <1>8

\* MsgPreVoteResp preserves ElectionInv, the start of the real election included.
LEMMA HandlePreVoteRespStep ==
  ASSUME ElectionInv, NEW i \in Server, NEW m \in msgs, HandlePreVoteResp(i, m)
  PROVE  GoodStep(i)
  <1>0. TypeOK /\ MsgInv(m) /\ m \in Message
    BY DEF ElectionInv, TypeOK
  <1>1. m.type = "MsgPreVoteResp" /\ m.to = i /\ m.term >= term[i]
    BY DEF HandlePreVoteResp
  <1>2. m.term \in Nat /\ term[i] \in Nat
    BY <1>0, <1>1, MessageKinds DEF VoteReply, TypeOK
  <1>3. ~(m.term > term[i])
    BY <1>0, <1>1, <1>2 DEF MsgInv
  <1>4. /\ state[i] = PreCandidate
        /\ countVote(i, m, campaignElection(i))
        /\ UNCHANGED readVars
    BY <1>3 DEF HandlePreVoteResp
  <1>5. state[i] # Leader
    BY <1>4 DEF PreCandidate, Leader
  <1>6. CASE campaignElection(i)
    BY <1>4, <1>5, <1>6, CampaignStep
  <1>7. CASE /\ becomeFollower(i, term[i], None)
             /\ UNCHANGED <<logVars, progressVars, msgs>>
    BY <1>4, <1>5, <1>7, LossStep
  <1>8. CASE recordVote(i, m)
    BY <1>1, <1>4, <1>8, RecordStep
  <1> QED
    BY <1>4, <1>6, <1>7, <1>8 DEF countVote

=============================================================================
