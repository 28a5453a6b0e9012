----------------------------- MODULE TCCProofs ------------------------------
(***************************************************************************)
(* The transactions of TCC are atomic for any number of components, as     *)
(* long as nothing is decided on a copy that the timeout has overtaken.    *)
(***************************************************************************)
EXTENDS TCC, TLAPS

TryStatus == {"hanging", "successful", "failure"}

TypeInv ==
  /\ try \in [Component -> TryStatus]
  /\ view \in [Party -> [Component -> TryStatus]]
  /\ expired \in BOOLEAN /\ result \in BOOLEAN
  /\ success \in [Party -> BOOLEAN]
  /\ pc \in [Party -> {"try", "read", "decide", "work", "end"}]
  /\ trying \in [Component -> {"idle", "try", "successful", "failure", "ok",
                               "failed", "gone"}]

\* What the record and the clock say of the transaction.
verdict == getStatus(try, expired)

\* A goroutine reports "ok" only what the record holds.
Logged ==
  \A c \in Component :
    /\ trying[c] \in {"idle", "try", "successful", "failure"} => try[c] = "hanging"
    /\ trying[c] = "ok" => try[c] = "successful"

\* The copy is behind the record, but not after the timeout.
Current ==
  \A a \in Party : pc[a] = "decide" =>
    /\ \A c \in Component : view[a][c] \in {"hanging", try[c]}
    /\ expired => view[a] = try

\* Both parties act on the verdict, and so do the effects.
Agreed ==
  /\ \A a \in Party : pc[a] = "work" =>
       verdict = IF success[a] THEN "successful" ELSE "failure"
  /\ confirmed # {} => verdict = "successful"
  /\ released # {} => verdict = "failure"
  /\ result => verdict = "successful"

\* No goroutine runs before CreateTX.
Fresh == status = "none" => \A c \in Component : trying[c] = "idle"

TCCInv == TypeInv /\ Logged /\ Current /\ Agreed /\ Fresh

\* getStatus does not change its mind: a later copy of the record gives the
\* same status, if only what was hanging has changed, and nothing after the
\* timeout.
LEMMA StatusFinal ==
  ASSUME NEW t \in [Component -> TryStatus], NEW u \in [Component -> TryStatus],
         NEW e \in BOOLEAN, NEW f \in BOOLEAN,
         \A c \in Component : t[c] \in {"hanging", u[c]},
         e => f /\ u = t,
         getStatus(t, e) # "hanging"
  PROVE  getStatus(u, f) = getStatus(t, e)
  <1>1. CASE \E c \in Component : t[c] = "failure"
    <2>1. \E c \in Component : u[c] = "failure"
      BY <1>1
    <2> QED
      BY <1>1, <2>1 DEF getStatus
  <1>2. CASE \A c \in Component : t[c] = "successful"
    <2>1. \A c \in Component : u[c] = "successful"
      BY <1>2
    <2> QED
      BY <1>2, <2>1 DEF getStatus
  <1>3. CASE e
    BY <1>3
  <1> QED
    BY <1>1, <1>2, <1>3 DEF getStatus, TryStatus

\* A step that leaves the record and the clock alone, or lets them go on as
\* StatusFinal wants it, keeps to a verdict once there is one.
LEMMA VerdictFinal ==
  ASSUME TypeInv, TypeInv',
         \A c \in Component : try[c] \in {"hanging", try'[c]},
         expired => expired' /\ try' = try,
         verdict # "hanging"
  PROVE  verdict' = verdict
  <1>1. /\ try \in [Component -> TryStatus] /\ try' \in [Component -> TryStatus]
        /\ expired \in BOOLEAN /\ expired' \in BOOLEAN
    BY DEF TypeInv
  <1>2. getStatus(try', expired') = getStatus(try, expired)
    BY <1>1, StatusFinal DEF verdict
  <1> QED
    BY <1>2 DEF verdict, getStatus

\* The calls of Transaction, up to the point where all Try calls are done.
LEMMA TransactionInv ==
  ASSUME TCCInv, ~Delays,
         CreateTX \/ (\E c \in Component : Try(c) \/ TXUpdate(c))
           \/ AllReported \/ Crash \/ Expire
  PROVE  TCCInv'
  <1>t. TypeInv'
    <2>1. CASE CreateTX
      BY <2>1 DEF CreateTX, TCCInv, TypeInv, TryStatus, advanceVars
    <2>2. CASE \E c \in Component : Try(c)
      BY <2>2 DEF Try, TCCInv, TypeInv, advanceVars, recordVars
    <2>3. CASE \E c \in Component : TXUpdate(c)
      <3>1. PICK c \in Component : TXUpdate(c)
        BY <2>3
      <3>2. try' \in [Component -> TryStatus]
        BY <3>1 DEF TXUpdate, TCCInv, TypeInv, TryStatus
      <3> QED
        BY <3>1, <3>2 DEF TXUpdate, TCCInv, TypeInv, advanceVars
    <2>4. CASE AllReported
      BY <2>4 DEF AllReported, TCCInv, TypeInv, recordVars, Party
    <2>5. CASE Crash
      BY <2>5 DEF Crash, TCCInv, TypeInv, recordVars, Party
    <2>6. CASE Expire
      BY <2>6 DEF Expire, TCCInv, TypeInv, recordVars, advanceVars
    <2> QED
      BY <2>1, <2>2, <2>3, <2>4, <2>5, <2>6
  <1>u. ASSUME NEW c \in Component, TXUpdate(c)
        PROVE  /\ ~expired \/ try' = try
               /\ try' = try \/ (try[c] = "hanging" /\ try' = [try EXCEPT ![c] = trying[c]])
    BY <1>u DEF TXUpdate, TCCInv, TypeInv, Logged
  <1>1. /\ \A c \in Component : try[c] \in {"hanging", try'[c]}
        /\ expired => expired' /\ try' = try
    <2>1. CASE CreateTX
      BY <2>1 DEF CreateTX, TCCInv, TypeInv, Fresh, Logged
    <2>2. CASE \E c \in Component : TXUpdate(c)
      <3>1. PICK c \in Component : TXUpdate(c)
        BY <2>2
      <3> QED
        BY <3>1, <1>u DEF TXUpdate, TCCInv, TypeInv
    <2>3. CASE (\E c \in Component : Try(c)) \/ AllReported \/ Crash \/ Expire
      BY <2>3 DEF Try, AllReported, Crash, Expire, recordVars
    <2> QED
      BY <2>1, <2>2, <2>3
  <1>2. verdict # "hanging" => verdict' = verdict
    BY <1>1, <1>t, VerdictFinal DEF TCCInv
  <1>3. Agreed'
    <2>1. /\ UNCHANGED <<success, confirmed, released, result>>
          /\ \A a \in Party : pc'[a] = "work" => pc[a] = "work"
      BY DEF CreateTX, Try, TXUpdate, AllReported, Crash, Expire, advanceVars,
             historyVars, TCCInv, TypeInv, Party
    <2> QED
      BY <1>2, <2>1 DEF TCCInv, Agreed
  <1>4. Logged'
    <2>1. CASE CreateTX
      BY <2>1 DEF CreateTX, Logged
    <2>2. CASE \E c \in Component : Try(c)
      BY <2>2 DEF Try, Logged, TCCInv, TypeInv, recordVars
    <2>3. CASE \E c \in Component : TXUpdate(c)
      BY <2>3 DEF TXUpdate, report, Logged, TCCInv, TypeInv
    <2>4. CASE Crash
      BY <2>4 DEF Crash, Logged, recordVars
    <2>5. CASE AllReported \/ Expire
      BY <2>5 DEF AllReported, Expire, Logged, TCCInv, recordVars
    <2> QED
      BY <2>1, <2>2, <2>3, <2>4, <2>5
  <1>5. Current'
    <2>1. CASE Expire
      BY <2>1 DEF Expire, Current, recordVars, advanceVars
    <2>2. CASE ~Expire
      <3>1. /\ UNCHANGED <<view, expired>>
            /\ \A a \in Party : pc'[a] = "decide" => pc[a] = "decide"
        BY <2>2 DEF CreateTX, Try, TXUpdate, AllReported, Crash, advanceVars,
                    TCCInv, TypeInv, Party
      <3> QED
        BY <1>1, <3>1 DEF TCCInv, Current
    <2> QED
      BY <2>1, <2>2
  <1>6. Fresh'
    <2>1. CASE CreateTX
      BY <2>1 DEF CreateTX, Fresh
    <2>2. CASE \E c \in Component : Try(c) \/ TXUpdate(c)
      BY <2>2 DEF Try, TXUpdate, Fresh, TCCInv, recordVars
    <2>3. CASE AllReported \/ Crash \/ Expire
      BY <2>3 DEF AllReported, Crash, Expire, Fresh, TCCInv, recordVars
    <2> QED
      BY <2>1, <2>2, <2>3
  <1> QED
    BY <1>t, <1>3, <1>4, <1>5, <1>6 DEF TCCInv

\* A call of advanceProgress, by either party.
LEMMA AdvanceInv ==
  ASSUME TCCInv, NEW a \in Party, Advance(a)
  PROVE  TCCInv'
  <1>0. TypeInv /\ Logged /\ Current /\ Agreed /\ Fresh
    BY DEF TCCInv
  <1>r. ASSUME through(a), UNCHANGED <<try, expired>>
        PROVE  /\ result' \in BOOLEAN
               /\ result' => verdict = "successful"
    <2>1. CASE a = "transaction" /\ \A c \in Component : trying[c] = "ok"
      <3>1. \A c \in Component : try[c] = "successful"
        BY <2>1, <1>0 DEF Logged
      <3>2. verdict = "successful"
        BY <3>1 DEF verdict, getStatus
      <3> QED
        BY <1>r, <2>1, <3>2 DEF through
    <2>2. CASE a = "transaction" /\ ~(\A c \in Component : trying[c] = "ok")
      BY <1>r, <2>2 DEF through
    <2>3. CASE a # "transaction"
      BY <1>r, <2>3, <1>0 DEF through, TypeInv, Agreed
    <2> QED
      BY <2>1, <2>2, <2>3
  <1>p. ASSUME through(a)
        PROVE  /\ pc' \in [Party -> {"try", "read", "decide", "work", "end"}]
               /\ \A b \in Party : pc'[b] \in {"decide", "work"} => pc'[b] = pc[b]
    BY <1>p, <1>0 DEF through, TypeInv, Party
  <1>1. CASE Read(a)
    <2>1. UNCHANGED <<status, try, expired, trying, success, confirmed, released>>
      BY <1>1 DEF Read, recordVars, historyVars
    <2>2. CASE through(a) /\ UNCHANGED view
      BY <2>1, <2>2, <1>0, <1>r, <1>p
         DEF TCCInv, TypeInv, Logged, Current, Agreed, Fresh, verdict, getStatus
    <2>3. CASE /\ pc' = [pc EXCEPT ![a] = "decide"]
               /\ view' = [view EXCEPT ![a] = try]
               /\ UNCHANGED result
      <3>1. TypeInv'
        BY <2>1, <2>3, <1>0 DEF TypeInv
      <3>2. Current'
        BY <2>1, <2>3, <1>0 DEF TypeInv, Current
      <3>3. Agreed'
        BY <2>1, <2>3, <1>0 DEF TypeInv, Agreed, verdict, getStatus
      <3> QED
        BY <2>1, <1>0, <3>1, <3>2, <3>3 DEF TCCInv, Logged, Fresh
    <2> QED
      BY <1>1, <2>2, <2>3 DEF Read
  <1>2. CASE Decide(a)
    <2> DEFINE s == getStatus(view[a], expired)
    <2>1. /\ UNCHANGED <<status, try, expired, trying, view, confirmed, released>>
          /\ pc[a] = "decide"
      BY <1>2 DEF Decide, recordVars, historyVars
    <2>2. CASE s = "hanging"
      <3>1. through(a) /\ UNCHANGED success
        BY <1>2, <2>2 DEF Decide
      <3> QED
        BY <2>1, <3>1, <1>0, <1>r, <1>p
           DEF TCCInv, TypeInv, Logged, Current, Agreed, Fresh, verdict, getStatus
    <2>3. CASE s # "hanging"
      <3>1. /\ pc' = [pc EXCEPT ![a] = "work"]
            /\ success' = [success EXCEPT ![a] = (s = "successful")]
            /\ UNCHANGED result
        BY <1>2, <2>3 DEF Decide
      <3>2. s = verdict
        <4>1. /\ view[a] \in [Component -> TryStatus] /\ expired \in BOOLEAN
              /\ try \in [Component -> TryStatus]
          BY <1>0 DEF TypeInv
        <4>2. /\ \A c \in Component : view[a][c] \in {"hanging", try[c]}
              /\ expired => expired /\ try = view[a]
          BY <2>1, <1>0 DEF Current
        <4> QED
          BY <4>1, <4>2, <2>3, StatusFinal DEF verdict
      <3>3. s \in {"successful", "failure"}
        BY <2>3 DEF getStatus
      <3> HIDE DEF s
      <3>4. TypeInv'
        BY <2>1, <3>1, <1>0 DEF TypeInv
      <3>5. Current'
        BY <2>1, <3>1, <1>0 DEF TypeInv, Current
      <3>6. verdict' = verdict
        BY <2>1 DEF verdict, getStatus
      <3>7. Agreed'
        BY <2>1, <3>1, <3>2, <3>3, <3>6, <1>0 DEF TypeInv, Agreed
      <3> QED
        BY <2>1, <1>0, <3>4, <3>5, <3>7 DEF TCCInv, Logged, Fresh
    <2> QED
      BY <2>2, <2>3
  <1>3. ASSUME NEW c \in Component, Acknowledged(a, c) \/ Refused(a, c)
        PROVE  TCCInv'
    <2>1. PICK r \in outcomes(a, c) : confirmOrCancel(a, c, r)
      BY <1>3 DEF Acknowledged, Refused
    <2>2. /\ UNCHANGED <<status, try, expired, trying, view, success>>
          /\ pc[a] = "work"
      BY <2>1 DEF confirmOrCancel, recordVars
    <2>3. verdict' = verdict
      BY <2>2 DEF verdict, getStatus
    <2>4. confirmed' # {} => verdict = "successful"
      <3>1. CASE success[a]
        BY <3>1, <2>2, <1>0 DEF Agreed
      <3>2. CASE ~success[a]
        <4>1. r.data = data[c] \/ r.data = "none"
          BY <2>1, <3>2 DEF outcomes, canceling, untouched, left
        <4>2. confirmed' = confirmed
          BY <4>1, <2>1 DEF confirmOrCancel
        <4> QED
          BY <4>2, <1>0 DEF Agreed
      <3> QED
        BY <3>1, <3>2
    <2>5. released' # {} => verdict = "failure"
      BY <2>1, <2>2, <1>0 DEF confirmOrCancel, Agreed
    <2>6. /\ pc' \in [Party -> {"try", "read", "decide", "work", "end"}]
          /\ \A b \in Party : pc'[b] \in {"decide", "work"} => pc'[b] = pc[b]
      BY <1>3, <1>p, <1>0 DEF Acknowledged, Refused, TypeInv
    <2>7. result' \in BOOLEAN /\ (result' => verdict = "successful")
      BY <1>3, <1>r, <2>2, <1>0 DEF Acknowledged, Refused, TypeInv, Agreed
    <2>8. Agreed'
      BY <2>2, <2>3, <2>4, <2>5, <2>6, <2>7, <1>0 DEF Agreed
    <2> QED
      BY <2>2, <2>6, <2>7, <2>8, <1>0
         DEF TCCInv, TypeInv, Logged, Current, Fresh
  <1>4. CASE TXSubmit(a)
    <2>1. /\ UNCHANGED <<try, expired, trying, view, success, confirmed, released>>
          /\ through(a) /\ (status' = "none" => status = "none")
      BY <1>4 DEF TXSubmit, historyVars
    <2>2. verdict' = verdict
      BY <2>1 DEF verdict, getStatus
    <2> QED
      BY <2>1, <2>2, <1>0, <1>r, <1>p
         DEF TCCInv, TypeInv, Logged, Current, Agreed, Fresh
  <1> QED
    BY <1>1, <1>2, <1>3, <1>4 DEF Advance

\* TCCInv is an invariant if there are no delays.
LEMMA Invariance == ~Delays => (Spec => []TCCInv)
  <1> SUFFICES ASSUME ~Delays PROVE Spec => []TCCInv
    OBVIOUS
  <1>1. Init => TCCInv
    <2> SUFFICES ASSUME Init PROVE TCCInv
      OBVIOUS
    <2>1. \A a \in Party : pc[a] \in {"try", "read"}
      BY DEF Init
    <2>2. TypeInv
      <3>1. success \in [Party -> BOOLEAN] /\ expired \in BOOLEAN /\ result \in BOOLEAN
        BY Zenon DEF Init
      <3>2. pc \in [Party -> {"try", "read", "decide", "work", "end"}]
        BY DEF Init
      <3> QED
        BY <3>1, <3>2 DEF Init, TypeInv, TryStatus
    <2>3. Agreed
      BY <2>1 DEF Init, Agreed
    <2> QED
      BY <2>1, <2>2, <2>3 DEF Init, TCCInv, Logged, Current, Fresh
  <1>2. TCCInv /\ [Next]_vars => TCCInv'
    <2> SUFFICES ASSUME TCCInv, [Next]_vars PROVE TCCInv'
      OBVIOUS
    <2>1. CASE UNCHANGED vars
      <3>1. UNCHANGED <<status, try, view, expired, result, success, pc, trying,
                        confirmed, released>>
        BY <2>1 DEF vars, recordVars, advanceVars, historyVars
      <3> QED
        BY <3>1 DEF TCCInv, TypeInv, Logged, Current, Agreed, Fresh, verdict,
                    getStatus
    <2> QED
      BY <2>1, TransactionInv, AdvanceInv DEF Next
  <1> QED
    BY <1>1, <1>2, PTL DEF Spec

\* Without delays a transaction is atomic, with any number of participants:
\* the call of Transaction and the monitor, which advanceProgress does not
\* keep apart, never confirm one and cancel another.
THEOREM Atomic == ~Delays => (Spec => []NoSplit)
  <1> SUFFICES ASSUME ~Delays PROVE Spec => []NoSplit
    OBVIOUS
  <1>1. TCCInv => NoSplit
    BY DEF TCCInv, Agreed, NoSplit
  <1> QED
    BY <1>1, Invariance, PTL

\* Without delays nothing is cancelled that Transaction returned as
\* committed, although it returns whatever becomes of its own Confirm calls.
THEOREM ReturnIsFinal == ~Delays => (Spec => []CommittedStays)
  <1> SUFFICES ASSUME ~Delays PROVE Spec => []CommittedStays
    OBVIOUS
  <1>1. TCCInv => CommittedStays
    BY DEF TCCInv, Agreed, CommittedStays
  <1> QED
    BY <1>1, Invariance, PTL

=============================================================================
