-------------------------------- MODULE TCC ---------------------------------
(***************************************************************************)
(* components/tcc: one distributed transaction of a TXManager, with the    *)
(* transaction log and the participants of components/tcc/example.  Two    *)
(* parties bring the transaction to its end: the call of Transaction, and  *)
(* the monitor of any manager, one at a time, which the lock of the        *)
(* TXStore sees to.  They do not exclude each other.                       *)
(*                                                                         *)
(* A participant's operation holds the participant's lock, so it is one    *)
(* step; but it is a sequence of Redis commands that may end after any of  *)
(* them, with an error or with the process.                                *)
(***************************************************************************)
EXTENDS Integers, FiniteSets

CONSTANTS
  Component,
  Delays    \* may the transaction's timeout pass while a Try result is being
            \* committed, or while the monitor's copy of the record waits?

ASSUME TCCAssumption == Component # {} /\ Delays \in BOOLEAN

VARIABLES
  status,     \* record.Status, or "none" before CreateTX
  try,        \* record.ComponentTryStatuses
  expired,    \* CreatedAt is longer ago than Options.Timeout
  tx,         \* the participants' transaction keys
  detail,     \* whether the participants' detail keys are set
  data,       \* the participants' data keys
  trying,     \* the goroutines of twoPhaseCommit
  result,     \* what Transaction returns
  pc, view, success, todo,  \* the two calls of advanceProgress
  confirmed, released  \* history: participants that committed, that released

recordVars == <<status, try>>
dataVars == <<tx, detail, data>>
historyVars == <<confirmed, released>>
advanceVars == <<pc, view, success, todo>>
vars == <<recordVars, expired, dataVars, trying, result, advanceVars,
          historyVars>>

Party == {"transaction", "monitor"}

\* Mutants: what hangs counts as a success; nothing is ever given up.
getStatusLax(t, late) ==
  IF \E c \in Component : t[c] = "failure" THEN "failure" ELSE "successful"
getStatusPatient(t, late) ==
  IF \E c \in Component : t[c] = "failure" THEN "failure"
  ELSE IF \E c \in Component : t[c] # "successful" THEN "hanging"
  ELSE "successful"

\* Transaction.getStatus.
getStatus(t, late) ==
  IF \E c \in Component : t[c] = "failure" THEN "failure"
  ELSE IF \E c \in Component : t[c] # "successful"
         THEN IF late THEN "failure" ELSE "hanging"
         ELSE "successful"

---------------------------------------------------------------------------
(* The participants: what an operation may leave, and whether it ACKs.     *)

left(x, e, d, ack) == [tx |-> x, detail |-> e, data |-> d, ack |-> ack]
untouched(c, ack) == left(tx[c], detail[c], data[c], ack)

tried(c) ==
  {untouched(c, FALSE)} \cup
    IF tx[c] # "none" THEN {untouched(c, tx[c] \in {"tried", "confirmed"})}
    ELSE {left("none", TRUE, data[c], FALSE)} \cup
      IF data[c] # "none" THEN {}
      ELSE {left("none", TRUE, "frozen", FALSE),
            left("tried", TRUE, "frozen", FALSE),
            left("tried", TRUE, "frozen", TRUE)}

\* An error of the last Set, of the transaction key, is ignored.
confirming(c) ==
  {untouched(c, tx[c] = "confirmed"), untouched(c, FALSE)} \cup
    IF tx[c] # "tried" \/ ~detail[c] \/ data[c] # "frozen" THEN {}
    ELSE {left("tried", TRUE, "successful", FALSE),
          left("tried", TRUE, "successful", TRUE),
          left("confirmed", TRUE, "successful", TRUE)}

\* Without the detail key there is nothing that Cancel could do.
canceling(c) ==
  {untouched(c, FALSE)} \cup
    IF tx[c] = "confirmed" \/ ~detail[c] THEN {}
    ELSE {left(tx[c], TRUE, "none", FALSE),
          left(tx[c], TRUE, "none", TRUE),
          left("canceled", TRUE, "none", TRUE)}

becomes(c, r) ==
  /\ tx' = [tx EXCEPT ![c] = r.tx]
  /\ detail' = [detail EXCEPT ![c] = r.detail]
  /\ data' = [data EXCEPT ![c] = r.data]

---------------------------------------------------------------------------
(* Transaction.                                                            *)

CreateTX ==
  /\ status = "none"
  /\ status' = "hanging"
  /\ try' = [c \in Component |-> "hanging"]
  /\ trying' = [c \in Component |-> "try"]
  /\ UNCHANGED <<expired, dataVars, result, advanceVars, historyVars>>

Try(c) ==
  /\ trying[c] = "try"
  /\ \E r \in tried(c) :
       /\ becomes(c, r)
       /\ trying' = [trying EXCEPT ![c] = IF r.ack THEN "successful"
                                                   ELSE "failure"]
  /\ UNCHANGED <<recordVars, expired, result, advanceVars, historyVars>>

\* Mutant: an error of TXUpdate is only logged.
reportLax(c, ok) == trying[c]

\* What a goroutine reports: failure, too, when the outcome was not logged.
report(c, ok) == IF ok THEN trying[c] ELSE "failure"

\* The context of the transaction ends before it expires, so an update can
\* come later only if its commit is delayed.
TXUpdate(c) ==
  /\ trying[c] \in {"successful", "failure"}
  /\ \E ok \in BOOLEAN :
       /\ \/ /\ ~expired \/ Delays
             /\ try' = [try EXCEPT ![c] = IF @ = "hanging" THEN trying[c] ELSE @]
          \/ ~ok /\ UNCHANGED try
       /\ trying' = [trying EXCEPT ![c] =
                       IF report(c, ok) = "successful" THEN "ok" ELSE "failed"]
  /\ UNCHANGED <<status, expired, dataVars, result, advanceVars, historyVars>>

\* twoPhaseCommit goes on to advanceProgressByTXID when all have reported.
AllReported ==
  /\ pc["transaction"] = "try"
  /\ \A c \in Component : trying[c] \in {"ok", "failed"}
  /\ pc' = [pc EXCEPT !["transaction"] = "read"]
  /\ UNCHANGED <<recordVars, expired, dataVars, trying, result, view, success,
                 todo, historyVars>>

\* The process that runs Transaction ends.
Crash ==
  /\ status # "none" /\ pc["transaction"] # "end"
  /\ pc' = [pc EXCEPT !["transaction"] = "end"]
  /\ trying' = [c \in Component |-> "gone"]
  /\ UNCHANGED <<recordVars, expired, dataVars, result, view, success, todo,
                 historyVars>>

---------------------------------------------------------------------------
(* advanceProgress, by Transaction and by the monitor.                     *)

\* A party is through with its pass: Transaction returns, and the monitor
\* will take the next tick.
through(a) ==
  /\ pc' = [pc EXCEPT ![a] = IF a = "monitor" THEN "read" ELSE "end"]
  /\ result' = IF a = "transaction"
                 THEN (\A c \in Component : trying[c] = "ok")
                 ELSE result

\* GetTX, which may fail, or GetHangingTXs.
Read(a) ==
  /\ pc[a] = "read"
  /\ a = "monitor" => status = "hanging"
  /\ \/ /\ pc' = [pc EXCEPT ![a] = "decide"]
        /\ view' = [view EXCEPT ![a] = try]
        /\ UNCHANGED result
     \/ a = "transaction" /\ through(a) /\ UNCHANGED view
  /\ UNCHANGED <<recordVars, expired, dataVars, trying, success, todo,
                 historyVars>>

\* The decision is taken on the copy, and on the clock.
Decide(a) ==
  LET s == getStatus(view[a], expired)
  IN  /\ pc[a] = "decide"
      /\ IF s = "hanging"
           THEN through(a) /\ UNCHANGED <<success, todo>>
           ELSE /\ pc' = [pc EXCEPT ![a] = "work"]
                /\ success' = [success EXCEPT ![a] = (s = "successful")]
                /\ todo' = [todo EXCEPT ![a] = Component]
                /\ UNCHANGED result
      /\ UNCHANGED <<recordVars, expired, dataVars, trying, view, historyVars>>

\* Confirm or Cancel of the next component, in the order of a Go map.
confirmOrCancel(a, c, r) ==
  /\ pc[a] = "work" /\ c \in todo[a]
  /\ becomes(c, r)
  /\ confirmed' = IF data[c] # "successful" /\ r.data = "successful"
                    THEN confirmed \cup {c} ELSE confirmed
  /\ released' = IF ~success[a] /\ (r.ack \/ r.data # data[c])
                   THEN released \cup {c} ELSE released
  /\ UNCHANGED <<recordVars, expired, trying, view, success>>

outcomes(a, c) == IF success[a] THEN confirming(c) ELSE canceling(c)

Acknowledged(a, c) ==
  /\ \E r \in outcomes(a, c) : r.ack /\ confirmOrCancel(a, c, r)
  /\ todo' = [todo EXCEPT ![a] = @ \ {c}]
  /\ UNCHANGED <<pc, result>>

\* An error, or no ACK, ends the pass.
Refused(a, c) ==
  /\ \E r \in outcomes(a, c) : ~r.ack /\ confirmOrCancel(a, c, r)
  /\ through(a)
  /\ UNCHANGED todo

\* TXSubmit does not turn one final status into the other; it may fail.
TXSubmit(a) ==
  /\ pc[a] = "work" /\ todo[a] = {}
  /\ \/ UNCHANGED status
     \/ success[a] /\ status # "failure" /\ status' = "successful"
     \/ ~success[a] /\ status # "successful" /\ status' = "failure"
  /\ through(a)
  /\ UNCHANGED <<try, expired, dataVars, trying, view, success, todo,
                 historyVars>>

---------------------------------------------------------------------------
\* Timeout passes; without delays, no result is being logged and no copy of
\* the record waits to be worked on.
Expire ==
  /\ status # "none" /\ ~expired
  /\ Delays \/ ( /\ \A a \in Party : pc[a] # "decide"
                 /\ \A c \in Component : trying[c] \notin {"successful", "failure"})
  /\ expired' = TRUE
  /\ UNCHANGED <<recordVars, dataVars, trying, result, advanceVars, historyVars>>

Init ==
  /\ status = "none" /\ expired = FALSE /\ result = FALSE
  /\ try = [c \in Component |-> "hanging"]
  /\ tx = [c \in Component |-> "none"]
  /\ detail = [c \in Component |-> FALSE]
  /\ data = [c \in Component |-> "none"]
  /\ trying = [c \in Component |-> "idle"]
  /\ pc = [a \in Party |-> IF a = "monitor" THEN "read" ELSE "try"]
  /\ view = [a \in Party |-> [c \in Component |-> "hanging"]]
  /\ success = [a \in Party |-> FALSE]
  /\ todo = [a \in Party |-> {}]
  /\ confirmed = {} /\ released = {}

Advance(a) ==
  \/ Read(a)
  \/ Decide(a)
  \/ \E c \in Component : Acknowledged(a, c) \/ Refused(a, c)
  \/ TXSubmit(a)

Next ==
  \/ CreateTX
  \/ \E c \in Component : Try(c) \/ TXUpdate(c)
  \/ AllReported
  \/ Crash
  \/ \E a \in Party : Advance(a)
  \/ Expire

\* The monitor goes on for ever, the clock runs, and calls that can succeed
\* do not fail every time: the components of a record come in any order.
Fairness ==
  /\ SF_vars(Expire)
  /\ \A c \in Component : WF_vars(Try(c)) /\ WF_vars(TXUpdate(c))
  /\ \A a \in Party : WF_vars(Decide(a))
  /\ WF_vars(Read("monitor"))
  /\ WF_vars(TXSubmit("monitor"))
  /\ \A c \in Component :
       /\ SF_vars(Acknowledged("monitor", c))
       /\ SF_vars(Refused("monitor", c))

Spec == Init /\ [][Next]_vars /\ Fairness

---------------------------------------------------------------------------
(* Properties.                                                             *)

\* The transaction is atomic: Transaction and the monitor, which may work on
\* it at the same time, never confirm one participant and cancel another.
NoSplit == confirmed = {} \/ released = {}

\* When every Try was logged as successful, all participants are confirmed:
\* none is ever cancelled.
AllTriedNoneCanceled ==
  (\A c \in Component : try[c] = "successful") => released = {}

\* What Transaction returned as committed is never cancelled.
CommittedStays == result => released = {}

\* "Reservations never leak indefinitely": whatever fails, and wherever the
\* process of Transaction ends, nothing stays frozen.
NothingStaysFrozen == <>[](\A c \in Component : data[c] # "frozen")

=============================================================================
