------------------------------- MODULE RedMQ --------------------------------
(***************************************************************************)
(* components/red_mq: one topic, its consumer group and the loops of the   *)
(* consumers.  Messages are numbered in the order of their stream ids.     *)
(*                                                                         *)
(* A call of Redis or of the mailbox may fail, with or without effect, and *)
(* consumers crash and may come back under their id: these faults are      *)
(* bounded.  The callback may fail every time.  Which message XAUTOCLAIM   *)
(* finds idle is left open: it may be one a slow consumer is working on.   *)
(***************************************************************************)
EXTENDS Integers, FiniteSets, FiniteSetsExt

CONSTANTS
  Consumer, None,
  MaxMsg,       \* bound on the messages sent
  MaxFaults,    \* bound on the failing calls and crashes
  QueueLens,    \* the values of WithMsgQueueLen
  claimIdle,    \* 0, the default: no consumer claims
  maxRetryLimit

ASSUME RedMQAssumption ==
  /\ {MaxMsg, MaxFaults, claimIdle} \subseteq Nat
  /\ QueueLens \cup {maxRetryLimit} \subseteq Nat \ {0}
  /\ None \notin Consumer

VARIABLES
  msgQueueLen,  \* MAXLEN of the stream, the same for all messages
  sent,         \* the last id of the stream
  last,         \* the group's last-delivered id
  pel,          \* the group's pending entries: who has them
  failureCnts,  \* of each consumer, per MsgEntity
  pc,           \* where a consumer's loop is
  msg,          \* the MsgEntity it works on
  visited,      \* the dead letters its deliverDeadLetter has been at
  faults,
  done          \* history: what a callback took or the mailbox got

stream == <<msgQueueLen, sent>>
groupVars == <<stream, last, pel>>
vars == <<groupVars, failureCnts, pc, msg, visited, faults, done>>

Id == 1..MaxMsg

\* XADD keeps the newest msgQueueLen messages, acknowledged or not.
trimmed(m) == m <= sent - msgQueueLen

SendMsg ==
  /\ sent < MaxMsg
  /\ sent' = sent + 1
  /\ UNCHANGED <<msgQueueLen, last, pel, failureCnts, pc, msg, visited, faults, done>>

\* A MsgEntity; what is left of a pending message that was trimmed is empty.
Entity == Id \X {"whole", "empty"}
entity(m) == <<m, IF trimmed(m) THEN "empty" ELSE "whole">>
content(e) == IF e[2] = "whole" THEN {e[1]} ELSE {}

goto(c, p) == pc' = [pc EXCEPT ![c] = p]

fetched(c, m, p) ==
  /\ msg' = [msg EXCEPT ![c] = entity(m)]
  /\ goto(c, p)
  /\ UNCHANGED faults

\* The reply has no message for the loop, which goes on at p.
nothing(c, p) == goto(c, p) /\ UNCHANGED <<msg, faults>>

\* A call fails.
fault == faults < MaxFaults /\ faults' = faults + 1
fails(c, p) == fault /\ goto(c, p) /\ UNCHANGED msg

---------------------------------------------------------------------------
(* One round of the loop, run.                                             *)

\* Where a round begins: without claimIdle nothing is claimed.
top == IF claimIdle > 0 THEN "claim" ELSE "receive"

\* XAUTOCLAIM; an entry whose message is gone is dropped.
XAutoClaim(c) ==
  /\ pc[c] = "claim"
  /\ \/ UNCHANGED pel /\ (nothing(c, "receive") \/ fails(c, "receive"))
     \/ \E m \in Id :
          /\ pel[m] # None
          /\ pel' = [pel EXCEPT ![m] = IF trimmed(m) THEN None ELSE c]
          /\ \/ trimmed(m) /\ nothing(c, "receive")
             \/ ~trimmed(m) /\ fetched(c, m, "claimed")
             \/ fails(c, "receive")
  /\ UNCHANGED <<stream, last, failureCnts, visited, done>>

\* XREADGROUP of the next new message; after an error the loop starts anew.
receive(c) ==
  LET new == {m \in Id : last < m /\ m <= sent /\ ~trimmed(m)}
  IN  /\ pc[c] = "receive"
      /\ \/ UNCHANGED <<last, pel>> /\ fails(c, top)
         \/ new = {} /\ UNCHANGED <<last, pel>> /\ nothing(c, "dead")
         \/ /\ new # {}
            /\ last' = Min(new)
            /\ pel' = [pel EXCEPT ![Min(new)] = c]
            /\ fetched(c, Min(new), "received") \/ fails(c, top)
      /\ UNCHANGED <<stream, failureCnts, visited, done>>

\* XREADGROUP of the consumer's first pending message.
receivePending(c) ==
  LET own == {m \in Id : pel[m] = c}
  IN  /\ pc[c] = "pending"
      /\ \/ fails(c, top)
         \/ own = {} /\ nothing(c, top)
         \/ own # {} /\ fetched(c, Min(own), "drained")
      /\ UNCHANGED <<groupVars, failureCnts, visited, done>>

\* Where handlerMsgs returns to.
handling == [claimed |-> "receive", received |-> "dead", drained |-> top]

handled(c) ==
  /\ pc[c] \in DOMAIN handling
  /\ goto(c, handling[pc[c]])
  /\ msg' = [msg EXCEPT ![c] = None]

\* Mutant: a message is acknowledged although its callback failed.
ackedAnyway(m) == [pel EXCEPT ![m] = None]

\* The pending entries after a failure of m.
keptPending(m) == pel

\* The callback fails, or panics, or its time is over.  Counts above the
\* limit are not told apart.
Fail(c) ==
  LET e == msg[c]
  IN  /\ handled(c)
      /\ failureCnts' = [failureCnts EXCEPT ![c][e] = Min({@ + 1, maxRetryLimit})]
      /\ pel' = keptPending(e[1])
      /\ UNCHANGED <<stream, last, visited, faults, done>>

\* Mutant: what was taken is not acknowledged.
neverAcked(c, e) == done' = done \cup content(e) /\ UNCHANGED <<pel, failureCnts, faults>>

\* The callback or the mailbox has taken e, and XACK follows.  It is an error,
\* too, if e is not pending any more: the failure count then stays.
XACK(c, e) ==
  /\ \/ /\ pel[e[1]] # None
        /\ pel' = [pel EXCEPT ![e[1]] = None]
        /\ failureCnts' = [failureCnts EXCEPT ![c][e] = 0]
        /\ UNCHANGED faults
     \/ pel[e[1]] = None /\ UNCHANGED <<pel, failureCnts, faults>>
     \/ /\ fault
        /\ pel' \in {pel, [pel EXCEPT ![e[1]] = None]}
        /\ UNCHANGED failureCnts
  /\ done' = done \cup content(e)

Handle(c) == handled(c) /\ XACK(c, msg[c]) /\ UNCHANGED <<stream, last, visited>>

\* What deliverDeadLetter says of a failure count.
isDead(n) == n >= maxRetryLimit

\* deliverDeadLetter: each dead letter in turn, in the order of a map; one
\* whose delivery or XACK fails keeps its failure count.
letters(c) == {e \in Entity : isDead(failureCnts[c][e])} \ visited[c]

deliverDeadLetter(c) ==
  /\ pc[c] = "dead"
  /\ \E e \in letters(c) :
       /\ XACK(c, e) \/ (fault /\ UNCHANGED <<pel, failureCnts, done>>)
       /\ visited' = [visited EXCEPT ![c] = @ \cup {e}]
  /\ UNCHANGED <<stream, last, pc, msg>>

allDelivered(c) ==
  /\ pc[c] = "dead" /\ letters(c) = {} /\ nothing(c, "pending")
  /\ visited' = [visited EXCEPT ![c] = {}]
  /\ UNCHANGED <<groupVars, failureCnts, done>>

---------------------------------------------------------------------------
\* The process ends, or Stop is called; the failure counts go with it.
Crash(c) ==
  /\ pc[c] # "down" /\ fault
  /\ failureCnts' = [failureCnts EXCEPT ![c] = [e \in Entity |-> 0]]
  /\ msg' = [msg EXCEPT ![c] = None]
  /\ visited' = [visited EXCEPT ![c] = {}]
  /\ goto(c, "down")
  /\ UNCHANGED <<groupVars, done>>

NewConsumer(c) ==
  /\ pc[c] = "down" /\ nothing(c, top)
  /\ UNCHANGED <<groupVars, failureCnts, visited, done>>

Init ==
  /\ msgQueueLen \in QueueLens
  /\ sent = 0 /\ last = 0 /\ faults = 0 /\ done = {}
  /\ pel = [m \in Id |-> None]
  /\ failureCnts = [c \in Consumer |-> [e \in Entity |-> 0]]
  /\ pc = [c \in Consumer |-> top]
  /\ msg = [c \in Consumer |-> None]
  /\ visited = [c \in Consumer |-> {}]

run(c) ==
  \/ XAutoClaim(c) \/ receive(c) \/ Fail(c) \/ Handle(c)
  \/ deliverDeadLetter(c) \/ allDelivered(c) \/ receivePending(c)

Next ==
  \/ SendMsg
  \/ \E c \in Consumer : run(c) \/ Crash(c) \/ NewConsumer(c)

\* The loops go on, and the cursor of XAUTOCLAIM comes to every entry.
Fairness ==
  /\ \A c \in Consumer : WF_vars(run(c))
  /\ \A m \in Id :
       SF_vars(\E c \in Consumer : XAutoClaim(c) /\ msg'[c] = entity(m))

Spec == Init /\ [][Next]_vars /\ Fairness

---------------------------------------------------------------------------
(* Properties.                                                             *)

\* Delivery at least once: what the group has taken and is no longer pending
\* was handled or put into the mailbox, whoever crashed in between; only
\* MAXLEN takes messages away unseen.
NothingForgotten ==
  \A m \in Id : m <= last /\ pel[m] = None => m \in done \/ trimmed(m)

\* Every message is handled or put into the mailbox in the end, unless it is
\* trimmed or no consumer is left to claim what the others abandoned; a
\* message that always fails does not hold up the ones behind it.  (Sent,
\* done and trimmed stay so: a message that is never done is in the end for
\* ever sent and none of the rest.)
EveryMessageDone ==
  \A m \in Id :
    []<>(\/ m > sent \/ m \in done \/ trimmed(m)
         \/ \A c \in Consumer : pc[c] = "down")

\* deliverDeadLetter gets rid of its letters: again and again a consumer has
\* none that is still pending.  It is about pending ones only: XACK answers 0
\* for a message that another consumer, or a lost XACK, has acknowledged, and
\* its failure count then stays for good.
LettersLeave ==
  \A c \in Consumer :
    []<>(\A e \in Entity :
           failureCnts[c][e] >= maxRetryLimit => pel[e[1]] = None)

\* "A message whose consumer died is picked up by a live consumer rather than
\* waiting for XAUTOCLAIM": it does not stay with a consumer that is down for
\* ever while another one runs.
PickedUpByLive ==
  \A m \in Id, c \in Consumer :
    []<>(\/ pel[m] # c \/ pc[c] # "down" \/ trimmed(m)
         \/ \A d \in Consumer : pc[d] = "down")

=============================================================================
