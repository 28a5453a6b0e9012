----------------------------- MODULE RedisLock ------------------------------
(***************************************************************************)
(* components/redis_lock: callers that take one lock by a RedisLock, a key *)
(* of one Redis, or by a RedLock, the same key on each of several nodes.   *)
(* A caller has lock objects of its own, one for each node; what it keeps  *)
(* in them are its token and its watchdogs.                                *)
(*                                                                         *)
(* Time passes in units of five seconds (Tick).  Redis may run a command   *)
(* whose reply is lost, and a renewal may reach it long after it was sent. *)
(* A caller may stay in its critical section for ever, or crash.           *)
(***************************************************************************)
EXTENDS Integers, FiniteSets, FiniteSetsExt

CONSTANTS
  Caller,    \* the goroutines that take the lock
  None,
  token,     \* the token of the lock objects of each caller
  N,         \* the nodes of a RedLock
  Handles,   \* the kinds of handle: <<type, watchDogMode>>
  Expire     \* the fixed lease, in units of time

ASSUME LockAssumption ==
  /\ N \in Nat \ {0} /\ Expire \in Nat \ {0}
  /\ None \notin {token[p] : p \in Caller} \cup Caller
  /\ Handles \subseteq {"RedisLock", "RedLock"} \X BOOLEAN

VARIABLES
  handle,    \* what the callers use, the same for all
  owner,     \* the token at the key of a node
  ttl,       \* the time that key has left; 0 without one
  holder,    \* history: the caller whose SET made the key
  pc,        \* where a caller is
  at,        \* the node its Lock has come to
  acquired,  \* the nodes that count for it; while it unlocks, those left
  since,     \* history: the time since its Lock began
  dog,       \* its watchdogs: the time to the next tick, or Off
  sent,      \* renewals on their way: <<caller, node, whether the dog waits>>
  missed     \* history: the last renewal of a dog failed or came late

redisVars == <<owner, ttl, holder>>
dogVars == <<dog, sent, missed>>
callVars == <<pc, at, acquired, since>>
vars == <<handle, redisVars, dogVars, callVars>>

Node == 1..N
Off == -1
isRed == handle[1] = "RedLock"
watchDogMode == handle[2]

\* WatchDogWorkStepSeconds and DefaultLockExpireSeconds.
WorkStep == 2
DefaultExpire == 6

\* Mutant: a renewal lasts until the next one is due, and no longer.
tightExpire == WorkStep

\* What runWatchDog asks for: five seconds more than its step.
DogExpire == WorkStep + 1

\* Mutant: SET NX without EX.
noExpire == 0

\* repairLock: without a lease of its own a lock is in watchdog mode.
expireSeconds == IF watchDogMode THEN DefaultExpire ELSE Expire

\* The locks that one Lock call goes through, and what it needs of them.
locks == IF isRed THEN Node ELSE {1}

\* Mutant: half of the nodes are enough.
half == IF isRed THEN N \div 2 ELSE 1
needed == IF isRed THEN N \div 2 + 1 ELSE 1

\* Mutant: the scripts only look whether the key exists.
exists(p, n) == owner[n] # None

\* What both Lua scripts compare before they act.
owns(p, n) == owner[n] = token[p]

---------------------------------------------------------------------------
(* Lock.                                                                   *)

Lock(p) ==
  /\ pc[p] = "idle"
  /\ pc' = [pc EXCEPT ![p] = "lock"]
  /\ at' = [at EXCEPT ![p] = 1]
  /\ acquired' = [acquired EXCEPT ![p] = {}]
  /\ since' = [since EXCEPT ![p] = 0]
  /\ UNCHANGED <<handle, redisVars, dogVars>>

\* After the attempt at one node, A being the nodes that count: the next
\* one, success, or failure and the release of what was acquired.
proceed(p, A) ==
  /\ acquired' = [acquired EXCEPT ![p] = A]
  /\ at' = [at EXCEPT ![p] = IF @ = Max(locks) THEN 1 ELSE @ + 1]
  /\ pc' = [pc EXCEPT ![p] =
              IF at[p] # Max(locks) THEN "lock"
              ELSE IF Cardinality(A) >= needed THEN "held"
              ELSE IF A = {} THEN "idle" ELSE "unlock"]
  /\ UNCHANGED <<handle, since>>

setNEX(p, n) ==
  /\ owner[n] = None
  /\ owner' = [owner EXCEPT ![n] = token[p]]
  /\ ttl' = [ttl EXCEPT ![n] = expireSeconds]
  /\ holder' = [holder EXCEPT ![n] = p]

\* tryLock succeeds and watchDog starts.  A RedLock does not count a node
\* that took longer than singleNodesTimeout, but leaves its lock as it is.
Acquire(p, slow) ==
  /\ pc[p] = "lock" /\ (slow => isRed)
  /\ setNEX(p, at[p])
  /\ dog' = [dog EXCEPT ![p][at[p]] = IF watchDogMode THEN WorkStep ELSE Off]
  /\ missed' = [missed EXCEPT ![p][at[p]] = FALSE]
  /\ proceed(p, IF slow THEN acquired[p] ELSE acquired[p] \cup {at[p]})
  /\ UNCHANGED sent

\* tryLock fails: the key is there, or the reply is an error although the
\* key may have been set.  A blocking lock that finds the key goes on
\* polling, which changes nothing, until its time is over.
FailToLock(p) ==
  /\ pc[p] = "lock"
  /\ UNCHANGED redisVars \/ setNEX(p, at[p])
  /\ proceed(p, acquired[p])
  /\ UNCHANGED dogVars

---------------------------------------------------------------------------
(* Unlock, and the watchdogs.                                              *)

Unlock(p) ==
  /\ pc[p] = "held"
  /\ pc' = [pc EXCEPT ![p] = "unlock"]
  /\ acquired' = [acquired EXCEPT ![p] = locks]
  /\ UNCHANGED <<handle, redisVars, dogVars, at, since>>

\* The check-and-delete script runs at the next node, unless it is lost.
CheckAndDelete(p) ==
  LET n == Min(acquired[p])
  IN  /\ pc[p] = "unlock"
      /\ pc' = [pc EXCEPT ![p] = "stop"]
      /\ \/ UNCHANGED redisVars
         \/ /\ owns(p, n)
            /\ owner' = [owner EXCEPT ![n] = None]
            /\ ttl' = [ttl EXCEPT ![n] = 0]
            /\ holder' = [holder EXCEPT ![n] = None]
      /\ UNCHANGED <<handle, dogVars, at, acquired, since>>

\* The dogs of p at the nodes M stop; what they have sent stays on its way.
stopDogs(p, M) ==
  /\ dog' = [dog EXCEPT ![p] = [n \in Node |-> IF n \in M THEN Off ELSE @[n]]]
  /\ sent' = {<<s[1], s[2], s[3] /\ ~(s[1] = p /\ s[2] \in M)>> : s \in sent}
  /\ UNCHANGED missed

\* The deferred stopDog of Unlock, whatever the script said.
StopDog(p) ==
  LET n == Min(acquired[p])
  IN  /\ pc[p] = "stop"
      /\ stopDogs(p, {n})
      /\ acquired' = [acquired EXCEPT ![p] = @ \ {n}]
      /\ pc' = [pc EXCEPT ![p] = IF acquired[p] = {n} THEN "idle" ELSE "unlock"]
      /\ UNCHANGED <<handle, redisVars, at, since>>

\* The context given to Lock ends while the lock is held: the dogs stop.
ContextDone(p) ==
  /\ pc[p] = "held"
  /\ \E n \in Node : dog[p][n] # Off
  /\ stopDogs(p, Node)
  /\ UNCHANGED <<handle, redisVars, callVars>>

DogTick(p, n) ==
  /\ dog[p][n] = 0 /\ <<p, n, TRUE>> \notin sent
  /\ dog' = [dog EXCEPT ![p][n] = WorkStep]
  /\ sent' = sent \cup {<<p, n, TRUE>>}
  /\ UNCHANGED <<handle, redisVars, callVars, missed>>

\* DelayExpire runs: a dog that has lost the lock goes.
Renew(p, n, waits) ==
  /\ <<p, n, waits>> \in sent
  /\ sent' = sent \ {<<p, n, waits>>}
  /\ ttl' = [ttl EXCEPT ![n] = IF owns(p, n) THEN DogExpire ELSE @]
  /\ dog' = [dog EXCEPT ![p][n] = IF waits /\ ~owns(p, n) THEN Off ELSE @]
  /\ missed' = [missed EXCEPT ![p][n] = @ /\ ~(waits /\ owns(p, n))]
  /\ UNCHANGED <<handle, owner, holder, callVars>>

\* DelayExpire returns another error: the dog waits for the next tick.
RenewFails(p, n, waits) ==
  /\ <<p, n, waits>> \in sent
  /\ sent' = sent \ {<<p, n, waits>>}
  /\ missed' = [missed EXCEPT ![p][n] = @ \/ waits]
  /\ UNCHANGED <<handle, redisVars, callVars, dog>>

---------------------------------------------------------------------------
(* The environment.                                                        *)

\* Five seconds.  A dog sends what is due without delay, unless it waits for
\* the answer to the last renewal.
Tick ==
  /\ \A p \in Caller, n \in Node : dog[p][n] = 0 => <<p, n, TRUE>> \in sent
  /\ owner' = [n \in Node |-> IF ttl[n] = 1 THEN None ELSE owner[n]]
  /\ holder' = [n \in Node |-> IF ttl[n] = 1 THEN None ELSE holder[n]]
  /\ ttl' = [n \in Node |-> Max({ttl[n] - 1, 0})]
  /\ dog' = [p \in Caller |-> [n \in Node |->
               IF dog[p][n] = Off THEN Off ELSE Max({dog[p][n] - 1, 0})]]
  /\ missed' = [p \in Caller |-> [n \in Node |->
                  missed[p][n] \/ <<p, n, TRUE>> \in sent]]
  /\ since' = [p \in Caller |-> Min({since[p] + 1, Expire})]
  /\ UNCHANGED <<handle, sent, pc, at, acquired>>

\* The process of p ends; its keys stay.
Crash(p) ==
  /\ pc[p] # "dead"
  /\ pc' = [pc EXCEPT ![p] = "dead"]
  /\ stopDogs(p, Node)
  /\ UNCHANGED <<handle, redisVars, at, acquired, since>>

Init ==
  /\ handle \in Handles
  /\ owner = [n \in Node |-> None]
  /\ ttl = [n \in Node |-> 0]
  /\ holder = [n \in Node |-> None]
  /\ pc = [p \in Caller |-> "idle"]
  /\ at = [p \in Caller |-> 1]
  /\ acquired = [p \in Caller |-> {}]
  /\ since = [p \in Caller |-> Expire]
  /\ dog = [p \in Caller |-> [n \in Node |-> Off]]
  /\ sent = {}
  /\ missed = [p \in Caller |-> [n \in Node |-> FALSE]]

Dogs ==
  \E p \in Caller, n \in Node :
    \/ DogTick(p, n)
    \/ \E waits \in BOOLEAN : Renew(p, n, waits) \/ RenewFails(p, n, waits)

Call(p) ==
  \/ Lock(p)
  \/ \E slow \in BOOLEAN : Acquire(p, slow)
  \/ FailToLock(p)
  \/ Unlock(p)
  \/ CheckAndDelete(p)
  \/ StopDog(p)
  \/ ContextDone(p)
  \/ Crash(p)

Next == Tick \/ Dogs \/ \E p \in Caller : Call(p)

\* Time passes and the dogs run; callers may do nothing.
Fairness ==
  /\ WF_vars(Tick)
  /\ \A p \in Caller, n \in Node : WF_vars(DogTick(p, n))

Spec == Init /\ [][Next]_vars /\ Fairness

---------------------------------------------------------------------------
(* Properties.                                                             *)

\* "Long-running work is protected": as long as its watchdog runs and the
\* last renewal was answered in time, a caller that holds the lock has the
\* key at every node that counts, however long it works.
Protected ==
  \A p \in Caller : pc[p] = "held" =>
    \A n \in acquired[p] : dog[p][n] # Off /\ ~missed[p][n] => holder[n] = p

\* "A client can never release or renew a lock it does not own": a key is
\* deleted or renewed only for the caller that set it, although Unlock and
\* renewals may come long after the lease has run out.
OwnerOnly ==
  [][\A n \in Node :
       /\ \A p \in Caller :
            pc[p] = "unlock" /\ pc'[p] = "stop" /\ owner'[n] # owner[n] =>
              holder[n] = p
       /\ holder[n] # None /\ holder'[n] = holder[n] /\ ttl'[n] > ttl[n] =>
            \E s \in sent \ sent' : s[1] = holder[n] /\ s[2] = n]_vars

\* Two callers do not hold one RedLock at once, counting for each only the
\* time of one lease from the moment its Lock began.
Exclusion ==
  \A p, q \in Caller :
    /\ p # q /\ pc[p] = "held" /\ pc[q] = "held"
    => since[p] >= Expire \/ since[q] >= Expire

\* A caller that crashes, in the middle of Lock or Unlock too, does not keep
\* the lock for ever.
CrashFrees ==
  \A p \in Caller : pc[p] = "dead" ~> \A n \in Node : holder[n] # p

=============================================================================
