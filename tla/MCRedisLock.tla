---------------------------- MODULE MCRedisLock -----------------------------
(***************************************************************************)
(* Instances of RedisLock for TLC: two callers, three nodes.               *)
(***************************************************************************)
EXTENDS RedisLock

\* Every caller has a token of its own.
OwnToken == [p \in Caller |-> p]

\* GetProcessAndGoroutineIDStr on two hosts, or for two locks of one
\* goroutine: the same process id and goroutine number.
SameToken == [p \in Caller |-> "1_1"]

\* A plain lock with either kind of lease, and a RedLock with a fixed one.
AllHandles ==
  {<<"RedisLock", TRUE>>, <<"RedisLock", FALSE>>, <<"RedLock", FALSE>>}

PlainHandle == {<<"RedisLock", FALSE>>}

=============================================================================
