-------------------------- MODULE ConsistentCache ---------------------------
(***************************************************************************)
(* components/consistent_cache: Service.Put and Service.Get on one key,    *)
(* between a Redis cache and a database.  Put sets a marker that keeps     *)
(* readers from filling the cache, deletes the key, writes the row, and    *)
(* leaves a goroutine behind that shortens the marker's life (Enable).     *)
(* Every call to Redis or the database is a step; time passes between any  *)
(* two of them (Tick).  A call may fail, with or without its effect.       *)
(***************************************************************************)
EXTENDS Integers

CONSTANTS
  Writer, Reader,
  None, NullData,
  DisableExpire,  \* Options.disableExpireSeconds, in units of time
  EnableDelay,    \* Options.enableDelayMillis
  ReadTime,       \* how long a reader may take from db.Get to PutWhenEnable
  MaxPuts         \* bound: the calls of Put

ASSUME CacheAssumption ==
  /\ {DisableExpire, EnableDelay, ReadTime, MaxPuts} \subseteq Nat
  /\ DisableExpire > ReadTime /\ EnableDelay > ReadTime

VARIABLES
  db,       \* the version of the row; 0 when there is none
  cache,    \* what Redis has at the key: None, NullData or a version
  marker,   \* the time the disable marker has left; 0 when there is none
  wpc,      \* where a Put is
  enables,  \* the goroutines that have yet to call Enable
  rpc,      \* where a Get is
  row,      \* what a Get found in the database
  age,      \* history: the time since then
  covered,  \* history: the marker has been there since this Put set it
  puts,     \* history: the calls of Put
  late      \* history: a row was written without the marker's protection,
            \* or a reader took longer than ReadTime

writerVars == <<wpc, covered, puts>>
readerVars == <<rpc, row, age>>
vars == <<db, cache, marker, enables, writerVars, readerVars, late>>

---------------------------------------------------------------------------
(* Put.                                                                    *)

\* Mutant: the marker is set without a lifetime.
forever == -1
disabled == DisableExpire

\* Disable fails, with or without effect, and Put returns; or Put goes on.
Disable(w) ==
  /\ wpc[w] = "idle" /\ puts < MaxPuts
  /\ puts' = puts + 1
  /\ \/ /\ marker' = disabled
        /\ wpc' = [wpc EXCEPT ![w] = "del"]
        /\ covered' = [covered EXCEPT ![w] = TRUE]
     \/ marker' \in {marker, disabled} /\ UNCHANGED <<wpc, covered>>
  /\ UNCHANGED <<db, cache, enables, readerVars, late>>

\* Put returns; its deferred function starts the goroutine for Enable.
returns(w) ==
  /\ wpc' = [wpc EXCEPT ![w] = "idle"]
  /\ covered' = [covered EXCEPT ![w] = FALSE]
  /\ enables' = enables + 1

Del(w) ==
  /\ wpc[w] = "del"
  /\ \/ /\ cache' = None
        /\ wpc' = [wpc EXCEPT ![w] = "put"]
        /\ UNCHANGED <<covered, enables>>
     \/ cache' \in {cache, None} /\ returns(w)
  /\ UNCHANGED <<db, marker, puts, readerVars, late>>

DBPut(w) ==
  /\ wpc[w] = "put"
  /\ \/ /\ db' = db + 1
        /\ IF covered[w] /\ marker > ReadTime THEN UNCHANGED late
                                              ELSE late' = TRUE
     \/ UNCHANGED <<db, late>>
  /\ returns(w)
  /\ UNCHANGED <<cache, marker, puts, readerVars>>

\* PEXPIRE gives a marker that is still there the time EnableDelay, more or
\* less than it had, whoever set it; or the call fails.
Enable ==
  /\ enables > 0
  /\ enables' = enables - 1
  /\ marker' \in {marker, IF marker = 0 THEN 0 ELSE EnableDelay}
  /\ UNCHANGED <<db, cache, writerVars, readerVars, late>>

---------------------------------------------------------------------------
(* Get.                                                                    *)

\* On a hit, or an error, Get returns: nothing changes.
CacheMiss(r) ==
  /\ rpc[r] = "idle" /\ cache = None
  /\ rpc' = [rpc EXCEPT ![r] = "db"]
  /\ UNCHANGED <<db, cache, marker, enables, writerVars, row, age, late>>

\* What is written to the cache for a row, or for none.
cached(v) == IF v = 0 THEN NullData ELSE v

DBGet(r) ==
  /\ rpc[r] = "db"
  /\ rpc' = [rpc EXCEPT ![r] = "fill"]
  /\ row' = [row EXCEPT ![r] = cached(db)]
  /\ age' = [age EXCEPT ![r] = 0]
  /\ UNCHANGED <<db, cache, marker, enables, writerVars, late>>

\* Mutant: the script does not look at the marker.
always == TRUE
enabled == marker = 0

\* Get returns, after an error of the database or after the script.
return(r) ==
  /\ rpc' = [rpc EXCEPT ![r] = "idle"]
  /\ row' = [row EXCEPT ![r] = None]
  /\ age' = [age EXCEPT ![r] = 0]
  /\ UNCHANGED <<db, marker, enables, writerVars>>

PutWhenEnable(r) ==
  /\ rpc[r] = "fill"
  /\ IF enabled THEN cache' = row[r] ELSE UNCHANGED cache
  /\ late' = (late \/ (enabled /\ age[r] > ReadTime))
  /\ return(r)

\* The database or the script fails.
GetFails(r) ==
  /\ rpc[r] \in {"db", "fill"}
  /\ return(r)
  /\ UNCHANGED <<cache, late>>

---------------------------------------------------------------------------
(* The environment.                                                        *)

\* The cached value reaches its own, longer, lifetime.
Expire ==
  /\ cache # None
  /\ cache' = None
  /\ UNCHANGED <<db, marker, enables, writerVars, readerVars, late>>

Tick ==
  /\ marker' = IF marker > 0 THEN marker - 1 ELSE marker
  /\ covered' = [w \in Writer |-> covered[w] /\ marker' # 0]
  /\ age' = [r \in Reader |->
               IF rpc[r] = "fill" /\ age[r] <= ReadTime THEN age[r] + 1
                                                        ELSE age[r]]
  /\ UNCHANGED <<db, cache, wpc, puts, enables, rpc, row, late>>

\* The process of a writer ends, before its Put returns.
Crash(w) ==
  /\ wpc[w] # "idle"
  /\ wpc' = [wpc EXCEPT ![w] = "idle"]
  /\ covered' = [covered EXCEPT ![w] = FALSE]
  /\ UNCHANGED <<db, cache, marker, puts, enables, readerVars, late>>

Init ==
  /\ db = 0 /\ cache = None /\ marker = 0 /\ enables = 0
  /\ wpc = [w \in Writer |-> "idle"]
  /\ covered = [w \in Writer |-> FALSE]
  /\ rpc = [r \in Reader |-> "idle"]
  /\ row = [r \in Reader |-> None]
  /\ age = [r \in Reader |-> 0]
  /\ puts = 0 /\ late = FALSE

Put(w) == Disable(w) \/ Del(w) \/ DBPut(w) \/ Crash(w)
Get(r) == CacheMiss(r) \/ DBGet(r) \/ PutWhenEnable(r) \/ GetFails(r)

Next ==
  \/ \E w \in Writer : Put(w)
  \/ \E r \in Reader : Get(r)
  \/ Enable \/ Expire \/ Tick

Spec == Init /\ [][Next]_vars /\ WF_vars(Tick) /\ WF_vars(Enable)

---------------------------------------------------------------------------
(* Properties.                                                             *)

\* "A slow reader cannot repopulate the cache with a value that predates the
\* write": what is cached is the row, if every row is written under a marker
\* that was there all the time since Disable and has more than ReadTime left,
\* and no reader takes longer than that.
NoStale == late \/ cache \in {None, cached(db)}

\* "Once the writes settle, the marker expires and the read path re-enables
\* itself", although Enable may fail and writers crash.
Reenabled == <>[](marker = 0)

=============================================================================
