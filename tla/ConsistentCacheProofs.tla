----------------------- MODULE ConsistentCacheProofs ------------------------
(***************************************************************************)
(* NoStale for any number of readers and writers and any lifetimes: the    *)
(* marker outlives every reader that holds an older row.                   *)
(***************************************************************************)
EXTENDS ConsistentCache, TLAPS

TypeInv ==
  /\ db \in Nat /\ marker \in Nat
  /\ wpc \in [Writer -> {"idle", "del", "put"}]
  /\ covered \in [Writer -> BOOLEAN]
  /\ rpc \in [Reader -> {"idle", "db", "fill"}]
  /\ age \in [Reader -> Nat]
  /\ row \in [Reader -> Nat \cup {None, NullData}]
  /\ late \in BOOLEAN

\* As long as nothing came late: a Put that is covered has its marker, and
\* finds the cache empty when it writes the row; a reader whose row is no
\* longer the one in the database will be stopped by the marker, or is late.
Sheltered ==
  /\ \A w \in Writer : covered[w] => marker # 0
  /\ \A w \in Writer : covered[w] /\ wpc[w] = "put" => cache = None
  /\ \A r \in Reader :
       rpc[r] = "fill" /\ row[r] # cached(db) => marker + age[r] > ReadTime

CacheInv == TypeInv /\ (late \/ (NoStale /\ Sheltered))

\* Writers keep the invariant.
LEMMA PutInv ==
  ASSUME NEW w \in Writer, CacheInv, Put(w)
  PROVE  CacheInv'
<1> USE CacheAssumption DEF CacheInv, TypeInv, NoStale, Sheltered, readerVars,
                            returns, disabled, cached
<1>1. CASE Disable(w)
  <2>1. TypeInv' BY <1>1 DEF Disable
  <2>2. marker' = marker \/ marker' > ReadTime BY <1>1 DEF Disable
  <2>3. ASSUME ~late PROVE NoStale' BY <1>1, <2>3 DEF Disable
  <2>4. ASSUME ~late PROVE Sheltered'
    <3>1. \A v \in Writer : covered'[v] => marker' # 0
      BY <1>1, <2>4 DEF Disable
    <3>2. \A v \in Writer : covered'[v] /\ wpc'[v] = "put" => cache' = None
      BY <1>1, <2>4 DEF Disable
    <3>3. \A r \in Reader : rpc'[r] = "fill" /\ row'[r] # cached(db') =>
            marker' + age'[r] > ReadTime
      BY <1>1, <2>2, <2>4 DEF Disable
    <3> QED BY <3>1, <3>2, <3>3
  <2>5. late' = late BY <1>1 DEF Disable
  <2> QED BY <2>1, <2>3, <2>4, <2>5
<1>2. CASE Del(w) BY <1>2 DEF Del
<1>3. CASE DBPut(w)
  <2>0. db' \in Nat /\ late' \in BOOLEAN
    <3>1. db' \in {db, db + 1} BY <1>3 DEF DBPut
    <3>2. late' = late \/ late' = TRUE BY <1>3 DEF DBPut
    <3>3. db' \in Nat BY <3>1
    <3>4. late' \in BOOLEAN BY <3>2
    <3> QED BY <3>3, <3>4
  <2>1. TypeInv' BY <1>3, <2>0 DEF DBPut
  <2>2. CASE UNCHANGED <<db, late>>
    BY <1>3, <2>1, <2>2 DEF DBPut
  <2>3. CASE IF covered[w] /\ marker > ReadTime THEN UNCHANGED late
                                              ELSE late' = TRUE
    <3>1. SUFFICES ASSUME ~late' PROVE NoStale' /\ Sheltered'
      BY <2>1
    <3>2. ~late /\ covered[w] /\ marker > ReadTime BY <2>3, <3>1
    <3>3. cache' = None BY <1>3, <3>2 DEF DBPut
    <3>4. \A r \in Reader : marker' + age'[r] > ReadTime
      BY <1>3, <3>2 DEF DBPut
    <3>5. \A v \in Writer : covered'[v] => marker' # 0
      BY <1>3, <3>2 DEF DBPut
    <3> QED BY <3>3, <3>4, <3>5
  <2> QED BY <1>3, <2>2, <2>3 DEF DBPut
<1>4. CASE Crash(w) BY <1>4 DEF Crash
<1> QED BY <1>1, <1>2, <1>3, <1>4 DEF Put

\* Readers keep the invariant.
LEMMA GetInv ==
  ASSUME NEW r \in Reader, CacheInv, Get(r)
  PROVE  CacheInv'
<1> USE CacheAssumption DEF CacheInv, TypeInv, NoStale, Sheltered, writerVars,
                            return, cached
<1>1. CASE CacheMiss(r) BY <1>1 DEF CacheMiss
<1>2. CASE DBGet(r) BY <1>2 DEF DBGet
<1>3. CASE PutWhenEnable(r)
  <2>1. TypeInv' BY <1>3 DEF PutWhenEnable
  <2>2. SUFFICES ASSUME ~late' PROVE NoStale' /\ Sheltered'
    BY <2>1
  <2>3. ~late /\ ~(marker = 0 /\ age[r] > ReadTime)
    BY <1>3, <2>2 DEF PutWhenEnable, enabled
  <2>4. NoStale' BY <1>3, <2>3 DEF PutWhenEnable, enabled
  <2>5. Sheltered' BY <1>3, <2>3 DEF PutWhenEnable, enabled
  <2> QED BY <2>4, <2>5
<1>4. CASE GetFails(r) BY <1>4 DEF GetFails
<1> QED BY <1>1, <1>2, <1>3, <1>4 DEF Get

\* So do Enable, the end of a cached value, and the passing of time.
LEMMA EnvironmentInv ==
  ASSUME CacheInv, Enable \/ Expire \/ Tick
  PROVE  CacheInv'
<1> USE CacheAssumption DEF CacheInv, TypeInv, NoStale, Sheltered, writerVars,
                            readerVars, cached
<1>1. CASE Enable BY <1>1 DEF Enable
<1>2. CASE Expire BY <1>2 DEF Expire
<1>3. CASE Tick BY <1>3 DEF Tick
<1> QED BY <1>1, <1>2, <1>3

\* What Service.Get caches never predates a write, for every number of
\* readers and writers and all lifetimes, as long as rows are written under
\* the marker and readers are not slower than it.
THEOREM NeverStale == Spec => []NoStale
<1>1. Init => CacheInv
  <2> SUFFICES ASSUME Init PROVE CacheInv OBVIOUS
  <2>1. TypeInv BY DEF Init, TypeInv
  <2>2. NoStale /\ Sheltered BY DEF Init, NoStale, Sheltered
  <2> QED BY <2>1, <2>2 DEF CacheInv
<1>2. CacheInv /\ [Next]_vars => CacheInv'
  <2> SUFFICES ASSUME CacheInv, [Next]_vars PROVE CacheInv' OBVIOUS
  <2>1. CASE UNCHANGED vars
    BY <2>1 DEF vars, writerVars, readerVars, CacheInv, TypeInv, NoStale,
                Sheltered, cached
  <2>2. CASE Next BY <2>2, PutInv, GetInv, EnvironmentInv DEF Next
  <2> QED BY <2>1, <2>2
<1>3. CacheInv => NoStale BY DEF CacheInv, NoStale
<1> QED BY <1>1, <1>2, <1>3, PTL DEF Spec

=============================================================================
