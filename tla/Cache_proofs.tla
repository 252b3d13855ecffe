---------------------------- MODULE Cache_proofs ----------------------------
(***************************************************************************)
(* The cache for any keys, threads, timeout and delay, and the connection  *)
(* behind it for any goroutines, connections and number of retries.        *)
(***************************************************************************)
EXTENDS Cache, DBCache, FiniteSetTheorems, TLAPS

\* The module is long: its leaves get more time than the provers have by default.
USE SMTT(15), ZenonT(15)

\* What is known of the age of entries and of the values threads hold.
Ages ==
    /\ \A k \in Keys : vars[k] # Absent =>
          vars[k].last <= now /\ vars[k].last - vars[k].stamp <= Delay
    /\ \A t \in Threads : pc[t] # "idle" => start[t] <= now /\ now - start[t] <= Delay
    /\ \A t \in Threads : pc[t] = "add" => start[t] <= got[t]

\* After evict a thread sees no entry that was old when it read the clock.
Evicted ==
    \A t \in Threads : pc[t] = "lookup" =>
       \A k \in Keys : vars[k] # Absent => vars[k].last > start[t] - Timeout

\* The value of a hit was read at most Delay before an entry that was young.
Hits ==
    \A t \in Threads : pc[t] = "hit" => got[t] + Delay > start[t] - Timeout

CacheInv == TypeOK /\ ListMatchesMap /\ Ages /\ Evicted /\ Hits

\* The entry of a cached key.
LEMMA EntryFacts ==
    ASSUME TypeOK, NEW k \in Keys, vars[k] # Absent
    PROVE  vars[k] \in [last : Nat, stamp : Nat] /\ vars[k].last \in Nat /\ vars[k].stamp \in Nat
BY DEF TypeOK

\* evict keeps exactly the entries that are young for its clock.
LEMMA EvictKeeps ==
    ASSUME CacheInv, NEW t \in Threads, Evict(t)
    PROVE  CacheInv'
<1>1. PICK n \in 0..Len(ll) :
          /\ n # 0 => vars[ll[n]].last > start[t] - Timeout
          /\ \A i \in (n + 1)..Len(ll) : vars[ll[i]].last <= start[t] - Timeout
          /\ ll' = SubSeq(ll, 1, n)
          /\ vars' = [k \in Keys |->
                         IF \E i \in (n + 1)..Len(ll) : ll[i] = k THEN Absent ELSE vars[k]]
  BY DEF Evict
<1> USE CacheAssumption, EntryAssumption
<1>2. ll \in Seq(Keys) /\ Len(ll) \in Nat /\ \A i \in 1..Len(ll) : ll[i] \in Keys
  BY DEF CacheInv, TypeOK
<1>3. ll' \in Seq(Keys) /\ Len(ll') = n /\ \A i \in 1..n : ll'[i] = ll[i]
  BY <1>1, <1>2
<1>4. \A k \in Keys : vars'[k] # Absent =>
         vars'[k] = vars[k] /\ \E i \in 1..n : ll[i] = k
  BY <1>1, <1>2 DEF CacheInv, ListMatchesMap
<1>5. \A i \in 1..n : vars'[ll[i]] = vars[ll[i]]
  BY <1>1, <1>2 DEF CacheInv, ListMatchesMap
<1>6. TypeOK'
  BY <1>1, <1>3 DEF CacheInv, TypeOK, Evict
<1>7. ListMatchesMap'
  <2>1. \A k \in Keys : vars'[k] # Absent <=> \E i \in 1..Len(ll') : ll'[i] = k
    BY <1>2, <1>3, <1>4, <1>5 DEF CacheInv, ListMatchesMap
  <2>2. \A i, j \in 1..Len(ll') : i < j =>
           ll'[i] # ll'[j] /\ vars'[ll'[i]].last >= vars'[ll'[j]].last
    BY <1>2, <1>3, <1>5 DEF CacheInv, ListMatchesMap
  <2> QED BY <2>1, <2>2 DEF ListMatchesMap
<1>8. Ages'
  BY <1>4 DEF CacheInv, Ages, Evict, TypeOK
<1>9. Evicted'
  <2> SUFFICES ASSUME NEW u \in Threads, pc'[u] = "lookup", NEW k \in Keys, vars'[k] # Absent
               PROVE  vars'[k].last > start'[u] - Timeout
    BY DEF Evicted
  <2>1. CASE u = t
    <3>1. PICK i \in 1..n : ll[i] = k
      BY <1>4
    <3>2. vars[ll[i]].last >= vars[ll[n]].last
      <4>1. CASE i = n
        BY <3>1, <4>1, EntryFacts, <1>2 DEF CacheInv, ListMatchesMap
      <4>2. CASE i # n
        BY <1>2, <3>1, <4>2 DEF CacheInv, ListMatchesMap
      <4> QED
        BY <4>1, <4>2
    <3>3. vars[k] # Absent /\ vars[ll[n]] # Absent
      BY <1>2, <3>1 DEF CacheInv, ListMatchesMap
    <3>4. vars[k].last \in Nat /\ vars[ll[n]].last \in Nat /\ start[t] \in Nat
      BY <1>2, <3>1, <3>3, EntryFacts DEF CacheInv, TypeOK
    <3>5. vars'[k].last = vars[k].last /\ start'[u] = start[t]
      BY <1>4, <2>1 DEF Evict
    <3>6. n # 0
      BY <3>1
    <3>7. vars[ll[n]].last > start[t] - Timeout
      BY <1>1, <3>6, Zenon
    <3>8. vars[k].last >= vars[ll[n]].last
      BY <3>1, <3>2, Zenon
    <3> QED BY <3>4, <3>5, <3>7, <3>8
  <2>2. CASE u # t
    BY <1>4, <2>2 DEF CacheInv, Evicted, Evict, TypeOK
  <2> QED BY <2>1, <2>2
<1>10. Hits'
  BY DEF CacheInv, Hits, Evict, TypeOK
<1> QED BY <1>6, <1>7, <1>8, <1>9, <1>10 DEF CacheInv

\* Add on a miss: the youngest entry, at the front.
LEMMA AddNewKeeps ==
    ASSUME CacheInv, NEW t \in Threads, AddNew(t)
    PROVE  CacheInv'
<1> USE CacheAssumption, EntryAssumption
<1> DEFINE a == arg[t]
           e == [last |-> now, stamp |-> got[t]]
<1>1. a \in Keys /\ e \in [last : Nat, stamp : Nat] /\ e # Absent /\ now \in Nat /\ got[t] \in Nat
  BY DEF CacheInv, TypeOK
<1>2. ll \in Seq(Keys) /\ Len(ll) \in Nat /\ \A i \in 1..Len(ll) : ll[i] \in Keys /\ ll[i] # a
  BY <1>1 DEF CacheInv, TypeOK, ListMatchesMap, AddNew
<1>3. /\ ll' \in Seq(Keys)
      /\ Len(ll') = Len(ll) + 1
      /\ ll'[1] = a
      /\ \A i \in 2..Len(ll') : ll'[i] = ll[i - 1]
  BY <1>1, <1>2 DEF AddNew
<1>4. vars'[a] = e /\ \A k \in Keys \ {a} : vars'[k] = vars[k]
  BY <1>1 DEF AddNew, CacheInv, TypeOK
<1>5. pc'[t] = "idle" /\ \A u \in Threads \ {t} : pc'[u] = pc[u]
  BY DEF AddNew, CacheInv, TypeOK
<1>6. now' = now /\ arg' = arg /\ start' = start /\ got' = got
  BY DEF AddNew
<1>7. TypeOK'
  BY <1>1, <1>3 DEF CacheInv, TypeOK, AddNew
<1>8. ListMatchesMap'
  <2>1. \A k \in Keys : vars'[k] # Absent <=> \E i \in 1..Len(ll') : ll'[i] = k
    <3> SUFFICES ASSUME NEW k \in Keys
                 PROVE  vars'[k] # Absent <=> \E i \in 1..Len(ll') : ll'[i] = k
      OBVIOUS
    <3>1. CASE k = a
      BY <1>1, <1>2, <1>3, <1>4, <3>1
    <3>2. CASE k # a
      <4>1. (\E i \in 1..Len(ll) : ll[i] = k) <=> \E i \in 1..Len(ll') : ll'[i] = k
        <5>1. ASSUME NEW i \in 1..Len(ll), ll[i] = k
              PROVE  \E j \in 1..Len(ll') : ll'[j] = k
          <6>1. i + 1 \in 2..Len(ll') /\ ll'[i + 1] = ll[(i + 1) - 1] /\ (i + 1) - 1 = i
            BY <1>2, <1>3
          <6>2. i + 1 \in 1..Len(ll')
            BY <6>1
          <6> QED BY <5>1, <6>1, <6>2
        <5>2. ASSUME NEW j \in 1..Len(ll'), ll'[j] = k
              PROVE  \E i \in 1..Len(ll) : ll[i] = k
          <6>1. j # 1
            BY <1>3, <3>2, <5>2
          <6>2. j \in 2..Len(ll') /\ j - 1 \in 1..Len(ll)
            BY <1>2, <1>3, <6>1
          <6>3. ll[j - 1] = k
            BY <1>3, <5>2, <6>2
          <6> QED BY <6>2, <6>3
        <5> QED BY <5>1, <5>2
      <4> QED BY <1>4, <3>2, <4>1 DEF CacheInv, ListMatchesMap
    <3> QED BY <3>1, <3>2
  <2>2. ASSUME NEW i \in 1..Len(ll'), NEW j \in 1..Len(ll'), i < j
        PROVE  ll'[i] # ll'[j] /\ vars'[ll'[i]].last >= vars'[ll'[j]].last
    <3>1. j \in 2..Len(ll') /\ ll'[j] = ll[j - 1] /\ j - 1 \in 1..Len(ll)
      BY <1>2, <1>3, <2>2
    <3>2. vars'[ll'[j]] = vars[ll[j - 1]] /\ vars[ll[j - 1]] # Absent
      BY <1>2, <1>4, <3>1 DEF CacheInv, ListMatchesMap
    <3>3. CASE i = 1
      <4>1. vars[ll[j - 1]].last <= now
        BY <1>2, <3>1, <3>2 DEF CacheInv, Ages
      <4>2. vars[ll[j - 1]].last \in Nat
        BY <1>2, <3>1, <3>2, EntryFacts DEF CacheInv
      <4> QED BY <1>1, <1>2, <1>3, <1>4, <3>1, <3>2, <3>3, <4>1, <4>2
    <3>4. CASE i # 1
      <4>1. i \in 2..Len(ll') /\ ll'[i] = ll[i - 1] /\ i - 1 \in 1..Len(ll) /\ i - 1 < j - 1
        BY <1>2, <1>3, <2>2, <3>4
      <4>2. vars'[ll'[i]] = vars[ll[i - 1]]
        BY <1>2, <1>4, <4>1
      <4> QED BY <3>1, <3>2, <4>1, <4>2 DEF CacheInv, ListMatchesMap
    <3> QED BY <3>3, <3>4
  <2> QED BY <2>1, <2>2 DEF ListMatchesMap
<1>9. Ages'
  <2>1. now - got[t] <= Delay
    BY <1>1 DEF CacheInv, Ages, AddNew, TypeOK
  <2>2. \A k \in Keys : vars'[k] # Absent =>
           vars'[k].last <= now' /\ vars'[k].last - vars'[k].stamp <= Delay
    BY <1>1, <1>4, <1>6, <2>1 DEF CacheInv, Ages
  <2> QED BY <1>5, <1>6, <2>2 DEF CacheInv, Ages
<1>10. Evicted'
  <2>1. \A u \in Threads : pc'[u] = "lookup" => now > start[u] - Timeout
    <3> SUFFICES ASSUME NEW u \in Threads, pc'[u] = "lookup"
                 PROVE  now > start[u] - Timeout
      OBVIOUS
    <3>1. pc[u] = "lookup" /\ start[u] \in Nat
      BY <1>5 DEF CacheInv, TypeOK
    <3>2. start[u] <= now
      BY <3>1 DEF CacheInv, Ages
    <3> QED BY <1>1, <3>1, <3>2
  <2> QED BY <1>1, <1>4, <1>5, <1>6, <2>1 DEF CacheInv, Evicted
<1>11. Hits'
  BY <1>5, <1>6 DEF CacheInv, Hits
<1> QED BY <1>7, <1>8, <1>9, <1>10, <1>11 DEF CacheInv

\* Add on a hit: a value read no earlier than Delay ago, in an entry that is no younger.
LEMMA AddReplaceKeeps ==
    ASSUME CacheInv, NEW t \in Threads, AddReplace(t)
    PROVE  CacheInv'
<1> USE CacheAssumption, EntryAssumption
<1> DEFINE a == arg[t]
<1>1. /\ a \in Keys /\ vars[a] # Absent /\ now \in Nat /\ got[t] \in Nat
      /\ vars[a] \in [last : Nat, stamp : Nat]
  BY DEF CacheInv, TypeOK, AddReplace
<1>2. /\ vars'[a] = [last |-> vars[a].last, stamp |-> got[t]]
      /\ vars' \in [Keys -> [last : Nat, stamp : Nat] \cup {Absent}]
      /\ \A k \in Keys \ {a} : vars'[k] = vars[k]
  BY <1>1 DEF AddReplace, CacheInv, TypeOK
<1>3. \A k \in Keys : /\ vars'[k] # Absent <=> vars[k] # Absent
                      /\ vars[k] # Absent => vars'[k].last = vars[k].last
  BY <1>1, <1>2
<1>4. pc'[t] = "idle" /\ \A u \in Threads \ {t} : pc'[u] = pc[u]
  BY DEF AddReplace, CacheInv, TypeOK
<1>5. now' = now /\ ll' = ll /\ arg' = arg /\ start' = start
  BY DEF AddReplace
<1>6. PICK readers \in SUBSET {u \in Threads : pc[u] = "hit" /\ arg[u] = arg[t]} :
          got' = [u \in Threads |-> IF u \in readers THEN got[t] ELSE got[u]]
  BY DEF AddReplace
<1>7. now - got[t] <= Delay
  BY <1>1 DEF CacheInv, Ages, AddReplace, TypeOK
<1>8. TypeOK'
  BY <1>1, <1>2, <1>5, <1>6 DEF CacheInv, TypeOK, AddReplace
<1>9. ListMatchesMap'
  <2>1. \A i \in 1..Len(ll) : ll[i] \in Keys /\ vars[ll[i]] # Absent
    BY DEF CacheInv, ListMatchesMap, TypeOK
  <2>2. \A i \in 1..Len(ll) : vars'[ll[i]].last = vars[ll[i]].last
    BY <1>3, <2>1
  <2> QED BY <1>3, <1>5, <2>1, <2>2 DEF CacheInv, ListMatchesMap
<1>10. Ages'
  <2>1. \A k \in Keys : vars'[k] # Absent =>
           vars'[k].last <= now' /\ vars'[k].last - vars'[k].stamp <= Delay
    BY <1>1, <1>2, <1>3, <1>5, <1>7 DEF CacheInv, Ages
  <2> QED BY <1>4, <1>5, <1>6, <2>1 DEF CacheInv, Ages
<1>11. Evicted'
  BY <1>3, <1>4, <1>5 DEF CacheInv, Evicted
<1>12. Hits'
  <2>1. \A u \in Threads : pc[u] = "hit" => got[t] + Delay > start[u] - Timeout
    <3> SUFFICES ASSUME NEW u \in Threads, pc[u] = "hit"
                 PROVE  got[t] + Delay > start[u] - Timeout
      OBVIOUS
    <3>1. start[u] <= now
      BY DEF CacheInv, Ages
    <3>2. now \in Nat /\ start[u] \in Nat /\ got[t] \in Nat
      BY <1>1 DEF CacheInv, TypeOK
    <3> QED BY <1>7, <3>1, <3>2
  <2> QED BY <1>4, <1>5, <1>6, <2>1 DEF CacheInv, Hits
<1> QED BY <1>8, <1>9, <1>10, <1>11, <1>12 DEF CacheInv

\* CacheInv is inductive.
LEMMA NextKeepsCacheInv ==
    CacheInv /\ [Next]_allVars => CacheInv'
<1> SUFFICES ASSUME CacheInv, [Next]_allVars PROVE CacheInv'
  OBVIOUS
<1> USE CacheAssumption, EntryAssumption
<1>1. CASE Tick
  BY <1>1 DEF Tick, threadVars, CacheInv, TypeOK, ListMatchesMap, Ages, Evicted, Hits
<1>2. ASSUME NEW t \in Threads, NEW k \in Keys, Get(t, k) PROVE CacheInv'
  BY <1>2 DEF Get, CacheInv, TypeOK, ListMatchesMap, Ages, Evicted, Hits
<1>3. ASSUME NEW t \in Threads, Lookup(t) PROVE CacheInv'
  <2>1. TypeOK'
    BY <1>3, EntryFacts DEF Lookup, CacheInv, TypeOK
  <2>3. ListMatchesMap'
    BY <1>3 DEF Lookup, CacheInv, ListMatchesMap
  <2>4. Ages'
    BY <1>3 DEF Lookup, CacheInv, TypeOK, Ages
  <2>5. Evicted'
    BY <1>3 DEF Lookup, CacheInv, TypeOK, Evicted
  <2>2. Hits'
    <3>1. CASE vars[arg[t]] # Absent
      <4>1. arg[t] \in Keys /\ start[t] \in Nat
        BY DEF CacheInv, TypeOK
      <4>2. vars[arg[t]].last \in Nat /\ vars[arg[t]].stamp \in Nat
        BY <3>1, <4>1, EntryFacts DEF CacheInv
      <4>3. vars[arg[t]].stamp + Delay > start[t] - Timeout
        BY <1>3, <3>1, <4>1, <4>2 DEF Lookup, CacheInv, Ages, Evicted
      <4> QED BY <1>3, <3>1, <4>3 DEF Lookup, CacheInv, Hits, TypeOK
    <3>2. CASE vars[arg[t]] = Absent
      BY <1>3, <3>2 DEF Lookup, CacheInv, Hits, TypeOK
    <3> QED BY <3>1, <3>2
  <2> QED BY <2>1, <2>2, <2>3, <2>4, <2>5 DEF CacheInv
<1>4. ASSUME NEW t \in Threads, Return(t) \/ QueryFail(t) PROVE CacheInv'
  <2>1. pc' = [pc EXCEPT ![t] = "idle"] /\ UNCHANGED <<now, vars, ll, arg, start, got>>
    BY <1>4 DEF Return, QueryFail
  <2>2. TypeOK' /\ ListMatchesMap'
    BY <2>1 DEF CacheInv, TypeOK, ListMatchesMap
  <2>3. Ages' /\ Evicted' /\ Hits'
    BY <2>1 DEF CacheInv, TypeOK, Ages, Evicted, Hits
  <2> QED BY <2>2, <2>3 DEF CacheInv
<1>5. ASSUME NEW t \in Threads, Query(t) PROVE CacheInv'
  BY <1>5 DEF Query, CacheInv, TypeOK, ListMatchesMap, Ages, Evicted, Hits
<1>6. CASE UNCHANGED allVars
  BY <1>6 DEF allVars, threadVars, CacheInv, TypeOK, ListMatchesMap, Ages, Evicted, Hits
<1> QED
  BY <1>1, <1>2, <1>3, <1>4, <1>5, <1>6, EvictKeeps, AddNewKeeps, AddReplaceKeeps DEF Next

(***************************************************************************)
(* For any number of keys and threads, any timeout and any bound on the    *)
(* time a call takes: the map and the list of the cache agree, and no hit  *)
(* is older than the timeout and the time of two calls.                    *)
(***************************************************************************)
THEOREM CacheSafe == Spec => [](TypeOK /\ ListMatchesMap /\ HitsAreFresh)
<1>1. Init => CacheInv
  BY CacheAssumption DEF Init, CacheInv, TypeOK, ListMatchesMap, Ages, Evicted, Hits
<1>2. CacheInv => TypeOK /\ ListMatchesMap /\ HitsAreFresh
  BY CacheAssumption DEF CacheInv, TypeOK, Ages, Hits, HitsAreFresh
<1> QED BY <1>1, <1>2, NextKeepsCacheInv, PTL DEF Spec

(***************************************************************************)
(* The map of the cache and its list hold the same entries, oldest last:   *)
(* evict finds every entry that is too old.                                *)
(***************************************************************************)
THEOREM CacheListSafe == Spec => []ListMatchesMap
BY CacheSafe, PTL

(***************************************************************************)
(* The entries of the cache and what its callers hold keep their types,    *)
(* for any keys and callers.                                               *)
(***************************************************************************)
THEOREM CacheTyped == Spec => []TypeOK
BY CacheSafe, PTL

-----------------------------------------------------------------------------

(***************************************************************************)
(* The database connection behind the cache (DBCache).  Coherent speaks of *)
(* the free lock: the invariant says who has it, and what the connection   *)
(* and the statements are on the way (Locking).  A call that finds its     *)
(* statement usable must find it so when it gets the lock (SteadyInv).     *)
(***************************************************************************)

\* The goroutine in the loop has the lock; the connection and its statements
\* differ only between the two halves of conectDB, when the connection is new.
Locking ==
    /\ \A c \in Clients : lock = c <=> at[c] \in {"loop", "connect", "prepare", "close"}
    /\ \A c \in Clients : at[c] = "prepare" => dbc \in Conns \ closed
    /\ (\A c \in Clients : at[c] \notin {"prepare", "close"}) => stmt = dbc /\ stmt \notin closed
    /\ \A c \in Clients : at[c] \in {"connect", "prepare", "close"} => tries[c] < maxRetry
    /\ \A c \in Clients : at[c] # "idle" => res[c] = "none"
    /\ \A c, d \in Clients : at[c] = "dead" => at[d] = "dead" /\ closed = {} /\ ~steady[d]

\* While the database answers, a captured statement stays open, because no
\* closeAll is due, and the second try of a call finds a connection.
SteadyInv ==
    \A c \in Clients : steady[c] /\ kind[c] # "insertErrorStats" =>
       /\ up
       /\ res[c] \in {"none", "ok"}
       /\ at[c] # "idle" /\ kind[c] # "dbQuery" =>
             /\ at[c] \in {"wait", "loop"} /\ tries[c] = 0
             /\ Usable(captured[c]) /\ dbc # Nil
             /\ \A d \in Clients : at[d] # "close"
       /\ at[c] # "idle" /\ kind[c] = "dbQuery" =>
             \/ tries[c] = 0 /\ at[c] # "close"
             \/ tries[c] = 1 /\ dbc # Nil /\ at[c] = "loop"

DBInv == DBTypeOK /\ Locking /\ SteadyInv

USE RetryAssumption, ClientsAssumption, ConnsAssumption

\* There are more connections than things that refer to one.
LEMMA FreshExists ==
  ASSUME DBTypeOK
  PROVE  Fresh \in Conns \ ({dbc, stmt} \cup {captured[d] : d \in Clients})
<1> DEFINE S == {captured[d] : d \in Clients}
<1>1. IsFiniteSet(S) /\ Cardinality(S) <= Cardinality(Clients)
  <2>1. captured \in Surjection(Clients, S)
    BY DEF DBTypeOK, Surjection
  <2> HIDE DEF S
  <2> QED
    BY <2>1, FS_Surjection
<1> HIDE DEF S
<1>2. Cardinality(Clients) \in Nat /\ Cardinality(S) \in Nat
  BY <1>1, FS_CardinalityType
<1>3. ASSUME NEW T, IsFiniteSet(T), NEW x
      PROVE  /\ IsFiniteSet(T \cup {x})
             /\ Cardinality(T) \in Nat /\ Cardinality(T \cup {x}) \in Nat
             /\ Cardinality(T \cup {x}) <= Cardinality(T) + 1
  <2>1. /\ IsFiniteSet(T \cup {x})
        /\ Cardinality(T \cup {x}) = IF x \in T THEN Cardinality(T) ELSE Cardinality(T) + 1
    BY <1>3, FS_AddElement, Zenon
  <2>2. Cardinality(T) \in Nat
    BY <1>3, FS_CardinalityType
  <2> QED
    BY <2>1, <2>2
<1>4. /\ IsFiniteSet((S \cup {dbc}) \cup {stmt})
      /\ Cardinality((S \cup {dbc}) \cup {stmt}) <= Cardinality(S) + 2
      /\ Cardinality((S \cup {dbc}) \cup {stmt}) \in Nat
  <2>1. /\ IsFiniteSet(S \cup {dbc}) /\ Cardinality(S \cup {dbc}) \in Nat
        /\ Cardinality(S \cup {dbc}) <= Cardinality(S) + 1
    BY <1>1, <1>3
  <2>2. /\ IsFiniteSet((S \cup {dbc}) \cup {stmt})
        /\ Cardinality((S \cup {dbc}) \cup {stmt}) \in Nat
        /\ Cardinality((S \cup {dbc}) \cup {stmt}) <= Cardinality(S \cup {dbc}) + 1
    BY <1>3, <2>1
  <2> QED
    BY <1>2, <2>1, <2>2
<1>5. \E g \in Conns : g \notin {dbc, stmt} \cup S
  <2> SUFFICES ASSUME Conns \subseteq (S \cup {dbc}) \cup {stmt} PROVE FALSE
    OBVIOUS
  <2>1. Cardinality(Conns) <= Cardinality((S \cup {dbc}) \cup {stmt}) /\ IsFiniteSet(Conns)
    BY <1>4, FS_Subset
  <2>2. Cardinality(Conns) \in Nat
    BY <2>1, FS_CardinalityType
  <2> QED
    BY <1>1, <1>2, <1>4, <2>1, <2>2
<1> QED
  BY <1>5 DEF Fresh, S

\* conectDB has a connection to begin with.
LEMMA ConnsNotEmpty == (CHOOSE g \in Conns : TRUE) \in Conns
<1>1. Conns # {}
  <2>1. Cardinality(Clients) \in Nat /\ Cardinality({}) = 0
    BY FS_EmptySet, FS_CardinalityType
  <2> QED
    BY <2>1
<1> QED
  BY <1>1

\* DBInit of the repeater ends with a connection and its statements.
LEMMA DBInitInv == DBInit => DBInv
<1> SUFFICES ASSUME DBInit PROVE DBInv
  OBVIOUS
<1>0. dbc \in Conns
  BY ConnsNotEmpty DEF DBInit
<1>1. DBTypeOK
  BY <1>0 DEF DBInit, DBTypeOK
<1>2. Locking
  BY <1>0 DEF DBInit, Locking
<1>3. SteadyInv
  BY DEF DBInit, SteadyInv
<1> QED
  BY <1>1, <1>2, <1>3 DEF DBInv

\* The types: a retry adds to tries only below maxRetry, and a new connection is one.
LEMMA DBTypeStep == DBInv /\ [DBNext]_dbVars => DBTypeOK'
<1> SUFFICES ASSUME DBInv, [DBNext]_dbVars PROVE DBTypeOK'
  OBVIOUS
<1> USE DEF DBInv, callVars, DBTypeOK, Locking
<1>a. CASE Down
  BY <1>a DEF Down
<1>b. CASE Up
  BY <1>b DEF Up
<1>c. CASE Restart
  BY <1>c, ConnsNotEmpty DEF Restart
<1>1. ASSUME NEW c \in Clients, NEW k \in {"queryDB", "insertStats", "insertErrorStats"}, CallStmt(c, k) PROVE DBTypeOK'
  BY <1>1 DEF CallStmt, Begin
<1>2. ASSUME NEW c \in Clients, CallClosure(c) PROVE DBTypeOK'
  BY <1>2 DEF CallClosure, Begin
<1>3. ASSUME NEW c \in Clients, Lock(c) PROVE DBTypeOK'
  BY <1>3 DEF Lock
<1>4. ASSUME NEW c \in Clients, Call(c) PROVE DBTypeOK'
  <2>1. /\ tries[c] < maxRetry
        /\ \/ Dies
           \/ End(c, "panic") \/ End(c, "ok")
           \/ Again(c, TRUE) /\ UNCHANGED <<dbc, stmt, closed>>
           \/ Connect(c)
    BY ONLY <1>4 DEF Call, Panic
  <2>2. CASE End(c, "panic") \/ End(c, "ok")
    BY <2>2 DEF End
  <2>5. CASE Dies
    BY <2>5 DEF Dies
  <2>3. CASE Again(c, TRUE) /\ UNCHANGED <<dbc, stmt, closed>>
    BY <2>1, <2>3 DEF Again
  <2>4. CASE Connect(c)
    BY <2>1, <2>4 DEF Connect
  <2> QED
    BY ONLY <2>1, <2>2, <2>3, <2>4, <2>5
<1>5. ASSUME NEW c \in Clients, NotConnected(c) PROVE DBTypeOK'
  BY <1>5 DEF NotConnected, Connect
<1>6. ASSUME NEW c \in Clients, GiveUp(c) PROVE DBTypeOK'
  <2>1. CASE Dies
    BY <2>1 DEF Dies
  <2>2. CASE End(c, "error") \/ End(c, "panic")
    BY <2>2 DEF End
  <2> QED
    BY ONLY <1>6, <2>1, <2>2 DEF GiveUp, Panic
<1>7. ASSUME NEW c \in Clients, GetConnection(c) PROVE DBTypeOK'
  BY <1>7, FreshExists DEF GetConnection
<1>8. ASSUME NEW c \in Clients, GetConnectionFail(c) PROVE DBTypeOK'
  BY <1>8 DEF GetConnectionFail
<1>9. ASSUME NEW c \in Clients, Prepare(c) PROVE DBTypeOK'
  BY <1>9 DEF Prepare
<1>10. ASSUME NEW c \in Clients, Prepared(c) PROVE DBTypeOK'
  BY <1>10 DEF Prepared, Again
<1>11. ASSUME NEW c \in Clients, PrepareFail(c) PROVE DBTypeOK'
  BY <1>11 DEF PrepareFail
<1>12. ASSUME NEW c \in Clients, closeAll(c) PROVE DBTypeOK'
  BY <1>12 DEF closeAll, Again
<1>13. ASSUME NEW c \in Clients, conectDB(c) PROVE DBTypeOK'
  BY ONLY <1>7, <1>8, <1>9, <1>10, <1>11, <1>12, <1>13 DEF conectDB
<1>17. CASE UNCHANGED dbVars
  BY <1>17 DEF dbVars
<1>18. \/ Down \/ Up \/ Restart \/ UNCHANGED dbVars
       \/ \E c \in Clients : \/ \E k \in {"queryDB", "insertStats", "insertErrorStats"} : CallStmt(c, k)
                            \/ CallClosure(c) \/ Lock(c) \/ Call(c) \/ NotConnected(c) \/ GiveUp(c) \/ conectDB(c)
  BY ONLY [DBNext]_dbVars DEF DBNext
<1> QED
  BY ONLY <1>a, <1>b, <1>c, <1>1, <1>2, <1>3, <1>4, <1>5, <1>6, <1>13, <1>17, <1>18

\* Only the goroutine in the loop touches the connection and the statements.  It
\* leaves them the same whenever it leaves the loop or goes round it.
LEMMA LockingStep == DBInv /\ [DBNext]_dbVars => Locking'
<1> SUFFICES ASSUME DBInv, [DBNext]_dbVars PROVE Locking'
  OBVIOUS
<1> USE DEF DBInv, callVars, DBTypeOK, Locking
<1>a. CASE Down
  BY <1>a DEF Down
<1>b. CASE Up
  BY <1>b DEF Up
<1>c. CASE Restart
  BY <1>c, ConnsNotEmpty DEF Restart
<1>1. ASSUME NEW c \in Clients, NEW k \in {"queryDB", "insertStats", "insertErrorStats"}, CallStmt(c, k) PROVE Locking'
  BY <1>1 DEF CallStmt, Begin
<1>2. ASSUME NEW c \in Clients, CallClosure(c) PROVE Locking'
  BY <1>2 DEF CallClosure, Begin
<1>3. ASSUME NEW c \in Clients, Lock(c) PROVE Locking'
  BY <1>3 DEF Lock
<1>4. ASSUME NEW c \in Clients, Call(c) PROVE Locking'
  BY <1>4 DEF Call, Panic, End, Dies, Again, Connect, Given, Succeeds
<1>5. ASSUME NEW c \in Clients, NotConnected(c) PROVE Locking'
  BY <1>5 DEF NotConnected, Connect
<1>6. ASSUME NEW c \in Clients, GiveUp(c) PROVE Locking'
  BY <1>6 DEF GiveUp, Panic, End, Dies
<1>7. ASSUME NEW c \in Clients, GetConnection(c) PROVE Locking'
  BY <1>7, FreshExists DEF GetConnection
<1>8. ASSUME NEW c \in Clients, GetConnectionFail(c) PROVE Locking'
  BY <1>8 DEF GetConnectionFail
<1>9. ASSUME NEW c \in Clients, Prepare(c) PROVE Locking'
  BY <1>9 DEF Prepare
<1>10. ASSUME NEW c \in Clients, Prepared(c) PROVE Locking'
  BY <1>10 DEF Prepared, Again
<1>11. ASSUME NEW c \in Clients, PrepareFail(c) PROVE Locking'
  BY <1>11 DEF PrepareFail
<1>12. ASSUME NEW c \in Clients, closeAll(c) PROVE Locking'
  BY <1>12 DEF closeAll, Again
<1>13. ASSUME NEW c \in Clients, conectDB(c) PROVE Locking'
  BY ONLY <1>7, <1>8, <1>9, <1>10, <1>11, <1>12, <1>13 DEF conectDB
<1>17. CASE UNCHANGED dbVars
  BY <1>17 DEF dbVars
<1>18. \/ Down \/ Up \/ Restart \/ UNCHANGED dbVars
       \/ \E c \in Clients : \/ \E k \in {"queryDB", "insertStats", "insertErrorStats"} : CallStmt(c, k)
                            \/ CallClosure(c) \/ Lock(c) \/ Call(c) \/ NotConnected(c) \/ GiveUp(c) \/ conectDB(c)
  BY ONLY [DBNext]_dbVars DEF DBNext
<1> QED
  BY ONLY <1>a, <1>b, <1>c, <1>1, <1>2, <1>3, <1>4, <1>5, <1>6, <1>13, <1>17, <1>18

\* The other goroutines replace the statements of a call while the database
\* answers, but close none.
LEMMA SteadyStep == DBInv /\ [DBNext]_dbVars => SteadyInv'
<1> SUFFICES ASSUME DBInv, [DBNext]_dbVars PROVE SteadyInv'
  OBVIOUS
<1> USE DEF DBInv, callVars, DBTypeOK, Locking, SteadyInv, Usable
<1>a. CASE Down
  BY <1>a DEF Down
<1>b. CASE Up
  BY <1>b DEF Up
<1>c. CASE Restart
  BY <1>c, ConnsNotEmpty DEF Restart
<1>1. ASSUME NEW c \in Clients, NEW k \in {"queryDB", "insertStats", "insertErrorStats"}, CallStmt(c, k) PROVE SteadyInv'
  <2>1. /\ steady'[c] => up /\ Usable(stmt) /\ \A d \in Clients : at[d] # "close"
        /\ \A d \in Clients \ {c} : steady'[d] => steady[d]
    BY ONLY <1>1, DBTypeOK, Zenon DEF CallStmt, DBTypeOK
  <2>2. Begin(c, k, stmt) /\ k # "dbQuery"
    BY <1>1 DEF CallStmt
  <2> QED
    BY <2>1, <2>2 DEF Begin
<1>2. ASSUME NEW c \in Clients, CallClosure(c) PROVE SteadyInv'
  <2>1. /\ steady'[c] => up
        /\ \A d \in Clients \ {c} : steady'[d] => steady[d]
    BY ONLY <1>2, DBTypeOK, Zenon DEF CallClosure, DBTypeOK
  <2> QED
    BY <1>2, <2>1 DEF CallClosure, Begin
<1>3. ASSUME NEW c \in Clients, Lock(c) PROVE SteadyInv'
  BY <1>3 DEF Lock
<1>4. ASSUME NEW c \in Clients, Call(c) PROVE SteadyInv'
  BY <1>4 DEF Call, Panic, End, Dies, Again, Connect, Given, Succeeds
<1>5. ASSUME NEW c \in Clients, NotConnected(c) PROVE SteadyInv'
  BY <1>5 DEF NotConnected, Connect
<1>6. ASSUME NEW c \in Clients, GiveUp(c) PROVE SteadyInv'
  BY <1>6 DEF GiveUp, Panic, End, Dies
<1>7. ASSUME NEW c \in Clients, GetConnection(c) PROVE SteadyInv'
  BY <1>7, FreshExists DEF GetConnection
<1>8. ASSUME NEW c \in Clients, GetConnectionFail(c) PROVE SteadyInv'
  BY <1>8 DEF GetConnectionFail
<1>9. ASSUME NEW c \in Clients, Prepare(c) PROVE SteadyInv'
  BY <1>9 DEF Prepare
<1>10. ASSUME NEW c \in Clients, Prepared(c) PROVE SteadyInv'
  BY <1>10 DEF Prepared, Again
<1>11. ASSUME NEW c \in Clients, PrepareFail(c) PROVE SteadyInv'
  BY <1>11 DEF PrepareFail
<1>12. ASSUME NEW c \in Clients, closeAll(c) PROVE SteadyInv'
  BY <1>12 DEF closeAll, Again
<1>13. ASSUME NEW c \in Clients, conectDB(c) PROVE SteadyInv'
  BY ONLY <1>7, <1>8, <1>9, <1>10, <1>11, <1>12, <1>13 DEF conectDB
<1>17. CASE UNCHANGED dbVars
  BY <1>17 DEF dbVars
<1>18. \/ Down \/ Up \/ Restart \/ UNCHANGED dbVars
       \/ \E c \in Clients : \/ \E k \in {"queryDB", "insertStats", "insertErrorStats"} : CallStmt(c, k)
                            \/ CallClosure(c) \/ Lock(c) \/ Call(c) \/ NotConnected(c) \/ GiveUp(c) \/ conectDB(c)
  BY ONLY [DBNext]_dbVars DEF DBNext
<1> QED
  BY ONLY <1>a, <1>b, <1>c, <1>1, <1>2, <1>3, <1>4, <1>5, <1>6, <1>13, <1>17, <1>18

\* Every step of every goroutine, and of the database, keeps the invariant.
LEMMA DBNextInv == DBInv /\ [DBNext]_dbVars => DBInv'
BY DBTypeStep, LockingStep, SteadyStep DEF DBInv

\* What is checked of DBCache follows.
LEMMA DBInvIsSafe == DBInv => DBTypeOK /\ Coherent /\ SteadyCallsSucceed
<1> SUFFICES ASSUME DBInv PROVE Coherent /\ SteadyCallsSucceed
  BY DEF DBInv
<1>1. Coherent
  BY DEF DBInv, Locking, DBTypeOK, Coherent
<1>2. SteadyCallsSucceed
  BY DEF DBInv, SteadyInv, SteadyCallsSucceed
<1> QED
  BY <1>1, <1>2

(***************************************************************************)
(* Whenever no goroutine has the lock of dbCache, its connection and its   *)
(* prepared statements belong together and are open, or both are nil, for  *)
(* any number of goroutines and retries: conectDB and closeAll replace     *)
(* them in several steps, on every error path.                             *)
(***************************************************************************)
THEOREM DBCacheSafe == DBSpec => [](DBTypeOK /\ Coherent)
<1>1. DBSpec => []DBInv
  BY DBInitInv, DBNextInv, PTL DEF DBSpec
<1> QED
  BY <1>1, DBInvIsSafe, PTL

(***************************************************************************)
(* queryDB, dbQuery and insertStats do not fail while the database         *)
(* answers, for any number of goroutines that reconnect in between: the    *)
(* statement a caller read before it had the lock is still open when it is *)
(* used, unless a conectDB that had failed before has still to run its     *)
(* closeAll.                                                               *)
(***************************************************************************)
THEOREM SteadyCalls == DBSpec => []SteadyCallsSucceed
<1>1. DBSpec => []DBInv
  BY DBInitInv, DBNextInv, PTL DEF DBSpec
<1> QED
  BY <1>1, DBInvIsSafe, PTL

(***************************************************************************)
(* conectDB finds a connection nobody refers to, and no call is tried more *)
(* often than maxRetry, for any number of goroutines.                      *)
(***************************************************************************)
THEOREM DBCacheTyped == DBSpec => []DBTypeOK
BY DBCacheSafe, PTL

=============================================================================
