------------------------------- MODULE Cache --------------------------------
(***************************************************************************)
(* The cache of the repeater: crab's cache.Cache and its use by dbCache in *)
(* repeater/cache.go.  getApplication, getInterface, getVariable and       *)
(* validateRelation all ask the cache, query the database on a miss and    *)
(* add what they found; only the steps are atomic, not the sequence.  A    *)
(* value is the second it was read from the database: what matters of it   *)
(* is how old it is.                                                       *)
(***************************************************************************)
EXTENDS Integers, Sequences

CONSTANTS Keys,       \* keys of the cache
          Threads,    \* requests the gateway serves concurrently
          Timeout,    \* Cache.timeout, in seconds
          Delay,      \* bound on the seconds a call takes
          MaxTime,    \* bound on the clock
          Absent      \* no entry

\* stats.run makes a ticker of the same configured timeout: it panics on zero.
ASSUME CacheAssumption == Timeout \in Nat \ {0} /\ Delay \in Nat /\ MaxTime \in Nat
ASSUME EntryAssumption == Absent \notin [last : Nat, stamp : Nat]

VARIABLES now,        \* time.Now().Unix()
          vars,       \* Cache.vars: the entry of a key, or Absent
          ll,         \* Cache.ll: the keys, front first
          pc,         \* where the call of a thread is
          arg,        \* the key it asks for
          start,      \* when it began, and read the clock for evict
          got         \* the value it has: from the cache, or from the database

threadVars == <<pc, arg, start, got>>
allVars == <<now, vars, ll, threadVars>>

TypeOK ==
    /\ now \in 0..MaxTime
    /\ vars \in [Keys -> [last : Nat, stamp : Nat] \cup {Absent}]
    /\ ll \in Seq(Keys)
    /\ pc \in [Threads -> {"idle", "evict", "lookup", "hit", "query", "add"}]
    /\ arg \in [Threads -> Keys]
    /\ start \in [Threads -> Nat]
    /\ got \in [Threads -> Nat]

Init ==
    /\ now = 0
    /\ vars = [k \in Keys |-> Absent]
    /\ ll = <<>>
    /\ pc = [t \in Threads |-> "idle"]
    /\ arg \in [Threads -> Keys]
    /\ start = [t \in Threads |-> 0]
    /\ got = [t \in Threads |-> 0]

\* Time passes; no call takes longer than Delay.
Tick ==
    /\ now < MaxTime
    /\ \A t \in Threads : pc[t] # "idle" => now - start[t] < Delay
    /\ now' = now + 1
    /\ UNCHANGED <<vars, ll, threadVars>>

\* Mutant of Get: Timeout is taken from the clock twice.
GetStoresCut(t, k) ==
    /\ pc[t] = "idle"
    /\ pc' = [pc EXCEPT ![t] = "evict"]
    /\ arg' = [arg EXCEPT ![t] = k]
    /\ start' = [start EXCEPT ![t] = now - Timeout]
    /\ UNCHANGED <<now, vars, ll, got>>

\* Get: evict reads the clock before it has the lock.
Get(t, k) ==
    /\ pc[t] = "idle"
    /\ pc' = [pc EXCEPT ![t] = "evict"]
    /\ arg' = [arg EXCEPT ![t] = k]
    /\ start' = [start EXCEPT ![t] = now]
    /\ UNCHANGED <<now, vars, ll, got>>

\* Mutant of Evict: an entry may reach the age Timeout.
EvictOlder(t) ==
    /\ pc[t] = "evict"
    /\ \E n \in 0..Len(ll) :
          /\ n # 0 => vars[ll[n]].last >= start[t] - Timeout
          /\ \A i \in (n + 1)..Len(ll) : vars[ll[i]].last < start[t] - Timeout
          /\ ll' = SubSeq(ll, 1, n)
          /\ vars' = [k \in Keys |->
                         IF \E i \in (n + 1)..Len(ll) : ll[i] = k THEN Absent ELSE vars[k]]
    /\ pc' = [pc EXCEPT ![t] = "lookup"]
    /\ UNCHANGED <<now, arg, start, got>>

\* The loop of evict stops at the first entry, from the back, to keep: n is its index.
Evict(t) ==
    /\ pc[t] = "evict"
    /\ \E n \in 0..Len(ll) :
          /\ n # 0 => vars[ll[n]].last > start[t] - Timeout
          /\ \A i \in (n + 1)..Len(ll) : vars[ll[i]].last <= start[t] - Timeout
          /\ ll' = SubSeq(ll, 1, n)
          /\ vars' = [k \in Keys |->
                         IF \E i \in (n + 1)..Len(ll) : ll[i] = k THEN Absent ELSE vars[k]]
    /\ pc' = [pc EXCEPT ![t] = "lookup"]
    /\ UNCHANGED <<now, arg, start, got>>

\* The second half of Get, under the read lock.
Lookup(t) ==
    /\ pc[t] = "lookup"
    /\ IF vars[arg[t]] # Absent
       THEN /\ pc' = [pc EXCEPT ![t] = "hit"]
            /\ got' = [got EXCEPT ![t] = vars[arg[t]].stamp]
       ELSE /\ pc' = [pc EXCEPT ![t] = "query"]
            /\ UNCHANGED got
    /\ UNCHANGED <<now, vars, ll, arg, start>>

Return(t) ==
    /\ pc[t] = "hit"
    /\ pc' = [pc EXCEPT ![t] = "idle"]
    /\ UNCHANGED <<now, vars, ll, arg, start, got>>

\* The miss: queryDB finds the row ...
Query(t) ==
    /\ pc[t] = "query"
    /\ pc' = [pc EXCEPT ![t] = "add"]
    /\ got' = [got EXCEPT ![t] = now]
    /\ UNCHANGED <<now, vars, ll, arg, start>>

\* ... or returns an error, and nothing is cached.
QueryFail(t) ==
    /\ pc[t] = "query"
    /\ pc' = [pc EXCEPT ![t] = "idle"]
    /\ UNCHANGED <<now, vars, ll, arg, start, got>>

\* Mutant of AddReplace: the age is refreshed, the place in the list is not.
AddReplaceRefreshes(t) ==
    /\ pc[t] = "add"
    /\ vars[arg[t]] # Absent
    /\ vars' = [vars EXCEPT ![arg[t]] = [last |-> now, stamp |-> got[t]]]
    /\ pc' = [pc EXCEPT ![t] = "idle"]
    /\ UNCHANGED <<now, ll, arg, start, got>>

\* Add of a key that is there replaces the value and leaves its age and its
\* place.  Get reads the value after it released the lock: a thread that has
\* found the entry may see the old value or the new one.
AddReplace(t) ==
    /\ pc[t] = "add"
    /\ vars[arg[t]] # Absent
    /\ vars' = [vars EXCEPT ![arg[t]].stamp = got[t]]
    /\ \E readers \in SUBSET {u \in Threads : pc[u] = "hit" /\ arg[u] = arg[t]} :
          got' = [u \in Threads |-> IF u \in readers THEN got[t] ELSE got[u]]
    /\ pc' = [pc EXCEPT ![t] = "idle"]
    /\ UNCHANGED <<now, ll, arg, start>>

AddNew(t) ==
    /\ pc[t] = "add"
    /\ vars[arg[t]] = Absent
    /\ vars' = [vars EXCEPT ![arg[t]] = [last |-> now, stamp |-> got[t]]]
    /\ ll' = <<arg[t]>> \o ll
    /\ pc' = [pc EXCEPT ![t] = "idle"]
    /\ UNCHANGED <<now, arg, start, got>>

Next ==
    \/ Tick
    \/ \E t \in Threads :
          \/ \E k \in Keys : Get(t, k)
          \/ Evict(t)
          \/ Lookup(t)
          \/ Return(t)
          \/ Query(t)
          \/ QueryFail(t)
          \/ AddReplace(t)
          \/ AddNew(t)

Spec == Init /\ [][Next]_allVars

-----------------------------------------------------------------------------

(***************************************************************************)
(* The map and the list hold the same entries, each once, oldest at the    *)
(* back: evict, which stops at the first young entry, misses no old one,   *)
(* and no entry is out of its reach.                                       *)
(***************************************************************************)
ListMatchesMap ==
    /\ \A k \in Keys : vars[k] # Absent <=> \E i \in 1..Len(ll) : ll[i] = k
    /\ \A i, j \in 1..Len(ll) : i < j => ll[i] # ll[j] /\ vars[ll[i]].last >= vars[ll[j]].last

(***************************************************************************)
(* What a request gets from the cache was in the database at most Timeout  *)
(* seconds ago, up to the time two calls may take: the one that returns it *)
(* and the one that, having read it, added it late over a younger entry.   *)
(***************************************************************************)
HitsAreFresh ==
    \A t \in Threads : pc[t] = "hit" => now - got[t] < Timeout + 2 * Delay

=============================================================================
