----------------------------- MODULE Discovery ------------------------------
(***************************************************************************)
(* How the repeater follows etcd (Init in repeater/init.go; load and start *)
(* in repeater/backend.go): one goroutine lists the keys once and          *)
(* registers them one by one, another watches the prefix and applies the   *)
(* events, and nothing orders the two.  The processes that put the keys    *)
(* are those of Registry.                                                  *)
(***************************************************************************)
EXTENDS AppTable

CONSTANTS Procs     \* service processes

ASSUME RunsAssumption == Absent \notin Procs

VARIABLES pc, key, lease, kv,   \* the processes and etcd, see Registry
          apps,     \* backendService.apps
          load,     \* progress of load
          todo,     \* the keys List returned that load has not registered yet
          watch,    \* the watch on the prefix: not yet opened, open, ended
          pend,     \* the events of the watch that start has not applied yet
          raced     \* history: the keys that a race of load and watch has touched

etcdVars == <<pc, key, lease, kv>>
vars == <<etcdVars, apps, load, todo, watch, pend, raced>>

Reg == INSTANCE Registry

Keys == Names \X Addrs
Events == [key : Keys, type : {"PUT", "DELETE"}]

IsListed(k) == Listed(apps, k[1], k[2])
InEtcd(k) == kv[k] # Absent
Pending(k) == \E i \in 1..Len(pend) : pend[i].key = k

TypeOK ==
    /\ Reg!TypeOK
    /\ apps \in Tables
    /\ load \in {"none", "loading", "done", "failed"}
    /\ todo \in SUBSET Keys
    /\ watch \in {"none", "open", "ended"}
    /\ pend \in Seq(Events)
    /\ raced \in SUBSET Keys

Init ==
    /\ Reg!Init
    /\ apps = EmptyTable
    /\ load = "none"
    /\ todo = {}
    /\ watch = "none"
    /\ pend = <<>>
    /\ raced = {}

\* A change of etcd is an event of an open watch.  It is missed by both
\* goroutines when it comes after List and before the watch, or after its end.
EtcdStep ==
    /\ Reg!Next
    /\ \/ kv' = kv /\ UNCHANGED <<pend, raced>>
       \/ \E k \in Keys :
             /\ kv'[k] # kv[k]
             /\ pend' = IF watch = "open"
                        THEN Append(pend, [key |-> k,
                                           type |-> IF kv'[k] = Absent THEN "DELETE" ELSE "PUT"])
                        ELSE pend
             /\ raced' = IF watch = "ended" \/ (watch = "none" /\ load # "none")
                         THEN raced \cup {k}
                         ELSE raced
    /\ UNCHANGED <<apps, load, todo, watch>>

\* WatchPrefix: the watch delivers the events after the current revision.
WatchPrefix ==
    /\ watch = "none"
    /\ load # "failed"
    /\ watch' = "open"
    /\ UNCHANGED <<etcdVars, apps, load, todo, pend, raced>>

\* Mutant of WatchEvent: the loop does not get past the deletion of a node that
\* is not in the table.
WatchEventStops ==
    /\ pend # <<>>
    /\ load # "failed"
    /\ LET e == Head(pend) IN
       /\ e.type = "DELETE" => IsListed(e.key)
       /\ apps' = IF e.type = "DELETE"
                  THEN unregister(apps, e.key[1], e.key[2])
                  ELSE register(apps, e.key[1], e.key[2])
       /\ raced' = IF e.type = "DELETE" /\ e.key \in todo
                   THEN raced \cup {e.key}
                   ELSE raced \ {e.key}
    /\ pend' = Tail(pend)
    /\ UNCHANGED <<etcdVars, load, todo, watch>>

\* One turn of the loop of start.
WatchEvent ==
    /\ pend # <<>>
    /\ load # "failed"
    /\ LET e == Head(pend) IN
       /\ apps' = IF e.type = "DELETE"
                  THEN unregister(apps, e.key[1], e.key[2])
                  ELSE register(apps, e.key[1], e.key[2])
       /\ raced' = IF e.type = "DELETE" /\ e.key \in todo
                   THEN raced \cup {e.key}
                   ELSE raced \ {e.key}
    /\ pend' = Tail(pend)
    /\ UNCHANGED <<etcdVars, load, todo, watch>>

\* WatchPrefix returns on resp.Canceled.  Nobody closes ec, so start waits for
\* the next event of it for ever and does not call WatchPrefix again.
WatchCanceled ==
    /\ watch = "open"
    /\ load # "failed"
    /\ watch' = "ended"
    /\ pend' = <<>>
    /\ raced' = raced \cup {k \in Keys : Pending(k)}
    /\ UNCHANGED <<etcdVars, apps, load, todo>>

\* load: List reads all keys at one revision ...
List ==
    /\ load = "none"
    /\ load' = "loading"
    /\ todo' = {k \in Keys : InEtcd(k)}
    /\ UNCHANGED <<etcdVars, apps, watch, pend, raced>>

\* ... or fails, and Init returns the error to main, which does not serve ...
ListFail ==
    /\ load = "none"
    /\ load' = "failed"
    /\ UNCHANGED <<etcdVars, apps, todo, watch, pend, raced>>

\* Mutant of LoadRegister: the key is registered as the address.
LoadRegisterKey(k) ==
    /\ load = "loading"
    /\ k \in todo
    /\ apps' = register(apps, k[1], k)
    /\ todo' = todo \ {k}
    /\ UNCHANGED <<etcdVars, load, watch, pend, raced>>

\* ... then registers them in the order of a Go map, which is any order ...
LoadRegister(k) ==
    /\ load = "loading"
    /\ k \in todo
    /\ apps' = register(apps, k[1], k[2])
    /\ todo' = todo \ {k}
    /\ UNCHANGED <<etcdVars, load, watch, pend, raced>>

\* ... and Init publishes the table in bs.
LoadDone ==
    /\ load = "loading"
    /\ todo = {}
    /\ load' = "done"
    /\ UNCHANGED <<etcdVars, apps, todo, watch, pend, raced>>

Next ==
    \/ EtcdStep
    \/ WatchPrefix
    \/ WatchEvent
    \/ WatchCanceled
    \/ List
    \/ ListFail
    \/ \E k \in Keys : LoadRegister(k)
    \/ LoadDone

Spec == Init /\ [][Next]_vars

\* Both goroutines go on while they have something to do, and so does etcd.
Fairness ==
    /\ WF_vars(WatchPrefix)
    /\ WF_vars(WatchEvent)
    /\ WF_vars(List \/ ListFail)
    /\ WF_vars(\E k \in Keys : LoadRegister(k))
    /\ WF_vars(LoadDone)
    /\ \A p \in Procs : WF_vars(EtcdStep /\ Reg!Expire(p))

FairSpec == Spec /\ Fairness

-----------------------------------------------------------------------------

(***************************************************************************)
(* Two goroutines change the table, and still no name has an empty list    *)
(* and no address is twice in one.                                         *)
(***************************************************************************)
TableOK == NoEmptyList(apps) /\ NoDuplicates(apps)

(***************************************************************************)
(* The table says what etcd says of every key that has no event on its way *)
(* and was not touched by one of three races: an event between List and    *)
(* the watch, a DELETE applied before load registers the key it deletes,   *)
(* and an event after the end of the watch.                                *)
(***************************************************************************)
AgreesWithEtcd ==
    load \in {"loading", "done"} =>
        \A k \in Keys \ raced :
            ~Pending(k) => ((IsListed(k) \/ k \in todo) <=> InEtcd(k))

(***************************************************************************)
(* Without such a race the addresses in the table are, in the end, exactly *)
(* those of the processes that serve and renew their lease: a process that *)
(* crashes leaves the table, one that starts enters it.                    *)
(***************************************************************************)
Converges ==
    <>[](load = "done" /\ watch = "open" =>
            \A k \in Keys \ raced :
                IsListed(k) <=> \E p \in Procs : kv[k] = p /\ pc[p] = "serving")


=============================================================================
