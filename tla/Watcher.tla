------------------------------ MODULE Watcher -------------------------------
(***************************************************************************)
(* How the distributor follows etcd (distributor/watcher.go): for every    *)
(* service it keeps the newest version it has seen and, per host, the      *)
(* process that install.sh has to stop when the service is deployed again. *)
(* The key of a process has a port, the table has not.  load and start run *)
(* in two goroutines in any order; online and offline hold the lock.       *)
(***************************************************************************)
EXTENDS Integers, Sequences

CONSTANTS Names,      \* services
          Hosts, Ports,
          Procs,      \* service processes
          Version,    \* the version a process was built from
          Absent

Addrs == Hosts \X Ports

ASSUME WatcherAssumption == Absent \notin Procs /\ Version \in [Procs -> Nat]

VARIABLES pc, key, lease, kv,   \* the processes and etcd, see Registry
          services,   \* watcher.services
          load,       \* progress of load
          todo,       \* what List returned and load has not brought online yet
          watch,      \* the watch on the prefix: not yet opened, open, ended
          pend,       \* the events of the watch that start has not applied yet
          asked,      \* history: how often the document of a version was asked for
          raced,      \* history: the hosts that a race of load and watch has touched
          left        \* history: the hosts that lost one key and kept another

etcdVars == <<pc, key, lease, kv>>
vars == <<etcdVars, services, load, todo, watch, pend, asked, raced, left>>

Reg == INSTANCE Registry

Keys == Names \X Addrs
Places == Names \X Hosts
Versions == {Version[p] : p \in Procs}
PlaceOf(k) == <<k[1], k[2][1]>>

\* A key with the process that is its value; Absent in a DELETE.
Events == [key : Keys, app : Procs \cup {Absent}]

Pending(l) == \E i \in 1..Len(pend) : PlaceOf(pend[i].key) = l
ToLoad(l) == \E e \in todo : PlaceOf(e.key) = l

\* A service that is not in the map has version -1.
service == [version : Nat \cup {-1}, nodes : [Hosts -> Procs \cup {Absent}]]

get(l) == services[l[1]].nodes[l[2]]

TypeOK ==
    /\ Reg!TypeOK
    /\ services \in [Names -> service]
    /\ load \in {"none", "loading", "done", "failed"}
    /\ todo \subseteq Events
    /\ watch \in {"none", "open", "ended"}
    /\ pend \in Seq(Events)
    /\ asked \in [Names \X Versions -> Nat]
    /\ raced \subseteq Places
    /\ left \subseteq Places

Init ==
    /\ Reg!Init
    /\ services = [n \in Names |-> [version |-> -1, nodes |-> [h \in Hosts |-> Absent]]]
    /\ load = "none"
    /\ todo = {}
    /\ watch = "none"
    /\ pend = <<>>
    /\ asked = [a \in Names \X Versions |-> 0]
    /\ raced = {}
    /\ left = {}

\* A change of etcd is an event of an open watch.  It is missed by both
\* goroutines when it comes after List and before the watch, or after its end.
EtcdStep ==
    /\ Reg!Next
    /\ \/ kv' = kv /\ UNCHANGED <<pend, raced, left>>
       \/ \E k \in Keys :
             /\ kv'[k] # kv[k]
             /\ pend' = IF watch = "open"
                        THEN Append(pend, [key |-> k, app |-> kv'[k]])
                        ELSE pend
             /\ raced' = IF watch = "ended" \/ (watch = "none" /\ load # "none")
                         THEN raced \cup {PlaceOf(k)}
                         ELSE raced
             /\ left' = IF kv'[k] = Absent /\ \E j \in Keys : PlaceOf(j) = PlaceOf(k) /\ kv'[j] # Absent
                        THEN left \cup {PlaceOf(k)}
                        ELSE left \ {PlaceOf(k)}
    /\ UNCHANGED <<services, load, todo, watch, asked>>

WatchPrefix ==
    /\ watch = "none"
    /\ load # "failed"
    /\ watch' = "open"
    /\ UNCHANGED <<etcdVars, services, load, todo, pend, asked, raced, left>>

\* Mutant of online: a process of the newest version is reported again.
onlineAgain(e) ==
    LET n == e.key[1]
        h == e.key[2][1]
        o == services[n]
        v == Version[e.app]
    IN  /\ services' = [services EXCEPT ![n].nodes[h] = e.app,
                                        ![n].version = IF v < @ THEN @ ELSE v]
        /\ asked' = IF v < o.version THEN asked ELSE [asked EXCEPT ![<<n, v>>] = @ + 1]

\* Mutant of online: an older version is not put in the list of nodes.
onlineNewer(e) ==
    LET n == e.key[1]
        h == e.key[2][1]
        o == services[n]
        v == Version[e.app]
    IN  /\ services' = IF v <= o.version THEN services
                       ELSE [services EXCEPT ![n].nodes[h] = e.app, ![n].version = v]
        /\ asked' = IF v <= o.version THEN asked ELSE [asked EXCEPT ![<<n, v>>] = @ + 1]

\* Mutant of online: the node is put under the name of the service, not the host.
onlineByName(e) ==
    LET n == e.key[1]
        o == services[n]
        v == Version[e.app]
    IN  /\ services' = [services EXCEPT ![n].nodes = [x \in DOMAIN @ \cup {n} |-> IF x = n THEN e.app ELSE @[x]],
                                        ![n].version = IF v <= @ THEN @ ELSE v]
        /\ asked' = IF v <= o.version THEN asked ELSE [asked EXCEPT ![<<n, v>>] = @ + 1]

\* The node is replaced whatever its version; parseDocument is called for a
\* newer version only, and its error is ignored.
online(e) ==
    LET n == e.key[1]
        h == e.key[2][1]
        o == services[n]
        v == Version[e.app]
    IN  /\ services' = [services EXCEPT ![n].nodes[h] = e.app,
                                        ![n].version = IF v <= @ THEN @ ELSE v]
        /\ asked' = IF v <= o.version THEN asked ELSE [asked EXCEPT ![<<n, v>>] = @ + 1]

\* The port of the key is not looked at.
offline(k) ==
    /\ services' = [services EXCEPT ![k[1]].nodes[k[2][1]] = Absent]
    /\ UNCHANGED asked

\* Mutant of WatchEvent: the loop stops at the deletion of an unknown service.
WatchEventStops ==
    /\ pend # <<>>
    /\ load # "failed"
    /\ LET e == Head(pend)
           l == PlaceOf(e.key)
       IN  /\ IF e.app = Absent THEN get(l) # Absent /\ offline(e.key) ELSE online(e)
           /\ raced' = IF ToLoad(l) THEN raced \cup {l} ELSE raced \ {l}
    /\ pend' = Tail(pend)
    /\ UNCHANGED <<etcdVars, load, todo, watch, left>>

\* One turn of the loop of start.
WatchEvent ==
    /\ pend # <<>>
    /\ load # "failed"
    /\ LET e == Head(pend)
           l == PlaceOf(e.key)
       IN  /\ IF e.app = Absent THEN offline(e.key) ELSE online(e)
           /\ raced' = IF ToLoad(l) THEN raced \cup {l} ELSE raced \ {l}
    /\ pend' = Tail(pend)
    /\ UNCHANGED <<etcdVars, load, todo, watch, left>>

\* WatchPrefix returns on resp.Canceled.  Nobody closes ec, so start waits for
\* the next event of it for ever.
WatchCanceled ==
    /\ watch = "open"
    /\ load # "failed"
    /\ watch' = "ended"
    /\ pend' = <<>>
    /\ raced' = raced \cup {l \in Places : Pending(l)}
    /\ UNCHANGED <<etcdVars, services, load, todo, asked, left>>

List ==
    /\ load = "none"
    /\ load' = "loading"
    /\ todo' = {e \in Events : e.app = kv[e.key] /\ e.app # Absent}
    /\ UNCHANGED <<etcdVars, services, watch, pend, asked, raced, left>>

\* Init returns the error to main, which panics.
ListFail ==
    /\ load = "none"
    /\ load' = "failed"
    /\ UNCHANGED <<etcdVars, services, todo, watch, pend, asked, raced, left>>

LoadOnline(e) ==
    /\ load = "loading"
    /\ e \in todo
    /\ online(e)
    /\ todo' = todo \ {e}
    /\ UNCHANGED <<etcdVars, load, watch, pend, raced, left>>

LoadDone ==
    /\ load = "loading"
    /\ todo = {}
    /\ load' = "done"
    /\ UNCHANGED <<etcdVars, services, todo, watch, pend, asked, raced, left>>

Next ==
    \/ EtcdStep
    \/ WatchPrefix
    \/ WatchEvent
    \/ WatchCanceled
    \/ List
    \/ ListFail
    \/ \E e \in todo : LoadOnline(e)
    \/ LoadDone

Spec == Init /\ [][Next]_vars

\* Both goroutines go on while they have something to do, and so does etcd.
Fairness ==
    /\ WF_vars(WatchPrefix)
    /\ WF_vars(WatchEvent)
    /\ WF_vars(List \/ ListFail)
    /\ WF_vars(\E e \in todo : LoadOnline(e))
    /\ WF_vars(LoadDone)
    /\ \A p \in Procs : WF_vars(EtcdStep /\ Reg!Expire(p))

FairSpec == Spec /\ Fairness

-----------------------------------------------------------------------------

(***************************************************************************)
(* What install.sh is told to stop: the process get returns for a service  *)
(* and a host is one of that service on that host, and its key is in etcd; *)
(* and get finds a process where etcd has one, unless a key of the place   *)
(* was deleted while another remained, because offline ignores the port.   *)
(* This holds once the events of the place are applied, and outside the    *)
(* races of load and watch.                                                *)
(***************************************************************************)
InstallStopsRegistered ==
    load \in {"loading", "done"} =>
        \A l \in Places \ raced :
            ~Pending(l) /\ ~ToLoad(l) =>
                /\ get(l) # Absent => PlaceOf(key[get(l)]) = l /\ kv[key[get(l)]] = get(l)
                /\ get(l) = Absent /\ l \notin left =>
                       \A k \in Keys : PlaceOf(k) = l => kv[k] = Absent

(***************************************************************************)
(* The document of a version of a service is asked for at most once, that  *)
(* of the newest version seen has been, and none of a version still to     *)
(* come: whichever of load and watch meets a process first, however often  *)
(* it is met, and however its host changes.                                *)
(***************************************************************************)
AskedOncePerVersion ==
    \A n \in Names, v \in Versions :
        /\ asked[<<n, v>>] <= 1
        /\ v > services[n].version => asked[<<n, v>>] = 0
        /\ v = services[n].version => asked[<<n, v>>] = 1

(***************************************************************************)
(* In the end the process install.sh is told to stop is one that serves.   *)
(***************************************************************************)
ConvergesOnServing ==
    <>[](load = "done" /\ watch = "open" =>
            \A l \in Places \ raced :
                /\ get(l) # Absent => pc[get(l)] = "serving"
                /\ get(l) = Absent /\ l \notin left =>
                       \A k \in Keys : PlaceOf(k) = l => kv[k] = Absent)

=============================================================================
