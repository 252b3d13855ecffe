--------------------------- MODULE Watcher_proofs ---------------------------
(***************************************************************************)
(* The watcher of the distributor, for any services, hosts, ports,         *)
(* processes and versions.                                                 *)
(*                                                                         *)
(* InstallStopsRegistered speaks of places without a pending event.  To    *)
(* carry it over the application of the last one, the invariant knows that *)
(* it tells what etcd has at the place (LastEventIsNews), and the same of  *)
(* what load has still to bring online (TodoIsNews); it must hold before   *)
(* List has answered too, as far as it then makes sense (SettledAgrees).   *)
(* That a step of etcd changes one key at most, and that a process has one *)
(* key, comes from the invariant of Registry.                              *)
(***************************************************************************)
EXTENDS Watcher, SequenceTheorems, TLAPS

\* The module is long: its leaves get more time than the provers have by default.
USE SMTT(15), ZenonT(15)

RP == INSTANCE Registry_proofs

\* get finds a process that etcd has at the place.
Found(l) == get(l) # Absent => \E k \in Keys : PlaceOf(k) = l /\ kv[k] = get(l)

\* etcd has no process at the place.
Vacant(l) == \A k \in Keys : PlaceOf(k) = l => kv[k] = Absent

\* The last pending event of a place tells what etcd has there.
LastEventIsNews ==
    \A i \in 1..Len(pend) :
        (\A j \in 1..Len(pend) : j > i => PlaceOf(pend[j].key) # PlaceOf(pend[i].key)) =>
            /\ pend[i].app # Absent => kv[pend[i].key] = pend[i].app
            /\ pend[i].app = Absent /\ PlaceOf(pend[i].key) \notin left
                  => Vacant(PlaceOf(pend[i].key))

\* What load has still to bring online is in etcd, unless an event says otherwise.
TodoIsNews ==
    \A e \in todo :
        /\ e.app # Absent
        /\ PlaceOf(e.key) \notin raced /\ ~Pending(PlaceOf(e.key)) => kv[e.key] = e.app

\* InstallStopsRegistered, also before List has answered.
SettledAgrees ==
    \A l \in Places \ raced :
        ~Pending(l) /\ ~ToLoad(l) =>
            /\ Found(l)
            /\ load \in {"loading", "done"} /\ get(l) = Absent /\ l \notin left => Vacant(l)

\* What the two goroutines have not done before they begin.
Stages ==
    /\ watch # "open" => pend = <<>>
    /\ load # "loading" => todo = {}
    /\ load = "none" /\ watch = "none" => \A l \in Places : get(l) = Absent

Inv ==
    /\ RP!Inv
    /\ TypeOK
    /\ Stages
    /\ LastEventIsNews
    /\ TodoIsNews
    /\ SettledAgrees
    /\ AskedOncePerVersion

-----------------------------------------------------------------------------

\* Registry is instanced twice, under two names.
LEMMA RegNext == Reg!Next => RP!Next
BY DEF Reg!Next, RP!Next, Reg!Keys, RP!Keys, Reg!Listen, RP!Listen, Reg!HasListener,
       RP!HasListener, Reg!Keepalive, RP!Keepalive, Reg!KeepaliveFail, RP!KeepaliveFail,
       Reg!KeepalivePutFail, RP!KeepalivePutFail, Reg!Stop, RP!Stop, Reg!Die, RP!Die,
       Reg!Expire, RP!Expire, Reg!LoseLease, RP!LoseLease, Reg!EndLease, RP!EndLease

\* The types of etcd, under the other name.
LEMMA RegTypeOK == RP!Inv => Reg!TypeOK
BY DEF RP!Inv, RP!TypeOK, Reg!TypeOK, RP!Keys, Reg!Keys

\* Steps of the watcher alone leave etcd as it is.
LEMMA EtcdRests ==
  ASSUME Inv, UNCHANGED etcdVars
  PROVE  RP!Inv' /\ Reg!TypeOK'
<1>1. RP!Inv'
  BY DEF Inv, etcdVars, RP!Inv, RP!TypeOK, RP!KeysAreLeased, RP!RenewedIsRegistered,
         RP!OneListener, RP!HasListener
<1>2. Reg!TypeOK'
  BY DEF Inv, TypeOK, etcdVars, Reg!TypeOK
<1> QED
  BY <1>1, <1>2

\* The place of a key, and the parts of keys, places and events.
LEMMA PlaceFacts ==
  /\ \A k \in Keys : /\ PlaceOf(k) \in Places /\ k[1] \in Names /\ k[2][1] \in Hosts
                     /\ PlaceOf(k)[1] = k[1] /\ PlaceOf(k)[2] = k[2][1]
  /\ \A l \in Places : l[1] \in Names /\ l[2] \in Hosts /\ l = <<l[1], l[2]>>
  /\ \A e \in Events : e.key \in Keys /\ e.app \in Procs \cup {Absent}
BY DEF Keys, Places, PlaceOf, Addrs, Events

\* The keys of etcd as the watcher sees them.
LEMMA KeyType == TypeOK => kv \in [Keys -> Procs \cup {Absent}]
BY DEF TypeOK, Reg!TypeOK, Reg!Keys, Keys

\* online replaces the process of the place, and asks for a document only of a
\* version above all that were seen.
LEMMA OnlineFacts ==
  ASSUME TypeOK, AskedOncePerVersion, NEW e \in Events, e.app # Absent, online(e)
  PROVE  /\ services' \in [Names -> service]
         /\ asked' \in [Names \X Versions -> Nat]
         /\ AskedOncePerVersion'
         /\ get(PlaceOf(e.key))' = e.app
         /\ \A l \in Places : l # PlaceOf(e.key) => get(l)' = get(l)
<1> DEFINE n == e.key[1]
           h == e.key[2][1]
           v == Version[e.app]
           o == services[n].version
           w == IF v <= o THEN o ELSE v
<1>1. /\ n \in Names /\ h \in Hosts /\ e.app \in Procs /\ v \in Versions /\ v \in Nat
      /\ PlaceOf(e.key) = <<n, h>> /\ <<n, v>> \in Names \X Versions
  BY PlaceFacts, WatcherAssumption DEF PlaceOf, Versions
<1>2. /\ services \in [Names -> service] /\ asked \in [Names \X Versions -> Nat]
      /\ services[n] \in service /\ o \in Nat \cup {-1}
      /\ services[n].nodes \in [Hosts -> Procs \cup {Absent}]
  BY <1>1 DEF TypeOK, service
<1>3. /\ services' = [services EXCEPT ![n] = [version |-> w,
                                               nodes |-> [services[n].nodes EXCEPT ![h] = e.app]]]
      /\ asked' = IF v <= o THEN asked ELSE [asked EXCEPT ![<<n, v>>] = @ + 1]
  <2>1. services' = [services EXCEPT ![n] = [[services[n] EXCEPT !.nodes[h] = e.app]
                                                EXCEPT !.version = w]]
    BY <1>1, <1>2 DEF online
  <2>3. asked' = IF v <= o THEN asked ELSE [asked EXCEPT ![<<n, v>>] = @ + 1]
    BY DEF online
  <2> HIDE DEF n, h, v, o, w
  <2>r. PICK r \in service : r = services[n]
    BY <1>2
  <2>2. [[services[n] EXCEPT !.nodes[h] = e.app] EXCEPT !.version = w]
           = [version |-> w, nodes |-> [services[n].nodes EXCEPT ![h] = e.app]]
    <3>1. h \in Hosts
      BY <1>1
    <3>2. [[r EXCEPT !.nodes[h] = e.app] EXCEPT !.version = w]
             = [version |-> w, nodes |-> [r.nodes EXCEPT ![h] = e.app]]
      <4> DEFINE m == [r.nodes EXCEPT ![h] = e.app]
      <4>1. [r EXCEPT !.nodes[h] = e.app] = [version |-> r.version, nodes |-> m]
        BY <3>1 DEF service
      <4> HIDE DEF m
      <4>2. [[version |-> r.version, nodes |-> m] EXCEPT !.version = w] = [version |-> w, nodes |-> m]
        OBVIOUS
      <4> QED
        BY <4>1, <4>2 DEF m
    <3> QED
      BY <2>r, <3>2
  <2> QED
    BY <2>1, <2>2, <2>3
<1> HIDE DEF n, h, v, o
<1>4. w \in Nat \cup {-1}
  BY <1>1, <1>2
<1>5. /\ services'[n] = [version |-> w, nodes |-> [services[n].nodes EXCEPT ![h] = e.app]]
      /\ \A m \in Names \ {n} : services'[m] = services[m]
      /\ services'[n].version = w
      /\ services'[n].nodes[h] = e.app
      /\ \A x \in Hosts \ {h} : services'[n].nodes[x] = services[n].nodes[x]
  BY <1>1, <1>2, <1>3
<1>6. services' \in [Names -> service]
  BY <1>1, <1>2, <1>3, <1>4 DEF service
<1>7. asked' \in [Names \X Versions -> Nat]
  BY <1>1, <1>2, <1>3
<1>8. AskedOncePerVersion'
  <2> SUFFICES ASSUME NEW m \in Names, NEW u \in Versions
               PROVE  /\ asked'[<<m, u>>] <= 1
                      /\ u > services'[m].version => asked'[<<m, u>>] = 0
                      /\ u = services'[m].version => asked'[<<m, u>>] = 1
    BY DEF AskedOncePerVersion
  <2>0. /\ u \in Nat /\ <<m, u>> \in Names \X Versions /\ asked[<<m, u>>] \in Nat
        /\ asked[<<m, u>>] <= 1
        /\ u > services[m].version => asked[<<m, u>>] = 0
        /\ u = services[m].version => asked[<<m, u>>] = 1
        /\ services[m].version \in Nat \cup {-1}
    <3>1. u \in Nat /\ <<m, u>> \in Names \X Versions
      BY WatcherAssumption DEF Versions
    <3>2. asked[<<m, u>>] \in Nat /\ services[m].version \in Nat \cup {-1}
      BY <1>2, <3>1 DEF service
    <3> QED
      BY <3>1, <3>2 DEF AskedOncePerVersion
  <2>1. CASE m # n
    <3>1. asked'[<<m, u>>] = asked[<<m, u>>] /\ services'[m] = services[m]
      BY <1>2, <1>3, <1>5, <2>0, <2>1
    <3> QED
      BY <2>0, <3>1
  <2>2. CASE m = n /\ v <= o
    <3>1. asked' = asked /\ services'[m].version = services[m].version
      BY <1>3, <1>5, <2>2 DEF o
    <3> QED
      BY <2>0, <3>1
  <2>3. CASE m = n /\ ~(v <= o)
    <3>1. services'[m].version = v /\ o = services[m].version
      BY <1>5, <2>3 DEF o
    <3>2. asked'[<<m, u>>] = IF u = v THEN asked[<<m, u>>] + 1 ELSE asked[<<m, u>>]
      BY <1>1, <1>2, <1>3, <2>0, <2>3
    <3>3. v > o
      BY <1>1, <1>2, <2>3
    <3> QED
      BY <1>1, <1>2, <2>0, <3>1, <3>2, <3>3
  <2> QED
    BY <2>1, <2>2, <2>3
<1>9. services'[PlaceOf(e.key)[1]].nodes[PlaceOf(e.key)[2]] = e.app
  <2>1. PlaceOf(e.key)[1] = n /\ PlaceOf(e.key)[2] = h
    BY <1>1
  <2> QED
    BY <1>5, <2>1
<1>10. ASSUME NEW l \in Places, l # PlaceOf(e.key)
       PROVE  services'[l[1]].nodes[l[2]] = services[l[1]].nodes[l[2]]
  <2>1. l[1] \in Names /\ l[2] \in Hosts /\ (l[1] # n \/ l[2] # h)
    BY <1>1, <1>10, PlaceFacts
  <2> QED
    BY <1>5, <2>1
<1> QED
  BY <1>6, <1>7, <1>8, <1>9, <1>10 DEF get

\* offline empties the place, whatever the port of the key.
LEMMA OfflineFacts ==
  ASSUME TypeOK, AskedOncePerVersion, NEW k \in Keys, offline(k)
  PROVE  /\ services' \in [Names -> service]
         /\ asked' \in [Names \X Versions -> Nat]
         /\ AskedOncePerVersion'
         /\ get(PlaceOf(k))' = Absent
         /\ \A l \in Places : l # PlaceOf(k) => get(l)' = get(l)
<1> DEFINE n == k[1]
           h == k[2][1]
<1>1. n \in Names /\ h \in Hosts /\ PlaceOf(k) = <<n, h>>
  BY PlaceFacts DEF PlaceOf
<1>2. /\ services \in [Names -> service] /\ asked \in [Names \X Versions -> Nat]
      /\ services[n] \in service
      /\ services[n].nodes \in [Hosts -> Procs \cup {Absent}]
  BY <1>1 DEF TypeOK, service
<1>3. /\ services' = [services EXCEPT ![n] = [version |-> services[n].version,
                                               nodes |-> [services[n].nodes EXCEPT ![h] = Absent]]]
      /\ asked' = asked
  <2>1. services' = [services EXCEPT ![n] = [services[n] EXCEPT !.nodes[h] = Absent]]
    BY <1>1, <1>2 DEF offline
  <2> HIDE DEF n, h
  <2>r. PICK r \in service : r = services[n]
    BY <1>2
  <2>2. [services[n] EXCEPT !.nodes[h] = Absent]
           = [version |-> services[n].version, nodes |-> [services[n].nodes EXCEPT ![h] = Absent]]
    <3>1. h \in Hosts
      BY <1>1
    <3>2. [r EXCEPT !.nodes[h] = Absent]
             = [version |-> r.version, nodes |-> [r.nodes EXCEPT ![h] = Absent]]
      BY <3>1 DEF service
    <3> QED
      BY <2>r, <3>2
  <2> QED
    BY <2>1, <2>2 DEF offline
<1> HIDE DEF n, h
<1>4. /\ \A m \in Names : services'[m].version = services[m].version
      /\ \A m \in Names \ {n} : services'[m] = services[m]
      /\ services'[n].nodes[h] = Absent
      /\ \A x \in Hosts \ {h} : services'[n].nodes[x] = services[n].nodes[x]
  BY <1>1, <1>2, <1>3
<1>5. services' \in [Names -> service]
  BY <1>1, <1>2, <1>3 DEF service
<1>6. AskedOncePerVersion'
  BY <1>3, <1>4 DEF AskedOncePerVersion
<1>7. services'[PlaceOf(k)[1]].nodes[PlaceOf(k)[2]] = Absent
  BY <1>1, <1>4
<1>8. ASSUME NEW l \in Places, l # PlaceOf(k)
      PROVE  services'[l[1]].nodes[l[2]] = services[l[1]].nodes[l[2]]
  <2>1. l[1] \in Names /\ l[2] \in Hosts /\ (l[1] # n \/ l[2] # h)
    BY <1>1, <1>8, PlaceFacts
  <2> QED
    BY <1>4, <2>1
<1> QED
  BY <1>2, <1>3, <1>5, <1>6, <1>7, <1>8 DEF get

\* Nothing is known before load and start run.
LEMMA InitInv == Init => Inv
<1> SUFFICES ASSUME Init PROVE Inv
  OBVIOUS
<1>1. RP!Inv
  <2>1. RP!Init
    BY DEF Init, Reg!Init, RP!Init, Reg!Keys, RP!Keys
  <2> QED
    BY <2>1, RP!InitInv, WatcherAssumption
<1>2. \A n \in Names : services[n] = [version |-> -1, nodes |-> [h \in Hosts |-> Absent]]
  BY DEF Init
<1>3. \A l \in Places : get(l) = Absent
  BY <1>2, PlaceFacts DEF get
<1>4. TypeOK
  <2>1. services \in [Names -> service]
    BY DEF Init, service
  <2>2. asked \in [Names \X Versions -> Nat]
    BY DEF Init
  <2> QED
    BY <1>1, <2>1, <2>2, RegTypeOK DEF Init, TypeOK
<1>5. AskedOncePerVersion
  <2>1. ASSUME NEW n \in Names, NEW v \in Versions
        PROVE  asked[<<n, v>>] = 0 /\ v # services[n].version
    BY <1>2, WatcherAssumption DEF Init, Versions
  <2>2. 0 <= 1
    OBVIOUS
  <2> QED
    BY <2>1, <2>2, Zenon DEF AskedOncePerVersion
<1>6. Stages /\ LastEventIsNews /\ TodoIsNews /\ SettledAgrees
  BY <1>3 DEF Init, Stages, LastEventIsNews, TodoIsNews, SettledAgrees, Found
<1> QED
  BY <1>1, <1>4, <1>5, <1>6 DEF Inv

\* The queue with one more event.
LEMMA AppendEvent ==
  ASSUME NEW q \in Seq(Events), NEW e \in Events
  PROVE  /\ Append(q, e) \in Seq(Events)
         /\ Len(Append(q, e)) = Len(q) + 1
         /\ Append(q, e)[Len(q) + 1] = e
         /\ \A i \in 1..Len(q) : Append(q, e)[i] = q[i] /\ q[i] \in Events
         /\ Len(q) \in Nat
BY AppendProperties

\* A change of etcd under a watch: the place has a new last event.
LEMMA ChangeSeen ==
  ASSUME Inv, TypeOK', RP!Inv', NEW k \in Keys, watch = "open",
         \A j \in Keys : j # k => kv'[j] = kv[j],
         pend' = Append(pend, [key |-> k, app |-> kv'[k]]),
         raced' = raced,
         left' = IF kv'[k] = Absent /\ \E j \in Keys : PlaceOf(j) = PlaceOf(k) /\ kv'[j] # Absent
                 THEN left \cup {PlaceOf(k)}
                 ELSE left \ {PlaceOf(k)},
         UNCHANGED <<services, load, todo, watch, asked>>
  PROVE  Inv'
<1> DEFINE e == [key |-> k, app |-> kv'[k]]
           m == PlaceOf(k)
<1>1. e \in Events /\ e.key = k /\ e.app = kv'[k] /\ m \in Places
  <2>1. kv' \in [Keys -> Procs \cup {Absent}]
    BY DEF TypeOK, Reg!TypeOK, Reg!Keys, Keys
  <2> QED
    BY <2>1, PlaceFacts DEF Events
<1>2. pend \in Seq(Events) /\ pend' = Append(pend, e)
  BY DEF Inv, TypeOK
<1> HIDE DEF e
<1>3. /\ Len(pend') = Len(pend) + 1 /\ Len(pend) \in Nat
      /\ pend'[Len(pend) + 1] = e
      /\ \A i \in 1..Len(pend) : pend'[i] = pend[i] /\ pend[i].key \in Keys
  BY <1>1, <1>2, AppendEvent, PlaceFacts
<1>4. Pending(m)'
  BY <1>1, <1>3 DEF Pending
<1>5. \A l \in Places : l # m => /\ Pending(l)' <=> Pending(l)
                                 /\ l \in left' <=> l \in left
                                 /\ Vacant(l)' <=> Vacant(l)
                                 /\ Found(l)' <=> Found(l)
  <2> SUFFICES ASSUME NEW l \in Places, l # m
               PROVE  /\ Pending(l)' <=> Pending(l)
                      /\ l \in left' <=> l \in left
                      /\ Vacant(l)' <=> Vacant(l)
                      /\ Found(l)' <=> Found(l)
    OBVIOUS
  <2>1. Pending(l)' <=> Pending(l)
    BY <1>1, <1>3 DEF Pending
  <2>2. l \in left' <=> l \in left
    OBVIOUS
  <2>3. \A j \in Keys : PlaceOf(j) = l => kv'[j] = kv[j]
    OBVIOUS
  <2>4. get(l)' = get(l)
    BY DEF get
  <2> QED
    BY <2>1, <2>2, <2>3, <2>4 DEF Vacant, Found
<1>6. \A l \in Places : (ToLoad(l)' <=> ToLoad(l)) /\ get(l)' = get(l)
  BY DEF ToLoad, get
<1>7. LastEventIsNews'
  <2> SUFFICES ASSUME NEW i \in 1..(Len(pend) + 1),
                      \A j \in 1..(Len(pend) + 1) : j > i => PlaceOf(pend'[j].key) # PlaceOf(pend'[i].key)
               PROVE  /\ pend'[i].app # Absent => kv'[pend'[i].key] = pend'[i].app
                      /\ pend'[i].app = Absent /\ PlaceOf(pend'[i].key) \notin left'
                            => Vacant(PlaceOf(pend[i].key))'
    BY <1>3 DEF LastEventIsNews
  <2>1. CASE i = Len(pend) + 1
    <3>1. pend'[i] = e
      BY <1>3, <2>1
    <3>2. kv'[k] = Absent /\ m \notin left' => \A j \in Keys : PlaceOf(j) = m => kv'[j] = Absent
      OBVIOUS
    <3> QED
      BY <1>1, <3>1, <3>2 DEF Vacant
  <2>2. CASE i \in 1..Len(pend)
    <3>1. /\ pend'[i] = pend[i] /\ pend[i].key \in Keys /\ PlaceOf(pend[i].key) \in Places
          /\ PlaceOf(pend[i].key) # m
      BY <1>1, <1>3, <2>2, PlaceFacts
    <3>2. \A j \in 1..Len(pend) : j > i => PlaceOf(pend[j].key) # PlaceOf(pend[i].key)
      BY <1>3, <2>2
    <3>3. /\ pend[i].app # Absent => kv[pend[i].key] = pend[i].app
          /\ pend[i].app = Absent /\ PlaceOf(pend[i].key) \notin left => Vacant(PlaceOf(pend[i].key))
      BY <2>2, <3>2 DEF Inv, LastEventIsNews
    <3>4. kv'[pend[i].key] = kv[pend[i].key]
      BY <3>1
    <3>5. \A l \in Places : l = PlaceOf(pend[i].key) /\ Vacant(l) => \A j \in Keys : PlaceOf(j) = l => kv'[j] = Absent
      BY <1>5, <3>1 DEF Vacant
    <3> QED
      BY <1>5, <3>1, <3>3, <3>4, <3>5 DEF Vacant
  <2> QED
    BY <1>3, <2>1, <2>2
<1>8. TodoIsNews'
  <2> SUFFICES ASSUME NEW f \in todo
               PROVE  /\ f.app # Absent
                      /\ PlaceOf(f.key) \notin raced /\ ~Pending(PlaceOf(f.key))' => kv'[f.key] = f.app
    BY DEF TodoIsNews
  <2>1. f.key \in Keys /\ PlaceOf(f.key) \in Places
    BY PlaceFacts DEF Inv, TypeOK
  <2>2. CASE PlaceOf(f.key) = m
    BY <1>4, <2>2 DEF Inv, TodoIsNews
  <2>3. CASE PlaceOf(f.key) # m
    <3>1. kv'[f.key] = kv[f.key] /\ (Pending(PlaceOf(f.key))' <=> Pending(PlaceOf(f.key)))
      BY <1>5, <2>1, <2>3
    <3> QED
      BY <3>1 DEF Inv, TodoIsNews
  <2> QED
    BY <2>2, <2>3
<1>9. SettledAgrees'
  <2> SUFFICES ASSUME NEW l \in Places \ raced, ~Pending(l)', ~ToLoad(l)'
               PROVE  /\ Found(l)'
                      /\ load \in {"loading", "done"} /\ get(l)' = Absent /\ l \notin left' => Vacant(l)'
    BY DEF SettledAgrees
  <2>1. l # m
    BY <1>4
  <2> QED
    BY <1>5, <1>6, <2>1 DEF Inv, SettledAgrees
<1>10. Stages' /\ AskedOncePerVersion'
  BY <1>6 DEF Inv, Stages, AskedOncePerVersion
<1> QED
  BY <1>7, <1>8, <1>9, <1>10 DEF Inv

\* A change of etcd that no watch delivers: nothing was read before, or the
\* place has been raced.
LEMMA ChangeMissed ==
  ASSUME Inv, TypeOK', RP!Inv', NEW k \in Keys, watch # "open",
         \A j \in Keys : j # k => kv'[j] = kv[j],
         pend' = pend,
         raced' = IF watch = "ended" \/ (watch = "none" /\ load # "none")
                  THEN raced \cup {PlaceOf(k)}
                  ELSE raced,
         left' = IF kv'[k] = Absent /\ \E j \in Keys : PlaceOf(j) = PlaceOf(k) /\ kv'[j] # Absent
                 THEN left \cup {PlaceOf(k)}
                 ELSE left \ {PlaceOf(k)},
         UNCHANGED <<services, load, todo, watch, asked>>
  PROVE  Inv'
<1> DEFINE m == PlaceOf(k)
<1>1. pend = <<>> /\ pend' = <<>> /\ watch \in {"none", "ended"}
  BY DEF Inv, Stages, TypeOK
<1>2. \A l \in Places : ~Pending(l) /\ ~Pending(l)'
  BY <1>1 DEF Pending
<1>3. \A l \in Places : (ToLoad(l)' <=> ToLoad(l)) /\ get(l)' = get(l)
  BY DEF ToLoad, get
<1>4. LastEventIsNews' /\ Stages' /\ AskedOncePerVersion'
  <2>1. LastEventIsNews'
    BY <1>1 DEF LastEventIsNews
  <2>2. Stages'
    BY <1>1, <1>3 DEF Inv, Stages
  <2>3. AskedOncePerVersion'
    BY DEF Inv, AskedOncePerVersion
  <2> QED
    BY <2>1, <2>2, <2>3
<1>5. CASE watch = "none" /\ load = "none"
  <2>1. todo = {} /\ todo' = {} /\ \A l \in Places : get(l) = Absent
    BY <1>5 DEF Inv, Stages
  <2>2. TodoIsNews'
    BY <2>1 DEF TodoIsNews
  <2>3. SettledAgrees'
    BY <1>3, <1>5, <2>1 DEF SettledAgrees, Found
  <2> QED
    BY <1>4, <2>2, <2>3 DEF Inv
<1>6. CASE watch = "ended" \/ load # "none"
  <2>1. raced' = raced \cup {m} /\ m \in Places
    BY <1>1, <1>6, PlaceFacts
  <2>2. \A l \in Places : l # m => /\ l \in left' <=> l \in left
                                   /\ Vacant(l)' <=> Vacant(l)
                                   /\ Found(l)' <=> Found(l)
    <3> SUFFICES ASSUME NEW l \in Places, l # m
                 PROVE  /\ l \in left' <=> l \in left
                        /\ Vacant(l)' <=> Vacant(l)
                        /\ Found(l)' <=> Found(l)
      OBVIOUS
    <3>1. l \in left' <=> l \in left
      OBVIOUS
    <3>2. \A j \in Keys : PlaceOf(j) = l => kv'[j] = kv[j]
      OBVIOUS
    <3> QED
      BY <1>3, <3>1, <3>2 DEF Vacant, Found
  <2>3. TodoIsNews'
    <3> SUFFICES ASSUME NEW f \in todo
                 PROVE  /\ f.app # Absent
                        /\ PlaceOf(f.key) \notin raced' => kv'[f.key] = f.app
      BY DEF TodoIsNews
    <3>1. f.key \in Keys /\ PlaceOf(f.key) \in Places
      BY PlaceFacts DEF Inv, TypeOK
    <3>2. f.app # Absent /\ (PlaceOf(f.key) \notin raced => kv[f.key] = f.app)
      BY <1>2, <3>1 DEF Inv, TodoIsNews
    <3> QED
      BY <2>1, <3>1, <3>2
  <2>4. SettledAgrees'
    <3> SUFFICES ASSUME NEW l \in Places \ raced', ~ToLoad(l)'
                 PROVE  /\ Found(l)'
                        /\ load \in {"loading", "done"} /\ get(l)' = Absent /\ l \notin left'
                              => Vacant(l)'
      BY DEF SettledAgrees
    <3>1. l # m /\ l \notin raced
      BY <2>1
    <3> QED
      BY <1>2, <1>3, <2>2, <3>1 DEF Inv, SettledAgrees
  <2> QED
    BY <1>4, <2>3, <2>4 DEF Inv
<1> QED
  BY <1>1, <1>5, <1>6

\* A step of etcd changes one key at most: seen, missed, or none.
LEMMA EtcdStepKeepsInv ==
  ASSUME Inv, EtcdStep
  PROVE  Inv'
<1>1. RP!Next /\ RP!Inv /\ RP!Keys = Keys
  BY RegNext DEF EtcdStep, Inv, RP!Keys, Keys
<1>2. RP!Inv'
  BY <1>1, RP!NextKeepsInv, WatcherAssumption
<1>3. Reg!TypeOK'
  BY <1>2 DEF RP!Inv, RP!TypeOK, Reg!TypeOK, RP!Keys, Reg!Keys
<1>4. UNCHANGED <<services, load, todo, watch, asked>>
  BY DEF EtcdStep
<1>5. CASE kv' = kv /\ UNCHANGED <<pend, raced, left>>
  <2>1. TypeOK'
    BY <1>3, <1>4, <1>5 DEF Inv, TypeOK
  <2>2. \A l \in Places : /\ Pending(l)' <=> Pending(l)
                          /\ ToLoad(l)' <=> ToLoad(l)
                          /\ get(l)' = get(l)
                          /\ Found(l)' <=> Found(l)
                          /\ Vacant(l)' <=> Vacant(l)
    BY <1>4, <1>5 DEF Pending, ToLoad, get, Found, Vacant
  <2>3. LastEventIsNews' /\ TodoIsNews'
    BY <1>4, <1>5 DEF Inv, LastEventIsNews, TodoIsNews, Vacant, Pending
  <2>4. SettledAgrees' /\ Stages'
    BY <1>4, <1>5, <2>2 DEF Inv, SettledAgrees, Stages
  <2>5. AskedOncePerVersion'
    BY <1>4 DEF Inv, AskedOncePerVersion
  <2> QED
    BY <1>2, <2>1, <2>3, <2>4, <2>5 DEF Inv
<1>6. ASSUME NEW k \in Keys, kv'[k] # kv[k],
             pend' = IF watch = "open"
                     THEN Append(pend, [key |-> k, app |-> kv'[k]])
                     ELSE pend,
             raced' = IF watch = "ended" \/ (watch = "none" /\ load # "none")
                      THEN raced \cup {PlaceOf(k)}
                      ELSE raced,
             left' = IF kv'[k] = Absent /\ \E j \in Keys : PlaceOf(j) = PlaceOf(k) /\ kv'[j] # Absent
                     THEN left \cup {PlaceOf(k)}
                     ELSE left \ {PlaceOf(k)}
      PROVE  Inv'
  <2>1. \A j \in Keys : j # k => kv'[j] = kv[j]
    BY <1>1, <1>6, RP!OneKeyChanges, WatcherAssumption
  <2>2. PlaceOf(k) \in Places
    BY PlaceFacts
  <2>3. pend' \in Seq(Events)
    <3>1. pend \in Seq(Events)
      BY DEF Inv, TypeOK
    <3>2. [key |-> k, app |-> kv'[k]] \in Events
      BY <1>3 DEF Reg!TypeOK, Reg!Keys, Keys, Events
    <3> QED
      BY <1>6, <3>1, <3>2, AppendEvent
  <2>4. raced' \subseteq Places /\ left' \subseteq Places
    BY <1>6, <2>2 DEF Inv, TypeOK
  <2>5. TypeOK'
    BY <1>3, <1>4, <2>3, <2>4 DEF Inv, TypeOK
  <2>6. CASE watch = "open"
    <3>1. pend' = Append(pend, [key |-> k, app |-> kv'[k]]) /\ raced' = raced
      BY <1>6, <2>6
    <3> QED
      BY <1>2, <1>4, <1>6, <2>1, <2>5, <2>6, <3>1, ChangeSeen
  <2>7. CASE watch # "open"
    <3>1. pend' = pend
      BY <1>6, <2>7
    <3> QED
      BY <1>2, <1>4, <1>6, <2>1, <2>5, <2>7, <3>1, ChangeMissed
  <2> QED
    BY <2>6, <2>7
<1> QED
  BY <1>5, <1>6 DEF EtcdStep

\* The queue without its first event.
LEMMA QueueFacts ==
  ASSUME NEW q \in Seq(Events), q # <<>>
  PROVE  /\ Head(q) \in Events /\ Head(q) = q[1] /\ Tail(q) \in Seq(Events)
         /\ Len(q) \in Nat \ {0} /\ Len(Tail(q)) = Len(q) - 1
         /\ \A i \in 1..(Len(q) - 1) : Tail(q)[i] = q[i + 1]
BY HeadTailProperties

\* One turn of the loop of start.  When the event is the last of its place, the
\* place now holds what etcd has; when load has an older one to come, it is raced.
LEMMA WatchEventKeepsInv ==
  ASSUME Inv, WatchEvent
  PROVE  Inv'
<1>1. /\ pend # <<>> /\ pend \in Seq(Events) /\ pend' = Tail(pend)
      /\ UNCHANGED etcdVars /\ UNCHANGED <<load, todo, watch, left>> /\ kv' = kv
  BY DEF WatchEvent, etcdVars, Inv, TypeOK
<1>e. PICK e \in Events : e = Head(pend)
  BY <1>1, QueueFacts
<1>2. /\ e = pend[1] /\ pend' \in Seq(Events) /\ Len(pend) \in Nat \ {0}
      /\ Len(pend') = Len(pend) - 1
      /\ \A i \in 1..(Len(pend) - 1) : pend'[i] = pend[i + 1]
  BY <1>e, <1>1, QueueFacts
<1> DEFINE m == PlaceOf(e.key)
<1>3. m \in Places /\ e.key \in Keys
  BY PlaceFacts
<1>4. /\ IF e.app = Absent THEN offline(e.key) ELSE online(e)
      /\ raced' = IF ToLoad(m) THEN raced \cup {m} ELSE raced \ {m}
  BY <1>e DEF WatchEvent
<1>5. /\ services' \in [Names -> service]
      /\ asked' \in [Names \X Versions -> Nat]
      /\ AskedOncePerVersion'
      /\ get(m)' = e.app
      /\ \A l \in Places : l # m => get(l)' = get(l)
  <2>1. CASE e.app = Absent
    BY <1>3, <1>4, <2>1, OfflineFacts DEF Inv
  <2>2. CASE e.app # Absent
    BY <1>4, <2>2, OnlineFacts DEF Inv
  <2> QED
    BY <2>1, <2>2
<1> HIDE DEF m
<1>6. TypeOK' /\ RP!Inv'
  <2>1. RP!Inv' /\ Reg!TypeOK'
    BY <1>1, EtcdRests
  <2>2. raced' \subseteq Places
    BY <1>3, <1>4 DEF Inv, TypeOK
  <2> QED
    BY <1>1, <1>2, <1>5, <2>1, <2>2 DEF Inv, TypeOK
<1>7. \A l \in Places : l # m => (Pending(l)' <=> Pending(l))
  <2> SUFFICES ASSUME NEW l \in Places, l # m
               PROVE  (\E i \in 1..Len(pend') : PlaceOf(pend'[i].key) = l)
                         <=> (\E i \in 1..Len(pend) : PlaceOf(pend[i].key) = l)
    BY DEF Pending
  <2>1. ASSUME NEW i \in 1..Len(pend'), PlaceOf(pend'[i].key) = l
        PROVE  \E j \in 1..Len(pend) : PlaceOf(pend[j].key) = l
    <3>1. i + 1 \in 1..Len(pend) /\ PlaceOf(pend[i + 1].key) = l
      BY <1>2, <2>1
    <3> QED
      BY <3>1
  <2>2. ASSUME NEW i \in 1..Len(pend), PlaceOf(pend[i].key) = l
        PROVE  \E j \in 1..Len(pend') : PlaceOf(pend'[j].key) = l
    <3>1. i # 1
      BY <1>2, <2>2 DEF m
    <3>2. i - 1 \in 1..Len(pend') /\ pend'[i - 1] = pend[i]
      BY <1>2, <3>1
    <3> QED
      BY <2>2, <3>2
  <2> QED
    BY <2>1, <2>2
<1>8. ~Pending(m)' => /\ e.app # Absent => kv[e.key] = e.app
                      /\ e.app = Absent /\ m \notin left => Vacant(m)
  <2> SUFFICES ASSUME \A i \in 1..Len(pend') : PlaceOf(pend'[i].key) # m
               PROVE  /\ e.app # Absent => kv[e.key] = e.app
                      /\ e.app = Absent /\ m \notin left => Vacant(m)
    BY DEF Pending
  <2>1. \A j \in 1..Len(pend) : j > 1 => PlaceOf(pend[j].key) # PlaceOf(pend[1].key)
    <3> SUFFICES ASSUME NEW j \in 1..Len(pend), j > 1
                 PROVE  PlaceOf(pend[j].key) # PlaceOf(pend[1].key)
      OBVIOUS
    <3>1. j - 1 \in 1..Len(pend') /\ pend'[j - 1] = pend[j]
      BY <1>2
    <3> QED
      BY <1>2, <3>1 DEF m
  <2>2. 1 \in 1..Len(pend)
    BY <1>2
  <2> QED
    BY <1>2, <2>1, <2>2 DEF Inv, LastEventIsNews, m
<1>9. \A l \in Places : /\ Vacant(l)' <=> Vacant(l)
                        /\ ToLoad(l)' <=> ToLoad(l)
                        /\ l # m => (Found(l)' <=> Found(l)) /\ (l \in raced' <=> l \in raced)
  <2> SUFFICES ASSUME NEW l \in Places
               PROVE  /\ Vacant(l)' <=> Vacant(l)
                      /\ ToLoad(l)' <=> ToLoad(l)
                      /\ l # m => (Found(l)' <=> Found(l)) /\ (l \in raced' <=> l \in raced)
    OBVIOUS
  <2>1. (Vacant(l)' <=> Vacant(l)) /\ (ToLoad(l)' <=> ToLoad(l))
    BY <1>1 DEF Vacant, ToLoad
  <2>2. ASSUME l # m PROVE (Found(l)' <=> Found(l)) /\ (l \in raced' <=> l \in raced)
    BY <1>1, <1>4, <1>5, <2>2 DEF Found
  <2> QED
    BY <2>1, <2>2
<1>10. LastEventIsNews'
  <2> SUFFICES ASSUME NEW i \in 1..Len(pend'),
                      \A j \in 1..Len(pend') : j > i => PlaceOf(pend'[j].key) # PlaceOf(pend'[i].key)
               PROVE  /\ pend'[i].app # Absent => kv'[pend'[i].key] = pend'[i].app
                      /\ pend'[i].app = Absent /\ PlaceOf(pend'[i].key) \notin left'
                            => Vacant(PlaceOf(pend[i].key))'
    BY DEF LastEventIsNews
  <2>1. i + 1 \in 1..Len(pend) /\ pend'[i] = pend[i + 1]
    BY <1>2
  <2>2. \A j \in 1..Len(pend) : j > i + 1 => PlaceOf(pend[j].key) # PlaceOf(pend[i + 1].key)
    <3> SUFFICES ASSUME NEW j \in 1..Len(pend), j > i + 1
                 PROVE  PlaceOf(pend[j].key) # PlaceOf(pend[i + 1].key)
      OBVIOUS
    <3>1. j - 1 \in 1..Len(pend') /\ pend'[j - 1] = pend[j] /\ j - 1 > i
      BY <1>2
    <3> QED
      BY <2>1, <3>1
  <2>3. /\ pend[i + 1].app # Absent => kv[pend[i + 1].key] = pend[i + 1].app
        /\ pend[i + 1].app = Absent /\ PlaceOf(pend[i + 1].key) \notin left
              => Vacant(PlaceOf(pend[i + 1].key))
    BY <2>1, <2>2 DEF Inv, LastEventIsNews
  <2> QED
    BY <1>1, <2>1, <2>3 DEF Vacant
<1>11. TodoIsNews'
  <2> SUFFICES ASSUME NEW f \in todo
               PROVE  /\ f.app # Absent
                      /\ PlaceOf(f.key) \notin raced' /\ ~Pending(PlaceOf(f.key))' => kv[f.key] = f.app
    BY <1>1 DEF TodoIsNews
  <2>1. f.key \in Keys /\ PlaceOf(f.key) \in Places
    BY PlaceFacts DEF Inv, TypeOK
  <2>2. f.app # Absent /\ (PlaceOf(f.key) \notin raced /\ ~Pending(PlaceOf(f.key)) => kv[f.key] = f.app)
    BY DEF Inv, TodoIsNews
  <2>3. CASE PlaceOf(f.key) = m
    <3>1. ToLoad(m)
      BY <2>3 DEF ToLoad
    <3> QED
      BY <1>4, <2>2, <2>3, <3>1 DEF m
  <2>4. CASE PlaceOf(f.key) # m
    BY <1>7, <1>9, <2>1, <2>2, <2>4
  <2> QED
    BY <2>3, <2>4
<1>12. SettledAgrees'
  <2> SUFFICES ASSUME NEW l \in Places \ raced', ~Pending(l)', ~ToLoad(l)'
               PROVE  /\ Found(l)'
                      /\ load \in {"loading", "done"} /\ get(l)' = Absent /\ l \notin left
                            => Vacant(l)'
    BY <1>1 DEF SettledAgrees
  <2>1. CASE l = m
    <3>1. /\ e.app # Absent => kv[e.key] = e.app
          /\ e.app = Absent /\ m \notin left => Vacant(m)
      BY <1>8, <2>1
    <3>2. Found(l)'
      BY <1>1, <1>3, <1>5, <2>1, <3>1 DEF Found, m
    <3> QED
      BY <1>5, <1>9, <2>1, <3>1, <3>2
  <2>2. CASE l # m
    BY <1>5, <1>7, <1>9, <2>2 DEF Inv, SettledAgrees
  <2> QED
    BY <2>1, <2>2
<1>13. Stages'
  <2>1. watch = "open"
    BY <1>1 DEF Inv, Stages
  <2> QED
    BY <1>1, <2>1 DEF Inv, Stages
<1> QED
  BY <1>5, <1>6, <1>10, <1>11, <1>12, <1>13 DEF Inv

\* load brings one process online; a place with more of them has no settled owner.
LEMMA LoadOnlineKeepsInv ==
  ASSUME Inv, NEW e \in todo, LoadOnline(e)
  PROVE  Inv'
<1> DEFINE m == PlaceOf(e.key)
<1>1. /\ load = "loading" /\ online(e) /\ todo' = todo \ {e} /\ kv' = kv
      /\ UNCHANGED etcdVars /\ UNCHANGED <<load, watch, pend, raced, left>>
  BY DEF LoadOnline, etcdVars
<1>2. e \in Events /\ e.app # Absent /\ e.key \in Keys /\ m \in Places
  BY PlaceFacts DEF Inv, TypeOK, TodoIsNews
<1>3. /\ services' \in [Names -> service]
      /\ asked' \in [Names \X Versions -> Nat]
      /\ AskedOncePerVersion'
      /\ get(m)' = e.app
      /\ \A l \in Places : l # m => get(l)' = get(l)
  BY <1>1, <1>2, OnlineFacts DEF Inv
<1> HIDE DEF m
<1>4. TypeOK' /\ RP!Inv'
  <2>1. RP!Inv' /\ Reg!TypeOK'
    BY <1>1, EtcdRests
  <2> QED
    BY <1>1, <1>3, <2>1 DEF Inv, TypeOK
<1>5. \A l \in Places : /\ Pending(l)' <=> Pending(l)
                        /\ Vacant(l)' <=> Vacant(l)
                        /\ l # m => (Found(l)' <=> Found(l)) /\ (ToLoad(l)' <=> ToLoad(l))
  <2> SUFFICES ASSUME NEW l \in Places
               PROVE  /\ Pending(l)' <=> Pending(l)
                      /\ Vacant(l)' <=> Vacant(l)
                      /\ l # m => (Found(l)' <=> Found(l)) /\ (ToLoad(l)' <=> ToLoad(l))
    OBVIOUS
  <2>1. (Pending(l)' <=> Pending(l)) /\ (Vacant(l)' <=> Vacant(l))
    BY <1>1 DEF Pending, Vacant
  <2>2. ASSUME l # m PROVE (Found(l)' <=> Found(l)) /\ (ToLoad(l)' <=> ToLoad(l))
    BY <1>1, <1>3, <2>2 DEF Found, ToLoad, m
  <2> QED
    BY <2>1, <2>2
<1>6. LastEventIsNews' /\ Stages'
  BY <1>1 DEF Inv, LastEventIsNews, Stages, Vacant
<1>7. TodoIsNews'
  BY <1>1 DEF Inv, TodoIsNews, Pending
<1>8. SettledAgrees'
  <2> SUFFICES ASSUME NEW l \in Places \ raced, ~Pending(l)', ~ToLoad(l)'
               PROVE  /\ Found(l)'
                      /\ load \in {"loading", "done"} /\ get(l)' = Absent /\ l \notin left
                            => Vacant(l)'
    BY <1>1 DEF SettledAgrees
  <2>1. CASE l = m
    <3>1. kv[e.key] = e.app
      BY <1>5, <2>1 DEF Inv, TodoIsNews, m
    <3> QED
      BY <1>1, <1>2, <1>3, <2>1, <3>1 DEF Found, m
  <2>2. CASE l # m
    BY <1>3, <1>5, <2>2 DEF Inv, SettledAgrees
  <2> QED
    BY <2>1, <2>2
<1> QED
  BY <1>3, <1>4, <1>6, <1>7, <1>8 DEF Inv

\* The steps that leave the table as it is, and what it is compared with.
LEMMA TableRests ==
  ASSUME Inv, UNCHANGED etcdVars, UNCHANGED <<services, asked, left>>
  PROVE  /\ RP!Inv' /\ Reg!TypeOK' /\ AskedOncePerVersion' /\ kv' = kv
         /\ \A l \in Places : /\ get(l)' = get(l)
                              /\ Found(l)' <=> Found(l)
                              /\ Vacant(l)' <=> Vacant(l)
<1>1. RP!Inv' /\ Reg!TypeOK' /\ kv' = kv
  BY EtcdRests DEF etcdVars
<1>2. AskedOncePerVersion'
  BY DEF Inv, AskedOncePerVersion
<1> QED
  BY <1>1, <1>2 DEF get, Found, Vacant

\* The end of the watch loses events: their places are raced.
LEMMA WatchCanceledKeepsInv ==
  ASSUME Inv, WatchCanceled
  PROVE  Inv'
<1>1. /\ watch' = "ended" /\ pend' = <<>>
      /\ raced' = raced \cup {l \in Places : Pending(l)}
      /\ UNCHANGED etcdVars /\ UNCHANGED <<services, load, todo, asked, left>>
  BY DEF WatchCanceled
<1>2. /\ RP!Inv' /\ Reg!TypeOK' /\ AskedOncePerVersion' /\ kv' = kv
      /\ \A l \in Places : /\ get(l)' = get(l)
                           /\ Found(l)' <=> Found(l)
                           /\ Vacant(l)' <=> Vacant(l)
  BY <1>1, TableRests
<1>3. TypeOK'
  BY <1>1, <1>2 DEF Inv, TypeOK
<1>4. LastEventIsNews' /\ Stages'
  BY <1>1 DEF Inv, LastEventIsNews, Stages
<1>5. TodoIsNews'
  <2> SUFFICES ASSUME NEW f \in todo
               PROVE  f.app # Absent /\ (PlaceOf(f.key) \notin raced' => kv[f.key] = f.app)
    BY <1>1, <1>2 DEF TodoIsNews
  <2>1. PlaceOf(f.key) \in Places
    BY PlaceFacts DEF Inv, TypeOK
  <2> QED
    BY <1>1, <2>1 DEF Inv, TodoIsNews
<1>6. SettledAgrees'
  <2> SUFFICES ASSUME NEW l \in Places \ raced', ~ToLoad(l)'
               PROVE  /\ Found(l)'
                      /\ load \in {"loading", "done"} /\ get(l)' = Absent /\ l \notin left
                            => Vacant(l)'
    BY <1>1 DEF SettledAgrees
  <2>1. l \notin raced /\ ~Pending(l) /\ ~ToLoad(l)
    BY <1>1 DEF ToLoad
  <2> QED
    BY <1>2, <2>1 DEF Inv, SettledAgrees
<1> QED
  BY <1>2, <1>3, <1>4, <1>5, <1>6 DEF Inv

\* What List does not return is not in etcd.
LEMMA ListKeepsInv ==
  ASSUME Inv, List
  PROVE  Inv'
<1>1. /\ load = "none" /\ load' = "loading"
      /\ todo' = {e \in Events : e.app = kv[e.key] /\ e.app # Absent}
      /\ UNCHANGED etcdVars /\ UNCHANGED <<services, watch, pend, asked, raced, left>>
  BY DEF List
<1>2. /\ RP!Inv' /\ Reg!TypeOK' /\ AskedOncePerVersion' /\ kv' = kv
      /\ \A l \in Places : /\ get(l)' = get(l)
                           /\ Found(l)' <=> Found(l)
                           /\ Vacant(l)' <=> Vacant(l)
  BY <1>1, TableRests
<1>3. todo = {}
  BY <1>1 DEF Inv, Stages
<1>4. TypeOK'
  BY <1>1, <1>2 DEF Inv, TypeOK
<1>5. LastEventIsNews' /\ Stages' /\ TodoIsNews'
  <2>1. LastEventIsNews' /\ Stages'
    BY <1>1, <1>2 DEF Inv, LastEventIsNews, Stages, Vacant
  <2>2. TodoIsNews'
    BY <1>1, <1>2 DEF TodoIsNews
  <2> QED
    BY <2>1, <2>2
<1>6. SettledAgrees'
  <2> SUFFICES ASSUME NEW l \in Places \ raced, ~Pending(l)', ~ToLoad(l)'
               PROVE  Found(l)' /\ Vacant(l)'
    BY <1>1 DEF SettledAgrees
  <2>1. ~Pending(l) /\ ~ToLoad(l)
    BY <1>1, <1>3 DEF Pending, ToLoad
  <2>2. ASSUME NEW k \in Keys, PlaceOf(k) = l PROVE kv[k] = Absent
    <3> SUFFICES ASSUME kv[k] # Absent PROVE FALSE
      OBVIOUS
    <3> DEFINE e == [key |-> k, app |-> kv[k]]
    <3>1. e \in Events /\ e.key = k /\ e.app = kv[k]
      BY KeyType DEF Inv, Events
    <3> HIDE DEF e
    <3>2. e \in todo'
      BY <1>1, <3>1
    <3> QED
      BY <2>2, <3>1, <3>2 DEF ToLoad
  <2> QED
    BY <1>2, <2>1, <2>2 DEF Inv, SettledAgrees, Vacant
<1> QED
  BY <1>2, <1>4, <1>5, <1>6 DEF Inv

\* The steps that only move load or watch on.
LEMMA StageKeepsInv ==
  ASSUME Inv, WatchPrefix \/ ListFail \/ LoadDone
  PROVE  Inv'
<1>1. /\ UNCHANGED etcdVars /\ UNCHANGED <<services, todo, pend, asked, raced, left>>
      /\ watch' \in {watch, "open"} /\ load' \in {load, "failed", "done"}
      /\ load' = "done" => load \in {"loading", "done"}
      /\ load' # load => todo = {}
      /\ watch' # watch => watch = "none" /\ watch' = "open"
  BY DEF WatchPrefix, ListFail, LoadDone, Inv, Stages
<1>2. /\ RP!Inv' /\ Reg!TypeOK' /\ AskedOncePerVersion' /\ kv' = kv
      /\ \A l \in Places : /\ get(l)' = get(l)
                           /\ Found(l)' <=> Found(l)
                           /\ Vacant(l)' <=> Vacant(l)
  BY <1>1, TableRests
<1>3. TypeOK'
  BY <1>1, <1>2 DEF Inv, TypeOK
<1>4. LastEventIsNews' /\ TodoIsNews'
  BY <1>1, <1>2 DEF Inv, LastEventIsNews, TodoIsNews, Pending, Vacant
<1>5. Stages'
  BY <1>1, <1>2 DEF Inv, Stages
<1>6. SettledAgrees'
  <2>1. \A l \in Places : (Pending(l)' <=> Pending(l)) /\ (ToLoad(l)' <=> ToLoad(l))
    BY <1>1 DEF Pending, ToLoad
  <2> QED
    BY <1>1, <1>2, <2>1 DEF Inv, SettledAgrees
<1> QED
  BY <1>2, <1>3, <1>4, <1>5, <1>6 DEF Inv

\* A step of something else.
LEMMA StutterKeepsInv ==
  ASSUME Inv, UNCHANGED vars
  PROVE  Inv'
<1>1. /\ UNCHANGED etcdVars
      /\ UNCHANGED <<services, load, todo, watch, pend, asked, raced, left>>
  BY DEF vars
<1>2. /\ RP!Inv' /\ Reg!TypeOK' /\ AskedOncePerVersion' /\ kv' = kv
      /\ \A l \in Places : /\ get(l)' = get(l)
                           /\ Found(l)' <=> Found(l)
                           /\ Vacant(l)' <=> Vacant(l)
  BY <1>1, TableRests
<1>3. TypeOK' /\ Stages'
  BY <1>1, <1>2 DEF Inv, TypeOK, Stages
<1>4. LastEventIsNews' /\ TodoIsNews'
  BY <1>1, <1>2 DEF Inv, LastEventIsNews, TodoIsNews, Pending, Vacant
<1>5. SettledAgrees'
  <2>1. \A l \in Places : (Pending(l)' <=> Pending(l)) /\ (ToLoad(l)' <=> ToLoad(l))
    BY <1>1 DEF Pending, ToLoad
  <2> QED
    BY <1>1, <1>2, <2>1 DEF Inv, SettledAgrees
<1> QED
  BY <1>2, <1>3, <1>4, <1>5 DEF Inv

\* Every step of etcd, load and start keeps the invariant.
LEMMA NextKeepsInv == Inv /\ [Next]_vars => Inv'
<1> SUFFICES ASSUME Inv, [Next]_vars PROVE Inv'
  OBVIOUS
<1>1. CASE EtcdStep
  BY <1>1, EtcdStepKeepsInv
<1>2. CASE WatchEvent
  BY <1>2, WatchEventKeepsInv
<1>3. CASE WatchCanceled
  BY <1>3, WatchCanceledKeepsInv
<1>4. CASE List
  BY <1>4, ListKeepsInv
<1>5. ASSUME NEW e \in todo, LoadOnline(e) PROVE Inv'
  BY <1>5, LoadOnlineKeepsInv
<1>6. CASE WatchPrefix \/ ListFail \/ LoadDone
  BY <1>6, StageKeepsInv
<1>7. CASE UNCHANGED vars
  BY <1>7, StutterKeepsInv
<1> QED
  BY <1>1, <1>2, <1>3, <1>4, <1>5, <1>6, <1>7 DEF Next

\* With the lease of Registry, a process etcd has at a place is there under its own key.
LEMMA InvIsSafe == Inv => InstallStopsRegistered
<1> SUFFICES ASSUME Inv, load \in {"loading", "done"},
                    NEW l \in Places \ raced, ~Pending(l), ~ToLoad(l)
             PROVE  /\ get(l) # Absent => PlaceOf(key[get(l)]) = l /\ kv[key[get(l)]] = get(l)
                    /\ get(l) = Absent /\ l \notin left =>
                           \A k \in Keys : PlaceOf(k) = l => kv[k] = Absent
  BY DEF InstallStopsRegistered
<1>1. Found(l) /\ (get(l) = Absent /\ l \notin left => Vacant(l))
  BY DEF Inv, SettledAgrees
<1>2. \A k \in Keys, p \in Procs : kv[k] = p => key[p] = k
  BY DEF Inv, RP!Inv, RP!KeysAreLeased, RP!Keys, Keys
<1>3. get(l) \in Procs \cup {Absent}
  BY PlaceFacts DEF Inv, TypeOK, get, service
<1> QED
  BY <1>1, <1>2, <1>3 DEF Found, Vacant

(***************************************************************************)
(* What install.sh is told to stop is a process of that service on that    *)
(* host, and is registered in etcd, for any services, hosts, ports and     *)
(* processes, and any interleaving of load, start and etcd: outside the    *)
(* races of load and watch, and once the events of the place are applied.  *)
(***************************************************************************)
THEOREM WatcherSafe == Spec => []InstallStopsRegistered
<1>1. Spec => []Inv
  BY InitInv, NextKeepsInv, PTL DEF Spec
<1> QED
  BY <1>1, InvIsSafe, PTL

(***************************************************************************)
(* online asks for the document of a version of a service at most once,    *)
(* and never for that of a version older than one it has seen, whichever   *)
(* of load and start meets the processes first.                            *)
(***************************************************************************)
THEOREM DocumentsAskedOnce == Spec => [](TypeOK /\ AskedOncePerVersion)
<1>1. Spec => []Inv
  BY InitInv, NextKeepsInv, PTL DEF Spec
<1>2. Inv => TypeOK /\ AskedOncePerVersion
  BY DEF Inv
<1> QED
  BY <1>1, <1>2, PTL

(***************************************************************************)
(* The processes the watcher knows, its pending events and the versions it *)
(* has asked for keep their types.                                         *)
(***************************************************************************)
THEOREM WatcherTyped == Spec => []TypeOK
BY DocumentsAskedOnce, PTL

=============================================================================
