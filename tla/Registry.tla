------------------------------ MODULE Registry ------------------------------
(***************************************************************************)
(* The service processes (service/service.go, service/keepalive.go) and    *)
(* the part of etcd they use through util/etcd/etcd.go: a process listens, *)
(* puts its key under a lease and renews the lease until it is told to     *)
(* stop or dies.  A process is an operating-system process: it runs once.  *)
(* A key is the name of a service and an address, and an address can be    *)
(* taken by a new process as soon as the old one has closed its listener,  *)
(* while the old lease still runs.                                         *)
(***************************************************************************)
EXTENDS Naturals

CONSTANTS Names,    \* service names
          Addrs,    \* host and port
          Procs,    \* service processes
          Absent    \* no process, no key

ASSUME ProcsAssumption == Absent \notin Procs

Keys == Names \X Addrs

VARIABLES pc,       \* where Service.Start is
          key,      \* the key of a process, known once it listens
          lease,    \* the lease of a process: renewed, left to expire, or none
          kv        \* etcd: the process whose value a key has, and whose lease it is on

vars == <<pc, key, lease, kv>>

TypeOK ==
    /\ pc \in [Procs -> {"down", "listening", "serving", "draining", "dead"}]
    /\ key \in [Procs -> Keys \cup {Absent}]
    /\ lease \in [Procs -> {"none", "kept", "orphan"}]
    /\ kv \in [Keys -> Procs \cup {Absent}]

HasListener(p) == pc[p] \in {"listening", "serving"}

Init ==
    /\ pc = [p \in Procs |-> "down"]
    /\ key = [p \in Procs |-> Absent]
    /\ lease = [p \in Procs |-> "none"]
    /\ kv = [k \in Keys |-> Absent]

\* Mutant of Listen: apiKey writes the address before the name.
ListenSwapped(p, k) ==
    /\ pc[p] = "down"
    /\ \A q \in Procs : HasListener(q) => key[q][2] # k[2]
    /\ pc' = [pc EXCEPT ![p] = "listening"]
    /\ key' = [key EXCEPT ![p] = <<k[2], k[1]>>]
    /\ UNCHANGED <<lease, kv>>

\* server.Start: the address is free on its host.  The key is apiKey's.
Listen(p, k) ==
    /\ pc[p] = "down"
    /\ \A q \in Procs : HasListener(q) => key[q][2] # k[2]
    /\ pc' = [pc EXCEPT ![p] = "listening"]
    /\ key' = [key EXCEPT ![p] = k]
    /\ UNCHANGED <<lease, kv>>

\* Keepalive succeeds: Grant, Put with the lease, KeepAlive.
Keepalive(p) ==
    /\ pc[p] = "listening"
    /\ pc' = [pc EXCEPT ![p] = "serving"]
    /\ lease' = [lease EXCEPT ![p] = "kept"]
    /\ kv' = [kv EXCEPT ![key[p]] = p]
    /\ UNCHANGED key

\* Grant or Put fails and Start panics.
KeepaliveFail(p) ==
    /\ pc[p] = "listening"
    /\ pc' = [pc EXCEPT ![p] = "dead"]
    /\ UNCHANGED <<key, lease, kv>>

\* Put reaches etcd, its answer is lost: Keepalive closes the lease, Start panics.
KeepalivePutFail(p) ==
    /\ pc[p] = "listening"
    /\ pc' = [pc EXCEPT ![p] = "dead"]
    /\ lease' = [lease EXCEPT ![p] = "orphan"]
    /\ kv' = [kv EXCEPT ![key[p]] = p]
    /\ UNCHANGED key

\* SIGUSR1: keepalive.stop ends the renewal but does not revoke the lease.
Stop(p) ==
    /\ pc[p] = "serving"
    /\ pc' = [pc EXCEPT ![p] = "draining"]
    /\ lease' = [lease EXCEPT ![p] = IF @ = "kept" THEN "orphan" ELSE @]
    /\ UNCHANGED <<key, kv>>

\* The process crashes, or its time after Stop (maxWaitTime) is over.
Die(p) ==
    /\ pc[p] \in {"listening", "serving", "draining"}
    /\ pc' = [pc EXCEPT ![p] = "dead"]
    /\ lease' = [lease EXCEPT ![p] = IF @ = "kept" THEN "orphan" ELSE @]
    /\ UNCHANGED <<key, kv>>

\* Mutant of EndLease: the keys on the lease stay.
EndLeaseKeepsKeys(p) ==
    /\ lease' = [lease EXCEPT ![p] = "none"]
    /\ UNCHANGED <<pc, key, kv>>

\* Mutant of EndLease: the key of the process goes, whoever put it last.
EndLeaseByName(p) ==
    /\ lease' = [lease EXCEPT ![p] = "none"]
    /\ kv' = [k \in Keys |-> IF k = key[p] THEN Absent ELSE kv[k]]
    /\ UNCHANGED <<pc, key>>

\* etcd deletes the keys that are on the lease.
EndLease(p) ==
    /\ lease' = [lease EXCEPT ![p] = "none"]
    /\ kv' = [k \in Keys |-> IF kv[k] = p THEN Absent ELSE kv[k]]
    /\ UNCHANGED <<pc, key>>

\* Mutant of Expire: the lease is renewed until the process exits.
ExpireAfterExit(p) == lease[p] = "orphan" /\ pc[p] = "dead" /\ EndLease(p)

Expire(p) == lease[p] = "orphan" /\ EndLease(p)

\* A running process is cut off or stalled for longer than etcdKeyTTL.
\* Nobody reads the channel KeepAlive returned: the key is not put again.
LoseLease(p) == lease[p] = "kept" /\ EndLease(p)

Next ==
    \E p \in Procs :
        \/ \E k \in Keys : Listen(p, k)
        \/ Keepalive(p)
        \/ KeepaliveFail(p)
        \/ KeepalivePutFail(p)
        \/ Stop(p)
        \/ Die(p)
        \/ Expire(p)
        \/ LoseLease(p)

Spec == Init /\ [][Next]_vars

\* etcd ends a lease nobody renews; Keepalive returns (its calls have timeouts).
Fairness ==
    \A p \in Procs :
        /\ WF_vars(Expire(p))
        /\ WF_vars(Keepalive(p) \/ KeepaliveFail(p) \/ KeepalivePutFail(p))

FairSpec == Spec /\ Fairness

-----------------------------------------------------------------------------

(***************************************************************************)
(* A key in etcd is on the lease of the process that put it last, under    *)
(* the key of that process: no key is left behind without a lease.         *)
(***************************************************************************)
KeysAreLeased ==
    \A k \in Keys, p \in Procs : kv[k] = p => key[p] = k /\ lease[p] # "none"

(***************************************************************************)
(* A process that renews its lease is found under its key, and no other    *)
(* process is: neither a process that died with the same address nor the   *)
(* late end of its lease takes the key away.                               *)
(***************************************************************************)
RenewedIsRegistered ==
    \A p \in Procs : lease[p] = "kept" => pc[p] = "serving" /\ kv[key[p]] = p

(***************************************************************************)
(* A process that has stopped serving disappears from etcd, however it     *)
(* ended.                                                                  *)
(***************************************************************************)
StoppedLeaves ==
    \A p \in Procs :
        (pc[p] \in {"draining", "dead"}) ~> (\A k \in Keys : kv[k] # p)

=============================================================================
