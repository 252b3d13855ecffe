-------------------------- MODULE Registry_proofs ---------------------------
(***************************************************************************)
(* The safety of Registry for any number of services, addresses and        *)
(* processes.  Neither KeysAreLeased nor RenewedIsRegistered is inductive: *)
(* that Keepalive never overwrites the key of a process which renews its   *)
(* lease rests on the operating system's rule that two listeners never     *)
(* share an address (OneListener), and on a process being without a lease  *)
(* before it has put its key.                                              *)
(***************************************************************************)
EXTENDS Registry, TLAPS

OneListener ==
    \A p, q \in Procs : HasListener(p) /\ HasListener(q) /\ p # q => key[p][2] # key[q][2]

Inv ==
    /\ TypeOK
    /\ KeysAreLeased
    /\ RenewedIsRegistered
    /\ OneListener
    /\ \A p \in Procs : HasListener(p) => key[p] \in Keys
    /\ \A p \in Procs : pc[p] \in {"down", "listening"} => lease[p] = "none"

LEMMA InitInv == Init => Inv
BY ProcsAssumption DEF Init, Inv, TypeOK, KeysAreLeased, RenewedIsRegistered, OneListener,
                       HasListener, Keys

\* A process without a lease owns no key, so its own Put is its first.
LEMMA PutKeepsInv ==
  ASSUME Inv, NEW p \in Procs, pc[p] = "listening", NEW l \in {"kept", "orphan"},
         kv' = [kv EXCEPT ![key[p]] = p],
         lease' = [lease EXCEPT ![p] = l],
         pc' = [pc EXCEPT ![p] = IF l = "kept" THEN "serving" ELSE "dead"],
         key' = key
  PROVE  Inv'
<1>1. key[p] \in Keys /\ HasListener(p) /\ lease[p] = "none"
  BY DEF Inv, HasListener
<1>2. TypeOK'
  BY <1>1 DEF Inv, TypeOK
<1>3. /\ kv'[key[p]] = p /\ \A k \in Keys : k # key[p] => kv'[k] = kv[k]
      /\ lease'[p] = l /\ \A q \in Procs : q # p => lease'[q] = lease[q] /\ pc'[q] = pc[q]
      /\ pc'[p] = IF l = "kept" THEN "serving" ELSE "dead"
  BY <1>1 DEF Inv, TypeOK
<1>4. KeysAreLeased'
  BY <1>1, <1>3 DEF Inv, KeysAreLeased
<1>5. \A q \in Procs : q # p /\ lease[q] = "kept" => key[q] \in Keys /\ key[q] # key[p]
  BY <1>1 DEF Inv, RenewedIsRegistered, OneListener, HasListener
<1>6. RenewedIsRegistered'
  BY <1>1, <1>3, <1>5 DEF Inv, RenewedIsRegistered
<1>7. \A q \in Procs : HasListener(q)' => HasListener(q)
  BY <1>1, <1>3 DEF HasListener
<1>8. QED
  BY <1>1, <1>2, <1>3, <1>4, <1>6, <1>7 DEF Inv, OneListener

\* The end of a lease deletes the keys of its process and no others.
LEMMA EndLeaseKeepsInv ==
  ASSUME Inv, NEW p \in Procs, lease[p] # "none", EndLease(p)
  PROVE  Inv'
<1>1. /\ pc' = pc /\ key' = key
      /\ lease' = [lease EXCEPT ![p] = "none"]
      /\ kv' = [k \in Keys |-> IF kv[k] = p THEN Absent ELSE kv[k]]
  BY DEF EndLease
<1>2. TypeOK'
  BY <1>1 DEF Inv, TypeOK
<1>3. /\ \A k \in Keys : kv'[k] = IF kv[k] = p THEN Absent ELSE kv[k]
      /\ lease'[p] = "none" /\ \A q \in Procs : q # p => lease'[q] = lease[q]
  BY <1>1 DEF Inv, TypeOK
<1>4. KeysAreLeased'
  BY <1>1, <1>3, ProcsAssumption DEF Inv, KeysAreLeased
<1>5. RenewedIsRegistered'
  BY <1>1, <1>3 DEF Inv, RenewedIsRegistered, HasListener
<1>6. QED
  BY <1>1, <1>2, <1>3, <1>4, <1>5 DEF Inv, OneListener, HasListener

\* A process that ends leaves its lease, if any, to expire.
LEMMA LeaveKeepsInv ==
  ASSUME Inv, NEW p \in Procs, pc[p] \in {"listening", "serving", "draining"},
         NEW s \in {"draining", "dead"},
         pc' = [pc EXCEPT ![p] = s],
         lease' = [lease EXCEPT ![p] = IF @ = "kept" THEN "orphan" ELSE @],
         key' = key, kv' = kv
  PROVE  Inv'
<1>1. TypeOK'
  BY DEF Inv, TypeOK
<1>2. /\ pc'[p] = s /\ lease'[p] = IF lease[p] = "kept" THEN "orphan" ELSE lease[p]
      /\ \A q \in Procs : q # p => lease'[q] = lease[q] /\ pc'[q] = pc[q]
  BY DEF Inv, TypeOK
<1>3. KeysAreLeased' /\ RenewedIsRegistered'
  BY <1>2 DEF Inv, KeysAreLeased, RenewedIsRegistered
<1>4. \A q \in Procs : HasListener(q)' => HasListener(q)
  BY <1>2 DEF HasListener
<1>5. QED
  BY <1>1, <1>2, <1>3, <1>4 DEF Inv, OneListener

LEMMA ListenKeepsInv ==
  ASSUME Inv, NEW p \in Procs, NEW k \in Keys, Listen(p, k)
  PROVE  Inv'
<1>1. TypeOK'
  BY DEF Inv, TypeOK, Listen
<1>2. /\ pc[p] = "down" /\ pc'[p] = "listening" /\ key'[p] = k /\ lease' = lease /\ kv' = kv
      /\ \A q \in Procs : q # p => key'[q] = key[q] /\ pc'[q] = pc[q]
      /\ \A q \in Procs : HasListener(q) => key[q][2] # k[2]
  BY DEF Inv, TypeOK, Listen
<1>3. lease[p] = "none"
  BY <1>2 DEF Inv
<1>4. KeysAreLeased' /\ RenewedIsRegistered'
  BY <1>2, <1>3 DEF Inv, KeysAreLeased, RenewedIsRegistered
<1>5. OneListener'
  BY <1>2 DEF Inv, OneListener, HasListener
<1>6. QED
  BY <1>1, <1>2, <1>3, <1>4, <1>5 DEF Inv, HasListener

LEMMA NextKeepsInv == Inv /\ [Next]_vars => Inv'
<1> SUFFICES ASSUME Inv, [Next]_vars PROVE Inv'
  OBVIOUS
<1>1. ASSUME NEW p \in Procs, NEW k \in Keys, Listen(p, k) PROVE Inv'
  BY <1>1, ListenKeepsInv
<1>2. ASSUME NEW p \in Procs, Keepalive(p) PROVE Inv'
  BY <1>2, PutKeepsInv DEF Keepalive
<1>3. ASSUME NEW p \in Procs, KeepaliveFail(p) PROVE Inv'
  <2>1. lease = [lease EXCEPT ![p] = IF @ = "kept" THEN "orphan" ELSE @]
    BY <1>3 DEF Inv, TypeOK, KeepaliveFail
  <2>2. QED
    BY <1>3, <2>1, LeaveKeepsInv DEF KeepaliveFail
<1>4. ASSUME NEW p \in Procs, KeepalivePutFail(p) PROVE Inv'
  BY <1>4, PutKeepsInv DEF KeepalivePutFail
<1>5. ASSUME NEW p \in Procs, Stop(p) PROVE Inv'
  BY <1>5, LeaveKeepsInv DEF Stop
<1>6. ASSUME NEW p \in Procs, Die(p) PROVE Inv'
  BY <1>6, LeaveKeepsInv DEF Die
<1>7. ASSUME NEW p \in Procs, Expire(p) \/ LoseLease(p) PROVE Inv'
  BY <1>7, EndLeaseKeepsInv DEF Expire, LoseLease
<1>8. CASE UNCHANGED vars
  BY <1>8 DEF vars, Inv, TypeOK, KeysAreLeased, RenewedIsRegistered, OneListener, HasListener
<1>9. QED
  BY <1>1, <1>2, <1>3, <1>4, <1>5, <1>6, <1>7, <1>8 DEF Next

\* One step of the processes and etcd changes one key at most: a lease has one.
LEMMA OneKeyChanges ==
  ASSUME Inv, Next, NEW k \in Keys, NEW l \in Keys, kv'[k] # kv[k], kv'[l] # kv[l]
  PROVE  k = l
<1>1. TypeOK /\ KeysAreLeased
  BY DEF Inv
<1>2. PICK p \in Procs :
        \/ \E x \in Keys : Listen(p, x)
        \/ Keepalive(p) \/ KeepaliveFail(p) \/ KeepalivePutFail(p)
        \/ Stop(p) \/ Die(p) \/ Expire(p) \/ LoseLease(p)
  BY DEF Next
<1>3. CASE Expire(p) \/ LoseLease(p)
  <2>1. kv' = [x \in Keys |-> IF kv[x] = p THEN Absent ELSE kv[x]]
    BY <1>3 DEF Expire, LoseLease, EndLease
  <2>2. kv[k] = p /\ kv[l] = p
    BY <2>1
  <2> QED
    BY <1>1, <2>2 DEF KeysAreLeased
<1>4. CASE Keepalive(p) \/ KeepalivePutFail(p)
  <2>1. kv' = [kv EXCEPT ![key[p]] = p]
    BY <1>4 DEF Keepalive, KeepalivePutFail
  <2> QED
    BY <1>1, <2>1 DEF TypeOK
<1>5. CASE \/ \E x \in Keys : Listen(p, x)
           \/ KeepaliveFail(p) \/ Stop(p) \/ Die(p)
  BY <1>5 DEF Listen, KeepaliveFail, Stop, Die
<1> QED
  BY <1>2, <1>3, <1>4, <1>5

(***************************************************************************)
(* Every key in etcd is on a lease of the process it names, and a process  *)
(* that renews its lease has its key, whatever other processes do with the *)
(* same address before and after.                                          *)
(***************************************************************************)
THEOREM RegistrySafe == Spec => [](TypeOK /\ KeysAreLeased /\ RenewedIsRegistered)
<1>1. Spec => []Inv
  BY InitInv, NextKeepsInv, PTL DEF Spec
<1>2. Inv => TypeOK /\ KeysAreLeased /\ RenewedIsRegistered
  BY DEF Inv
<1>3. QED
  BY <1>1, <1>2, PTL

(***************************************************************************)
(* Every key in etcd is on the lease of the process that put it last.      *)
(***************************************************************************)
THEOREM RegistryKeysSafe == Spec => []KeysAreLeased
BY RegistrySafe, PTL

(***************************************************************************)
(* Processes, keys and leases keep their types, for any number of them.    *)
(***************************************************************************)
THEOREM RegistryTyped == Spec => []TypeOK
BY RegistrySafe, PTL

=============================================================================
