-------------------------- MODULE Discovery_proofs --------------------------
(***************************************************************************)
(* The repeater's table agrees with etcd, for any number of services,      *)
(* addresses and processes, except for keys touched by one of the races.   *)
(* AgreesWithEtcd speaks of keys without a pending event; to carry it over *)
(* the application of an event the invariant must know that the last       *)
(* pending event of a key tells what etcd holds (LastEventIsNews), and to  *)
(* establish it when List runs, that what the watch has listed before is   *)
(* in etcd (ListedBefore).  That one step of etcd changes one key at most  *)
(* comes from the invariant of Registry: a lease has one key.              *)
(***************************************************************************)
EXTENDS Discovery, SequenceTheorems, TLAPS

RP == INSTANCE Registry_proofs

-----------------------------------------------------------------------------

\* A table in which no list is empty and no address is twice in a list.
WellFormed(t) == t \in Tables /\ NoEmptyList(t) /\ NoDuplicates(t)

\* unregister removes one element of a list without duplicates, and leaves none.
LEMMA WithoutFacts ==
  ASSUME NEW list \in Seq(Addrs), NEW k \in 1..Len(list),
         \A i, j \in 1..Len(list) : list[i] = list[j] => i = j
  PROVE  /\ FirstMatch(list, list[k]) = k
         /\ Without(list, k) \in Seq(Addrs)
         /\ Len(Without(list, k)) = Len(list) - 1
         /\ \A i, j \in 1..(Len(list) - 1) : Without(list, k)[i] = Without(list, k)[j] => i = j
         /\ \A i \in 1..(Len(list) - 1) : Without(list, k)[i] = list[IF i < k THEN i ELSE i + 1]
<1>1. FirstMatch(list, list[k]) = k
  <2>1. \A j \in 1..(k - 1) : list[j] # list[k]
    OBVIOUS
  <2>2. QED
    BY <2>1 DEF FirstMatch
<1> DEFINE a == SubSeq(list, 1, k - 1)
           b == SubSeq(list, k + 1, Len(list))
<1>2. /\ a \in Seq(Addrs) /\ Len(a) = k - 1
      /\ \A i \in 1..(k - 1) : a[i] = list[i]
  OBVIOUS
<1>3. /\ b \in Seq(Addrs) /\ Len(b) = Len(list) - k
      /\ \A i \in 1..(Len(list) - k) : b[i] = list[k + i]
  OBVIOUS
<1> DEFINE c == a \o b
<1>4. Without(list, k) = c
  BY DEF Without
<1>5. /\ c \in Seq(Addrs) /\ Len(c) = Len(a) + Len(b)
      /\ \A i \in 1..(Len(a) + Len(b)) : c[i] = IF i <= Len(a) THEN a[i] ELSE b[i - Len(a)]
  <2>1. a \in Seq(Addrs) /\ b \in Seq(Addrs)
    BY <1>2, <1>3
  <2> HIDE DEF a, b
  <2>2. QED
    BY <2>1, ConcatProperties
<1> HIDE DEF a, b, c
<1>6. Len(c) = Len(list) - 1
  BY <1>2, <1>3, <1>5
<1>7. ASSUME NEW i \in 1..(Len(list) - 1)
      PROVE  c[i] = list[IF i < k THEN i ELSE i + 1]
  <2>0. c[i] = IF i <= Len(a) THEN a[i] ELSE b[i - Len(a)]
    <3>1. i \in 1..(Len(a) + Len(b))
      BY <1>2, <1>3
    <3>2. QED
      BY <3>1, <1>5
  <2>1. CASE i < k
    <3>1. i \in 1..(k - 1) /\ i <= Len(a)
      BY <2>1, <1>2
    <3>2. a[i] = list[i]
      BY <3>1, <1>2
    <3>3. QED
      BY <2>0, <2>1, <3>1, <3>2
  <2>2. CASE ~(i < k)
    <3>1. i - Len(a) \in 1..(Len(list) - k) /\ k + (i - Len(a)) = i + 1 /\ ~(i <= Len(a))
      BY <2>2, <1>2
    <3>2. b[i - Len(a)] = list[i + 1]
      BY <3>1, <1>3
    <3>3. QED
      BY <2>0, <2>2, <3>1, <3>2
  <2>3. QED
    BY <2>1, <2>2
<1>8. ASSUME NEW i \in 1..(Len(list) - 1), NEW j \in 1..(Len(list) - 1), c[i] = c[j]
      PROVE  i = j
  <2> DEFINE f(x) == IF x < k THEN x ELSE x + 1
  <2>1. c[i] = list[f(i)] /\ c[j] = list[f(j)]
    BY <1>7
  <2>2. f(i) \in 1..Len(list) /\ f(j) \in 1..Len(list)
    OBVIOUS
  <2>3. f(i) = f(j)
    BY <1>8, <2>1, <2>2
  <2>4. QED
    BY <2>3
<1>9. QED
  BY <1>1, <1>4, <1>5, <1>6, <1>7, <1>8

\* Every other element stays: what is left is the list without the address.
LEMMA WithoutElements ==
  ASSUME NEW list \in Seq(Addrs), NEW k \in 1..Len(list),
         \A i, j \in 1..Len(list) : list[i] = list[j] => i = j
  PROVE  /\ \A i \in 1..(Len(list) - 1) :
               /\ Without(list, k)[i] # list[k]
               /\ \E x \in 1..Len(list) : list[x] = Without(list, k)[i]
         /\ \A x \in 1..Len(list) :
               x # k => \E i \in 1..(Len(list) - 1) : Without(list, k)[i] = list[x]
<1>1. \A i \in 1..(Len(list) - 1) : Without(list, k)[i] = list[IF i < k THEN i ELSE i + 1]
  BY WithoutFacts
<1>2. ASSUME NEW i \in 1..(Len(list) - 1)
      PROVE  /\ Without(list, k)[i] # list[k]
             /\ \E x \in 1..Len(list) : list[x] = Without(list, k)[i]
  <2> DEFINE x == IF i < k THEN i ELSE i + 1
  <2>1. x \in 1..Len(list) /\ x # k
    OBVIOUS
  <2>2. Without(list, k)[i] = list[x]
    BY <1>1
  <2> HIDE DEF x
  <2>3. QED
    BY <2>1, <2>2
<1>3. ASSUME NEW x \in 1..Len(list), x # k
      PROVE  \E i \in 1..(Len(list) - 1) : Without(list, k)[i] = list[x]
  <2> DEFINE i == IF x < k THEN x ELSE x - 1
  <2>1. i \in 1..(Len(list) - 1) /\ (IF i < k THEN i ELSE i + 1) = x
    BY <1>3
  <2> HIDE DEF i
  <2>2. Without(list, k)[i] = list[x]
    BY <1>1, <2>1
  <2>3. QED
    BY <2>1, <2>2
<1>4. QED
  BY <1>2, <1>3

\* register adds the address to what is listed, and nothing else.
LEMMA RegisterFacts ==
  ASSUME NEW t, WellFormed(t), NEW name \in Names, NEW addr \in Addrs
  PROVE  /\ WellFormed(register(t, name, addr))
         /\ \A n \in Names, a \in Addrs :
               Listed(register(t, name, addr), n, a) <=> Listed(t, n, a) \/ <<n, a>> = <<name, addr>>
<1> DEFINE u == register(t, name, addr)
<1>0. /\ t \in [Names -> Seq(Addrs) \cup {Absent}]
      /\ \A n \in Names : t[n] # <<>>
      /\ \A n \in Names : t[n] # Absent =>
            \A i, j \in 1..Len(t[n]) : t[n][i] = t[n][j] => i = j
  BY DEF WellFormed, Tables, NoEmptyList, NoDuplicates
<1>1. CASE t[name] # Absent /\ Listed(t, name, addr)
  <2>1. u = t
    BY <1>1 DEF register
  <2>2. QED
    BY <1>1, <2>1
<1>2. CASE t[name] = Absent \/ ~Listed(t, name, addr)
  <2> DEFINE list == IF t[name] = Absent THEN <<addr>> ELSE Append(t[name], addr)
  <2>1. u = [t EXCEPT ![name] = list]
    BY <1>0, <1>2 DEF register
  <2>2. /\ list \in Seq(Addrs) /\ list # <<>>
        /\ \A i, j \in 1..Len(list) : list[i] = list[j] => i = j
        /\ \A a \in Addrs : (\E i \in 1..Len(list) : list[i] = a) <=> Listed(t, name, a) \/ a = addr
    <3>1. CASE t[name] = Absent
      BY <3>1 DEF Listed
    <3>2. CASE t[name] # Absent
      <4> DEFINE old == t[name]
      <4>1. /\ old \in Seq(Addrs) /\ Len(old) \in Nat
            /\ \A i \in 1..Len(old) : old[i] # addr
            /\ \A i, j \in 1..Len(old) : old[i] = old[j] => i = j
            /\ \A a \in Addrs : Listed(t, name, a) <=> \E i \in 1..Len(old) : old[i] = a
        BY <1>0, <1>2, <3>2 DEF Listed
      <4>2. list = Append(old, addr)
        BY <3>2
      <4> HIDE DEF old, list
      <4>3. /\ list \in Seq(Addrs) /\ Len(list) = Len(old) + 1 /\ list[Len(old) + 1] = addr
            /\ \A i \in 1..Len(old) : list[i] = old[i]
        BY <4>1, <4>2, AppendProperties
      <4>4. list # <<>>
        BY <4>1, <4>3
      <4>5. ASSUME NEW x \in 1..Len(list), NEW y \in 1..Len(list), list[x] = list[y]
            PROVE  x = y
        BY <4>1, <4>3, <4>5
      <4>6. ASSUME NEW a \in Addrs
            PROVE  (\E i \in 1..Len(list) : list[i] = a)
                      <=> (\E i \in 1..Len(old) : old[i] = a) \/ a = addr
        <5>1. ASSUME NEW x \in 1..Len(list), list[x] = a, a # addr
              PROVE  \E i \in 1..Len(old) : old[i] = a
          <6>1. x \in 1..Len(old)
            BY <4>1, <4>3, <5>1
          <6>2. QED
            BY <4>3, <5>1, <6>1
        <5>2. ASSUME NEW x \in 1..Len(old), old[x] = a
              PROVE  \E i \in 1..Len(list) : list[i] = a
          <6>1. x \in 1..Len(list) /\ list[x] = a
            BY <4>1, <4>3, <5>2
          <6>2. QED
            BY <6>1
        <5>3. Len(old) + 1 \in 1..Len(list)
          BY <4>1, <4>3
        <5>4. QED
          BY <4>3, <5>1, <5>2, <5>3
      <4>7. QED
        BY <4>1, <4>3, <4>4, <4>5, <4>6
    <3>3. QED
      BY <3>1, <3>2
  <2> HIDE DEF list
  <2>3. u \in Tables /\ u[name] = list /\ \A n \in Names : n # name => u[n] = t[n]
    BY <1>0, <2>1, <2>2 DEF Tables
  <2> HIDE DEF u
  <2>4. WellFormed(u)
    <3>1. ASSUME NEW n \in Names
          PROVE  /\ u[n] # <<>>
                 /\ u[n] # Absent =>
                       \A i, j \in 1..Len(u[n]) : u[n][i] = u[n][j] => i = j
      <4>1. CASE n = name
        BY <2>2, <2>3, <4>1
      <4>2. CASE n # name
        BY <1>0, <2>3, <4>2
      <4> QED
        BY <4>1, <4>2
    <3> QED
      BY <2>3, <3>1, Zenon DEF WellFormed, NoEmptyList, NoDuplicates
  <2>5. u[name] # Absent
    BY <2>2, <2>3, AbsentAssumption
  <2>6. \A n \in Names, a \in Addrs :
           Listed(u, n, a) <=> Listed(t, n, a) \/ <<n, a>> = <<name, addr>>
    <3> SUFFICES ASSUME NEW n \in Names, NEW a \in Addrs
                 PROVE  Listed(u, n, a) <=> Listed(t, n, a) \/ (n = name /\ a = addr)
      OBVIOUS
    <3>1. CASE n = name
      <4>1. Listed(u, name, a) <=> \E i \in 1..Len(list) : list[i] = a
        BY <2>3, <2>5 DEF Listed
      <4>2. (\E i \in 1..Len(list) : list[i] = a) <=> Listed(t, name, a) \/ a = addr
        BY <2>2, Zenon
      <4> QED
        BY <3>1, <4>1, <4>2, Zenon
    <3>2. CASE n # name
      <4>1. u[n] = t[n]
        BY <2>3, <3>2, Zenon
      <4> QED
        BY <3>2, <4>1 DEF Listed
    <3> QED
      BY <3>1, <3>2, Zenon
  <2>7. QED
    BY <2>4, <2>6 DEF u
<1>3. QED
  BY <1>1, <1>2

\* unregister removes the address from what is listed, and nothing else.
LEMMA UnregisterFacts ==
  ASSUME NEW t, WellFormed(t), NEW name \in Names, NEW addr \in Addrs
  PROVE  /\ WellFormed(unregister(t, name, addr))
         /\ \A n \in Names, a \in Addrs :
               Listed(unregister(t, name, addr), n, a)
                  <=> Listed(t, n, a) /\ <<n, a>> # <<name, addr>>
<1> DEFINE u == unregister(t, name, addr)
           old == t[name]
<1>0. /\ t \in [Names -> Seq(Addrs) \cup {Absent}]
      /\ \A n \in Names : t[n] # <<>>
      /\ \A n \in Names : t[n] # Absent =>
            \A i, j \in 1..Len(t[n]) : t[n][i] = t[n][j] => i = j
  BY DEF WellFormed, Tables, NoEmptyList, NoDuplicates
<1>1. CASE ~Listed(t, name, addr)
  <2>1. u = t
    BY <1>1 DEF unregister
  <2>2. QED
    BY <1>1, <2>1
<1>2. CASE Listed(t, name, addr)
  <2>1. /\ old # Absent /\ old \in Seq(Addrs) /\ Len(old) \in Nat \ {0}
        /\ \A i, j \in 1..Len(old) : old[i] = old[j] => i = j
        /\ \A a \in Addrs : Listed(t, name, a) <=> \E i \in 1..Len(old) : old[i] = a
    BY <1>0, <1>2 DEF Listed
  <2>2. PICK k \in 1..Len(old) : old[k] = addr
    BY <1>2 DEF Listed
  <2>3. CASE Len(old) = 1
    <3>1. u = [t EXCEPT ![name] = Absent]
      BY <1>2, <2>3 DEF unregister
    <3>2. u \in Tables /\ u[name] = Absent /\ \A n \in Names : n # name => u[n] = t[n]
      BY <1>0, <3>1 DEF Tables
    <3>3. \A a \in Addrs : Listed(t, name, a) => a = addr
      BY <2>1, <2>2, <2>3
    <3> HIDE DEF u
    <3>4. WellFormed(u)
      <4>1. Absent # <<>>
        <5>1. <<>> \in Seq(Addrs)
          OBVIOUS
        <5>2. QED
          BY <5>1, AbsentAssumption
      <4>2. NoEmptyList(u)
        BY <1>0, <3>2, <4>1 DEF NoEmptyList
      <4>3. NoDuplicates(u)
        BY <1>0, <3>2 DEF NoDuplicates
      <4>4. QED
        BY <3>2, <4>2, <4>3 DEF WellFormed
    <3>5. \A n \in Names, a \in Addrs :
             Listed(u, n, a) <=> Listed(t, n, a) /\ <<n, a>> # <<name, addr>>
      BY <3>2, <3>3 DEF Listed
    <3>6. QED
      BY <3>4, <3>5 DEF u
  <2>4. CASE Len(old) # 1
    <3> DEFINE list == Without(old, k)
    <3>1. FirstMatch(old, addr) = k
      BY <2>1, <2>2, WithoutFacts
    <3>2. u = [t EXCEPT ![name] = list]
      BY <1>0, <1>2, <2>4, <3>1 DEF unregister
    <3>3. /\ list \in Seq(Addrs) /\ Len(list) = Len(old) - 1
          /\ \A i, j \in 1..(Len(old) - 1) : list[i] = list[j] => i = j
      <4>1. /\ old \in Seq(Addrs) /\ k \in 1..Len(old)
            /\ \A i, j \in 1..Len(old) : old[i] = old[j] => i = j
        BY <2>1
      <4> HIDE DEF old
      <4> QED
        BY <4>1, WithoutFacts, Zenon
    <3>4. ASSUME NEW a \in Addrs
          PROVE  (\E i \in 1..Len(list) : list[i] = a) <=> Listed(t, name, a) /\ a # addr
      <4>0. /\ old \in Seq(Addrs) /\ k \in 1..Len(old)
            /\ \A i, j \in 1..Len(old) : old[i] = old[j] => i = j
        BY <2>1
      <4> HIDE DEF old
      <4>1. /\ \A i \in 1..(Len(old) - 1) :
                 list[i] # old[k] /\ \E x \in 1..Len(old) : old[x] = list[i]
            /\ \A x \in 1..Len(old) :
                 x # k => \E i \in 1..(Len(old) - 1) : list[i] = old[x]
        BY <4>0, WithoutElements, Zenon
      <4> HIDE DEF list
      <4>2. Listed(t, name, a) <=> \E x \in 1..Len(old) : old[x] = a
        BY <2>1
      <4>3. (\E i \in 1..Len(list) : list[i] = a) => (\E x \in 1..Len(old) : old[x] = a) /\ a # addr
        BY <2>2, <3>3, <4>1
      <4>4. ASSUME NEW x \in 1..Len(old), old[x] = a, a # addr
            PROVE  \E i \in 1..Len(list) : list[i] = a
        BY <2>2, <3>3, <4>1, <4>4
      <4>5. QED
        BY <4>2, <4>3, <4>4
    <3> HIDE DEF list
    <3>5. list # <<>>
      <4>1. Len(list) # 0
        BY <2>1, <2>4, <3>3
      <4>2. Len(<<>>) = 0
        OBVIOUS
      <4>3. QED
        BY <4>1, <4>2, Zenon
    <3>6. u \in Tables /\ u[name] = list /\ \A n \in Names : n # name => u[n] = t[n]
      BY <1>0, <3>2, <3>3 DEF Tables
    <3> HIDE DEF u
    <3>7. WellFormed(u)
      <4>1. ASSUME NEW n \in Names
            PROVE  /\ u[n] # <<>>
                   /\ u[n] # Absent =>
                         \A i, j \in 1..Len(u[n]) : u[n][i] = u[n][j] => i = j
        <5>1. CASE n = name
          BY <3>3, <3>5, <3>6, <5>1
        <5>2. CASE n # name
          BY <1>0, <3>6, <5>2
        <5> QED
          BY <5>1, <5>2
      <4> QED
        BY <3>6, <4>1, Zenon DEF WellFormed, NoEmptyList, NoDuplicates
    <3>8. u[name] # Absent
      BY <3>3, <3>6, AbsentAssumption
    <3>9. \A n \in Names, a \in Addrs :
             Listed(u, n, a) <=> Listed(t, n, a) /\ <<n, a>> # <<name, addr>>
      BY <3>4, <3>6, <3>8 DEF Listed
    <3>10. QED
      BY <3>7, <3>9 DEF u
  <2>5. QED
    BY <2>3, <2>4
<1>3. QED
  BY <1>1, <1>2

-----------------------------------------------------------------------------

LastEventIsNews ==
    \A i \in 1..Len(pend) :
        (\A j \in 1..Len(pend) : j > i => pend[j].key # pend[i].key)
            => (pend[i].type = "PUT" <=> InEtcd(pend[i].key))

ListedBefore ==
    load = "none" =>
        /\ todo = {}
        /\ \A k \in Keys \ raced : ~Pending(k) /\ IsListed(k) => InEtcd(k)
        /\ watch = "none" => \A k \in Keys : ~IsListed(k)

Inv ==
    /\ RP!Inv
    /\ TypeOK
    /\ WellFormed(apps)
    /\ watch # "open" => pend = <<>>
    /\ LastEventIsNews
    /\ ListedBefore
    /\ AgreesWithEtcd

LEMMA RegNext == Reg!Next => RP!Next
BY DEF Reg!Next, RP!Next, Reg!Keys, RP!Keys, Reg!Listen, RP!Listen, Reg!HasListener,
       RP!HasListener, Reg!Keepalive, RP!Keepalive, Reg!KeepaliveFail, RP!KeepaliveFail,
       Reg!KeepalivePutFail, RP!KeepalivePutFail, Reg!Stop, RP!Stop, Reg!Die, RP!Die,
       Reg!Expire, RP!Expire, Reg!LoseLease, RP!LoseLease, Reg!EndLease, RP!EndLease

LEMMA RegTypeOK == RP!Inv => Reg!TypeOK
BY DEF RP!Inv, RP!TypeOK, Reg!TypeOK, RP!Keys, Reg!Keys

LEMMA OneKeyChanges ==
  ASSUME RP!Inv, Reg!Next, NEW k \in Keys, NEW l \in Keys, kv'[k] # kv[k], kv'[l] # kv[l]
  PROVE  k = l
<1>1. RP!Next /\ RP!Keys = Keys
  BY RegNext DEF RP!Keys, Keys
<1> QED
  BY <1>1, RP!OneKeyChanges, RunsAssumption

LEMMA InitInv == Init => Inv
<1> SUFFICES ASSUME Init PROVE Inv
  OBVIOUS
<1>1. RP!Inv
  <2>1. RP!Init
    BY DEF Init, Reg!Init, RP!Init, Reg!Keys, RP!Keys
  <2>2. QED
    BY <2>1, RP!InitInv, RunsAssumption
<1>2. \A n \in Names : apps[n] = Absent
  BY DEF Init, EmptyTable
<1>3. \A k \in Keys : ~IsListed(k)
  BY <1>2 DEF IsListed, Listed, Keys
<1>4. TypeOK
  BY <1>1, RegTypeOK DEF Init, TypeOK, Tables, EmptyTable
<1>5. WellFormed(apps)
  <2>1. Absent # <<>>
    <3>1. <<>> \in Seq(Addrs)
      OBVIOUS
    <3>2. QED
      BY <3>1, AbsentAssumption
  <2>2. QED
    BY <1>2, <1>4, <2>1 DEF WellFormed, TypeOK, NoEmptyList, NoDuplicates
<1>6. LastEventIsNews /\ ListedBefore /\ AgreesWithEtcd
  BY <1>3 DEF Init, LastEventIsNews, ListedBefore, AgreesWithEtcd
<1>7. QED
  BY <1>1, <1>4, <1>5, <1>6 DEF Init, Inv

\* Appending an event of k: k is pending, and no other key is that was not.
LEMMA AppendEvent ==
  ASSUME NEW q \in Seq(Events), NEW e \in Events
  PROVE  /\ Append(q, e) \in Seq(Events)
         /\ Len(Append(q, e)) = Len(q) + 1
         /\ Append(q, e)[Len(q) + 1] = e
         /\ \A i \in 1..Len(q) : Append(q, e)[i] = q[i]
         /\ Len(q) \in Nat
BY AppendProperties

LEMMA EtcdStepKeepsInv ==
  ASSUME Inv, EtcdStep
  PROVE  Inv'
<1>1. RP!Inv'
  <2>1. RP!Next
    BY RegNext DEF EtcdStep
  <2>2. QED
    BY <2>1, RP!NextKeepsInv, RunsAssumption DEF Inv
<1>2. apps' = apps /\ load' = load /\ todo' = todo /\ watch' = watch
  BY DEF EtcdStep
<1>3. \A k \in Keys : IsListed(k)' <=> IsListed(k)
  BY <1>2 DEF IsListed, Listed
<1>4. Reg!TypeOK' /\ WellFormed(apps)'
  <2>1. Reg!TypeOK'
    BY <1>1 DEF RP!Inv, RP!TypeOK, Reg!TypeOK, RP!Keys, Reg!Keys
  <2>2. WellFormed(apps)'
    BY <1>2 DEF Inv
  <2>3. QED
    BY <2>1, <2>2
<1>5. CASE kv' = kv /\ UNCHANGED <<pend, raced>>
  <2>1. \A k \in Keys : (InEtcd(k)' <=> InEtcd(k)) /\ (Pending(k)' <=> Pending(k))
    BY <1>5 DEF InEtcd, Pending
  <2>2. TypeOK'
    BY <1>2, <1>4, <1>5 DEF Inv, TypeOK
  <2>3. LastEventIsNews'
    BY <1>5 DEF Inv, LastEventIsNews, InEtcd
  <2>4. ListedBefore' /\ AgreesWithEtcd'
    BY <1>2, <1>3, <1>5, <2>1 DEF Inv, ListedBefore, AgreesWithEtcd
  <2>5. QED
    BY <1>1, <1>2, <1>4, <1>5, <2>2, <2>3, <2>4 DEF Inv
<1>6. ASSUME NEW k \in Keys, kv'[k] # kv[k],
             pend' = IF watch = "open"
                     THEN Append(pend, [key |-> k,
                                        type |-> IF kv'[k] = Absent THEN "DELETE" ELSE "PUT"])
                     ELSE pend,
             raced' = IF watch = "ended" \/ (watch = "none" /\ load # "none")
                      THEN raced \cup {k}
                      ELSE raced
      PROVE  Inv'
  <2>1. \A l \in Keys : l # k => (InEtcd(l)' <=> InEtcd(l))
    BY <1>6, OneKeyChanges DEF Inv, EtcdStep, InEtcd
  <2>2. CASE watch = "open"
    <3> DEFINE e == [key |-> k, type |-> IF kv'[k] = Absent THEN "DELETE" ELSE "PUT"]
    <3>1. /\ e \in Events /\ e.key = k /\ (e.type = "PUT" <=> InEtcd(k)')
          /\ pend \in Seq(Events) /\ pend' = Append(pend, e) /\ raced' = raced
      BY <1>6, <2>2 DEF Events, Inv, TypeOK, InEtcd
    <3> HIDE DEF e
    <3>2. /\ pend' \in Seq(Events) /\ Len(pend') = Len(pend) + 1 /\ Len(pend) \in Nat
          /\ pend'[Len(pend) + 1] = e
          /\ \A i \in 1..Len(pend) : pend'[i] = pend[i] /\ pend[i].key \in Keys
      <4>1. \A i \in 1..Len(pend) : pend[i] \in Events
        BY <3>1
      <4>2. QED
        BY <3>1, <4>1, AppendEvent DEF Events
    <3>3. Pending(k)'
      BY <3>1, <3>2 DEF Pending
    <3>4. \A l \in Keys : l # k => (Pending(l)' <=> Pending(l))
      BY <3>1, <3>2 DEF Pending
    <3>5. LastEventIsNews'
      <4> SUFFICES ASSUME NEW i \in 1..(Len(pend) + 1),
                          \A j \in 1..(Len(pend) + 1) : j > i => pend'[j].key # pend'[i].key
                   PROVE  pend'[i].type = "PUT" <=> InEtcd(pend[i].key)'
        BY <3>2 DEF LastEventIsNews
      <4>1. CASE i = Len(pend) + 1
        BY <3>1, <3>2, <4>1 DEF InEtcd
      <4>2. CASE i \in 1..Len(pend)
        <5>1. pend[i].key # k /\ \A j \in 1..Len(pend) : j > i => pend[j].key # pend[i].key
          BY <3>1, <3>2, <4>2
        <5>2. pend[i].type = "PUT" <=> InEtcd(pend[i].key)
          BY <4>2, <5>1 DEF Inv, LastEventIsNews
        <5>3. InEtcd(pend[i].key)' <=> kv'[pend'[i].key] # Absent
          BY DEF InEtcd
        <5>4. pend'[i] = pend[i] /\ pend[i].key \in Keys
          BY <3>2, <4>2
        <5>5. kv'[pend[i].key] # Absent <=> kv[pend[i].key] # Absent
          BY <2>1, <5>1, <5>4 DEF InEtcd
        <5>6. QED
          BY <5>2, <5>3, <5>4, <5>5 DEF InEtcd
      <4>3. QED
        BY <3>2, <4>1, <4>2
    <3>6. ListedBefore'
      BY <1>2, <1>3, <2>1, <2>2, <3>1, <3>3, <3>4 DEF Inv, ListedBefore
    <3>7. AgreesWithEtcd'
      BY <1>2, <1>3, <2>1, <3>1, <3>3, <3>4 DEF Inv, AgreesWithEtcd
    <3>8. TypeOK'
      BY <1>2, <1>4, <3>1, <3>2 DEF Inv, TypeOK
    <3>9. QED
      BY <1>1, <1>2, <1>4, <2>2, <3>5, <3>6, <3>7, <3>8 DEF Inv
  <2>3. CASE watch # "open"
    <3>1. pend' = pend /\ pend = <<>>
      BY <1>6, <2>3 DEF Inv
    <3>2. \A l \in Keys : ~Pending(l) /\ ~Pending(l)'
      BY <3>1 DEF Pending
    <3>3. LastEventIsNews'
      BY <3>1 DEF LastEventIsNews
    <3>4. watch \in {"none", "ended"}
      BY <2>3 DEF Inv, TypeOK
    <3>5. ListedBefore'
      <4> SUFFICES ASSUME load = "none"
                   PROVE  /\ todo = {}
                          /\ \A l \in Keys \ raced' : IsListed(l) => InEtcd(l)'
                          /\ watch = "none" => \A l \in Keys : ~IsListed(l)
        BY <1>2, <1>3, <3>2 DEF ListedBefore
      <4>1. CASE watch = "none"
        BY <4>1 DEF Inv, ListedBefore
      <4>2. CASE watch = "ended"
        BY <1>6, <2>1, <3>2, <4>2 DEF Inv, ListedBefore
      <4>3. QED
        BY <3>4, <4>1, <4>2
    <3>6. AgreesWithEtcd'
      <4>1. load \in {"loading", "done"} => raced' = raced \cup {k}
        BY <1>6, <3>4
      <4>2. QED
        BY <1>2, <1>3, <2>1, <3>2, <4>1 DEF Inv, AgreesWithEtcd
    <3>7. TypeOK'
      BY <1>2, <1>4, <1>6, <3>1 DEF Inv, TypeOK
    <3>8. QED
      BY <1>1, <1>2, <1>4, <3>1, <3>3, <3>5, <3>6, <3>7 DEF Inv
  <2>4. QED
    BY <2>2, <2>3
<1>7. QED
  BY <1>5, <1>6 DEF EtcdStep

LEMMA EtcdRests ==
  ASSUME Inv, UNCHANGED etcdVars
  PROVE  /\ RP!Inv' /\ Reg!TypeOK'
         /\ \A k \in Keys : InEtcd(k)' <=> InEtcd(k)
<1>1. RP!Inv'
  BY DEF Inv, etcdVars, RP!Inv, RP!TypeOK, RP!KeysAreLeased, RP!RenewedIsRegistered,
         RP!OneListener, RP!HasListener
<1>2. Reg!TypeOK'
  BY DEF Inv, TypeOK, etcdVars, Reg!TypeOK
<1>3. QED
  BY <1>1, <1>2 DEF etcdVars, InEtcd

LEMMA QueueFacts ==
  ASSUME NEW q \in Seq(Events), q # <<>>
  PROVE  /\ Head(q) \in Events /\ Head(q) = q[1] /\ Tail(q) \in Seq(Events)
         /\ Len(q) \in Nat \ {0} /\ Len(Tail(q)) = Len(q) - 1
         /\ \A i \in 1..(Len(q) - 1) : Tail(q)[i] = q[i + 1]
BY HeadTailProperties

LEMMA WatchEventKeepsInv ==
  ASSUME Inv, WatchEvent
  PROVE  Inv'
<1>1. /\ pend # <<>> /\ pend \in Seq(Events) /\ load # "failed"
      /\ kv' = kv /\ load' = load /\ todo' = todo /\ watch' = watch
      /\ UNCHANGED etcdVars
      /\ pend' = Tail(pend)
  BY DEF WatchEvent, etcdVars, Inv, TypeOK
<1>e. PICK e \in Events : e = Head(pend)
  BY <1>1, QueueFacts
<1>2. /\ e = pend[1] /\ pend' \in Seq(Events) /\ Len(pend) \in Nat \ {0}
      /\ Len(pend') = Len(pend) - 1
      /\ \A i \in 1..(Len(pend) - 1) : pend'[i] = pend[i + 1]
  BY <1>e, <1>1, QueueFacts
<1>k. PICK k \in Keys : k = e.key
  BY DEF Events
<1>3. e.type \in {"PUT", "DELETE"} /\ k[1] \in Names /\ k[2] \in Addrs /\ k = <<k[1], k[2]>>
  BY DEF Events, Keys
<1>4. /\ apps' = IF e.type = "DELETE" THEN unregister(apps, k[1], k[2])
                  ELSE register(apps, k[1], k[2])
      /\ raced' = IF e.type = "DELETE" /\ k \in todo THEN raced \cup {k} ELSE raced \ {k}
  BY <1>e, <1>k DEF WatchEvent
<1>5. /\ WellFormed(apps')
      /\ \A n \in Names, a \in Addrs : <<n, a>> # k => (Listed(apps', n, a) <=> Listed(apps, n, a))
      /\ Listed(apps', k[1], k[2]) <=> e.type = "PUT"
  <2>1. CASE e.type = "DELETE"
    BY <1>3, <1>4, <2>1, UnregisterFacts DEF Inv
  <2>2. CASE e.type = "PUT"
    BY <1>3, <1>4, <2>2, RegisterFacts DEF Inv
  <2>3. QED
    BY <1>3, <2>1, <2>2
<1>6. /\ \A l \in Keys : l # k => (IsListed(l)' <=> IsListed(l))
      /\ IsListed(k)' <=> e.type = "PUT"
  <2>1. \A l \in Keys : l[1] \in Names /\ l[2] \in Addrs /\ l = <<l[1], l[2]>>
    BY DEF Keys
  <2>2. QED
    BY <1>3, <1>5, <2>1 DEF IsListed
<1>7. \A l \in Keys : InEtcd(l)' <=> InEtcd(l)
  BY <1>1 DEF InEtcd
<1>8. \A l \in Keys : l # k => (Pending(l)' <=> Pending(l))
  <2> SUFFICES ASSUME NEW l \in Keys, l # k
               PROVE  (\E i \in 1..Len(pend') : pend'[i].key = l)
                         <=> (\E i \in 1..Len(pend) : pend[i].key = l)
    BY DEF Pending
  <2>1. ASSUME NEW i \in 1..Len(pend'), pend'[i].key = l
        PROVE  \E j \in 1..Len(pend) : pend[j].key = l
    <3>1. i + 1 \in 1..Len(pend) /\ pend[i + 1].key = l
      BY <1>2, <2>1
    <3>2. QED
      BY <3>1
  <2>2. ASSUME NEW i \in 1..Len(pend), pend[i].key = l
        PROVE  \E j \in 1..Len(pend') : pend'[j].key = l
    <3>1. i # 1
      BY <1>2, <1>k, <2>2
    <3>2. i - 1 \in 1..Len(pend') /\ pend'[i - 1] = pend[i]
      BY <1>2, <3>1
    <3>3. QED
      BY <2>2, <3>2
  <2>3. QED
    BY <2>1, <2>2
<1>9. ~Pending(k)' => (e.type = "PUT" <=> InEtcd(k))
  <2> SUFFICES ASSUME \A i \in 1..Len(pend') : pend'[i].key # k
               PROVE  e.type = "PUT" <=> InEtcd(k)
    BY DEF Pending
  <2>1. \A j \in 1..Len(pend) : j > 1 => pend[j].key # pend[1].key
    <3> SUFFICES ASSUME NEW j \in 1..Len(pend), j > 1 PROVE pend[j].key # pend[1].key
      OBVIOUS
    <3>1. j - 1 \in 1..Len(pend') /\ pend'[j - 1] = pend[j]
      BY <1>2
    <3>2. QED
      BY <1>2, <1>k, <3>1
  <2>2. 1 \in 1..Len(pend)
    BY <1>2
  <2>3. QED
    BY <1>2, <1>k, <2>1, <2>2 DEF Inv, LastEventIsNews
<1>10. LastEventIsNews'
  <2> SUFFICES ASSUME NEW i \in 1..Len(pend'),
                      \A j \in 1..Len(pend') : j > i => pend'[j].key # pend'[i].key
               PROVE  pend'[i].type = "PUT" <=> kv'[pend'[i].key] # Absent
    BY DEF LastEventIsNews, InEtcd
  <2>1. i + 1 \in 1..Len(pend) /\ pend'[i] = pend[i + 1]
    BY <1>2
  <2>2. ASSUME NEW j \in 1..Len(pend), j > i + 1 PROVE pend[j].key # pend[i + 1].key
    <3>1. j - 1 \in 1..Len(pend') /\ j - 1 > i /\ pend'[j - 1] = pend[j]
      BY <1>2, <2>2
    <3>2. QED
      BY <2>1, <3>1
  <2>3. QED
    BY <1>1, <2>1, <2>2 DEF Inv, LastEventIsNews, InEtcd
<1>11. TypeOK'
  <2>1. Reg!TypeOK'
    BY <1>1, EtcdRests
  <2>2. QED
    BY <1>1, <1>2, <1>3, <1>4, <1>5, <2>1 DEF Inv, TypeOK, WellFormed
<1>12. RP!Inv'
  BY <1>1, EtcdRests
<1>13. k \in Keys \ raced' => ~(e.type = "DELETE" /\ k \in todo)
  BY <1>4
<1>14. \A l \in Keys : l # k => (l \in raced' <=> l \in raced)
  BY <1>4
<1>15. ListedBefore'
  <2>1. watch = "open"
    BY <1>1 DEF Inv
  <2>2. QED
    BY <1>1, <1>3, <1>6, <1>7, <1>8, <1>9, <1>14, <2>1 DEF Inv, ListedBefore
<1>16. AgreesWithEtcd'
  <2> SUFFICES ASSUME load \in {"loading", "done"}, NEW l \in Keys \ raced', ~Pending(l)'
               PROVE  (IsListed(l)' \/ l \in todo) <=> InEtcd(l)
    BY <1>1, <1>7 DEF AgreesWithEtcd
  <2>1. CASE l # k
    BY <1>6, <1>8, <1>14, <2>1 DEF Inv, AgreesWithEtcd
  <2>2. CASE l = k
    BY <1>3, <1>6, <1>9, <1>13, <2>2
  <2>3. QED
    BY <2>1, <2>2
<1>17. WellFormed(apps)' /\ (watch' # "open" => pend' = <<>>)
  BY <1>1, <1>5 DEF Inv
<1>18. QED
  BY <1>10, <1>11, <1>12, <1>15, <1>16, <1>17 DEF Inv

LEMMA WatchPrefixKeepsInv ==
  ASSUME Inv, WatchPrefix
  PROVE  Inv'
<1>1. /\ UNCHANGED etcdVars /\ apps' = apps /\ load' = load /\ todo' = todo /\ pend' = pend
      /\ raced' = raced /\ watch = "none" /\ watch' = "open" /\ pend = <<>>
  BY DEF WatchPrefix, Inv
<1>2. /\ RP!Inv' /\ Reg!TypeOK' /\ WellFormed(apps)'
      /\ \A k \in Keys : InEtcd(k)' <=> InEtcd(k)
  BY <1>1, EtcdRests DEF Inv
<1>3. TypeOK'
  BY <1>1, <1>2 DEF Inv, TypeOK
<1>4. \A k \in Keys : (IsListed(k)' <=> IsListed(k)) /\ (Pending(k)' <=> Pending(k))
  BY <1>1 DEF IsListed, Listed, Pending
<1>5. LastEventIsNews' /\ ListedBefore' /\ AgreesWithEtcd'
  BY <1>1, <1>2, <1>4 DEF Inv, LastEventIsNews, ListedBefore, AgreesWithEtcd
<1>6. QED
  BY <1>1, <1>2, <1>3, <1>5 DEF Inv

LEMMA WatchCanceledKeepsInv ==
  ASSUME Inv, WatchCanceled
  PROVE  Inv'
<1>1. /\ UNCHANGED etcdVars /\ apps' = apps /\ load' = load /\ todo' = todo /\ pend' = <<>>
      /\ raced' = raced \cup {k \in Keys : Pending(k)}
      /\ watch' = "ended" /\ watch = "open"
  BY DEF WatchCanceled
<1>2. /\ RP!Inv' /\ Reg!TypeOK' /\ WellFormed(apps)'
      /\ \A k \in Keys : InEtcd(k)' <=> InEtcd(k)
  BY <1>1, EtcdRests DEF Inv
<1>3. TypeOK'
  BY <1>1, <1>2 DEF Inv, TypeOK
<1>4. \A k \in Keys : (IsListed(k)' <=> IsListed(k)) /\ ~Pending(k)'
  BY <1>1 DEF IsListed, Listed, Pending
<1>5. LastEventIsNews'
  BY <1>1 DEF LastEventIsNews
<1>6. ListedBefore' /\ AgreesWithEtcd'
  BY <1>1, <1>2, <1>4 DEF Inv, ListedBefore, AgreesWithEtcd
<1>7. QED
  BY <1>1, <1>2, <1>3, <1>5, <1>6 DEF Inv

\* List, ListFail and LoadDone leave the table and the queue alone.
LEMMA ListKeepsInv ==
  ASSUME Inv, List \/ ListFail \/ LoadDone
  PROVE  Inv'
<1>1. /\ UNCHANGED etcdVars /\ apps' = apps /\ watch' = watch /\ pend' = pend /\ raced' = raced
      /\ load' \in {"loading", "done", "failed"} /\ todo' \in SUBSET Keys
  BY DEF List, ListFail, LoadDone, Inv, TypeOK
<1>2. /\ RP!Inv' /\ Reg!TypeOK' /\ WellFormed(apps)'
      /\ \A k \in Keys : InEtcd(k)' <=> InEtcd(k)
  BY <1>1, EtcdRests DEF Inv
<1>3. TypeOK'
  BY <1>1, <1>2 DEF Inv, TypeOK
<1>4. \A k \in Keys : (IsListed(k)' <=> IsListed(k)) /\ (Pending(k)' <=> Pending(k))
  BY <1>1 DEF IsListed, Listed, Pending
<1>5. LastEventIsNews'
  BY <1>1 DEF Inv, LastEventIsNews, InEtcd, etcdVars
<1>6. ListedBefore'
  BY <1>1 DEF ListedBefore
<1>7. AgreesWithEtcd'
  <2>1. CASE List
    BY <1>1, <1>2, <1>4, <2>1 DEF Inv, List, ListedBefore, AgreesWithEtcd
  <2>2. CASE ListFail
    BY <2>2 DEF ListFail, AgreesWithEtcd
  <2>3. CASE LoadDone
    BY <1>1, <1>2, <1>4, <2>3 DEF Inv, LoadDone, AgreesWithEtcd
  <2>4. QED
    BY <2>1, <2>2, <2>3
<1>8. QED
  BY <1>1, <1>2, <1>3, <1>5, <1>6, <1>7 DEF Inv

LEMMA LoadRegisterKeepsInv ==
  ASSUME Inv, NEW k \in Keys, LoadRegister(k)
  PROVE  Inv'
<1>1. /\ UNCHANGED etcdVars /\ watch' = watch /\ pend' = pend /\ raced' = raced /\ load' = load
      /\ load = "loading" /\ k \in todo /\ todo' = todo \ {k}
      /\ apps' = register(apps, k[1], k[2])
  BY DEF LoadRegister
<1>2. k[1] \in Names /\ k[2] \in Addrs /\ k = <<k[1], k[2]>>
  BY DEF Keys
<1>3. /\ WellFormed(apps')
      /\ \A n \in Names, a \in Addrs :
            Listed(apps', n, a) <=> Listed(apps, n, a) \/ <<n, a>> = <<k[1], k[2]>>
  BY <1>1, <1>2, RegisterFacts DEF Inv
<1>4. \A l \in Keys : IsListed(l)' <=> IsListed(l) \/ l = k
  <2>1. \A l \in Keys : l[1] \in Names /\ l[2] \in Addrs /\ l = <<l[1], l[2]>>
    BY DEF Keys
  <2>2. QED
    BY <1>2, <1>3, <2>1 DEF IsListed
<1>5. /\ RP!Inv' /\ Reg!TypeOK'
      /\ \A l \in Keys : InEtcd(l)' <=> InEtcd(l)
  BY <1>1, EtcdRests
<1>6. \A l \in Keys : Pending(l)' <=> Pending(l)
  BY <1>1 DEF Pending
<1>7. TypeOK'
  BY <1>1, <1>3, <1>5 DEF Inv, TypeOK, WellFormed
<1>8. LastEventIsNews'
  BY <1>1 DEF Inv, LastEventIsNews, InEtcd, etcdVars
<1>9. ListedBefore' /\ AgreesWithEtcd'
  BY <1>1, <1>4, <1>5, <1>6 DEF Inv, ListedBefore, AgreesWithEtcd
<1>10. QED
  BY <1>1, <1>3, <1>5, <1>7, <1>8, <1>9 DEF Inv

LEMMA NextKeepsInv == Inv /\ [Next]_vars => Inv'
<1> SUFFICES ASSUME Inv, [Next]_vars PROVE Inv'
  OBVIOUS
<1>1. CASE EtcdStep
  BY <1>1, EtcdStepKeepsInv
<1>2. CASE WatchPrefix
  BY <1>2, WatchPrefixKeepsInv
<1>3. CASE WatchEvent
  BY <1>3, WatchEventKeepsInv
<1>4. CASE WatchCanceled
  BY <1>4, WatchCanceledKeepsInv
<1>5. CASE List \/ ListFail \/ LoadDone
  BY <1>5, ListKeepsInv
<1>6. ASSUME NEW k \in Keys, LoadRegister(k) PROVE Inv'
  BY <1>6, LoadRegisterKeepsInv
<1>7. CASE UNCHANGED vars
  <2>1. /\ UNCHANGED etcdVars /\ apps' = apps /\ watch' = watch /\ pend' = pend /\ raced' = raced
        /\ load' = load /\ todo' = todo
    BY <1>7 DEF vars
  <2>2. RP!Inv' /\ Reg!TypeOK'
    BY <2>1, EtcdRests
  <2>3. TypeOK' /\ WellFormed(apps)'
    BY <2>1, <2>2 DEF Inv, TypeOK
  <2>4. LastEventIsNews' /\ ListedBefore' /\ AgreesWithEtcd'
    BY <2>1 DEF Inv, LastEventIsNews, ListedBefore, AgreesWithEtcd, InEtcd, IsListed, Listed,
                Pending, etcdVars
  <2>5. QED
    BY <2>1, <2>2, <2>3, <2>4 DEF Inv
<1>8. QED
  BY <1>1, <1>2, <1>3, <1>4, <1>5, <1>6, <1>7 DEF Next

(***************************************************************************)
(* Whatever the processes, etcd and the two goroutines of the repeater do: *)
(* a key without a pending event that none of the three races touched is   *)
(* in the table, or about to be loaded, exactly when it is in etcd, and    *)
(* the lists are non-empty and without duplicates.                         *)
(***************************************************************************)
THEOREM DiscoverySafe == Spec => [](TypeOK /\ TableOK /\ AgreesWithEtcd)
<1>1. Spec => []Inv
  BY InitInv, NextKeepsInv, PTL DEF Spec
<1>2. Inv => TypeOK /\ TableOK /\ AgreesWithEtcd
  BY DEF Inv, WellFormed, TableOK
<1>3. QED
  BY <1>1, <1>2, PTL

(***************************************************************************)
(* No sequence of events leaves a name with an empty list in the table of  *)
(* the repeater, or an address twice in a list.                            *)
(***************************************************************************)
THEOREM DiscoveryTableSafe == Spec => []TableOK
BY DiscoverySafe, PTL

(***************************************************************************)
(* The table, the pending events and what load has still to register keep  *)
(* their types, for any number of names and addresses.                     *)
(***************************************************************************)
THEOREM DiscoveryTyped == Spec => []TypeOK
BY DiscoverySafe, PTL

=============================================================================
