------------------------ MODULE BackendSlices_proofs ------------------------
(***************************************************************************)
(* BackendSlices implements Backend for every set of names, addresses,     *)
(* requests and arrays: the inductive invariant is TypeOK /\ SliceInv.     *)
(***************************************************************************)
EXTENDS BackendSlices, SequenceTheorems, TLAPS

\* The module is long: its leaves get more time than the provers have by default.
USE SMTT(15), ZenonT(15)

Inv == TypeOK /\ SliceInv

\* What Store leaves behind: the new array is written, no other is.
LEMMA StoreFacts ==
  ASSUME Inv, NEW name \in Names, NEW list \in Seq(Addrs), Len(list) \in 1..MaxLen,
         \A i, j \in 1..Len(list) : list[i] = list[j] => i = j,
         NEW cap \in Len(list)..MaxLen, Store(name, list, cap), UNCHANGED held
  PROVE  /\ heap' \in [Arrays -> [1..MaxLen -> Addrs \cup {Absent}]]
         /\ apps' \in [Names -> Slices \cup {Absent}]
         /\ SliceInv'
         /\ \A n \in Names : n # name => Contents(apps[n])' = Contents(apps[n])
         /\ \A r \in Requests : Contents(held[r])' = Contents(held[r])
         /\ Contents(apps[name])' = list
<1> USE MaxLenAssumption, ArraysAssumption, AbsentAssumption
<1>1. PICK a \in Arrays :
        /\ Fresh(a)
        /\ heap' = [heap EXCEPT ![a] = [i \in 1..MaxLen |->
                                            IF i <= Len(list) THEN list[i] ELSE Absent]]
        /\ apps' = [apps EXCEPT ![name] = [array |-> a, len |-> Len(list), cap |-> cap]]
  BY DEF Store
<1>2. [array |-> a, len |-> Len(list), cap |-> cap] \in Slices
  BY DEF Slices
<1>3. \A i \in 1..Len(list) : list[i] \in Addrs
  OBVIOUS
<1>4. heap' \in [Arrays -> [1..MaxLen -> Addrs \cup {Absent}]]
  BY <1>1, <1>3 DEF Inv, TypeOK
<1>5. apps' \in [Names -> Slices \cup {Absent}]
  BY <1>1, <1>2 DEF Inv, TypeOK
<1>6. /\ apps'[name] = [array |-> a, len |-> Len(list), cap |-> cap]
      /\ apps'[name] # Absent
      /\ \A n \in Names : n # name => apps'[n] = apps[n]
      /\ \A i \in 1..Len(list) : heap'[a][i] = list[i]
      /\ \A b \in Arrays : b # a => heap'[b] = heap[b]
  BY <1>1, <1>2 DEF Inv, TypeOK, Slices
<1>7. \A n \in Names : (n # name /\ apps[n] # Absent) => apps[n].array \in Arrays \ {a}
  BY <1>1 DEF Fresh, Inv, TypeOK, Slices
<1>8. \A r \in Requests : held[r] # Absent => held[r].array \in Arrays \ {a}
  BY <1>1 DEF Fresh, Inv, TypeOK, Slices
<1>9. SliceInv'
  <2>1. \A n \in Names : apps'[n] # Absent => apps'[n].len <= apps'[n].cap
    BY <1>6 DEF Inv, SliceInv
  <2>2. \A n, m \in Names :
          (apps'[n] # Absent /\ apps'[m] # Absent /\ apps'[n].array = apps'[m].array) => n = m
    BY <1>6, <1>7 DEF Inv, SliceInv
  <2>3. \A n \in Names, r \in Requests :
          (apps'[n] # Absent /\ held'[r] # Absent /\ apps'[n].array = held'[r].array)
             => held'[r].len <= apps'[n].len
    BY <1>6, <1>7, <1>8 DEF Inv, SliceInv
  <2>4. \A n \in Names : apps'[n] # Absent =>
          \A i \in 1..apps'[n].len : heap'[apps'[n].array][i] \in Addrs
    BY <1>3, <1>6, <1>7 DEF Inv, SliceInv
  <2>5. \A r \in Requests : held'[r] # Absent =>
          \A i \in 1..held'[r].len : heap'[held'[r].array][i] \in Addrs
    BY <1>6, <1>8 DEF Inv, SliceInv
  <2>6. \A n \in Names : apps'[n] # Absent =>
          \A i, j \in 1..apps'[n].len :
             heap'[apps'[n].array][i] = heap'[apps'[n].array][j] => i = j
    <3>1. ASSUME NEW n \in Names, n # name, apps'[n] # Absent
          PROVE  apps'[n] = apps[n] /\ heap'[apps[n].array] = heap[apps[n].array]
      BY <1>6, <1>7, <3>1
    <3>2. ASSUME NEW n \in Names, n # name, apps'[n] # Absent
          PROVE  \A i, j \in 1..apps'[n].len :
                    heap'[apps'[n].array][i] = heap'[apps'[n].array][j] => i = j
      BY <3>1, <3>2 DEF Inv, SliceInv
    <3>3. QED
      BY <1>6, <3>2
  <2>7. QED
    BY <2>1, <2>2, <2>3, <2>4, <2>5, <2>6 DEF SliceInv
<1>10. ASSUME NEW n \in Names, n # name
       PROVE  Contents(apps[n])' = Contents(apps[n])
  <2>1. apps'[n] = apps[n] /\ (apps[n] # Absent => heap'[apps[n].array] = heap[apps[n].array])
    BY <1>6, <1>7, <1>10
  <2>2. QED
    BY <2>1 DEF Contents
<1>11. ASSUME NEW r \in Requests
       PROVE  Contents(held[r])' = Contents(held[r])
  <2>1. held'[r] = held[r] /\ (held[r] # Absent => heap'[held[r].array] = heap[held[r].array])
    BY <1>6, <1>8
  <2>2. QED
    BY <2>1 DEF Contents
<1>12. Contents(apps[name])' = list
  <2>1. Contents(apps[name])' = [i \in 1..Len(list) |-> heap'[a][i]]
    BY <1>6 DEF Contents
  <2>2. list = [i \in 1..Len(list) |-> list[i]]
    OBVIOUS
  <2>3. QED
    BY <1>6, <2>1, <2>2
<1>13. QED
  BY <1>4, <1>5, <1>9, <1>10, <1>11, <1>12

\* The list of a header is a sequence of addresses as long as the header says.
LEMMA ContentsFacts ==
  ASSUME Inv, NEW name \in Names, apps[name] # Absent
  PROVE  /\ Contents(apps[name]) \in Seq(Addrs)
         /\ Contents(apps[name]) # Absent
         /\ Len(Contents(apps[name])) = apps[name].len
         /\ apps[name].len \in 1..MaxLen
         /\ apps[name].cap \in apps[name].len..MaxLen
<1>1. /\ apps[name].len \in 1..MaxLen
      /\ apps[name].cap \in apps[name].len..MaxLen
      /\ \A i \in 1..apps[name].len : heap[apps[name].array][i] \in Addrs
  BY MaxLenAssumption DEF Inv, TypeOK, SliceInv, Slices
<1>2. Contents(apps[name]) = [i \in 1..apps[name].len |-> heap[apps[name].array][i]]
  BY DEF Contents
<1>3. Contents(apps[name]) \in Seq(Addrs) /\ Len(Contents(apps[name])) = apps[name].len
  BY <1>1, <1>2, MaxLenAssumption
<1>4. QED
  BY <1>1, <1>3, AbsentAssumption

AbsApps == [n \in Names |-> Contents(apps[n])]
AbsHeld == [r \in Requests |-> Contents(held[r])]

\* A name is a key of the abstract table exactly when it is one of the map.
LEMMA AbsentAgrees ==
  ASSUME Inv, NEW name \in Names
  PROVE  apps[name] = Absent <=> AbsApps[name] = Absent
BY ContentsFacts DEF AbsApps, Contents

\* The search loops of register and unregister find what the table lists.
LEMMA ListedAgrees ==
  ASSUME Inv, NEW name \in Names, NEW addr \in Addrs
  PROVE  InSlice(name, addr) <=> Table!Listed(AbsApps, name, addr)
BY ContentsFacts, AbsentAgrees DEF AbsApps, InSlice, Table!Listed

\* A new array for one name is one change of the abstract table.
LEMMA AbsStore ==
  ASSUME Inv, NEW name \in Names, NEW list \in Seq(Addrs), Len(list) \in 1..MaxLen,
         \A i, j \in 1..Len(list) : list[i] = list[j] => i = j,
         NEW cap \in Len(list)..MaxLen, Store(name, list, cap), UNCHANGED <<held, sent>>
  PROVE  /\ Inv'
         /\ AbsApps' = [AbsApps EXCEPT ![name] = list]
         /\ AbsHeld' = AbsHeld
<1>1. /\ heap' \in [Arrays -> [1..MaxLen -> Addrs \cup {Absent}]]
      /\ apps' \in [Names -> Slices \cup {Absent}]
      /\ SliceInv'
      /\ \A n \in Names : n # name => Contents(apps[n])' = Contents(apps[n])
      /\ \A r \in Requests : Contents(held[r])' = Contents(held[r])
      /\ Contents(apps[name])' = list
  BY StoreFacts
<1>2. Inv'
  BY <1>1 DEF Inv, TypeOK
<1>3. AbsApps' = [AbsApps EXCEPT ![name] = list]
  BY <1>1 DEF AbsApps
<1>4. AbsHeld' = AbsHeld
  BY <1>1 DEF AbsHeld
<1>5. QED
  BY <1>2, <1>3, <1>4

LEMMA RegisterNewStep ==
  ASSUME Inv, NEW name \in Names, NEW addr \in Addrs, RegisterNew(name, addr)
  PROVE  Inv' /\ Table!Register(name, addr)
<1> DEFINE list == <<addr>>
<1>1. /\ list \in Seq(Addrs) /\ Len(list) = 1
      /\ \A i, j \in 1..Len(list) : list[i] = list[j] => i = j
  OBVIOUS
<1>2. Store(name, list, 1) /\ UNCHANGED <<held, sent>> /\ 1 \in Len(list)..MaxLen
  BY <1>1, MaxLenAssumption DEF RegisterNew
<1> HIDE DEF list
<1>3. Inv' /\ AbsApps' = [AbsApps EXCEPT ![name] = list] /\ AbsHeld' = AbsHeld
  BY <1>1, <1>2, AbsStore
<1>4. AbsApps[name] = Absent
  BY AbsentAgrees DEF RegisterNew
<1>5. QED
  BY <1>2, <1>3, <1>4 DEF Table!Register, Table!register, AbsApps, AbsHeld, list

LEMMA RegisterGrowStep ==
  ASSUME Inv, NEW name \in Names, NEW addr \in Addrs, RegisterGrow(name, addr)
  PROVE  Inv' /\ Table!Register(name, addr)
<1> DEFINE old == Contents(apps[name])
           list == Append(old, addr)
<1>1. /\ old \in Seq(Addrs) /\ old # Absent /\ Len(old) = apps[name].len
      /\ apps[name].len \in 1..MaxLen
  BY ContentsFacts DEF RegisterGrow
<1>2. PICK cap \in (Len(old) + 1)..MaxLen : Store(name, list, cap)
  BY <1>1 DEF RegisterGrow
<1>3. \A i \in 1..Len(old) : old[i] # addr
  BY <1>1 DEF RegisterGrow, InSlice
<1>4. \A i, j \in 1..Len(old) : old[i] = old[j] => i = j
  BY <1>1 DEF Inv, SliceInv, Contents, RegisterGrow
<1>5. AbsApps[name] = old
  BY DEF AbsApps
<1> HIDE DEF old
<1>6. /\ list \in Seq(Addrs) /\ Len(list) = Len(old) + 1
      /\ \A i, j \in 1..Len(list) : list[i] = list[j] => i = j
  BY <1>1, <1>3, <1>4
<1>7. Len(list) \in 1..MaxLen /\ cap \in Len(list)..MaxLen
  BY <1>1, <1>2, <1>6, MaxLenAssumption
<1>8. UNCHANGED <<held, sent>>
  BY DEF RegisterGrow
<1>9. Inv' /\ AbsApps' = [AbsApps EXCEPT ![name] = list] /\ AbsHeld' = AbsHeld
  <2> HIDE DEF list
  <2> QED BY <1>2, <1>6, <1>7, <1>8, AbsStore
<1>10. ~Table!Listed(AbsApps, name, addr)
  BY ListedAgrees DEF RegisterGrow
<1>11. Table!register(AbsApps, name, addr) = [AbsApps EXCEPT ![name] = list]
  BY <1>1, <1>5, <1>10 DEF Table!register
<1>12. Len(AbsApps[name]) < MaxLen
  BY <1>1, <1>2, <1>5, MaxLenAssumption
<1>13. QED
  BY <1>8, <1>9, <1>11, <1>12 DEF Table!Register, AbsApps, AbsHeld

\* unregister removes one element of a list without duplicates, and leaves none.
LEMMA WithoutFacts ==
  ASSUME NEW list \in Seq(Addrs), NEW k \in 1..Len(list),
         \A i, j \in 1..Len(list) : list[i] = list[j] => i = j
  PROVE  /\ FirstMatch(list, list[k]) = k
         /\ Without(list, k) \in Seq(Addrs)
         /\ Len(Without(list, k)) = Len(list) - 1
         /\ \A i, j \in 1..(Len(list) - 1) : Without(list, k)[i] = Without(list, k)[j] => i = j
         /\ \A i \in 1..(Len(list) - 1) : Without(list, k)[i] = list[IF i < k THEN i ELSE i + 1]
<1>1. FirstMatch(list, list[k]) = k
  <2>1. \A j \in 1..(k - 1) : list[j] # list[k]
    OBVIOUS
  <2>2. QED
    BY <2>1 DEF FirstMatch
<1> DEFINE a == SubSeq(list, 1, k - 1)
           b == SubSeq(list, k + 1, Len(list))
<1>2. /\ a \in Seq(Addrs) /\ Len(a) = k - 1
      /\ \A i \in 1..(k - 1) : a[i] = list[i]
  OBVIOUS
<1>3. /\ b \in Seq(Addrs) /\ Len(b) = Len(list) - k
      /\ \A i \in 1..(Len(list) - k) : b[i] = list[k + i]
  OBVIOUS
<1> DEFINE c == a \o b
<1>4. Without(list, k) = c
  BY DEF Without
<1>5. /\ c \in Seq(Addrs) /\ Len(c) = Len(a) + Len(b)
      /\ \A i \in 1..(Len(a) + Len(b)) : c[i] = IF i <= Len(a) THEN a[i] ELSE b[i - Len(a)]
  <2>1. a \in Seq(Addrs) /\ b \in Seq(Addrs)
    BY <1>2, <1>3
  <2> HIDE DEF a, b
  <2>2. QED
    BY <2>1, ConcatProperties
<1> HIDE DEF a, b, c
<1>6. Len(c) = Len(list) - 1
  BY <1>2, <1>3, <1>5
<1>7. ASSUME NEW i \in 1..(Len(list) - 1)
      PROVE  c[i] = list[IF i < k THEN i ELSE i + 1]
  <2>0. c[i] = IF i <= Len(a) THEN a[i] ELSE b[i - Len(a)]
    <3>1. i \in 1..(Len(a) + Len(b))
      BY <1>2, <1>3
    <3>2. QED
      BY <3>1, <1>5
  <2>1. CASE i < k
    <3>1. i \in 1..(k - 1) /\ i <= Len(a)
      BY <2>1, <1>2
    <3>2. a[i] = list[i]
      BY <3>1, <1>2
    <3>3. QED
      BY <2>0, <2>1, <3>1, <3>2
  <2>2. CASE ~(i < k)
    <3>1. i - Len(a) \in 1..(Len(list) - k) /\ k + (i - Len(a)) = i + 1 /\ ~(i <= Len(a))
      BY <2>2, <1>2
    <3>2. b[i - Len(a)] = list[i + 1]
      BY <3>1, <1>3
    <3>3. QED
      BY <2>0, <2>2, <3>1, <3>2
  <2>3. QED
    BY <2>1, <2>2
<1>8. ASSUME NEW i \in 1..(Len(list) - 1), NEW j \in 1..(Len(list) - 1), c[i] = c[j]
      PROVE  i = j
  <2> DEFINE f(x) == IF x < k THEN x ELSE x + 1
  <2>1. c[i] = list[f(i)] /\ c[j] = list[f(j)]
    BY <1>7
  <2>2. f(i) \in 1..Len(list) /\ f(j) \in 1..Len(list)
    OBVIOUS
  <2>3. f(i) = f(j)
    BY <1>8, <2>1, <2>2
  <2>4. QED
    BY <2>3
<1>9. QED
  BY <1>1, <1>4, <1>5, <1>6, <1>7, <1>8

LEMMA UnregisterCopyStep ==
  ASSUME Inv, NEW name \in Names, NEW addr \in Addrs, UnregisterCopy(name, addr)
  PROVE  Inv' /\ Table!Unregister(name, addr)
<1> DEFINE old == Contents(apps[name])
           list == Without(old, FirstMatch(old, addr))
<1>0. apps[name] # Absent
  BY DEF UnregisterCopy, InSlice
<1>1. /\ old \in Seq(Addrs) /\ old # Absent /\ Len(old) = apps[name].len
      /\ apps[name].len \in 1..MaxLen /\ apps[name].len > 1
  BY <1>0, ContentsFacts DEF UnregisterCopy
<1>2. PICK cap \in (Len(old) - 1)..MaxLen : Store(name, list, cap)
  BY <1>1 DEF UnregisterCopy
<1>3. PICK k \in 1..Len(old) : old[k] = addr
  BY <1>1 DEF UnregisterCopy, InSlice
<1>4. \A i, j \in 1..Len(old) : old[i] = old[j] => i = j
  BY <1>0, <1>1 DEF Inv, SliceInv, Contents
<1>5. AbsApps[name] = old
  BY DEF AbsApps
<1> HIDE DEF old
<1>6. /\ list \in Seq(Addrs) /\ Len(list) = Len(old) - 1
      /\ \A i, j \in 1..(Len(old) - 1) : list[i] = list[j] => i = j
  <2>1. /\ FirstMatch(old, old[k]) = k
        /\ Without(old, k) \in Seq(Addrs) /\ Len(Without(old, k)) = Len(old) - 1
        /\ \A i, j \in 1..(Len(old) - 1) : Without(old, k)[i] = Without(old, k)[j] => i = j
    <3>1. old \in Seq(Addrs)
      BY <1>1
    <3>2. QED
      BY <3>1, <1>4, WithoutFacts
  <2>2. list = Without(old, k)
    BY <1>3, <2>1
  <2>3. QED
    BY <2>1, <2>2
<1>7. Len(list) \in 1..MaxLen /\ cap \in Len(list)..MaxLen
  BY <1>1, <1>2, <1>6, MaxLenAssumption
<1>8. UNCHANGED <<held, sent>>
  BY DEF UnregisterCopy
<1>9. Inv' /\ AbsApps' = [AbsApps EXCEPT ![name] = list] /\ AbsHeld' = AbsHeld
  <2> HIDE DEF list
  <2> QED BY <1>2, <1>6, <1>7, <1>8, AbsStore
<1>10. Table!Listed(AbsApps, name, addr) /\ Len(AbsApps[name]) # 1
  <2>1. InSlice(name, addr)
    BY DEF UnregisterCopy
  <2>2. Table!Listed(AbsApps, name, addr)
    BY <2>1, ListedAgrees
  <2>3. Len(AbsApps[name]) # 1
    <3>1. Len(old) # 1
      BY <1>1, MaxLenAssumption
    <3>2. QED
      BY <1>5, <3>1, Zenon
  <2>4. QED
    BY <2>2, <2>3
<1>11. list = Table!Without(old, Table!FirstMatch(old, addr))
  BY DEF Without, FirstMatch, Table!Without, Table!FirstMatch
<1>12. Table!unregister(AbsApps, name, addr) = [AbsApps EXCEPT ![name] = list]
  <2> HIDE DEF list
  <2> QED BY <1>5, <1>10, <1>11 DEF Table!unregister, AbsApps
<1>13. QED
  BY <1>8, <1>9, <1>12 DEF Table!Unregister, AbsApps, AbsHeld

LEMMA UnregisterLastStep ==
  ASSUME Inv, NEW name \in Names, NEW addr \in Addrs, UnregisterLast(name, addr)
  PROVE  Inv' /\ Table!Unregister(name, addr)
<1>1. /\ InSlice(name, addr) /\ apps[name] # Absent /\ apps[name].len = 1
      /\ apps' = [apps EXCEPT ![name] = Absent]
      /\ heap' = heap /\ held' = held /\ sent' = sent
  BY DEF UnregisterLast, InSlice
<1>2. /\ apps'[name] = Absent
      /\ \A n \in Names : n # name => apps'[n] = apps[n]
      /\ \A n \in Names : apps'[n] # Absent => apps'[n] = apps[n] /\ apps[n] # Absent
  BY <1>1 DEF Inv, TypeOK
<1>3. Inv'
  <2>1. TypeOK'
    BY <1>1 DEF Inv, TypeOK
  <2>2. SliceInv'
    BY <1>1, <1>2 DEF Inv, SliceInv
  <2>3. QED
    BY <2>1, <2>2 DEF Inv
<1>4. Len(AbsApps[name]) = 1
  BY <1>1, ContentsFacts DEF AbsApps
<1>5. Table!Listed(AbsApps, name, addr)
  BY <1>1, ListedAgrees
<1>6. AbsApps' = [AbsApps EXCEPT ![name] = Absent]
  <2>1. Contents(apps[name])' = Absent
    BY <1>2 DEF Contents
  <2>2. \A n \in Names : n # name => Contents(apps[n])' = Contents(apps[n])
    BY <1>1, <1>2 DEF Contents
  <2>3. QED
    BY <2>1, <2>2 DEF AbsApps
<1>7. AbsHeld' = AbsHeld
  BY <1>1 DEF AbsHeld, Contents
<1>8. Table!unregister(AbsApps, name, addr) = [AbsApps EXCEPT ![name] = Absent]
  BY <1>4, <1>5 DEF Table!unregister
<1>9. QED
  BY <1>1, <1>3, <1>6, <1>7, <1>8 DEF Table!Unregister, AbsApps, AbsHeld

LEMMA GetStep ==
  ASSUME Inv, NEW r \in Requests, NEW name \in Names, GetMicroAPPs(r, name)
  PROVE  Inv' /\ Table!GetMicroAPPs(r, name)
<1>1. /\ held[r] = Absent /\ apps[name] # Absent
      /\ held' = [held EXCEPT ![r] = apps[name]]
      /\ heap' = heap /\ apps' = apps /\ sent' = sent
  BY DEF GetMicroAPPs
<1>2. held'[r] = apps[name] /\ \A q \in Requests : q # r => held'[q] = held[q]
  BY <1>1 DEF Inv, TypeOK
<1>3. Inv'
  <2>1. TypeOK'
    BY <1>1 DEF Inv, TypeOK
  <2>2. ASSUME NEW n \in Names, NEW q \in Requests, apps[n] # Absent, held'[q] # Absent,
               apps[n].array = held'[q].array
        PROVE  held'[q].len <= apps[n].len
    <3>1. CASE q = r
      <4>1. n = name
        BY <1>1, <1>2, <2>2, <3>1 DEF Inv, SliceInv
      <4>2. QED
        BY <1>1, <1>2, <3>1, <4>1 DEF Inv, TypeOK, Slices
    <3>2. CASE q # r
      BY <1>2, <2>2, <3>2 DEF Inv, SliceInv
    <3>3. QED
      BY <3>1, <3>2
  <2>3. \A q \in Requests : held'[q] # Absent =>
          \A i \in 1..held'[q].len : heap[held'[q].array][i] \in Addrs
    BY <1>1, <1>2 DEF Inv, SliceInv
  <2>4. SliceInv'
    BY <1>1, <2>2, <2>3 DEF Inv, SliceInv
  <2>5. QED
    BY <2>1, <2>4 DEF Inv
<1>4. AbsHeld' = [AbsHeld EXCEPT ![r] = AbsApps[name]]
  <2>1. Contents(held[r])' = Contents(apps[name])
    <3>1. Contents(held[r])' = [i \in 1..held'[r].len |-> heap'[held'[r].array][i]]
      BY <1>1, <1>2 DEF Contents
    <3>2. Contents(apps[name]) = [i \in 1..apps[name].len |-> heap[apps[name].array][i]]
      BY <1>1 DEF Contents
    <3>3. held'[r].len = apps[name].len /\ heap'[held'[r].array] = heap[apps[name].array]
      BY <1>1, <1>2
    <3>4. QED
      BY <3>1, <3>2, <3>3
  <2>2. \A q \in Requests : q # r => Contents(held[q])' = Contents(held[q])
    BY <1>1, <1>2 DEF Contents
  <2>3. QED
    BY <2>1, <2>2 DEF AbsHeld, AbsApps
<1>5. AbsApps' = AbsApps /\ AbsHeld[r] = Absent
  BY <1>1 DEF AbsApps, AbsHeld, Contents
<1>6. QED
  BY <1>1, <1>3, <1>4, <1>5 DEF Table!GetMicroAPPs, AbsApps, AbsHeld

LEMMA PickStep ==
  ASSUME Inv, NEW r \in Requests, NEW k \in 1..MaxLen, Pick(r, k)
  PROVE  Inv' /\ Table!Pick(r, k)
<1>1. /\ held[r] # Absent /\ k \in 1..held[r].len
      /\ sent' = [sent EXCEPT ![r] = heap[held[r].array][k]]
      /\ held' = [held EXCEPT ![r] = Absent]
      /\ heap' = heap /\ apps' = apps
  BY DEF Pick
<1>2. /\ held'[r] = Absent
      /\ \A q \in Requests : q # r => held'[q] = held[q]
      /\ \A q \in Requests : held'[q] # Absent => held'[q] = held[q] /\ held[q] # Absent
  BY <1>1 DEF Inv, TypeOK
<1>3. heap[held[r].array][k] \in Addrs
  BY <1>1 DEF Inv, SliceInv
<1>4. Inv'
  <2>1. TypeOK'
    BY <1>1, <1>3 DEF Inv, TypeOK
  <2>2. SliceInv'
    BY <1>1, <1>2 DEF Inv, SliceInv
  <2>3. QED
    BY <2>1, <2>2 DEF Inv
<1>5. AbsHeld[r] = [i \in 1..held[r].len |-> heap[held[r].array][i]]
  BY <1>1 DEF AbsHeld, Contents
<1>6. AbsHeld[r] # Absent /\ Len(AbsHeld[r]) = held[r].len
  <2>1. held[r].len \in 1..MaxLen /\ \A i \in 1..held[r].len : heap[held[r].array][i] \in Addrs
    BY <1>1 DEF Inv, TypeOK, SliceInv, Slices
  <2>2. AbsHeld[r] \in Seq(Addrs) /\ Len(AbsHeld[r]) = held[r].len
    BY <1>5, <2>1, MaxLenAssumption
  <2>3. QED
    BY <2>2, AbsentAssumption
<1>7. sent' = [sent EXCEPT ![r] = AbsHeld[r][k]]
  BY <1>1, <1>5
<1>8. AbsHeld' = [AbsHeld EXCEPT ![r] = Absent]
  <2>1. Contents(held[r])' = Absent
    BY <1>2 DEF Contents
  <2>2. \A q \in Requests : q # r => Contents(held[q])' = Contents(held[q])
    BY <1>1, <1>2 DEF Contents
  <2>3. QED
    BY <2>1, <2>2 DEF AbsHeld
<1>9. AbsApps' = AbsApps
  BY <1>1 DEF AbsApps, Contents
<1>10. QED
  BY <1>1, <1>4, <1>6, <1>7, <1>8, <1>9 DEF Table!Pick, AbsApps, AbsHeld

\* append in place writes behind every header that a request holds.
LEMMA RegisterInPlaceStep ==
  ASSUME Inv, NEW name \in Names, NEW addr \in Addrs, RegisterInPlace(name, addr)
  PROVE  Inv' /\ Table!Register(name, addr)
<1> DEFINE s == apps[name]
           old == Contents(s)
<1>1. /\ s # Absent /\ s \in Slices /\ s.len < s.cap
      /\ s.array \in Arrays /\ s.len \in 1..MaxLen /\ s.len + 1 \in 1..MaxLen
      /\ s.cap \in 1..MaxLen
      /\ held' = held /\ sent' = sent
  BY MaxLenAssumption DEF RegisterInPlace, Inv, TypeOK, Slices
<1>2. /\ heap' = [heap EXCEPT ![s.array][s.len + 1] = addr]
      /\ apps' = [apps EXCEPT ![name].len = @ + 1]
  BY DEF RegisterInPlace
<1>3. /\ heap'[s.array][s.len + 1] = addr
      /\ \A i \in 1..MaxLen : i # s.len + 1 => heap'[s.array][i] = heap[s.array][i]
      /\ \A b \in Arrays : b # s.array => heap'[b] = heap[b]
  BY <1>1, <1>2 DEF Inv, TypeOK
<1>4. /\ apps'[name] = [array |-> s.array, len |-> s.len + 1, cap |-> s.cap]
      /\ apps'[name] # Absent
      /\ \A n \in Names : n # name => apps'[n] = apps[n]
  <2>1. [array |-> s.array, len |-> s.len + 1, cap |-> s.cap] \in Slices
    BY <1>1 DEF Slices
  <2>2. [s EXCEPT !.len = @ + 1] = [array |-> s.array, len |-> s.len + 1, cap |-> s.cap]
    BY <1>1 DEF Slices
  <2>3. apps'[name] = [s EXCEPT !.len = @ + 1] /\ \A n \in Names : n # name => apps'[n] = apps[n]
    BY <1>2 DEF Inv, TypeOK
  <2>4. QED
    BY <2>1, <2>2, <2>3, ArraysAssumption DEF Slices
<1>5. TypeOK'
  <2>1. heap' \in [Arrays -> [1..MaxLen -> Addrs \cup {Absent}]]
    BY <1>1, <1>2 DEF Inv, TypeOK
  <2>2. apps' \in [Names -> Slices \cup {Absent}]
    <3>1. apps'[name] \in Slices
      BY <1>1, <1>4 DEF Slices
    <3>2. QED
      BY <1>2, <1>4, <3>1 DEF Inv, TypeOK
  <2>3. QED
    BY <1>1, <2>1, <2>2 DEF Inv, TypeOK
<1>6. \A n \in Names : (n # name /\ apps[n] # Absent) => apps[n].array \in Arrays \ {s.array}
  BY <1>1 DEF Inv, TypeOK, SliceInv, Slices
<1>7. \A q \in Requests : held[q] # Absent =>
        held[q].array \in Arrays /\ held[q].len \in 1..MaxLen
  BY DEF Inv, TypeOK, Slices
<1>8. \A q \in Requests : (held[q] # Absent /\ held[q].array = s.array) => held[q].len <= s.len
  BY <1>1 DEF Inv, SliceInv
<1>9. \A q \in Requests : held[q] # Absent =>
        \A i \in 1..held[q].len : heap'[held[q].array][i] = heap[held[q].array][i]
  BY <1>1, <1>3, <1>7, <1>8, MaxLenAssumption
<1>10. /\ \A i \in 1..s.len : heap[s.array][i] \in Addrs /\ heap[s.array][i] # addr
       /\ \A i, j \in 1..s.len : heap[s.array][i] = heap[s.array][j] => i = j
       /\ \A i \in 1..s.len : heap'[s.array][i] = heap[s.array][i]
  <2>1. \A i \in 1..s.len : heap[s.array][i] # addr
    BY <1>1 DEF RegisterInPlace, InSlice, Contents
  <2>2. \A i \in 1..s.len : i \in 1..MaxLen /\ i # s.len + 1
    BY <1>1, MaxLenAssumption
  <2>3. QED
    BY <1>1, <1>3, <2>1, <2>2 DEF Inv, SliceInv
<1> HIDE DEF s
<1>11. SliceInv'
  <2>1. \A n \in Names : apps'[n] # Absent => apps'[n].len <= apps'[n].cap
    BY <1>1, <1>4, MaxLenAssumption DEF Inv, SliceInv
  <2>2. \A n, m \in Names :
          (apps'[n] # Absent /\ apps'[m] # Absent /\ apps'[n].array = apps'[m].array) => n = m
    BY <1>4, <1>6 DEF Inv, SliceInv
  <2>3. \A n \in Names, q \in Requests :
          (apps'[n] # Absent /\ held'[q] # Absent /\ apps'[n].array = held'[q].array)
             => held'[q].len <= apps'[n].len
    BY <1>1, <1>4, <1>7, <1>8, MaxLenAssumption DEF Inv, SliceInv
  <2>4. \A n \in Names : apps'[n] # Absent =>
          \A i \in 1..apps'[n].len : heap'[apps'[n].array][i] \in Addrs
    <3>1. \A i \in 1..(s.len + 1) : heap'[s.array][i] \in Addrs
      BY <1>1, <1>3, <1>10, MaxLenAssumption
    <3>2. QED
      BY <1>3, <1>4, <1>6, <3>1 DEF Inv, SliceInv
  <2>5. \A q \in Requests : held'[q] # Absent =>
          \A i \in 1..held'[q].len : heap'[held'[q].array][i] \in Addrs
    BY <1>1, <1>9 DEF Inv, SliceInv
  <2>6. \A n \in Names : apps'[n] # Absent =>
          \A i, j \in 1..apps'[n].len :
             heap'[apps'[n].array][i] = heap'[apps'[n].array][j] => i = j
    <3>1. \A i, j \in 1..(s.len + 1) : heap'[s.array][i] = heap'[s.array][j] => i = j
      BY <1>1, <1>3, <1>10, MaxLenAssumption
    <3>2. QED
      BY <1>3, <1>4, <1>6, <3>1 DEF Inv, SliceInv
  <2>7. QED
    BY <2>1, <2>2, <2>3, <2>4, <2>5, <2>6 DEF SliceInv
<1>12. AbsHeld' = AbsHeld
  <2>1. ASSUME NEW q \in Requests
        PROVE  Contents(held[q])' = Contents(held[q])
    BY <1>1, <1>9 DEF Contents
  <2>2. QED
    BY <2>1 DEF AbsHeld
<1>13. Contents(apps[name])' = Append(old, addr)
  <2>1. Contents(apps[name])' = [i \in 1..(s.len + 1) |-> heap'[s.array][i]]
    BY <1>4 DEF Contents
  <2>2. old = [i \in 1..s.len |-> heap[s.array][i]]
    BY <1>1 DEF Contents
  <2>3. old \in Seq(Addrs) /\ Len(old) = s.len
    BY <1>1, <1>10, <2>2, MaxLenAssumption
  <2>4. \A i \in 1..s.len : old[i] = heap'[s.array][i]
    BY <1>10, <2>2
  <2> HIDE DEF old
  <2>5. Append(old, addr) = [i \in 1..(s.len + 1) |-> IF i <= s.len THEN old[i] ELSE addr]
    <3> DEFINE new == Append(old, addr)
    <3>1. /\ new \in Seq(Addrs) /\ Len(new) = s.len + 1 /\ new[s.len + 1] = addr
          /\ \A i \in 1..s.len : new[i] = old[i]
      BY <2>3, AppendProperties
    <3> HIDE DEF new
    <3>2. new = [i \in 1..(s.len + 1) |-> new[i]]
      BY <3>1
    <3>3. \A i \in 1..(s.len + 1) : new[i] = IF i <= s.len THEN old[i] ELSE addr
      BY <1>1, <3>1, MaxLenAssumption
    <3>4. QED
      BY <3>2, <3>3 DEF new
  <2>6. \A i \in 1..(s.len + 1) : (IF i <= s.len THEN old[i] ELSE addr) = heap'[s.array][i]
    BY <1>1, <1>3, <2>4, MaxLenAssumption
  <2>7. QED
    BY <2>1, <2>5, <2>6
<1>14. AbsApps' = [AbsApps EXCEPT ![name] = Append(@, addr)]
  <2>1. \A n \in Names : n # name => Contents(apps[n])' = Contents(apps[n])
    BY <1>3, <1>4, <1>6 DEF Contents
  <2>2. AbsApps[name] = old
    BY DEF AbsApps, s
  <2> HIDE DEF old
  <2>3. QED
    BY <1>13, <2>1, <2>2 DEF AbsApps
<1>15. ~Table!Listed(AbsApps, name, addr) /\ AbsApps[name] # Absent
  BY ListedAgrees, AbsentAgrees DEF RegisterInPlace
<1>16. Len(AbsApps[name]) < MaxLen
  <2>1. Len(AbsApps[name]) = s.len
    BY <1>1, ContentsFacts DEF AbsApps, s
  <2>2. QED
    BY <1>1, <2>1, MaxLenAssumption
<1>17. Table!register(AbsApps, name, addr) = AbsApps'
  BY <1>14, <1>15 DEF Table!register
<1>18. QED
  BY <1>1, <1>5, <1>11, <1>12, <1>16, <1>17 DEF Inv, Table!Register, AbsApps, AbsHeld

-----------------------------------------------------------------------------

LEMMA InitInv == Init => Inv /\ Table!Init
<1> SUFFICES ASSUME Init PROVE Inv /\ Table!Init
  OBVIOUS
<1>1. Inv
  BY MaxLenAssumption DEF Init, Inv, TypeOK, SliceInv
<1>2. Table!Init
  BY DEF Init, Table!Init, Table!EmptyTable, Contents
<1>3. QED
  BY <1>1, <1>2

LEMMA StepInv == Inv /\ [Next]_vars => Inv' /\ [Table!Next]_(Table!vars)
<1> SUFFICES ASSUME Inv, [Next]_vars PROVE Inv' /\ [Table!Next]_(Table!vars)
  OBVIOUS
<1>1. ASSUME NEW n \in Names, NEW a \in Addrs,
             RegisterNew(n, a) \/ RegisterInPlace(n, a) \/ RegisterGrow(n, a)
      PROVE  Inv' /\ Table!Register(n, a)
  BY <1>1, RegisterNewStep, RegisterInPlaceStep, RegisterGrowStep
<1>2. ASSUME NEW n \in Names, NEW a \in Addrs, UnregisterLast(n, a) \/ UnregisterCopy(n, a)
      PROVE  Inv' /\ Table!Unregister(n, a)
  BY <1>2, UnregisterLastStep, UnregisterCopyStep
<1>3. ASSUME NEW r \in Requests, NEW n \in Names, GetMicroAPPs(r, n)
      PROVE  Inv' /\ Table!GetMicroAPPs(r, n)
  BY <1>3, GetStep
<1>4. ASSUME NEW r \in Requests, NEW i \in 1..MaxLen, Pick(r, i)
      PROVE  Inv' /\ Table!Pick(r, i)
  BY <1>4, PickStep
<1>5. CASE UNCHANGED vars
  <2>1. heap' = heap /\ apps' = apps /\ held' = held /\ sent' = sent
    BY <1>5 DEF vars
  <2>2. Inv'
    BY <2>1 DEF Inv, TypeOK, SliceInv
  <2>3. UNCHANGED Table!vars
    BY <2>1 DEF Table!vars, Contents
  <2>4. QED
    BY <2>2, <2>3
<1>6. QED
  BY <1>1, <1>2, <1>3, <1>4, <1>5 DEF Next, Table!Next

(***************************************************************************)
(* Whatever the numbers of names, addresses, concurrent requests and       *)
(* arrays, the slices of backend.go stay well formed.                      *)
(***************************************************************************)
THEOREM SlicesSafe == Spec => [](TypeOK /\ SliceInv)
<1>1. Spec => []Inv
  BY InitInv, StepInv, PTL DEF Spec
<1>2. QED
  BY <1>1, PTL DEF Inv

(***************************************************************************)
(* And backend.go keeps its promise: every behaviour of the slices is one  *)
(* of the table of values, so a request never sees a list change under it. *)
(***************************************************************************)
THEOREM SlicesImplementTable == Spec => ImplementsTable
<1>1. Spec => []Inv
  BY InitInv, StepInv, PTL DEF Spec
<1>2. QED
  BY <1>1, InitInv, StepInv, PTL DEF Spec, ImplementsTable, Table!Spec

(***************************************************************************)
(* Every list in the table or held by a request is a slice of an array,    *)
(* not empty and within the array, however register, unregister and        *)
(* requests interleave.                                                    *)
(***************************************************************************)
THEOREM SlicesTyped == Spec => []TypeOK
BY SlicesSafe, PTL

=============================================================================
