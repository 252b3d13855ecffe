--------------------------- MODULE BackendSlices ----------------------------
(***************************************************************************)
(* backendService as repeater/backend.go keeps it in memory: a list is a   *)
(* Go slice, a header with the address of an array, a length and a         *)
(* capacity.  register appends, in place when the capacity allows it;      *)
(* unregister builds a new array; getMicroAPPs returns the header and      *)
(* drops the read lock, so the request reads an array that register may    *)
(* be writing.  An array nobody refers to is garbage and may be reused.    *)
(***************************************************************************)
EXTENDS AppTable

CONSTANTS Requests,   \* requests the gateway serves concurrently
          Arrays,     \* addresses of the arrays of the Go heap
          MaxLen      \* bound on the length and the capacity of a slice

ASSUME MaxLenAssumption == MaxLen \in Nat \ {0}
ASSUME ArraysAssumption == Absent \notin [array : Arrays, len : 1..MaxLen, cap : 1..MaxLen]

VARIABLES heap,       \* the elements of every array
          apps,       \* backendService.apps: a slice header or Absent for a name
          held,       \* the header each request got from getMicroAPPs, or Absent
          sent        \* the address each request was last forwarded to, or Absent

vars == <<heap, apps, held, sent>>

Slices == [array : Arrays, len : 1..MaxLen, cap : 1..MaxLen]

TypeOK ==
    /\ heap \in [Arrays -> [1..MaxLen -> Addrs \cup {Absent}]]
    /\ apps \in [Names -> Slices \cup {Absent}]
    /\ held \in [Requests -> Slices \cup {Absent}]
    /\ sent \in [Requests -> Addrs \cup {Absent}]

\* The list a header stands for.
Contents(s) == IF s = Absent THEN Absent ELSE [i \in 1..s.len |-> heap[s.array][i]]

Fresh(a) ==
    /\ \A n \in Names : apps[n] # Absent => apps[n].array # a
    /\ \A r \in Requests : held[r] # Absent => held[r].array # a

\* A new array that holds the given list, and the header for it.
Store(name, list, cap) ==
    \E a \in Arrays :
        /\ Fresh(a)
        /\ heap' = [heap EXCEPT ![a] = [i \in 1..MaxLen |->
                                            IF i <= Len(list) THEN list[i] ELSE Absent]]
        /\ apps' = [apps EXCEPT ![name] = [array |-> a, len |-> Len(list), cap |-> cap]]

InSlice(name, addr) ==
    apps[name] # Absent /\ \E i \in 1..apps[name].len : Contents(apps[name])[i] = addr

Init ==
    /\ heap = [a \in Arrays |-> [i \in 1..MaxLen |-> Absent]]
    /\ apps = [n \in Names |-> Absent]
    /\ held = [r \in Requests |-> Absent]
    /\ sent = [r \in Requests |-> Absent]

\* register of a new name: a slice literal of one element.
RegisterNew(name, addr) ==
    /\ apps[name] = Absent
    /\ Store(name, <<addr>>, 1)
    /\ UNCHANGED <<held, sent>>

\* append when the array has room: the element is written behind the last one.
RegisterInPlace(name, addr) ==
    /\ apps[name] # Absent
    /\ ~InSlice(name, addr)
    /\ apps[name].len < apps[name].cap
    /\ heap' = [heap EXCEPT ![apps[name].array][apps[name].len + 1] = addr]
    /\ apps' = [apps EXCEPT ![name].len = @ + 1]
    /\ UNCHANGED <<held, sent>>

\* Mutant: the larger array starts empty, the old elements are not copied.
RegisterGrowForgets(name, addr) ==
    /\ apps[name] # Absent
    /\ ~InSlice(name, addr)
    /\ apps[name].len = apps[name].cap
    /\ \E cap \in (apps[name].len + 1)..MaxLen : Store(name, <<addr>>, cap)
    /\ UNCHANGED <<held, sent>>

\* append when it has not: the list moves to an array of a larger capacity.
RegisterGrow(name, addr) ==
    /\ apps[name] # Absent
    /\ ~InSlice(name, addr)
    /\ apps[name].len = apps[name].cap
    /\ \E cap \in (apps[name].len + 1)..MaxLen :
           Store(name, Append(Contents(apps[name]), addr), cap)
    /\ UNCHANGED <<held, sent>>

\* Mutant: the name stays in the map, with an empty list.
UnregisterLastKeepsName(name, addr) ==
    /\ InSlice(name, addr)
    /\ apps[name].len = 1
    /\ apps' = [apps EXCEPT ![name].len = 0]
    /\ UNCHANGED <<heap, held, sent>>

UnregisterLast(name, addr) ==
    /\ InSlice(name, addr)
    /\ apps[name].len = 1
    /\ apps' = [apps EXCEPT ![name] = Absent]
    /\ UNCHANGED <<heap, held, sent>>

\* Mutant: append(apps[:i], apps[i+1:]...), which shifts the rest in place.
UnregisterInPlace(name, addr) ==
    /\ InSlice(name, addr)
    /\ apps[name].len > 1
    /\ LET list == Contents(apps[name])
           rest == Without(list, FirstMatch(list, addr)) IN
       heap' = [heap EXCEPT ![apps[name].array] =
                   [i \in 1..MaxLen |-> IF i <= Len(rest) THEN rest[i] ELSE @[i]]]
    /\ apps' = [apps EXCEPT ![name].len = @ - 1]
    /\ UNCHANGED <<held, sent>>

\* unregister copies the rest; append chooses the capacity of the copy.
UnregisterCopy(name, addr) ==
    /\ InSlice(name, addr)
    /\ apps[name].len > 1
    /\ LET list == Contents(apps[name]) IN
       \E cap \in (Len(list) - 1)..MaxLen :
           Store(name, Without(list, FirstMatch(list, addr)), cap)
    /\ UNCHANGED <<held, sent>>

GetMicroAPPs(r, name) ==
    /\ held[r] = Absent
    /\ apps[name] # Absent
    /\ held' = [held EXCEPT ![r] = apps[name]]
    /\ UNCHANGED <<heap, apps, sent>>

\* buildRequest reads the element from the array as it is now.
Pick(r, i) ==
    /\ held[r] # Absent
    /\ i \in 1..held[r].len
    /\ sent' = [sent EXCEPT ![r] = heap[held[r].array][i]]
    /\ held' = [held EXCEPT ![r] = Absent]
    /\ UNCHANGED <<heap, apps>>

Next ==
    \/ \E n \in Names, a \in Addrs :
          \/ RegisterNew(n, a)
          \/ RegisterInPlace(n, a)
          \/ RegisterGrow(n, a)
          \/ UnregisterLast(n, a)
          \/ UnregisterCopy(n, a)
    \/ \E r \in Requests, n \in Names : GetMicroAPPs(r, n)
    \/ \E r \in Requests, i \in 1..MaxLen : Pick(r, i)

Spec == Init /\ [][Next]_vars

-----------------------------------------------------------------------------

(***************************************************************************)
(* Two names never share an array, and the length of a header a request    *)
(* holds never exceeds the length of the table's header for the same       *)
(* array.  This is why append may write in place although getMicroAPPs     *)
(* gives the array away.  Headers cover initialised elements only, and no  *)
(* address is twice in a list: the loop of unregister removes one element. *)
(***************************************************************************)
SliceInv ==
    /\ \A n \in Names : apps[n] # Absent => apps[n].len <= apps[n].cap
    /\ \A n, m \in Names :
          (apps[n] # Absent /\ apps[m] # Absent /\ apps[n].array = apps[m].array) => n = m
    /\ \A n \in Names, r \in Requests :
          (apps[n] # Absent /\ held[r] # Absent /\ apps[n].array = held[r].array)
             => held[r].len <= apps[n].len
    /\ \A n \in Names : apps[n] # Absent =>
          \A i \in 1..apps[n].len : heap[apps[n].array][i] \in Addrs
    /\ \A r \in Requests : held[r] # Absent =>
          \A i \in 1..held[r].len : heap[held[r].array][i] \in Addrs
    /\ \A n \in Names : apps[n] # Absent =>
          \A i, j \in 1..apps[n].len :
             heap[apps[n].array][i] = heap[apps[n].array][j] => i = j

(***************************************************************************)
(* The slices implement the table of values: whatever register and         *)
(* unregister do to the arrays, the list a request got from getMicroAPPs   *)
(* stays the list it was and the address it picks is one of it.            *)
(***************************************************************************)
Table == INSTANCE Backend WITH
            apps <- [n \in Names |-> Contents(apps[n])],
            held <- [r \in Requests |-> Contents(held[r])]

ImplementsTable == Table!Spec

=============================================================================
