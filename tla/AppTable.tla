------------------------------ MODULE AppTable ------------------------------
(***************************************************************************)
(* The repeater's table of backends, backendService.apps in                *)
(* repeater/backend.go: a Go map from a service name to the list of the    *)
(* addresses that serve it.  A name that is not a key of the map is mapped *)
(* to Absent.  Of a meta.MicroAPP only the address is kept: it is all that *)
(* register and unregister compare and all that buildRequest uses.         *)
(***************************************************************************)
EXTENDS Naturals, Sequences

CONSTANTS Names,    \* service names, the part of an etcd key before the address
          Addrs,    \* host and port of a process
          Absent    \* "not a key of the map"

ASSUME AbsentAssumption == Absent \notin Seq(Addrs) /\ Absent \notin Addrs

Tables == [Names -> Seq(Addrs) \cup {Absent}]

EmptyTable == [n \in Names |-> Absent]

Listed(apps, name, addr) ==
    apps[name] # Absent /\ \E i \in 1..Len(apps[name]) : apps[name][i] = addr

\* The list without its i-th element.
Without(s, i) == SubSeq(s, 1, i - 1) \o SubSeq(s, i + 1, Len(s))

\* The index the loop of unregister stops at.
FirstMatch(s, addr) ==
    CHOOSE i \in 1..Len(s) : s[i] = addr /\ \A j \in 1..(i - 1) : s[j] # addr

\* Mutant: an address that is listed is appended again.
registerAgain(apps, name, addr) ==
    IF apps[name] = Absent
    THEN [apps EXCEPT ![name] = <<addr>>]
    ELSE [apps EXCEPT ![name] = Append(@, addr)]

register(apps, name, addr) ==
    IF apps[name] = Absent
    THEN [apps EXCEPT ![name] = <<addr>>]
    ELSE IF Listed(apps, name, addr)
         THEN apps
         ELSE [apps EXCEPT ![name] = Append(@, addr)]

\* Mutant: the name goes with all its addresses.
unregisterName(apps, name, addr) ==
    IF ~Listed(apps, name, addr) THEN apps ELSE [apps EXCEPT ![name] = Absent]

unregister(apps, name, addr) ==
    IF ~Listed(apps, name, addr)
    THEN apps
    ELSE IF Len(apps[name]) = 1
         THEN [apps EXCEPT ![name] = Absent]
         ELSE [apps EXCEPT ![name] = Without(@, FirstMatch(@, addr))]

-----------------------------------------------------------------------------

(***************************************************************************)
(* A name in the table has at least one address: buildRequest computes a   *)
(* remainder modulo the length of the list it gets.                        *)
(***************************************************************************)
NoEmptyList(apps) == \A n \in Names : apps[n] # <<>>

(***************************************************************************)
(* No address is twice in a list: a second copy would survive the one      *)
(* unregister its DELETE event causes.                                     *)
(***************************************************************************)
NoDuplicates(apps) ==
    \A n \in Names : apps[n] # Absent =>
        \A i, j \in 1..Len(apps[n]) : apps[n][i] = apps[n][j] => i = j

=============================================================================
