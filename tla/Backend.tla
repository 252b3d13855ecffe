------------------------------ MODULE Backend -------------------------------
(***************************************************************************)
(* What backendService promises its callers: register and unregister are   *)
(* atomic changes of the table, and the list getMicroAPPs returns is a     *)
(* value, which stays what it was while the request that got it goes on    *)
(* without the lock and the table changes.  BackendSlices implements this  *)
(* with Go's slices, where the list is a reference to a shared array.      *)
(***************************************************************************)
EXTENDS AppTable

CONSTANTS Requests,   \* requests the gateway serves concurrently
          MaxLen      \* bound on the length of a list

VARIABLES apps,       \* backendService.apps
          held,       \* what each request got from getMicroAPPs, or Absent
          sent        \* the address each request was last forwarded to, or Absent

vars == <<apps, held, sent>>

TypeOK ==
    /\ apps \in Tables
    /\ held \in [Requests -> Seq(Addrs) \cup {Absent}]
    /\ sent \in [Requests -> Addrs \cup {Absent}]

Init ==
    /\ apps = EmptyTable
    /\ held = [r \in Requests |-> Absent]
    /\ sent = [r \in Requests |-> Absent]

Register(name, addr) ==
    /\ apps[name] # Absent => Len(apps[name]) < MaxLen
    /\ apps' = register(apps, name, addr)
    /\ UNCHANGED <<held, sent>>

Unregister(name, addr) ==
    /\ apps' = unregister(apps, name, addr)
    /\ UNCHANGED <<held, sent>>

\* buildRequest takes the list; without one the request ends in an error.
GetMicroAPPs(r, name) ==
    /\ held[r] = Absent
    /\ held' = [held EXCEPT ![r] = apps[name]]
    /\ UNCHANGED <<apps, sent>>

\* buildRequest picks an element of the list it holds, whatever became of apps.
Pick(r, i) ==
    /\ held[r] # Absent
    /\ i \in 1..Len(held[r])
    /\ sent' = [sent EXCEPT ![r] = held[r][i]]
    /\ held' = [held EXCEPT ![r] = Absent]
    /\ UNCHANGED apps

Next ==
    \/ \E n \in Names, a \in Addrs : Register(n, a) \/ Unregister(n, a)
    \/ \E r \in Requests, n \in Names : GetMicroAPPs(r, n)
    \/ \E r \in Requests, i \in 1..MaxLen : Pick(r, i)

Spec == Init /\ [][Next]_vars

=============================================================================
