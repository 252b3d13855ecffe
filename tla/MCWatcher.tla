----------------------------- MODULE MCWatcher ------------------------------
(***************************************************************************)
(* Watcher for TLC: two processes of different versions.  Without          *)
(* symmetry: liveness is checked.                                          *)
(***************************************************************************)
EXTENDS Watcher

CONSTANTS p1, p2

MCProcs == {p1, p2}
MCVersion == [p \in MCProcs |-> IF p = p1 THEN 1 ELSE 2]

=============================================================================
