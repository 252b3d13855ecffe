---------------------------- MODULE MCDiscovery -----------------------------
(***************************************************************************)
(* Discovery for TLC, without symmetry: liveness is checked.               *)
(***************************************************************************)
EXTENDS Discovery

=============================================================================
