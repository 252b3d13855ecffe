----------------------------- MODULE MCDBCache ------------------------------
(***************************************************************************)
(* DBCache for TLC, without symmetry: liveness is checked.                 *)
(***************************************************************************)
EXTENDS DBCache

=============================================================================
