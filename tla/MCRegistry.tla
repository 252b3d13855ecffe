----------------------------- MODULE MCRegistry -----------------------------
(***************************************************************************)
(* Registry for TLC, without symmetry: liveness is checked.                *)
(***************************************************************************)
EXTENDS Registry

=============================================================================
