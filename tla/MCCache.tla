------------------------------ MODULE MCCache -------------------------------
(***************************************************************************)
(* Cache for TLC.                                                          *)
(***************************************************************************)
EXTENDS Cache, TLC

Symmetry == Permutations(Keys) \cup Permutations(Threads)

=============================================================================
