----------------------------- MODULE MCManager ------------------------------
(***************************************************************************)
(* Manager for TLC.                                                        *)
(***************************************************************************)
EXTENDS Manager, TLC

Symmetry == Permutations(Clients) \cup Permutations(Names)

=============================================================================
