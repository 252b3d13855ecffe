--------------------------- MODULE MCBackendSlices ---------------------------
(* BackendSlices on a small heap: enough arrays for every name and request *)
(* to hold a different one and a spare, so that no allocation is blocked.  *)
EXTENDS BackendSlices, TLC

Symmetry == Permutations(Arrays) \cup Permutations(Requests) \cup Permutations(Addrs)
=============================================================================
