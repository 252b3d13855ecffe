----------------------------- MODULE MCGateway ------------------------------
(***************************************************************************)
(* Gateway for TLC, without symmetry: liveness is checked.                 *)
(***************************************************************************)
EXTENDS Gateway

CONSTANTS r1, r2, r3, e1

MCRequests == {r1, r2, r3}
MCEntries == {e1}
MCEntryOf == [r \in MCRequests |-> IF r = r3 THEN NoEntry ELSE e1]

=============================================================================
