---------------------------- MODULE MCInterfaces ----------------------------
EXTENDS Interfaces, TLC

CONSTANTS r1, r2, p1, f1, a1

\* The second version has lost the field of the first.
MCDoc == <<{f1}, {}>>
\* The first is published by its report, the second is not.
MCBodies == {<<1, 1>>, <<2, 0>>}
MCSymmetry == Permutations(Reports)
=============================================================================
