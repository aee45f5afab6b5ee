----------------------------- MODULE MCAffinity -----------------------------
EXTENDS Affinity, TLC

CONSTANTS i1, i2, q1   \* model values

Symmetry == Permutations({i1, i2})
=============================================================================
