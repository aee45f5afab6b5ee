--------------------------- MODULE MCConfigStore ---------------------------
EXTENDS ConfigStore, TLC

CONSTANTS n1, n2, v1, v2   \* model values

Symmetry == Permutations({n1, n2}) \union Permutations({v1, v2})
=============================================================================
