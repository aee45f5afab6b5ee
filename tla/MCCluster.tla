----------------------------- MODULE MCCluster -----------------------------
EXTENDS Cluster, TLC

CONSTANTS n1, n2, a, b, i1   \* model values

NamesAB == {<<a>>, <<b>>}
NamesA  == {<<a>>}
Ids     == {<<i1>>}

\* Clients register under the name a only; b is what it is renamed to.
RegistersA == {<<<<a>>, <<i1>>>>}

Symmetry == Permutations({n1, n2})
=============================================================================
