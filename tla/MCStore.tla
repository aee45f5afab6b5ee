------------------------------ MODULE MCStore ------------------------------
EXTENDS Store

CONSTANTS a, b, c, i   \* model values

\* The names a, b and b/c and the ids i and c/i: an instance c/i of b and an
\* instance i of b/c have the same key.
Names == {<<a>>, <<b>>, <<b, c>>}
Ids   == {<<i>>, <<c, i>>}
=============================================================================
