------------------------------ MODULE MCHealth ------------------------------
EXTENDS Health

CONSTANTS i1, i2   \* model values
=============================================================================
