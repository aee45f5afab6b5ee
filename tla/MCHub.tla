------------------------------- MODULE MCHub -------------------------------
EXTENDS Hub

CONSTANTS c1, c2   \* model values
=============================================================================
