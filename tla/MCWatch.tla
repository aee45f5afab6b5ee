------------------------------ MODULE MCWatch ------------------------------
(* Six sockets: the retry delay reaches its upper end and stays there.     *)
EXTENDS Watch
=============================================================================
