--------------------------- MODULE MCServicePage ---------------------------
(* The page of service a, which may be renamed to b; one instance that is   *)
(* there and one that may come; the user and one other.                     *)
EXTENDS ServicePage
=============================================================================
