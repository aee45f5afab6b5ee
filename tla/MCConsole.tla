----------------------------- MODULE MCConsole -----------------------------
(* The console model-checked on a small instance. *)
EXTENDS Console
MCReported == {[service |-> "a", version |-> "v", up |-> TRUE, blocked |-> FALSE],
               [service |-> "b", version |-> "", up |-> TRUE, blocked |-> TRUE]}
MCDetails == {{"instance", "config"}}
=============================================================================
