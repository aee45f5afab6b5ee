---------------------------- MODULE Subscription ----------------------------
(***************************************************************************)
(* What a page of the web UI may rely on when it calls watch(onEvent): the *)
(* events of the server reach onEvent in the order in which they happened, *)
(* each at most once, and none after the page has stopped watching.  Any   *)
(* of them may be missed: there is no replay.                              *)
(***************************************************************************)
EXTENDS Integers

VARIABLES emitted,  \* events of the server so far; an event is its number
          seen,     \* the latest event handed to onEvent
          active    \* FALSE once the page has stopped watching

vars == <<emitted, seen, active>>

Init == emitted = 0 /\ seen = 0 /\ active = TRUE

Emit == emitted' = emitted + 1 /\ UNCHANGED <<seen, active>>

Handle == /\ active
          /\ seen' \in (seen + 1)..emitted
          /\ UNCHANGED <<emitted, active>>

Stop == active' = FALSE /\ UNCHANGED <<emitted, seen>>

Next == Emit \/ Handle \/ Stop

Spec == Init /\ [][Next]_vars
=============================================================================
