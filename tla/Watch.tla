------------------------------- MODULE Watch -------------------------------
(***************************************************************************)
(* watch(onEvent) of ui/web/src/lib/api.ts: the UI's end of GET /v1/watch. *)
(* One call owns a sequence of WebSockets; when one closes, a timer opens  *)
(* the next after a delay that doubles from 500 ms up to 8 s and falls     *)
(* back when a connection opens.  The returned function stops it all, and  *)
(* may be called while a socket is open, is still connecting or closing,   *)
(* or while only the timer is pending.                                     *)
(*                                                                         *)
(* The browser and the server are modelled from how the code uses them: a  *)
(* socket is joined to the server's hub before the page hears that it is   *)
(* open, gets the events emitted from then on unless the server drops      *)
(* them, delivers messages only while it is open, and fires one close      *)
(* event, after an error event if the connection failed.                   *)
(***************************************************************************)
EXTENDS Integers, Sequences

CONSTANTS MaxEvents,  \* bound on the events the server emits
          MaxSockets  \* bound on the sockets one call opens

ASSUME WatchAssumption == MaxEvents \in Nat /\ MaxSockets \in Nat \ {0}

Socket == 1..MaxSockets

MinDelay == 500
MaxDelay == 8000

VARIABLES emitted,  \* events of the server so far; an event is its number
          closed,   \* the flag that stop sets
          backoff,  \* delay of the next retry
          timers,   \* pending calls of connect
          ws,       \* the latest socket; they are numbered in order
          state,    \* per socket: none, connecting, accepted (by the server,
                    \* not yet open here), open, closing or closed
          queue,    \* per socket: events sent and not yet delivered
          seen      \* the latest event handed to onEvent

vars == <<emitted, closed, backoff, timers, ws, state, queue, seen>>

SocketState == {"none", "connecting", "accepted", "open", "closing", "closed"}

TypeOK == /\ emitted \in 0..MaxEvents
          /\ closed \in BOOLEAN
          /\ backoff \in {500, 1000, 2000, 4000, 8000}
          /\ timers \in Nat
          /\ ws \in Socket
          /\ state \in [Socket -> SocketState]
          /\ queue \in [Socket -> Seq(1..MaxEvents)]
          /\ seen \in 0..MaxEvents

\* The call of watch ends with a first connect().
Init == /\ emitted = 0
        /\ closed = FALSE
        /\ backoff = MinDelay
        /\ timers = 0
        /\ ws = 1
        /\ state = [s \in Socket |-> IF s = 1 THEN "connecting" ELSE "none"]
        /\ queue = [s \in Socket |-> <<>>]
        /\ seen = 0

Joined(s) == state[s] \in {"accepted", "open"}
Alive(s) == state[s] \in {"connecting", "accepted", "open"}
Busy(s) == Alive(s) \/ state[s] = "closing"

-----------------------------------------------------------------------------
(* The server and the connection.                                          *)

\* An event reaches every client of the hub, or, dropped before it, none.
Emit(kept) ==
    /\ emitted < MaxEvents
    /\ emitted' = emitted + 1
    /\ queue' = [s \in Socket |-> IF kept /\ Joined(s) THEN Append(queue[s], emitted + 1)
                                                       ELSE queue[s]]
    /\ UNCHANGED <<closed, backoff, timers, ws, state, seen>>

Accept(s) ==
    /\ state[s] = "connecting"
    /\ state' = [state EXCEPT ![s] = "accepted"]
    /\ UNCHANGED <<emitted, closed, backoff, timers, ws, queue, seen>>

\* close() of a socket, or the close frame of the server: what is still on
\* its way is not delivered any more.
Closing(S) == /\ state' = [s \in Socket |-> IF s \in S /\ Alive(s) THEN "closing" ELSE state[s]]
              /\ queue' = [s \in Socket |-> IF s \in S THEN <<>> ELSE queue[s]]

Disconnect(s) ==
    /\ Alive(s)
    /\ Closing({s})
    /\ UNCHANGED <<emitted, closed, backoff, timers, ws, seen>>

-----------------------------------------------------------------------------
(* The closures of watch.                                                  *)

\* Mutant of connect: it does not look whether the call was stopped.
ConnectAnyway ==
    /\ ws < MaxSockets
    /\ ws' = ws + 1
    /\ state' = [state EXCEPT ![ws + 1] = "connecting"]

connect ==
    IF closed THEN UNCHANGED <<ws, state>>
    ELSE /\ ws < MaxSockets
         /\ ws' = ws + 1
         /\ state' = [state EXCEPT ![ws + 1] = "connecting"]

onopen(s) ==
    /\ state[s] = "accepted"
    /\ state' = [state EXCEPT ![s] = "open"]
    /\ backoff' = MinDelay
    /\ UNCHANGED <<emitted, closed, timers, ws, queue, seen>>

onmessage(s) ==
    /\ state[s] = "open"
    /\ queue[s] # <<>>
    /\ seen' = Head(queue[s])
    /\ queue' = [queue EXCEPT ![s] = Tail(@)]
    /\ UNCHANGED <<emitted, closed, backoff, timers, ws, state>>

\* Mutant of onerror: it asks for the next connection itself.
RetryOnError(s) ==
    /\ Alive(s)
    /\ Closing({s, ws})
    /\ timers' = timers + 1
    /\ UNCHANGED <<emitted, closed, backoff, ws, seen>>

\* The connection of s failed; ws?.close() closes the latest socket.
onerror(s) ==
    /\ Alive(s)
    /\ Closing({s, ws})
    /\ UNCHANGED <<emitted, closed, backoff, timers, ws, seen>>

\* Mutant of onclose: only a connection that once opened is retried.
RetryUnlessRefused(s) ==
    /\ state[s] = "closing"
    /\ state' = [state EXCEPT ![s] = "closed"]
    /\ IF closed \/ backoff > MinDelay THEN UNCHANGED <<timers, backoff>>
       ELSE /\ timers' = timers + 1
            /\ backoff' = IF 2 * backoff < MaxDelay THEN 2 * backoff ELSE MaxDelay
    /\ UNCHANGED <<emitted, closed, ws, queue, seen>>

\* Mutant of onclose: the delay has no upper end.
DelayWithoutEnd(s) ==
    /\ state[s] = "closing"
    /\ state' = [state EXCEPT ![s] = "closed"]
    /\ IF closed THEN UNCHANGED <<timers, backoff>>
       ELSE timers' = timers + 1 /\ backoff' = 2 * backoff
    /\ UNCHANGED <<emitted, closed, ws, queue, seen>>

onclose(s) ==
    /\ state[s] = "closing"
    /\ state' = [state EXCEPT ![s] = "closed"]
    /\ IF closed THEN UNCHANGED <<timers, backoff>>
       ELSE /\ timers' = timers + 1
            /\ backoff' = IF 2 * backoff < MaxDelay THEN 2 * backoff ELSE MaxDelay
    /\ UNCHANGED <<emitted, closed, ws, queue, seen>>

Timer ==
    /\ timers > 0
    /\ timers' = timers - 1
    /\ connect
    /\ UNCHANGED <<emitted, closed, backoff, queue, seen>>

\* The function that watch returns; a page calls it once, when it unmounts.
stop ==
    /\ ~closed
    /\ closed' = TRUE
    /\ Closing({ws})
    /\ UNCHANGED <<emitted, backoff, timers, ws, seen>>

Next == \/ \E kept \in BOOLEAN : Emit(kept)
        \/ \E s \in Socket : \/ Accept(s) \/ Disconnect(s)
                             \/ onopen(s) \/ onmessage(s) \/ onerror(s) \/ onclose(s)
        \/ Timer
        \/ stop

\* The browser fires the close event of a socket and the timers it was given.
Fairness == WF_vars(Timer) /\ \A s \in Socket : WF_vars(onclose(s))

Spec == Init /\ [][Next]_vars /\ Fairness

-----------------------------------------------------------------------------
(* Properties.                                                             *)

\* While the page watches, there is exactly one socket that has not finished
\* closing or one pending retry, and never both: a failure that fires error
\* and close, or a socket that closes while connecting, does not split the
\* subscription in two.
OneConnection ==
    /\ timers \in {0, 1}
    /\ \A s, t \in Socket : Busy(s) /\ Busy(t) => s = t
    /\ timers = 1 => \A s \in Socket : ~Busy(s)
    /\ ~closed => timers = 1 \/ \E s \in Socket : Busy(s)

Sub == INSTANCE Subscription WITH active <- ~closed

\* Whatever the connection does, onEvent sees what Subscription promises: the
\* events in order, each at most once, none after stop.
Subscribes == Sub!Spec

\* A connection that is lost or refused is followed by another one, however
\* often that happens, unless the page stops watching.
KeepsTrying == \A s \in 1..(MaxSockets - 1) :
                   state[s] = "closing" ~> (closed \/ ws > s)
=============================================================================
