---------------------------- MODULE BrowserProofs ---------------------------
(***************************************************************************)
(* What runs in the browser: the watch client, the session of the UI and   *)
(* what the dashboard counts.                                              *)
(*                                                                         *)
(* The WebSocket client of the web UI implements Subscription, for any     *)
(* number of events and sockets.  The refinement rests on OneConnection:   *)
(* because there is never a second socket, the events waiting in the one   *)
(* there is all happened after the latest event handed to the page.        *)
(*                                                                         *)
(* In the host's iframe the UI keeps its token, whatever the order of the  *)
(* handshake, the answers and the user's clicks.                           *)
(*                                                                         *)
(* The dashboard's cards add up.  aggregate is a fold, and so are the sums *)
(* the property compares it with: FoldsAgree is the induction they need,   *)
(* over the subsets of one finite set, and it needs no operator.           *)
(***************************************************************************)
EXTENDS Watch, Console, SequenceTheorems, FiniteSetTheorems, TLAPS

(* The state stays well-typed; in particular the delay doubles from 500 ms *)
(* to 8 s and no further.                                                  *)
THEOREM TypeCorrect == Spec => []TypeOK
<1>1. Init => TypeOK
  <2> SUFFICES ASSUME Init PROVE TypeOK
    OBVIOUS
  <2> USE WatchAssumption DEF Init, Socket, SocketState
  <2>1. queue \in [Socket -> Seq(1..MaxEvents)]
    OBVIOUS
  <2>2. state \in [Socket -> SocketState]
    OBVIOUS
  <2>3. ws \in Socket /\ emitted \in 0..MaxEvents /\ seen \in 0..MaxEvents
    OBVIOUS
  <2>4. closed \in BOOLEAN /\ timers \in Nat
    OBVIOUS
  <2>5. backoff \in {500, 1000, 2000, 4000, 8000}
    BY DEF MinDelay
  <2> HIDE DEF Init, Socket, SocketState
  <2> QED
    BY <2>1, <2>2, <2>3, <2>4, <2>5 DEF TypeOK
<1>2. TypeOK /\ [Next]_vars => TypeOK'
  <2> SUFFICES ASSUME TypeOK, [Next]_vars PROVE TypeOK'
    OBVIOUS
  <2> USE WatchAssumption
  <2> DEFINE Ev == 1..MaxEvents
  <2>1. ASSUME NEW kept \in BOOLEAN, Emit(kept) PROVE TypeOK'
    <3>1. emitted + 1 \in Ev /\ emitted + 1 \in 0..MaxEvents
      BY <2>1 DEF Emit, TypeOK
    <3>2. ASSUME NEW s \in Socket PROVE Append(queue[s], emitted + 1) \in Seq(Ev)
      <4>1. queue[s] \in Seq(Ev)
        BY DEF TypeOK
      <4> HIDE DEF Ev
      <4> QED
        BY <3>1, <4>1
    <3>3. queue' \in [Socket -> Seq(Ev)]
      <4>1. \A s \in Socket : queue[s] \in Seq(Ev)
        BY DEF TypeOK
      <4> HIDE DEF Ev
      <4> QED
        BY <2>1, <3>2, <4>1 DEF Emit
    <3> QED
      BY <2>1, <3>1, <3>3 DEF Emit, TypeOK
  <2>2. ASSUME NEW S \in SUBSET Socket, Closing(S)
        PROVE  /\ state' \in [Socket -> SocketState]
               /\ queue' \in [Socket -> Seq(Ev)]
    <3>1. state' \in [Socket -> SocketState]
      BY <2>2 DEF Closing, TypeOK, SocketState
    <3>2. \A s \in Socket : queue[s] \in Seq(Ev)
      BY DEF TypeOK
    <3>3. queue' \in [Socket -> Seq(Ev)]
      <4> HIDE DEF Ev
      <4>1. <<>> \in Seq(Ev)
        OBVIOUS
      <4> QED
        BY <2>2, <3>2, <4>1 DEF Closing
    <3> QED
      BY <3>1, <3>3
  <2>3. ASSUME NEW s \in Socket, Accept(s) \/ onopen(s) PROVE TypeOK'
    <3>1. state' \in [Socket -> SocketState]
      <4>1. CASE Accept(s)
        BY <4>1 DEF Accept, TypeOK, SocketState
      <4>2. CASE onopen(s)
        BY <4>2 DEF onopen, TypeOK, SocketState
      <4> QED
        BY <2>3, <4>1, <4>2
    <3>2. backoff' \in {500, 1000, 2000, 4000, 8000}
      BY <2>3 DEF Accept, onopen, TypeOK, MinDelay
    <3> QED
      BY <2>3, <3>1, <3>2 DEF Accept, onopen, TypeOK
  <2>4. ASSUME NEW s \in Socket, Disconnect(s) \/ onerror(s) \/ stop PROVE TypeOK'
    <3>1. {s} \in SUBSET Socket /\ {s, ws} \in SUBSET Socket /\ {ws} \in SUBSET Socket
      BY DEF TypeOK
    <3>2. state' \in [Socket -> SocketState] /\ queue' \in [Socket -> Seq(Ev)]
      BY <2>2, <2>4, <3>1 DEF Disconnect, onerror, stop
    <3>3. closed' \in BOOLEAN
      <4>1. CASE stop
        BY <4>1 DEF stop
      <4>2. CASE Disconnect(s) \/ onerror(s)
        <5>1. closed' = closed
          BY <4>2 DEF Disconnect, onerror
        <5> QED
          BY <5>1 DEF TypeOK
      <4> QED
        BY <2>4, <4>1, <4>2
    <3>4. UNCHANGED <<emitted, backoff, timers, ws, seen>>
      BY <2>4 DEF Disconnect, onerror, stop
    <3> QED
      BY <3>2, <3>3, <3>4 DEF TypeOK
  <2>5. ASSUME NEW s \in Socket, onmessage(s) PROVE TypeOK'
    <3>1. queue[s] \in Seq(Ev) /\ queue[s] # <<>>
      BY <2>5 DEF onmessage, TypeOK
    <3>2. Head(queue[s]) \in Ev /\ Tail(queue[s]) \in Seq(Ev)
      <4> HIDE DEF Ev
      <4> QED
        BY <3>1
    <3>3. queue' \in [Socket -> Seq(Ev)] /\ seen' \in 0..MaxEvents
      BY <2>5, <3>2 DEF onmessage, TypeOK
    <3> QED
      BY <2>5, <3>3 DEF onmessage, TypeOK
  <2>6. ASSUME NEW s \in Socket, onclose(s) PROVE TypeOK'
    <3>1. state' \in [Socket -> SocketState]
      BY <2>6 DEF onclose, TypeOK, SocketState
    <3>2. timers' \in Nat /\ backoff' \in {500, 1000, 2000, 4000, 8000}
      BY <2>6 DEF onclose, TypeOK, MaxDelay
    <3> QED
      BY <2>6, <3>1, <3>2 DEF onclose, TypeOK
  <2>7. ASSUME Timer PROVE TypeOK'
    <3>1. ws' \in Socket /\ state' \in [Socket -> SocketState]
      <4>1. CASE closed
        BY <2>7, <4>1 DEF Timer, connect, TypeOK
      <4>2. CASE ~closed
        <5>1. ws + 1 \in Socket
          BY <2>7, <4>2 DEF Timer, connect, TypeOK, Socket
        <5>2. ws' = ws + 1 /\ state' = [state EXCEPT ![ws + 1] = "connecting"]
          BY <2>7, <4>2 DEF Timer, connect
        <5> QED
          BY <5>1, <5>2 DEF TypeOK, SocketState
      <4> QED
        BY <4>1, <4>2
    <3>2. timers' \in Nat
      BY <2>7 DEF Timer, TypeOK
    <3> QED
      BY <2>7, <3>1, <3>2 DEF Timer, TypeOK
  <2>8. CASE UNCHANGED vars
    BY <2>8 DEF vars, TypeOK
  <2>9. 1 \in Socket
    BY DEF Socket
  <2> QED
    BY <2>1, <2>3, <2>4, <2>5, <2>6, <2>7, <2>8, <2>9 DEF Next
<1> QED
  BY <1>1, <1>2, PTL DEF Spec

\* Only the latest socket is in use, so that stop leaves none alive.
Conn == /\ OneConnection
        /\ \A s \in Socket : Busy(s) => s = ws
        /\ closed => \A s \in Socket : ~Alive(s)

(* One socket or one pending retry: what makes it inductive is that a new  *)
(* socket is created only by the timer, which is pending only while no     *)
(* socket is.                                                              *)
LEMMA ConnStep ==
    ASSUME TypeOK, TypeOK', Conn, [Next]_vars PROVE Conn'
<1> USE DEF Busy, Alive
<1>1. ASSUME UNCHANGED <<closed, timers, ws>>,
             \A s \in Socket : Busy(s)' <=> Busy(s),
             \A s \in Socket : Alive(s)' => Alive(s)
      PROVE  Conn'
  BY <1>1 DEF Conn, OneConnection
<1>2. CASE \E kept \in BOOLEAN : Emit(kept)
  BY <1>2 DEF Emit, Conn, OneConnection
<1>3. ASSUME NEW s \in Socket, Accept(s) \/ onopen(s) PROVE Conn'
  <2>1. \A t \in Socket : t # s => state'[t] = state[t]
    BY <1>3 DEF Accept, onopen, TypeOK
  <2>2. state[s] \in {"connecting", "accepted"} /\ state'[s] \in {"accepted", "open"}
    BY <1>3 DEF Accept, onopen, TypeOK
  <2>3. UNCHANGED <<closed, timers, ws>>
    BY <1>3 DEF Accept, onopen
  <2> QED
    BY <1>1, <2>1, <2>2, <2>3
<1>4. ASSUME NEW S \in SUBSET Socket, Closing(S)
      PROVE  \A t \in Socket : /\ Busy(t)' <=> Busy(t)
                               /\ Alive(t)' => Alive(t) /\ t \notin S
  BY <1>4 DEF Closing, TypeOK, SocketState
<1>5. ASSUME NEW s \in Socket, Disconnect(s) \/ onerror(s) PROVE Conn'
  <2>1. {s} \in SUBSET Socket /\ {s, ws} \in SUBSET Socket
    BY DEF TypeOK
  <2>2. UNCHANGED <<closed, timers, ws>>
    BY <1>5 DEF Disconnect, onerror
  <2>3. PICK S \in SUBSET Socket : Closing(S)
    BY <1>5, <2>1 DEF Disconnect, onerror
  <2> QED
    BY <1>1, <1>4, <2>2, <2>3
<1>6. CASE \E s \in Socket : onmessage(s)
  BY <1>6 DEF onmessage, Conn, OneConnection
<1>7. ASSUME NEW s \in Socket, onclose(s) PROVE Conn'
  <2>1. /\ state[s] = "closing" /\ state'[s] = "closed"
        /\ \A t \in Socket : t # s => state'[t] = state[t]
        /\ UNCHANGED <<closed, ws>>
    BY <1>7 DEF onclose, TypeOK
  <2>2. timers = 0
    BY <2>1 DEF Conn, OneConnection
  <2>3. \A t \in Socket : ~Busy(t)'
    BY <2>1 DEF Conn, OneConnection
  <2>4. timers' = IF closed THEN 0 ELSE 1
    BY <1>7, <2>2 DEF onclose
  <2> QED
    BY <2>1, <2>3, <2>4 DEF Conn, OneConnection
<1>8. ASSUME Timer PROVE Conn'
  <2>1. timers = 1 /\ timers' = 0 /\ closed' = closed /\ \A s \in Socket : ~Busy(s)
    BY <1>8 DEF Timer, Conn, OneConnection
  <2>2. CASE closed
    BY <1>8, <2>1, <2>2 DEF Timer, connect, Conn, OneConnection
  <2>3. CASE ~closed
    <3>1. /\ ws' = ws + 1 /\ ws + 1 \in Socket
          /\ state'[ws + 1] = "connecting"
          /\ \A t \in Socket : t # ws + 1 => state'[t] = state[t]
      BY <1>8, <2>3 DEF Timer, connect, TypeOK, Socket
    <3>2. \A t \in Socket : Busy(t)' <=> t = ws + 1
      BY <2>1, <3>1
    <3> QED
      BY <2>1, <2>3, <3>1, <3>2 DEF Conn, OneConnection
  <2> QED
    BY <2>2, <2>3
<1>9. CASE stop
  <2>1. {ws} \in SUBSET Socket
    BY DEF TypeOK
  <2>2. \A t \in Socket : /\ Busy(t)' <=> Busy(t)
                          /\ Alive(t)' => Alive(t) /\ t # ws
    BY <1>4, <1>9, <2>1 DEF stop
  <2>3. closed' = TRUE /\ UNCHANGED <<timers, ws>>
    BY <1>9 DEF stop
  <2>4. \A t \in Socket : Alive(t) => t = ws
    BY DEF Conn
  <2> QED
    BY <2>2, <2>3, <2>4 DEF Conn, OneConnection
<1>10. CASE UNCHANGED vars
  BY <1>10 DEF vars, Conn, OneConnection
<1> QED
  BY <1>2, <1>3, <1>5, <1>6, <1>7, <1>8, <1>9, <1>10 DEF Next

(* There is never a second connection and, until the page stops watching,  *)
(* always one connection or the promise of one.                            *)
THEOREM NeverTwoConnections == Spec => [](OneConnection /\ Conn)
<1>1. Init => Conn
  <2> SUFFICES ASSUME Init PROVE Conn
    OBVIOUS
  <2>1. \A s \in Socket : Busy(s) <=> s = 1
    BY DEF Init, Busy, Alive
  <2>2. 1 \in Socket
    BY WatchAssumption DEF Socket
  <2> QED
    BY <2>1, <2>2 DEF Init, Conn, OneConnection
<1>2. TypeOK /\ TypeOK' /\ Conn /\ [Next]_vars => Conn'
  BY ConnStep
<1>3. Conn => OneConnection
  BY DEF Conn
<1> QED
  BY <1>1, <1>2, <1>3, TypeCorrect, PTL DEF Spec

\* Every waiting event is newer than the one seen, and they wait in order.
InOrder(q) == /\ \A i \in 1..Len(q) : seen < q[i] /\ q[i] <= emitted
              /\ \A i, j \in 1..Len(q) : i < j => q[i] < q[j]

\* Only a joined socket has a queue: whatever ends the socket empties it.
Queues == /\ seen <= emitted
          /\ \A s \in Socket : Joined(s) \/ queue[s] = <<>>
          /\ \A s \in Socket : InOrder(queue[s])

(* An ordered queue stays ordered when its head is taken, and so the head  *)
(* is older than all that is left.                                         *)
LEMMA OrderedTail ==
    ASSUME NEW q \in Seq(Int), NEW a \in Int, NEW e \in Int, q # <<>>,
           \A i \in 1..Len(q) : a < q[i] /\ q[i] <= e,
           \A i, j \in 1..Len(q) : i < j => q[i] < q[j]
    PROVE  /\ a < Head(q) /\ Head(q) <= e
           /\ \A i \in 1..Len(Tail(q)) : Head(q) < Tail(q)[i] /\ Tail(q)[i] <= e
           /\ \A i, j \in 1..Len(Tail(q)) : i < j => Tail(q)[i] < Tail(q)[j]
<1>1. Len(q) \in Nat /\ Len(q) # 0 /\ Head(q) = q[1]
  OBVIOUS
<1>2. Len(Tail(q)) = Len(q) - 1 /\ \A i \in 1..(Len(q) - 1) : Tail(q)[i] = q[i + 1]
  OBVIOUS
<1>3. \A i \in 1..(Len(q) - 1) : i + 1 \in 1..Len(q) /\ 1 < i + 1
  BY <1>1
<1>4. 1 \in 1..Len(q)
  BY <1>1
<1> QED
  BY <1>1, <1>2, <1>3, <1>4

(* An ordered queue stays ordered when a newer event is put at its end.    *)
LEMMA OrderedAppend ==
    ASSUME NEW q \in Seq(Int), NEW a \in Int, NEW e \in Int, a <= e,
           \A i \in 1..Len(q) : a < q[i] /\ q[i] <= e,
           \A i, j \in 1..Len(q) : i < j => q[i] < q[j],
           NEW r, r = Append(q, e + 1)
    PROVE  /\ \A i \in 1..Len(r) : a < r[i] /\ r[i] <= e + 1
           /\ \A i, j \in 1..Len(r) : i < j => r[i] < r[j]
<1>1. Len(q) \in Nat /\ Len(r) = Len(q) + 1
  OBVIOUS
<1>2. r[Len(q) + 1] = e + 1 /\ \A i \in 1..Len(q) : r[i] = q[i] /\ q[i] \in Int
  OBVIOUS
<1>3. \A i \in 1..(Len(q) + 1) : i \in 1..Len(q) \/ i = Len(q) + 1
  BY <1>1
<1>4. ASSUME NEW i \in 1..Len(r), NEW j \in 1..Len(r), i < j PROVE i \in 1..Len(q)
  BY <1>1, <1>4
<1> QED
  BY <1>1, <1>2, <1>3, <1>4

(* The queues stay ordered and ahead of the page.  Handing over an event   *)
(* would break that for a second socket: Conn says there is none.          *)
LEMMA QueuesStep ==
    ASSUME TypeOK, Conn, Queues, [Next]_vars PROVE Queues'
<1> DEFINE Ev == 1..MaxEvents
<1>1. /\ emitted \in Int /\ seen \in Int /\ seen <= emitted
      /\ \A s \in Socket : queue[s] \in Seq(Int)
  <2>1. \A s \in Socket : queue[s] \in Seq(Ev)
    BY DEF TypeOK
  <2>2. Ev \subseteq Int
    BY WatchAssumption
  <2> HIDE DEF Ev
  <2>3. \A s \in Socket : queue[s] \in Seq(Int)
    BY <2>1, <2>2, SeqMonotonic
  <2> QED
    BY <2>3, WatchAssumption DEF TypeOK, Queues
<1>2. ASSUME UNCHANGED <<emitted, seen, queue>>, \A s \in Socket : Joined(s) => Joined(s)'
      PROVE  Queues'
  BY <1>2 DEF Queues, InOrder
<1>3. ASSUME NEW kept \in BOOLEAN, Emit(kept) PROVE Queues'
  <2>1. emitted' = emitted + 1 /\ seen' = seen /\ state' = state
    BY <1>3 DEF Emit
  <2>2. ASSUME NEW s \in Socket PROVE InOrder(queue[s])' /\ (Joined(s)' \/ queue'[s] = <<>>)
    <3>1. CASE kept /\ Joined(s)
      <4>1. queue'[s] = Append(queue[s], emitted + 1)
        BY <1>3, <3>1 DEF Emit
      <4>2. InOrder(queue[s])
        BY DEF Queues
      <4>3. /\ \A i \in 1..Len(queue'[s]) : seen < queue'[s][i] /\ queue'[s][i] <= emitted + 1
            /\ \A i, j \in 1..Len(queue'[s]) : i < j => queue'[s][i] < queue'[s][j]
        BY <1>1, <4>1, <4>2, OrderedAppend DEF InOrder
      <4> QED
        BY <2>1, <3>1, <4>3 DEF InOrder, Joined
    <3>2. CASE ~(kept /\ Joined(s))
      <4>1. queue'[s] = queue[s]
        BY <1>3, <3>2 DEF Emit
      <4>2. queue[s] \in Seq(Int) /\ \A i \in 1..Len(queue[s]) : queue[s][i] \in Int
        BY <1>1
      <4> QED
        BY <1>1, <2>1, <4>1, <4>2 DEF Queues, InOrder, Joined
    <3> QED
      BY <3>1, <3>2
  <2> QED
    BY <1>1, <2>1, <2>2 DEF Queues
<1>4. ASSUME NEW s \in Socket, Accept(s) \/ onopen(s) PROVE Queues'
  BY <1>2, <1>4 DEF Accept, onopen, Joined, TypeOK
<1>5. ASSUME NEW S \in SUBSET Socket, Closing(S), UNCHANGED <<emitted, seen>> PROVE Queues'
  <2>1. ASSUME NEW s \in Socket PROVE InOrder(queue[s])' /\ (Joined(s)' \/ queue'[s] = <<>>)
    <3>1. CASE s \in S
      BY <1>5, <3>1 DEF Closing, InOrder
    <3>2. CASE s \notin S
      BY <1>5, <3>2 DEF Closing, InOrder, Queues, Joined
    <3> QED
      BY <3>1, <3>2
  <2> QED
    BY <1>5, <2>1 DEF Queues
<1>6. ASSUME NEW s \in Socket, Disconnect(s) \/ onerror(s) \/ stop PROVE Queues'
  <2>1. {s} \in SUBSET Socket /\ {s, ws} \in SUBSET Socket /\ {ws} \in SUBSET Socket
    BY DEF TypeOK
  <2> QED
    BY <1>5, <1>6, <2>1 DEF Disconnect, onerror, stop
<1>7. ASSUME NEW s \in Socket, onmessage(s) PROVE Queues'
  <2>1. /\ seen' = Head(queue[s]) /\ queue'[s] = Tail(queue[s]) /\ queue[s] # <<>>
        /\ state' = state /\ emitted' = emitted
        /\ \A t \in Socket : t # s => queue'[t] = queue[t]
    BY <1>7 DEF onmessage, TypeOK
  <2>2. InOrder(queue[s])
    BY DEF Queues
  <2>3. /\ seen < seen' /\ seen' <= emitted
        /\ \A i \in 1..Len(queue'[s]) : seen' < queue'[s][i] /\ queue'[s][i] <= emitted
        /\ \A i, j \in 1..Len(queue'[s]) : i < j => queue'[s][i] < queue'[s][j]
    BY <1>1, <2>1, <2>2, OrderedTail DEF InOrder
  <2>4. Joined(s)'
    BY <1>7, <2>1 DEF onmessage, Joined
  <2>5. ASSUME NEW t \in Socket, t # s PROVE queue'[t] = <<>>
    <3>1. ~Joined(t)
      BY <1>7, <2>5 DEF onmessage, Conn, Busy, Alive, Joined
    <3> QED
      BY <2>1, <2>5, <3>1 DEF Queues
  <2>6. ASSUME NEW t \in Socket PROVE InOrder(queue[t])'
    <3>1. CASE t = s
      BY <2>1, <2>3, <3>1 DEF InOrder
    <3>2. CASE t # s
      <4>1. queue'[t] = <<>>
        BY <2>5, <3>2
      <4> QED
        BY <4>1 DEF InOrder
    <3> QED
      BY <3>1, <3>2
  <2> QED
    BY <2>1, <2>3, <2>4, <2>5, <2>6 DEF Queues
<1>8. ASSUME NEW s \in Socket, onclose(s) PROVE Queues'
  <2>1. \A t \in Socket : Joined(t) => Joined(t)'
    BY <1>8 DEF onclose, Joined, TypeOK
  <2> QED
    BY <1>2, <1>8, <2>1 DEF onclose
<1>9. ASSUME Timer PROVE Queues'
  <2>1. \A t \in Socket : ~Joined(t)
    BY <1>9 DEF Timer, Conn, OneConnection, Busy, Alive, Joined
  <2> QED
    BY <1>2, <1>9, <2>1 DEF Timer
<1>10. CASE UNCHANGED vars
  BY <1>2, <1>10 DEF vars, Joined
<1>11. 1 \in Socket
  BY WatchAssumption DEF Socket
<1> QED
  BY <1>3, <1>4, <1>6, <1>7, <1>8, <1>9, <1>10, <1>11 DEF Next

(* watch of api.ts implements Subscription: to the page it is one channel  *)
(* that hands over events in order, each at most once, none after stop,    *)
(* however often the connection behind it is lost, refused or replaced.    *)
THEOREM ImplementsSubscription == Spec => Subscribes
<1>1. Init => Queues
  <2> SUFFICES ASSUME Init PROVE Queues
    OBVIOUS
  <2>1. \A s \in Socket : queue[s] = <<>>
    BY DEF Init
  <2> QED
    BY <2>1 DEF Init, Queues, InOrder
<1>2. TypeOK /\ Conn /\ Queues /\ [Next]_vars => Queues'
  BY QueuesStep
<1>3. Init => Sub!Init
  BY DEF Init, Sub!Init
<1>4. TypeOK /\ Conn /\ Queues /\ [Next]_vars => [Sub!Next]_(Sub!vars)
  <2> SUFFICES ASSUME TypeOK, Conn, Queues, [Next]_vars PROVE [Sub!Next]_(Sub!vars)
    OBVIOUS
  <2> USE DEF Sub!Next, Sub!vars
  <2>1. CASE \E kept \in BOOLEAN : Emit(kept)
    BY <2>1 DEF Emit, Sub!Emit
  <2>2. ASSUME NEW s \in Socket,
               \/ Accept(s) \/ Disconnect(s) \/ onopen(s)
               \/ onerror(s) \/ onclose(s) \/ Timer \/ UNCHANGED vars
        PROVE  UNCHANGED Sub!vars
    BY <2>2 DEF Accept, Disconnect, onopen, onerror, onclose, Timer, vars
  <2>3. ASSUME NEW s \in Socket, onmessage(s) PROVE Sub!Handle
    <3>1. ~closed
      BY <2>3 DEF onmessage, Conn, Alive
    <3>2. queue[s] \in Seq(1..MaxEvents) /\ queue[s] # <<>> /\ seen \in Int /\ emitted \in Int
      BY <2>3, WatchAssumption DEF onmessage, TypeOK
    <3>3. Head(queue[s]) = queue[s][1] /\ 1 \in 1..Len(queue[s]) /\ queue[s][1] \in 1..MaxEvents
      <4> DEFINE Ev == 1..MaxEvents
      <4>1. queue[s] \in Seq(Ev) /\ queue[s] # <<>>
        BY <3>2
      <4> HIDE DEF Ev
      <4>2. Len(queue[s]) \in Nat \ {0} /\ Head(queue[s]) = queue[s][1]
        BY <4>1
      <4>3. 1 \in 1..Len(queue[s])
        BY <4>2
      <4>4. queue[s][1] \in Ev
        BY <4>1, <4>3, ElementOfSeq
      <4> QED
        BY <4>2, <4>3, <4>4 DEF Ev
    <3>4. seen < queue[s][1] /\ queue[s][1] <= emitted
      BY <3>3 DEF Queues, InOrder
    <3>5. Head(queue[s]) \in (seen + 1)..emitted
      BY <3>2, <3>3, <3>4, WatchAssumption
    <3> QED
      BY <2>3, <3>1, <3>5 DEF onmessage, Sub!Handle
  <2>4. CASE stop
    BY <2>4 DEF stop, Sub!Stop
  <2>5. 1 \in Socket
    BY WatchAssumption DEF Socket
  <2> QED
    BY <2>1, <2>2, <2>3, <2>4, <2>5 DEF Next
<1>5. Spec => []Queues
  BY <1>1, <1>2, TypeCorrect, NeverTwoConnections, PTL DEF Spec
<1> QED
  BY <1>3, <1>4, <1>5, TypeCorrect, NeverTwoConnections, PTL DEF Spec, Subscribes, Sub!Spec

-----------------------------------------------------------------------------
(* The UI beside its watch: module Console, whose parameters and state are *)
(* these, MaxEvents apart.                                                 *)

\* The calls of the session.
SessionCall == [kind : {"handshake", "me", "login", "logout"},
                by : {"boot", "form", "bar", "login"}, bearer : BOOLEAN,
                st : {"sent", "served", "failed"}, got : BOOLEAN]

\* The token comes from the handshake, and while that is under way AuthProvider
\* has not asked who is signed in, so no page is shown that has a Sign out
\* button; afterwards the mode hides the button.
TokenInv ==
    /\ calls \subseteq SessionCall
    /\ cookie \in BOOLEAN /\ bearer \in BOOLEAN
    /\ bearer => mode = "iframe"
    /\ \A c \in calls : c.kind = "logout" => mode = "standalone"
    /\ \A c \in calls : c.kind = "handshake" =>
          /\ c = Call("handshake", "boot", FALSE)
          /\ loading
          /\ \A d \in calls : /\ d.kind = "me" => d.by # "boot"
                              /\ d.kind # "logout"

(* A new call is one.                                                      *)
LEMMA NewCall ==
    ASSUME NEW kind \in {"handshake", "me", "login", "logout"},
           NEW by \in {"boot", "form", "bar", "login"}, NEW b \in BOOLEAN
    PROVE  /\ Call(kind, by, b) \in SessionCall
           /\ Call(kind, by, b).kind = kind /\ Call(kind, by, b).by = by
BY DEF Call, SessionCall

(* Initially there is the handshake or the first question, and no token.   *)
LEMMA TokenInit == ConsoleInit => TokenInv
<1> SUFFICES ASSUME SessionInit PROVE TokenInv
  BY DEF ConsoleInit
<1>1. PICK k \in {"handshake", "me"} : calls = {Call(k, "boot", FALSE)}
  BY DEF SessionInit
<1>2. /\ Call(k, "boot", FALSE) \in SessionCall
      /\ Call(k, "boot", FALSE).kind = k
  BY DEF Call, SessionCall
<1>3. cookie \in BOOLEAN /\ bearer = FALSE /\ loading
  BY DEF SessionInit
<1> QED
  BY <1>1, <1>2, <1>3 DEF TokenInv

(* Calls are taken away, answered or not; none is added.                   *)
LEMMA FewerCalls ==
    ASSUME TokenInv, calls' \subseteq calls, bearer' \in BOOLEAN, cookie' \in BOOLEAN,
           bearer' => bearer, mode' = mode,
           loading' = loading \/ \A c \in calls' : c.kind # "handshake"
    PROVE  TokenInv'
<1>1. /\ calls' \subseteq SessionCall /\ (bearer' => mode' = "iframe")
      /\ \A c \in calls' : c.kind = "logout" => mode' = "standalone"
  BY DEF TokenInv
<1>2. ASSUME NEW c \in calls', c.kind = "handshake"
      PROVE  /\ c = Call("handshake", "boot", FALSE)
             /\ loading'
             /\ \A d \in calls' : /\ d.kind = "me" => d.by # "boot"
                                  /\ d.kind # "logout"
  <2>1. c \in calls /\ loading' = loading
    BY <1>2
  <2>2. loading /\ c = Call("handshake", "boot", FALSE)
    BY <1>2, <2>1 DEF TokenInv
  <2>3. \A d \in calls' : (d.kind = "me" => d.by # "boot") /\ d.kind # "logout"
    BY <1>2, <2>1 DEF TokenInv
  <2> QED
    BY <2>1, <2>2, <2>3
<1> QED
  BY <1>1, <1>2 DEF TokenInv

(* A call that is not the handshake is added or replaces one of its kind;  *)
(* it is a sign-out only where that is in order.                           *)
LEMMA OneMore ==
    ASSUME TokenInv, NEW d \in SessionCall, calls' \subseteq calls \union {d},
           d.kind # "handshake",
           d.kind = "me" /\ d.by = "boot" => \A c \in calls' : c.kind # "handshake",
           d.kind = "logout" => /\ mode = "standalone"
                                /\ \A c \in calls' : c.kind # "handshake",
           UNCHANGED <<bearer, mode, loading>>, cookie' \in BOOLEAN
    PROVE  TokenInv'
<1>1. /\ calls' \subseteq SessionCall /\ bearer' \in BOOLEAN /\ (bearer' => mode' = "iframe")
      /\ \A c \in calls' : c \in calls \/ c = d
  BY DEF TokenInv
<1>2. \A c \in calls' : c.kind = "logout" => mode' = "standalone"
  BY <1>1 DEF TokenInv
<1>3. ASSUME NEW c \in calls', c.kind = "handshake"
      PROVE  /\ c = Call("handshake", "boot", FALSE)
             /\ loading'
             /\ \A e \in calls' : /\ e.kind = "me" => e.by # "boot"
                                  /\ e.kind # "logout"
  <2>1. c \in calls
    BY <1>1, <1>3
  <2>2. c = Call("handshake", "boot", FALSE) /\ loading
    BY <1>3, <2>1 DEF TokenInv
  <2>3. ASSUME NEW e \in calls' PROVE (e.kind = "me" => e.by # "boot") /\ e.kind # "logout"
    <3>1. CASE e \in calls
      BY <1>3, <2>1, <3>1 DEF TokenInv
    <3>2. CASE e = d
      BY <1>3, <3>2
    <3> QED
      BY <1>1, <3>1, <3>2
  <2> QED
    BY <2>2, <2>3
<1> QED
  BY <1>1, <1>2, <1>3 DEF TokenInv

(* Every step of the session keeps it.                                     *)
LEMMA SessionKeeps == TokenInv /\ SessionNext => TokenInv'
<1> SUFFICES ASSUME TokenInv, SessionNext PROVE TokenInv'
  OBVIOUS
<1>0. /\ calls \subseteq SessionCall /\ cookie \in BOOLEAN /\ bearer \in BOOLEAN
  BY DEF TokenInv
<1>1. ASSUME NEW c \in calls, NEW ok \in BOOLEAN, Handshake(c, ok) PROVE TokenInv'
  <2>1. c.kind = "handshake" /\ c = Call("handshake", "boot", FALSE)
    BY <1>1 DEF Handshake, TokenInv
  <2>2. bearer' \in BOOLEAN /\ (bearer' => mode' = "iframe") /\ UNCHANGED <<cookie, loading>>
    BY <1>0, <1>1 DEF Handshake, loadCorpSDK, TokenInv
  <2>3. PICK d \in SessionCall : /\ calls' = (calls \ {c}) \union {d}
                                 /\ d.kind = "me"
    BY <1>1, <2>2, NewCall DEF Handshake
  <2>4. \A e \in calls' : e.kind # "handshake" /\ e.kind # "logout"
    BY <2>1, <2>3 DEF TokenInv
  <2>5. calls' \subseteq SessionCall
    BY <1>0, <2>3
  <2> QED
    BY <1>0, <2>2, <2>4, <2>5 DEF TokenInv
<1>2. ASSUME NEW c \in calls, AnswerMe(c) PROVE TokenInv'
  <2>1. calls' = calls \ {c} /\ UNCHANGED <<bearer, mode, cookie>>
    BY <1>2 DEF AnswerMe
  <2>2. loading' = loading \/ \A d \in calls' : d.kind # "handshake"
    <3>1. CASE c.by = "boot"
      BY <1>2, <2>1, <3>1 DEF AnswerMe, TokenInv
    <3>2. CASE c.by # "boot"
      BY <1>0, <1>2, <3>2, <2>1 DEF AnswerMe, TokenInv
    <3> QED
      BY <3>1, <3>2
  <2> QED
    BY <1>0, <2>1, <2>2, FewerCalls
<1>3. ASSUME NEW c \in calls, AnswerLogin(c) PROVE TokenInv'
  <2>1. UNCHANGED <<bearer, mode, cookie, loading>>
    BY <1>3 DEF AnswerLogin
  <2>2. PICK d \in SessionCall : d = Call("me", "login", bearer) /\ d.kind = "me" /\ d.by = "login"
    BY <1>0, NewCall
  <2>3. calls' \subseteq calls \union {d}
    BY <1>3, <2>2 DEF AnswerLogin
  <2> QED
    BY <1>0, <2>1, <2>2, <2>3, OneMore
<1>4. ASSUME NEW c \in calls, AnswerLogout(c) PROVE TokenInv'
  <2>1. calls' \subseteq calls /\ UNCHANGED <<mode, cookie, loading>> /\ bearer' = FALSE
    BY <1>4 DEF AnswerLogout
  <2> QED
    BY <1>0, <2>1, FewerCalls
<1>5. ASSUME NEW c \in calls, ServeCall(c) \/ CallFails(c) PROVE TokenInv'
  <2>1. c \in SessionCall /\ c.kind # "handshake" /\ UNCHANGED <<bearer, mode, loading>>
    BY <1>0, <1>5 DEF ServeCall, CallFails
  <2>2. cookie' \in BOOLEAN
    BY <1>0, <1>5, <2>1 DEF ServeCall, CallFails, SessionCall
  <2>3. \A st \in {"served", "failed"} : \A b \in BOOLEAN :
           LET d == [c EXCEPT !.st = st, !.got = b]
           IN  d \in SessionCall /\ d.kind = c.kind /\ d.by = c.by
    BY <2>1 DEF SessionCall
  <2>4. c.bearer \in BOOLEAN
    BY <2>1 DEF SessionCall
  <2>5. PICK d \in SessionCall : /\ calls' = (calls \ {c}) \union {d}
                                 /\ d.kind = c.kind /\ d.by = c.by
    <3>1. CASE ServeCall(c)
      <4>1. (c.bearer \/ cookie') \in BOOLEAN
        BY <2>2, <2>4
      <4> QED
        BY <2>3, <3>1, <4>1 DEF ServeCall
    <3>2. CASE CallFails(c)
      BY <2>3, <3>2 DEF CallFails
    <3> QED
      BY <1>5, <3>1, <3>2
  <2>6. /\ d.kind = "me" /\ d.by = "boot" => \A e \in calls' : e.kind # "handshake"
        /\ d.kind = "logout" => mode = "standalone" /\ \A e \in calls' : e.kind # "handshake"
    BY <2>1, <2>5 DEF TokenInv
  <2> QED
    BY <2>1, <2>2, <2>5, <2>6, OneMore
<1>6. ASSUME login PROVE TokenInv'
  <2>1. UNCHANGED <<bearer, mode, cookie, loading>>
    BY <1>6 DEF login
  <2>2. PICK d \in SessionCall : d = Call("login", "form", bearer) /\ d.kind = "login"
    BY <1>0, NewCall
  <2> QED
    BY <1>0, <1>6, <2>1, <2>2, OneMore DEF login
<1>7. ASSUME logout PROVE TokenInv'
  <2>1. /\ UNCHANGED <<bearer, mode, cookie, loading>> /\ mode = "standalone"
        /\ ~loading
    BY <1>7 DEF logout, showLogout, TopBar, Shown
  <2>2. PICK d \in SessionCall : d = Call("logout", "bar", bearer) /\ d.kind = "logout"
    BY <1>0, NewCall
  <2>3. calls' = calls \union {d} /\ \A c \in calls' : c.kind # "handshake"
    BY <1>7, <2>1, <2>2 DEF logout, TokenInv
  <2> QED
    BY <1>0, <2>1, <2>2, <2>3, OneMore
<1>8. ASSUME SessionEnds PROVE TokenInv'
  BY <1>0, <1>8, FewerCalls DEF SessionEnds
<1>9. ASSUME NEW p \in Page, Navigate(p) PROVE TokenInv'
  BY <1>0, <1>9, FewerCalls DEF Navigate
<1> QED
  BY <1>1, <1>2, <1>3, <1>4, <1>5, <1>6, <1>7, <1>8, <1>9 DEF SessionNext

(* The pages leave the session alone.                                      *)
LEMMA TokenStep == TokenInv /\ [ConsoleNext]_consoleVars => TokenInv'
<1> SUFFICES ASSUME TokenInv, [ConsoleNext]_consoleVars PROVE TokenInv'
  OBVIOUS
<1>1. CASE SessionNext
  BY <1>1, SessionKeeps
<1>2. CASE UNCHANGED sessionVars
  BY <1>2 DEF sessionVars, TokenInv
<1> QED
  BY <1>1, <1>2 DEF ConsoleNext, SessionStep, PageStep, consoleVars

(* Only a sign-out throws the token away, and there is none to answer.     *)
LEMMA TokenStays == TokenInv /\ [ConsoleNext]_consoleVars => [bearer => bearer']_consoleVars
<1> SUFFICES ASSUME TokenInv, ConsoleNext, bearer PROVE bearer'
  OBVIOUS
<1>1. CASE SessionNext
  <2>1. ASSUME NEW c \in calls, AnswerLogout(c) PROVE FALSE
    BY <2>1 DEF AnswerLogout, TokenInv
  <2>2. ASSUME NEW c \in calls, NEW ok \in BOOLEAN, Handshake(c, ok) PROVE bearer'
    BY <2>2 DEF Handshake, loadCorpSDK
  <2>3. CASE bearer' = bearer
    BY <2>3
  <2> QED
    BY <1>1, <2>1, <2>2, <2>3 DEF SessionNext, AnswerMe, AnswerLogin, ServeCall,
       CallFails, login, logout, SessionEnds, Navigate
<1>2. CASE UNCHANGED sessionVars
  BY <1>2 DEF sessionVars
<1> QED
  BY <1>1, <1>2 DEF ConsoleNext, SessionStep, PageStep

(* auth.tsx, AppShell.tsx: in the host's iframe the UI never throws its    *)
(* token away.                                                             *)
THEOREM TokenKept == ConsoleSpec => EmbeddedKeepsToken
<1>1. ConsoleInit => TokenInv
  BY TokenInit
<1>2. TokenInv /\ [ConsoleNext]_consoleVars => TokenInv'
  BY TokenStep
<1>3. TokenInv /\ [ConsoleNext]_consoleVars => [bearer => bearer']_consoleVars
  BY TokenStays
<1> QED
  BY <1>1, <1>2, <1>3, PTL DEF ConsoleSpec, EmbeddedKeepsToken

-----------------------------------------------------------------------------
(* The cards of the dashboard.                                             *)

\* The element of a set that the folds of the community modules take first.
Any(s) == CHOOSE x \in s : TRUE

\* f and g agree on the empty set and, where they agree on a subset of T less
\* one element, on the subset.
Alike(T, f, g) ==
    /\ f[{}] = g[{}]
    /\ \A s \in SUBSET T : s # {} /\ f[s \ {Any(s)}] = g[s \ {Any(s)}] => f[s] = g[s]

(* Such functions agree on all subsets of a finite set.                    *)
LEMMA FoldsAgree ==
    ASSUME NEW T, IsFiniteSet(T), NEW f, NEW g, Alike(T, f, g)
    PROVE  \A s \in SUBSET T : f[s] = g[s]
<1> DEFINE R == StrictSubsetOrdering(T)
           Bad == {s \in SUBSET T : f[s] # g[s]}
<1>1. IsWellFoundedOn(R, SUBSET T)
  BY FS_StrictSubsetOrderingWellFounded, FS_FiniteSubsetsOfFinite
<1>2. SUFFICES ASSUME Bad # {} PROVE FALSE
  OBVIOUS
<1>3. PICK s \in Bad : \A t \in Bad : ~(<<t, s>> \in R)
  <2> HIDE DEF R
  <2>1. Bad \subseteq SUBSET T
    OBVIOUS
  <2> HIDE DEF Bad
  <2> QED
    BY <1>1, <1>2, <2>1, WFMin
<1>4. s # {} /\ s \in SUBSET T /\ f[s] # g[s]
  BY <1>3 DEF Alike
<1> DEFINE t == s \ {Any(s)}
<1>5. Any(s) \in s
  BY <1>4 DEF Any
<1>6. t \in SUBSET T /\ t # s /\ t \subseteq s
  BY <1>4, <1>5
<1>7. <<t, s>> \in R
  BY <1>4, <1>6 DEF StrictSubsetOrdering
<1>8. t \notin Bad
  BY <1>3, <1>7
<1> QED
  BY <1>4, <1>6, <1>8 DEF Alike

(* Sizes of disjoint sets add up.                                          *)
LEMMA Disjoint ==
    ASSUME NEW S, NEW T, IsFiniteSet(S), IsFiniteSet(T), S \cap T = {}
    PROVE  /\ IsFiniteSet(S \union T)
           /\ Cardinality(S \union T) = Cardinality(S) + Cardinality(T)
<1>1. Cardinality(S \union T) = Cardinality(S) + Cardinality(T) - Cardinality({})
  BY FS_Union
<1>2. /\ Cardinality({}) = 0
      /\ Cardinality(S) \in Nat /\ Cardinality(T) \in Nat
  BY FS_EmptySet, FS_CardinalityType
<1> QED
  BY <1>1, <1>2, FS_Union

(* A finite sum of the sizes of disjoint sets is the size of their union.  *)
LEMMA SumOfSizes ==
    ASSUME NEW T, IsFiniteSet(T), NEW A, NEW h, DOMAIN h = T,
           \A x \in T : IsFiniteSet(A[x]) /\ h[x] = Cardinality(A[x]),
           \A x, y \in T : x # y => A[x] \cap A[y] = {}
    PROVE  SumFunction(h) = Cardinality(UNION {A[x] : x \in T})
<1> DEFINE Sums(f) == f = [s \in SUBSET T |->
                            IF s = {} THEN 0 ELSE h[Any(s)] + f[s \ {Any(s)}]]
           All(s) == UNION {A[x] : x \in s}
           g == [s \in SUBSET T |-> Cardinality(All(s))]
           f0 == CHOOSE f : Sums(f)
<1>1. \A s \in SUBSET T : IsFiniteSet(All(s))
  <2> SUFFICES ASSUME NEW s \in SUBSET T PROVE IsFiniteSet(All(s))
    OBVIOUS
  <2>1. IsFiniteSet(s)
    BY FS_Subset
  <2>2. IsFiniteSet({A[x] : x \in s})
    <3> DEFINE f == [x \in s |-> A[x]]
    <3>1. f \in Surjection(s, {A[x] : x \in s})
      BY DEF Surjection
    <3> HIDE DEF f
    <3> QED
      BY <2>1, <3>1, FS_Surjection
  <2>3. \A B \in {A[x] : x \in s} : IsFiniteSet(B)
    OBVIOUS
  <2> QED
    BY <2>2, <2>3, FS_UNION
<1>2. ASSUME NEW s \in SUBSET T, s # {}
      PROVE  Cardinality(All(s)) = h[Any(s)] + Cardinality(All(s \ {Any(s)}))
  <2> DEFINE x == Any(s)
             t == s \ {x}
  <2>1. x \in s
    BY <1>2 DEF Any
  <2> HIDE DEF x
  <2>2. t \in SUBSET T /\ x \in T
    BY <2>1
  <2>3. All(s) = A[x] \union All(t)
    BY <2>1
  <2>4. A[x] \cap All(t) = {}
    BY <2>1
  <2>5. IsFiniteSet(A[x]) /\ IsFiniteSet(All(t)) /\ h[x] = Cardinality(A[x])
    BY <1>1, <2>2
  <2> HIDE DEF All, t
  <2>6. Cardinality(All(s)) = h[x] + Cardinality(All(t))
    <3>1. Cardinality(A[x] \union All(t)) = Cardinality(A[x]) + Cardinality(All(t))
      BY <2>4, <2>5, Disjoint
    <3> QED
      BY <2>3, <2>5, <3>1
  <2> QED
    BY <2>6 DEF x, t
<1>3. Cardinality(All({})) = 0
  <2>1. All({}) = {}
    OBVIOUS
  <2> QED
    BY <2>1, FS_EmptySet
<1>4. Sums(g)
  <2>1. ASSUME NEW s \in SUBSET T
        PROVE  g[s] = IF s = {} THEN 0 ELSE h[Any(s)] + g[s \ {Any(s)}]
    <3>1. CASE s = {}
      BY <1>3, <3>1
    <3>2. CASE s # {}
      <4>1. s \ {Any(s)} \in SUBSET T
        OBVIOUS
      <4> HIDE DEF All
      <4> QED
        BY <1>2, <3>2, <4>1
    <3> QED BY <3>1, <3>2
  <2>2. g = [s \in SUBSET T |-> g[s]]
    OBVIOUS
  <2> HIDE DEF g
  <2> QED
    BY <2>1, <2>2, Zenon
<1>5. Sums(f0)
  BY <1>4
<1> HIDE DEF f0
<1>6. \A s \in SUBSET T : f0[s] = IF s = {} THEN 0 ELSE h[Any(s)] + f0[s \ {Any(s)}]
  BY <1>5
<1>7. \A s \in SUBSET T : g[s] = IF s = {} THEN 0 ELSE h[Any(s)] + g[s \ {Any(s)}]
  BY <1>4
<1>8. \A s \in SUBSET T : f0[s] = g[s]
  <2> HIDE DEF g
  <2>1. f0[{}] = g[{}]
    BY <1>6, <1>7
  <2>2. ASSUME NEW s \in SUBSET T, s # {}, f0[s \ {Any(s)}] = g[s \ {Any(s)}]
        PROVE  f0[s] = g[s]
    <3>1. f0[s] = h[Any(s)] + f0[s \ {Any(s)}]
      BY <1>6, <2>2
    <3>2. g[s] = h[Any(s)] + g[s \ {Any(s)}]
      BY <1>7, <2>2
    <3> QED
      BY <2>2, <3>1, <3>2
  <2>3. Alike(T, f0, g)
    BY <2>1, <2>2 DEF Alike
  <2> QED
    BY <2>3, FoldsAgree
<1>9. SumFunction(h) = f0[T]
  BY DEF SumFunction, SumFunctionOnSet, FoldFunctionOnSet, MapThenFoldSet, Any, f0
<1> QED
  BY <1>8, <1>9

\* The instances with ids in s that ...
OfService(I, s, n) == {i \in s : I[i].service = n}
OfVersion(I, s, k) == {i \in s : I[i].version = k}
Ups(I, s) == {i \in s : isUp(I[i])}
Blocks(I, s) == {i \in s : I[i].blocked}
BlocksBut(I, s) == {i \in s : ~isUp(I[i]) /\ I[i].blocked}
Downs(I, s) == {i \in s : ~isUp(I[i]) /\ ~I[i].blocked}

\* What is on the cards when exactly the instances in s have been counted.
VersionOf(I, s) == [up |-> Cardinality(Ups(I, s)), total |-> Cardinality(s),
                    blocked |-> Cardinality(BlocksBut(I, s)),
                    down |-> Cardinality(Downs(I, s))]
VersionsOf(I, s) == [k \in {I[i].version : i \in s} |-> VersionOf(I, OfVersion(I, s, k))]
CardOf(I, s) == [up |-> Cardinality(Ups(I, s)), total |-> Cardinality(s),
                 blocked |-> Cardinality(Blocks(I, s)),
                 versions |-> VersionsOf(I, s)]
Cards(S, I, s) == [n \in S \union {I[i].service : i \in s} |->
                     CardOf(I, OfService(I, s, n))]

(* Nothing counted, an empty card.                                         *)
LEMMA EmptyCard == ASSUME NEW I PROVE CardOf(I, {}) = NoCard
<1>1. Ups(I, {}) = {} /\ Blocks(I, {}) = {} /\ {I[i].version : i \in {}} = {}
  BY DEF Ups, Blocks
<1>2. Cardinality({}) = 0
  BY FS_EmptySet
<1>3. VersionsOf(I, {}) = <<>>
  BY <1>1 DEF VersionsOf
<1> QED
  BY <1>1, <1>2, <1>3 DEF CardOf, NoCard

\* How the counters grow with x.
Grows(I, s, x) ==
    /\ Cardinality(s \union {x}) = Cardinality(s) + 1
    /\ Cardinality(Ups(I, s \union {x})) = Cardinality(Ups(I, s)) + One(isUp(I[x]))
    /\ Cardinality(Blocks(I, s \union {x})) =
          Cardinality(Blocks(I, s)) + One(I[x].blocked)
    /\ Cardinality(BlocksBut(I, s \union {x})) =
          Cardinality(BlocksBut(I, s)) + One(~isUp(I[x]) /\ I[x].blocked)
    /\ Cardinality(Downs(I, s \union {x})) =
          Cardinality(Downs(I, s)) + One(~isUp(I[x]) /\ ~I[x].blocked)

(* One more instance, one more in the total and in the counters it is for. *)
LEMMA CountGrows ==
    ASSUME NEW s, IsFiniteSet(s), NEW x, x \notin s, NEW I
    PROVE  Grows(I, s, x)
<1>1. ASSUME NEW c \in BOOLEAN, NEW t \in SUBSET s, NEW u,
             u = IF c THEN t \union {x} ELSE t
      PROVE  Cardinality(u) = Cardinality(t) + One(c)
  <2>1. IsFiniteSet(t) /\ x \notin t
    BY FS_Subset
  <2>2. Cardinality(t) \in Nat
    BY <2>1, FS_CardinalityType
  <2>3. CASE c
    BY <1>1, <2>1, <2>3, FS_AddElement DEF One
  <2>4. CASE ~c
    BY <1>1, <2>2, <2>4 DEF One
  <2> QED
    BY <2>3, <2>4
<1>2. Cardinality(s \union {x}) = Cardinality(s) + 1
  BY FS_AddElement
<1>3. Cardinality(Ups(I, s \union {x})) = Cardinality(Ups(I, s)) + One(isUp(I[x]))
  <2> DEFINE c == isUp(I[x])
  <2>1. Ups(I, s) \in SUBSET s /\ c \in BOOLEAN
    BY DEF Ups, isUp
  <2>2. Ups(I, s \union {x}) = IF c THEN Ups(I, s) \union {x} ELSE Ups(I, s)
    BY DEF Ups
  <2> HIDE DEF c
  <2>3. Cardinality(Ups(I, s \union {x})) = Cardinality(Ups(I, s)) + One(c)
    BY <1>1, <2>1, <2>2
  <2> QED
    BY <2>3 DEF c
<1>4. Cardinality(BlocksBut(I, s \union {x})) =
         Cardinality(BlocksBut(I, s)) + One(~isUp(I[x]) /\ I[x].blocked)
  <2> DEFINE c == ~isUp(I[x]) /\ I[x].blocked
  <2>1. BlocksBut(I, s) \in SUBSET s /\ c \in BOOLEAN
    BY DEF BlocksBut
  <2>2. BlocksBut(I, s \union {x}) =
           IF c THEN BlocksBut(I, s) \union {x} ELSE BlocksBut(I, s)
    BY DEF BlocksBut
  <2> HIDE DEF c
  <2>3. Cardinality(BlocksBut(I, s \union {x})) = Cardinality(BlocksBut(I, s)) + One(c)
    BY <1>1, <2>1, <2>2
  <2> QED
    BY <2>3 DEF c
<1>5. Cardinality(Downs(I, s \union {x})) =
         Cardinality(Downs(I, s)) + One(~isUp(I[x]) /\ ~I[x].blocked)
  <2> DEFINE c == ~isUp(I[x]) /\ ~I[x].blocked
  <2>1. Downs(I, s) \in SUBSET s /\ c \in BOOLEAN
    BY DEF Downs
  <2>2. Downs(I, s \union {x}) = IF c THEN Downs(I, s) \union {x} ELSE Downs(I, s)
    BY DEF Downs
  <2> HIDE DEF c
  <2>3. Cardinality(Downs(I, s \union {x})) = Cardinality(Downs(I, s)) + One(c)
    BY <1>1, <2>1, <2>2
  <2> QED
    BY <2>3 DEF c
<1>6. Cardinality(Blocks(I, s \union {x})) = Cardinality(Blocks(I, s)) + One(I[x].blocked)
  <2> DEFINE c == ~ ~I[x].blocked
  <2>1. Blocks(I, s) \in SUBSET s /\ c \in BOOLEAN
    BY DEF Blocks
  <2>2. Blocks(I, s \union {x}) = IF c THEN Blocks(I, s) \union {x} ELSE Blocks(I, s)
    BY DEF Blocks
  <2>3. One(c) = One(I[x].blocked)
    BY DEF One
  <2> HIDE DEF c
  <2>4. Cardinality(Blocks(I, s \union {x})) = Cardinality(Blocks(I, s)) + One(c)
    BY <1>1, <2>1, <2>2
  <2> QED
    BY <2>3, <2>4
<1> QED
  BY <1>2, <1>3, <1>4, <1>5, <1>6 DEF Grows

(* A turn of aggregate's loop counts the instance, and nothing else.       *)
LEMMA CountCounts ==
    ASSUME NEW s, IsFiniteSet(s), NEW x, x \notin s, NEW I, NEW S
    PROVE  Count(I[x], Cards(S, I, s)) = Cards(S, I, s \union {x})
<1> DEFINE c == Cards(S, I, s)
           m == I[x].service
           k0 == I[x].version
           b == ensure(c, m)
           a == b[m]
           t == OfService(I, s, m)
           d == Cards(S, I, s \union {x})
<1>1. IsFiniteSet(t) /\ x \notin t
  BY FS_Subset DEF OfService
<1>2. DOMAIN c = S \union {I[i].service : i \in s}
  BY DEF Cards
<1>3. DOMAIN d = DOMAIN c \union {m} /\ DOMAIN b = DOMAIN c \union {m}
  BY DEF Cards, ensure
<1>4. a = CardOf(I, t)
  <2>1. CASE m \in DOMAIN c
    BY <2>1 DEF ensure, Cards
  <2>2. CASE m \notin DOMAIN c
    <3>1. t = {}
      BY <2>2, <1>2 DEF OfService
    <3>2. a = NoCard
      BY <2>2 DEF ensure
    <3> QED
      BY <3>1, <3>2, EmptyCard
  <2> QED BY <2>1, <2>2
<1> DEFINE V == a.versions
           v == IF k0 \in DOMAIN V THEN V[k0] ELSE NoVersion
           w == [up |-> v.up + One(isUp(I[x])), total |-> v.total + 1,
                 blocked |-> v.blocked + One(~isUp(I[x]) /\ I[x].blocked),
                 down |-> v.down + One(~isUp(I[x]) /\ ~I[x].blocked)]
           W == [k \in DOMAIN V \union {k0} |-> IF k = k0 THEN w ELSE V[k]]
           e == [up |-> a.up + One(isUp(I[x])), total |-> a.total + 1,
                 blocked |-> a.blocked + One(I[x].blocked), versions |-> W]
           u == OfVersion(I, t, k0)
<1>5. Count(I[x], c) = [b EXCEPT ![m] = e]
  BY DEF Count
<1> HIDE DEF c, a, b, e, W, V, v, w, t, d, u, m, k0
<1>6. /\ V = [k \in {I[i].version : i \in t} |-> VersionOf(I, OfVersion(I, t, k))]
      /\ DOMAIN V = {I[i].version : i \in t}
  BY <1>4 DEF CardOf, VersionsOf, V
<1>7. IsFiniteSet(u) /\ x \notin u
  BY <1>1, FS_Subset DEF OfVersion, u
<1>8. v = VersionOf(I, u)
  <2>1. CASE k0 \in DOMAIN V
    BY <1>6, <2>1 DEF v, u
  <2>2. CASE k0 \notin DOMAIN V
    <3>1. u = {}
      BY <2>2, <1>6 DEF OfVersion, u
    <3>2. Ups(I, u) = {} /\ BlocksBut(I, u) = {} /\ Downs(I, u) = {}
      BY <3>1 DEF Ups, BlocksBut, Downs
    <3>3. Cardinality({}) = 0
      BY FS_EmptySet
    <3> QED
      BY <2>2, <3>1, <3>2, <3>3 DEF VersionOf, NoVersion, v
  <2> QED BY <2>1, <2>2
<1>9. w = VersionOf(I, u \union {x})
  <2>1. Grows(I, u, x)
    BY <1>7, CountGrows
  <2> QED
    BY <1>8, <2>1 DEF Grows, VersionOf, w
<1>10. /\ OfVersion(I, t \union {x}, k0) = u \union {x}
       /\ \A k : k # k0 => OfVersion(I, t \union {x}, k) = OfVersion(I, t, k)
       /\ {I[i].version : i \in t \union {x}} = DOMAIN V \union {k0}
  BY <1>6 DEF OfVersion, u, k0
<1>11. W = VersionsOf(I, t \union {x})
  <2>1. ASSUME NEW k \in DOMAIN V \union {k0}
        PROVE  W[k] = VersionOf(I, OfVersion(I, t \union {x}, k))
    BY <1>6, <1>9, <1>10 DEF W
  <2> QED
    BY <1>10, <2>1 DEF W, VersionsOf
<1>12. e = CardOf(I, t \union {x})
  <2>1. Grows(I, t, x)
    BY <1>1, CountGrows
  <2>2. /\ a.up = Cardinality(Ups(I, t)) /\ a.total = Cardinality(t)
        /\ a.blocked = Cardinality(Blocks(I, t))
    BY <1>4 DEF CardOf
  <2> QED
    BY <1>11, <2>1, <2>2 DEF CardOf, Grows, e
<1>13. /\ OfService(I, s \union {x}, m) = t \union {x}
       /\ \A n : n # m => OfService(I, s \union {x}, n) = OfService(I, s, n)
  BY DEF OfService, t, m
<1>14. \A n \in DOMAIN d : d[n] = CardOf(I, OfService(I, s \union {x}, n))
  BY DEF Cards, d
<1>15. ASSUME NEW n \in DOMAIN d PROVE [b EXCEPT ![m] = e][n] = d[n]
  <2>1. CASE n = m
    BY <1>3, <1>12, <1>13, <1>14, <2>1
  <2>2. CASE n # m
    <3>1. n \in DOMAIN c /\ c[n] = CardOf(I, OfService(I, s, n))
      BY <1>3, <2>2 DEF Cards, c
    <3>2. b[n] = c[n]
      BY <1>3, <3>1 DEF ensure, b
    <3> QED
      BY <1>3, <1>13, <1>14, <2>2, <3>1, <3>2
  <2> QED BY <2>1, <2>2
<1>16. b = [n \in DOMAIN b |-> b[n]] /\ d = [n \in DOMAIN d |-> d[n]]
  BY DEF ensure, b, Cards, d
<1>17. [b EXCEPT ![m] = e] = d
  BY <1>3, <1>15, <1>16
<1> QED
  BY <1>5, <1>17 DEF c, d

(* aggregate counts the instances one by one, in any order, and comes to   *)
(* the same: each card has the sizes of the sets of instances it is about. *)
LEMMA AggregateCounts ==
    ASSUME NEW S, NEW I, IsFiniteSet(Present(I))
    PROVE  aggregate(S, I) = Cards(S, I, Present(I))
<1> DEFINE P == Present(I)
           base == [n \in S |-> NoCard]
           Folds(f) == f = [s \in SUBSET P |-> IF s = {} THEN base
                                  ELSE Count(I[Any(s)], f[s \ {Any(s)}])]
           g == [s \in SUBSET P |-> Cards(S, I, s)]
           f0 == CHOOSE f : Folds(f)
<1>1. Cards(S, I, {}) = base
  <2>1. ASSUME NEW n PROVE CardOf(I, OfService(I, {}, n)) = NoCard
    <3>1. OfService(I, {}, n) = {}
      BY DEF OfService
    <3> QED
      BY <3>1, EmptyCard
  <2>2. S \union {I[i].service : i \in {}} = S
    OBVIOUS
  <2> QED
    BY <2>1, <2>2 DEF Cards
<1>2. ASSUME NEW s \in SUBSET P, s # {}
      PROVE  Cards(S, I, s) = Count(I[Any(s)], Cards(S, I, s \ {Any(s)}))
  <2> DEFINE x == Any(s)
             t == s \ {x}
  <2>1. x \in s
    BY <1>2 DEF Any
  <2> HIDE DEF x
  <2>2. IsFiniteSet(t) /\ x \notin t /\ s = t \union {x}
    BY <2>1, FS_Subset
  <2> HIDE DEF t
  <2>3. Count(I[x], Cards(S, I, t)) = Cards(S, I, s)
    BY <2>2, CountCounts
  <2> QED
    BY <2>3 DEF x, t
<1> HIDE DEF base
<1>3. ASSUME NEW s \in SUBSET P
      PROVE  g[s] = IF s = {} THEN base ELSE Count(I[Any(s)], g[s \ {Any(s)}])
  <2>1. CASE s = {}
    BY <1>1, <2>1
  <2>2. CASE s # {}
    <3>1. s \ {Any(s)} \in SUBSET P
      OBVIOUS
    <3> QED
      BY <1>2, <2>2, <3>1
  <2> QED BY <2>1, <2>2
<1>4. Folds(g)
  <2>1. g = [s \in SUBSET P |-> g[s]]
    OBVIOUS
  <2> HIDE DEF g
  <2> QED
    BY <1>3, <2>1, Zenon
<1>5. Folds(f0)
  BY <1>4
<1> HIDE DEF f0
<1>6. \A s \in SUBSET P :
         f0[s] = IF s = {} THEN base ELSE Count(I[Any(s)], f0[s \ {Any(s)}])
  BY <1>5
<1>7. \A s \in SUBSET P : f0[s] = g[s]
  <2> HIDE DEF g
  <2>1. Alike(P, f0, g)
    BY <1>3, <1>6 DEF Alike
  <2> HIDE DEF P
  <2> QED
    BY <2>1, FoldsAgree DEF P
<1>8. aggregate(S, I) = f0[P]
  BY DEF aggregate, FoldSet, MapThenFoldSet, Any, f0, base
<1> QED
  BY <1>7, <1>8

(* A finite set is as large as its classes together.                       *)
LEMMA ClassesAddUp ==
    ASSUME NEW P, IsFiniteSet(P), NEW K, IsFiniteSet(K),
           NEW key, \A i \in P : key[i] \in K,
           NEW h, DOMAIN h = K, \A k \in K : h[k] = Cardinality({i \in P : key[i] = k})
    PROVE  SumFunction(h) = Cardinality(P)
<1> DEFINE A == [k \in K |-> {i \in P : key[i] = k}]
<1>1. \A k \in K : IsFiniteSet(A[k]) /\ h[k] = Cardinality(A[k])
  BY FS_Subset
<1>2. \A k, l \in K : k # l => A[k] \cap A[l] = {}
  OBVIOUS
<1>3. UNION {A[k] : k \in K} = P
  OBVIOUS
<1> HIDE DEF A
<1> QED
  BY <1>1, <1>2, <1>3, SumOfSizes

(* The colour says whether all, none or some of a finite set are up.       *)
LEMMA ToneTells ==
    ASSUME NEW I, NEW s, IsFiniteSet(s),
           NEW tone, tone = healthTone(Cardinality(Ups(I, s)), Cardinality(s))
    PROVE  /\ tone = "success" <=> s # {} /\ \A i \in s : isUp(I[i])
           /\ tone = "danger" <=> s # {} /\ \A i \in s : ~isUp(I[i])
<1>1. Ups(I, s) \in SUBSET s
  BY DEF Ups
<1>2. /\ Cardinality(Ups(I, s)) \in Nat /\ Cardinality(s) \in Nat
      /\ IsFiniteSet(Ups(I, s))
  BY <1>1, FS_Subset, FS_CardinalityType
<1>3. Cardinality(s) = 0 <=> s = {}
  BY FS_EmptySet
<1>4. Cardinality(Ups(I, s)) = 0 <=> Ups(I, s) = {}
  BY <1>2, FS_EmptySet
<1>5. Cardinality(Ups(I, s)) = Cardinality(s) <=> Ups(I, s) = s
  BY <1>1, FS_Subset
<1>6. /\ Ups(I, s) = s <=> \A i \in s : isUp(I[i])
      /\ Ups(I, s) = {} <=> \A i \in s : ~isUp(I[i])
  BY DEF Ups
<1>7. tone = "success" <=> s # {} /\ Ups(I, s) = s
  BY <1>2, <1>3, <1>5 DEF healthTone
<1>8. tone = "danger" <=> s # {} /\ Ups(I, s) = {}
  BY <1>2, <1>3, <1>4, <1>5 DEF healthTone
<1> QED
  BY <1>6, <1>7, <1>8

(* A version's three counters are for three kinds of its instances.        *)
LEMMA VersionAddsUp ==
    ASSUME NEW I, NEW s, IsFiniteSet(s)
    PROVE  VersionOf(I, s).up + VersionOf(I, s).blocked + VersionOf(I, s).down
              = VersionOf(I, s).total
<1> DEFINE B == BlocksBut(I, s)
           D == Downs(I, s)
<1>1. Ups(I, s) \subseteq s /\ B \subseteq s /\ D \subseteq s
  BY DEF Ups, BlocksBut, Downs
<1>2. IsFiniteSet(Ups(I, s)) /\ IsFiniteSet(B) /\ IsFiniteSet(D)
  BY <1>1, FS_Subset
<1>3. /\ Ups(I, s) \cap B = {} /\ (Ups(I, s) \union B) \cap D = {}
      /\ (Ups(I, s) \union B) \union D = s
  BY DEF Ups, BlocksBut, Downs
<1> HIDE DEF B, D
<1>4. /\ Cardinality(Ups(I, s)) \in Nat /\ Cardinality(B) \in Nat
      /\ Cardinality(D) \in Nat
  BY <1>2, FS_CardinalityType
<1>5. /\ IsFiniteSet(Ups(I, s) \union B)
      /\ Cardinality(Ups(I, s) \union B) = Cardinality(Ups(I, s)) + Cardinality(B)
  BY <1>2, <1>3, Disjoint
<1>6. Cardinality(s) = Cardinality(Ups(I, s) \union B) + Cardinality(D)
  BY <1>2, <1>3, <1>5, Disjoint
<1>7. Cardinality(Ups(I, s)) + Cardinality(B) + Cardinality(D) = Cardinality(s)
  BY <1>4, <1>5, <1>6
<1> QED
  BY <1>7 DEF VersionOf, B, D

\* What CardsAddUp says of one card a, that of the instances in mine.
CardAddsUp(I, a, mine) ==
    /\ Total(SvcCard(a).rows, "total") = a.total
    /\ Total(SvcCard(a).rows, "up") = a.up
    /\ \A k \in DOMAIN a.versions :
          a.versions[k].up + a.versions[k].blocked + a.versions[k].down
             = a.versions[k].total
    /\ SvcCard(a).tone = "success" <=>
          mine # {} /\ \A i \in mine : I[i].up /\ ~I[i].blocked
    /\ SvcCard(a).tone \in {"success", "danger"} =>
          \A k \in DOMAIN SvcCard(a).rows : SvcCard(a).rows[k].tone = SvcCard(a).tone

(* A card adds up when its counters are the sizes of what they count.      *)
LEMMA OneCardAddsUp ==
    ASSUME NEW I, NEW mine, IsFiniteSet(mine), NEW a, a = CardOf(I, mine)
    PROVE  CardAddsUp(I, a, mine)
<1> DEFINE K == {I[i].version : i \in mine}
           R == SvcCard(a).rows
<1>1. IsFiniteSet(K)
  <2> DEFINE f == [i \in mine |-> I[i].version]
  <2>1. f \in Surjection(mine, K)
    BY DEF Surjection
  <2> HIDE DEF f, K
  <2> QED
    BY <2>1, FS_Surjection
<1>2. a.versions = VersionsOf(I, mine) /\ a.total = Cardinality(mine)
      /\ a.up = Cardinality(Ups(I, mine))
  BY DEF CardOf
<1>3. /\ DOMAIN a.versions = K
      /\ \A k \in K : a.versions[k] = VersionOf(I, OfVersion(I, mine, k))
  BY <1>2 DEF VersionsOf
<1> HIDE DEF K
<1>4. /\ DOMAIN R = K
      /\ \A k \in K : R[k] = VersionRow(VersionOf(I, OfVersion(I, mine, k)))
  BY <1>3 DEF SvcCard
<1>5. \A k \in K : /\ R[k].total = Cardinality(OfVersion(I, mine, k))
                   /\ R[k].up = Cardinality(Ups(I, OfVersion(I, mine, k)))
                   /\ R[k].tone = healthTone(R[k].up, R[k].total)
  <2> TAKE k \in K
  <2>1. PICK v : v = VersionOf(I, OfVersion(I, mine, k))
    OBVIOUS
  <2>2. /\ v.total = Cardinality(OfVersion(I, mine, k))
        /\ v.up = Cardinality(Ups(I, OfVersion(I, mine, k)))
    BY <2>1 DEF VersionOf
  <2>3. R[k] = VersionRow(v)
    BY <1>4, <2>1
  <2>4. VersionRow(v).total = v.total /\ VersionRow(v).up = v.up
    BY DEF VersionRow
  <2>5. VersionRow(v).tone = healthTone(v.up, v.total)
    BY DEF VersionRow
  <2> QED
    BY <2>2, <2>3, <2>4, <2>5
<1> HIDE DEF R
<1>6. \A k \in K : OfVersion(I, mine, k) \in SUBSET mine /\ OfVersion(I, mine, k) # {}
  BY DEF OfVersion, K
<1>7. \A k \in K : IsFiniteSet(OfVersion(I, mine, k))
  BY <1>6, FS_Subset
<1>8. Total(R, "total") = a.total
  <2> DEFINE key == [i \in mine |-> I[i].version]
             h == [k \in DOMAIN R |-> R[k]["total"]]
  <2>1. \A i \in mine : key[i] \in K
    BY DEF K
  <2>2. \A k \in K : OfVersion(I, mine, k) = {i \in mine : key[i] = k}
    BY DEF OfVersion
  <2>3. DOMAIN h = K /\ \A k \in K : h[k] = Cardinality(OfVersion(I, mine, k))
    BY <1>4, <1>5
  <2>4. \A k \in K : h[k] = Cardinality({i \in mine : key[i] = k})
    BY <2>2, <2>3
  <2>5. Total(R, "total") = SumFunction(h)
    BY DEF Total
  <2> HIDE DEF key, h
  <2> QED
    BY <1>1, <1>2, <2>1, <2>3, <2>4, <2>5, ClassesAddUp
<1>9. Total(R, "up") = a.up
  <2> DEFINE U == Ups(I, mine)
             key == [i \in U |-> I[i].version]
             h == [k \in DOMAIN R |-> R[k]["up"]]
  <2>1. U \subseteq mine /\ IsFiniteSet(U)
    BY FS_Subset DEF Ups
  <2>2. \A i \in U : key[i] \in K
    BY <2>1 DEF K
  <2>3. \A k \in K : Ups(I, OfVersion(I, mine, k)) = {i \in U : key[i] = k}
    BY DEF OfVersion, Ups
  <2>4. DOMAIN h = K /\ \A k \in K : h[k] = Cardinality(Ups(I, OfVersion(I, mine, k)))
    BY <1>4, <1>5
  <2>5. \A k \in K : h[k] = Cardinality({i \in U : key[i] = k})
    BY <2>3, <2>4
  <2>6. Total(R, "up") = SumFunction(h)
    BY DEF Total
  <2> HIDE DEF key, h
  <2>7. Total(R, "up") = Cardinality(U)
    <3> HIDE DEF U
    <3> QED
      BY <1>1, <2>1, <2>2, <2>4, <2>5, <2>6, ClassesAddUp
  <2> QED
    BY <1>2, <2>7
<1>10. ASSUME NEW k \in K
       PROVE  a.versions[k].up + a.versions[k].blocked + a.versions[k].down
                = a.versions[k].total
  BY <1>3, <1>7, VersionAddsUp
<1>11. PICK tone : tone = SvcCard(a).tone
  OBVIOUS
<1>12. tone = healthTone(Cardinality(Ups(I, mine)), Cardinality(mine))
  BY <1>2, <1>11 DEF SvcCard
<1>13. /\ tone = "success" <=> mine # {} /\ \A i \in mine : isUp(I[i])
       /\ tone = "danger" <=> mine # {} /\ \A i \in mine : ~isUp(I[i])
  BY <1>12, ToneTells
<1>14. ASSUME NEW k \in K, tone \in {"success", "danger"} PROVE R[k].tone = tone
  <2> DEFINE t == R[k].tone
             s == OfVersion(I, mine, k)
  <2>1. t = healthTone(Cardinality(Ups(I, s)), Cardinality(s))
    BY <1>5
  <2>2. s \in SUBSET mine /\ s # {} /\ IsFiniteSet(s)
    BY <1>6, <1>7
  <2> HIDE DEF t, s
  <2>3. /\ t = "success" <=> s # {} /\ \A i \in s : isUp(I[i])
        /\ t = "danger" <=> s # {} /\ \A i \in s : ~isUp(I[i])
    BY <2>1, <2>2, ToneTells
  <2>4. t = tone
    BY <1>13, <1>14, <2>2, <2>3
  <2> QED
    BY <2>4 DEF t
<1>15. \A k \in DOMAIN R : tone \in {"success", "danger"} => R[k].tone = tone
  BY <1>4, <1>14
<1>16. tone = "success" <=> mine # {} /\ \A i \in mine : I[i].up /\ ~I[i].blocked
  BY <1>13 DEF isUp
<1>17. Total(SvcCard(a).rows, "total") = a.total /\ Total(SvcCard(a).rows, "up") = a.up
  BY <1>8, <1>9 DEF R
<1>18. \A k \in DOMAIN SvcCard(a).rows :
          tone \in {"success", "danger"} => SvcCard(a).rows[k].tone = tone
  BY <1>15 DEF R
<1> QED
  BY <1>3, <1>10, <1>11, <1>16, <1>17, <1>18 DEF CardAddsUp

(* Of any finite lists, read at whatever times, the cards add up.          *)
LEMMA FiniteListsAddUp ==
    ASSUME IsFiniteSet(dash.services), IsFiniteSet(Present(dash.instances))
    PROVE  CardsAddUp
<1> DEFINE I == dash.instances
           P == Present(I)
           N == dash.services \union {I[i].service : i \in P}
<1>1. aggs = Cards(dash.services, I, P)
  BY AggregateCounts DEF aggs
<1>2. DOMAIN aggs = N /\ \A n \in N : aggs[n] = CardOf(I, OfService(I, P, n))
  BY <1>1 DEF Cards
<1>3. IsFiniteSet(N)
  <2> DEFINE f == [i \in P |-> I[i].service]
  <2>1. f \in Surjection(P, {I[i].service : i \in P})
    BY DEF Surjection
  <2> HIDE DEF f
  <2>2. IsFiniteSet({I[i].service : i \in P})
    BY <2>1, FS_Surjection
  <2> QED
    BY <2>2, FS_Union
<1> HIDE DEF I, P, N
<1>4. IsFiniteSet(P)
  BY DEF P, I
<1>5. Total(aggs, "total") = Cardinality(P)
  <2> DEFINE key == [i \in P |-> I[i].service]
             h == [n \in DOMAIN aggs |-> aggs[n]["total"]]
  <2>1. \A i \in P : key[i] \in N
    BY DEF N
  <2>2. \A n \in N : OfService(I, P, n) = {i \in P : key[i] = n}
    BY DEF OfService
  <2>3. DOMAIN h = N /\ \A n \in N : h[n] = Cardinality(OfService(I, P, n))
    BY <1>2 DEF CardOf
  <2>4. \A n \in N : h[n] = Cardinality({i \in P : key[i] = n})
    BY <2>2, <2>3
  <2>5. Total(aggs, "total") = SumFunction(h)
    BY DEF Total
  <2> HIDE DEF key, h
  <2> QED
    BY <1>3, <1>4, <2>1, <2>3, <2>4, <2>5, ClassesAddUp
<1>6. Total(aggs, "up") = totals.up
  <2> DEFINE U == Ups(I, P)
             key == [i \in U |-> I[i].service]
             h == [n \in DOMAIN aggs |-> aggs[n]["up"]]
  <2>1. U \subseteq P /\ IsFiniteSet(U)
    BY <1>4, FS_Subset DEF Ups
  <2>2. \A i \in U : key[i] \in N
    BY <2>1 DEF N
  <2>3. \A n \in N : Ups(I, OfService(I, P, n)) = {i \in U : key[i] = n}
    BY DEF OfService, Ups
  <2>4. DOMAIN h = N /\ \A n \in N : h[n] = Cardinality(Ups(I, OfService(I, P, n)))
    BY <1>2 DEF CardOf
  <2>5. \A n \in N : h[n] = Cardinality({i \in U : key[i] = n})
    BY <2>3, <2>4
  <2>6. Total(aggs, "up") = SumFunction(h)
    BY DEF Total
  <2>7. totals.up = Cardinality(U)
    BY DEF totals, Ups, I, P
  <2> HIDE DEF key, h, U
  <2> QED
    BY <1>3, <2>1, <2>2, <2>4, <2>5, <2>6, <2>7, ClassesAddUp
<1>7. ASSUME NEW n \in N PROVE CardAddsUp(I, aggs[n], OfService(I, P, n))
  <2>1. IsFiniteSet(OfService(I, P, n))
    BY <1>4, FS_Subset DEF OfService
  <2> QED
    BY <1>2, <2>1, OneCardAddsUp
<1>8. \A n \in N : OfService(I, P, n) = {i \in P : I[i].service = n}
  BY DEF OfService
<1>9. \A n \in DOMAIN aggs : CardAddsUp(I, aggs[n], {i \in P : I[i].service = n})
  BY <1>2, <1>7, <1>8
<1>10. DOMAIN aggs = dash.services \union {I[i].service : i \in P}
  BY <1>2 DEF N
<1> QED
  BY <1>5, <1>6, <1>9, <1>10 DEF CardsAddUp, CardAddsUp, I, P

-----------------------------------------------------------------------------
\* An answer that has come is a finite list, of the server's at some time.
GoodJob(j) ==
    /\ "kind" \in DOMAIN j
    /\ j.kind \in {"fast", "slow"} =>
          /\ DOMAIN j = {"kind", "st", "got"}
          /\ j.st = "read" => IF j.kind = "fast" THEN IsFiniteSet(Present(j.got))
                                                 ELSE IsFiniteSet(j.got)

\* What the dashboard has is finite.
Drawn(d) ==
    \/ d = None
    \/ /\ DOMAIN d = {"services", "instances", "loading", "timer"}
       /\ IsFiniteSet(d.services) /\ IsFiniteSet(Present(d.instances))

CatalogueFinite ==
    /\ insts = [i \in Id |-> insts[i]] /\ IsFiniteSet(Present(insts))
    /\ IsFiniteSet(svcs)

\* The server's lists are finite, and so is every copy of them.
ListsInv ==
    /\ CatalogueFinite
    /\ \A j \in jobs : GoodJob(j)
    /\ Drawn(dash)

(* New requests of any page.                                               *)
LEMMA GoodRequests ==
    /\ \A k : GoodJob(Fetch(k))
    /\ \A k, t : k \notin {"fast", "slow"} => GoodJob(Request(k, t))
    /\ \A f : GoodJob(Log(f))
BY DEF GoodJob, Fetch, Request, Log

(* A request for something else is good whatever becomes of it.            *)
LEMMA OtherRequests ==
    ASSUME NEW j, GoodJob(j), j.kind \notin {"fast", "slow"}
    PROVE  /\ \A v : GoodJob([j EXCEPT !.st = v])
           /\ \A v, w : GoodJob([j EXCEPT !.st = v, !.got = w])
           /\ \A v : GoodJob([j EXCEPT !.left = v])
           /\ \A v, w : GoodJob([j EXCEPT !.at = v, !.st = w])
           /\ \A v : GoodJob([j EXCEPT !.here = v])
BY DEF GoodJob

(* An answer with a finite list is shown, or finds no dashboard.           *)
LEMMA DrawnStays ==
    ASSUME NEW d, Drawn(d)
    PROVE  /\ \A I : IsFiniteSet(Present(I)) => Drawn([d EXCEPT !.instances = I])
           /\ \A S : IsFiniteSet(S) => Drawn([d EXCEPT !.services = S, !.loading = FALSE])
           /\ Drawn([d EXCEPT !.loading = FALSE])
<1>1. CASE d = None
  <2>1. /\ \A I : [d EXCEPT !.instances = I] = None
        /\ \A S : [d EXCEPT !.services = S, !.loading = FALSE] = None
        /\ [d EXCEPT !.loading = FALSE] = None
    BY <1>1 DEF None
  <2> QED
    BY <2>1 DEF Drawn
<1>2. CASE d # None
  BY <1>2 DEF Drawn
<1> QED
  BY <1>1, <1>2

(* Initially nothing but the services is there.                            *)
LEMMA ListsInit == ConsoleInit => ListsInv
<1> SUFFICES ASSUME PagesInit, dash = None PROVE ListsInv
  BY DEF ConsoleInit
<1>1. insts = [i \in Id |-> insts[i]] /\ Present(insts) = {}
  BY DEF PagesInit, Present
<1>2. IsFiniteSet(Present(insts)) /\ IsFiniteSet(svcs)
  BY <1>1, FS_EmptySet, PagesAssumption DEF PagesInit
<1> QED
  BY <1>1, <1>2 DEF ListsInv, CatalogueFinite, PagesInit, Drawn

(* Whoever changes the catalogue changes one service or one instance, or   *)
(* takes some away.                                                        *)
LEMMA CatalogueStaysFinite ==
    ASSUME ListsInv
    PROVE  /\ \A n : PutService(n) \/ DeleteService(n) => CatalogueFinite'
           /\ \A i : DeleteInstance(i) => CatalogueFinite'
           /\ \A i, r : PutInstance(i, r) => CatalogueFinite'
<1> USE DEF CatalogueFinite
<1>0. insts = [i \in Id |-> insts[i]] /\ IsFiniteSet(Present(insts)) /\ IsFiniteSet(svcs)
  BY DEF ListsInv
<1>1. ASSUME NEW n, PutService(n) PROVE CatalogueFinite'
  BY <1>0, <1>1, FS_AddElement DEF PutService
<1>2. ASSUME NEW n, DeleteService(n) PROVE CatalogueFinite'
  <2>1. insts' = [i \in Id |-> insts'[i]] /\ Present(insts') \in SUBSET Present(insts)
    BY <1>2 DEF DeleteService, Present
  <2>2. svcs' \in SUBSET svcs
    BY <1>2 DEF DeleteService
  <2> QED
    BY <1>0, <2>1, <2>2, FS_Subset
<1>3. ASSUME NEW i, DeleteInstance(i) PROVE CatalogueFinite'
  <2>1. insts' = [k \in Id |-> insts'[k]] /\ Present(insts') \in SUBSET Present(insts)
    BY <1>0, <1>3 DEF DeleteInstance, Present
  <2> QED
    BY <1>0, <1>3, <2>1, FS_Subset DEF DeleteInstance
<1>4. ASSUME NEW i, NEW r, PutInstance(i, r) PROVE CatalogueFinite'
  <2>1. /\ insts' = [k \in Id |-> insts'[k]]
        /\ Present(insts') \in SUBSET (Present(insts) \union {i})
    BY <1>0, <1>4 DEF PutInstance, Present
  <2>2. IsFiniteSet(Present(insts) \union {i}) /\ IsFiniteSet(svcs \union {r.service})
    BY <1>0, FS_AddElement
  <2>3. IsFiniteSet(Present(insts'))
    BY <2>1, <2>2, FS_Subset
  <2> QED
    BY <1>4, <2>1, <2>2, <2>3 DEF PutInstance
<1> QED
  BY <1>1, <1>2, <1>3, <1>4

(* The part of the invariant that is about requests, and the rest.         *)
LEMMA GoodSteps ==
    ASSUME ListsInv, CatalogueFinite', Drawn(dash)',
           \A j \in jobs' : j \in jobs \/ GoodJob(j)
    PROVE  ListsInv'
BY DEF ListsInv

(* The dashboard's own steps.                                              *)
LEMMA DashboardKeepsLists ==
    ASSUME ListsInv, DashboardNext
    PROVE  ListsInv'
<1>1. CatalogueFinite' /\ Drawn(dash)
  BY DEF ListsInv, CatalogueFinite, DashboardNext, Tick, DashboardEvent, AnswerFast,
         AnswerSlow, FastFails, SlowFails, catalogue
<1>2. CASE Tick \/ DashboardEvent
  BY <1>1, <1>2, GoodRequests, GoodSteps DEF Tick, DashboardEvent, Send
<1>3. ASSUME NEW j \in jobs, AnswerFast(j) PROVE ListsInv'
  <2>1. IsFiniteSet(Present(j.got))
    BY <1>3 DEF AnswerFast, ListsInv, GoodJob
  <2>2. Drawn(dash)' /\ jobs' \subseteq jobs
    BY <1>1, <1>3, <2>1, DrawnStays DEF AnswerFast
  <2> QED
    BY <1>1, <2>2, GoodSteps
<1>4. ASSUME NEW j \in jobs, AnswerSlow(j) PROVE ListsInv'
  <2>1. IsFiniteSet(j.got)
    BY <1>4 DEF AnswerSlow, ListsInv, GoodJob
  <2>2. Drawn(dash)' /\ jobs' \subseteq jobs
    BY <1>1, <1>4, <2>1, DrawnStays DEF AnswerSlow
  <2> QED
    BY <1>1, <2>2, GoodSteps
<1>5. ASSUME NEW j \in jobs, FastFails(j) PROVE ListsInv'
  BY <1>1, <1>5, GoodSteps DEF FastFails
<1>6. ASSUME NEW j \in jobs, SlowFails(j) PROVE ListsInv'
  <2>1. Drawn(dash)' /\ jobs' \subseteq jobs
    BY <1>1, <1>6, DrawnStays DEF SlowFails
  <2> QED
    BY <1>1, <2>1, GoodSteps
<1> QED
  BY <1>2, <1>3, <1>4, <1>5, <1>6 DEF DashboardNext

(* The services list and its dialog, which registers a service.            *)
LEMMA ServicesKeepLists ==
    ASSUME ListsInv, ServicesNext, UNCHANGED dash
    PROVE  ListsInv'
<1>1. CatalogueFinite /\ Drawn(dash)'
  BY DEF ListsInv
<1>2. \A j \in jobs : GoodJob(j)
  BY DEF ListsInv
<1>3. CASE ServicesEvent
  <2>1. CatalogueFinite' /\ \A j \in jobs' : j \in jobs \/ GoodJob(j)
    BY <1>1, <1>3, GoodRequests DEF ServicesEvent, ServicesFirst, Send, CatalogueFinite,
       catalogue
  <2> QED
    BY <1>1, <2>1, GoodSteps
<1>4. ASSUME NEW j \in jobs, AnswerList(j) PROVE ListsInv'
  <2>1. GoodJob([kind |-> "counts", left |-> j.got])
    BY DEF GoodJob
  <2>2. CatalogueFinite' /\ \A k \in jobs' : k \in jobs \/ GoodJob(k)
    BY <1>1, <1>4, <2>1 DEF AnswerList, CatalogueFinite, catalogue
  <2> QED
    BY <1>1, <2>2, GoodSteps
<1>5. ASSUME NEW j \in jobs, NEW n \in Name, CountInstances(j, n) PROVE ListsInv'
  <2>1. GoodJob([j EXCEPT !.left = @ \ {n}])
    BY <1>2, <1>5, OtherRequests DEF CountInstances
  <2>2. CatalogueFinite' /\ \A k \in jobs' : k \in jobs \/ GoodJob(k)
    BY <1>1, <1>5, <2>1 DEF CountInstances, CatalogueFinite, catalogue
  <2> QED
    BY <1>1, <2>2, GoodSteps
<1>6. ASSUME NEW j \in jobs, AnswerCounts(j) \/ ListFails(j) \/ CreateFails(j)
      PROVE  ListsInv'
  <2>1. CatalogueFinite' /\ jobs' \subseteq jobs
    BY <1>1, <1>6 DEF AnswerCounts, ListFails, CreateFails, CatalogueFinite, catalogue
  <2> QED
    BY <1>1, <2>1, GoodSteps
<1>7. ASSUME NEW j \in jobs, ServeCreate(j) PROVE ListsInv'
  <2>1. CatalogueFinite'
    <3>1. \/ \E n : PutService(n)
          \/ \E i, r : PutInstance(i, r)
          \/ UNCHANGED <<svcs, insts>>
      BY <1>7 DEF ServeCreate, catalogue
    <3> QED
      BY <1>1, <3>1, CatalogueStaysFinite DEF CatalogueFinite
  <2>2. \A s : GoodJob([j EXCEPT !.st = s])
    BY <1>2, <1>7, OtherRequests DEF ServeCreate
  <2>3. \A k \in jobs' : k \in jobs \/ GoodJob(k)
    BY <1>7, <2>2 DEF ServeCreate
  <2> QED
    BY <1>1, <2>1, <2>3, GoodSteps
<1>8. ASSUME NEW j \in jobs, AnswerCreate(j) PROVE ListsInv'
  <2>1. \A a : GoodJob([j EXCEPT !.at = a, !.st = "sent"])
    BY <1>2, <1>8, OtherRequests DEF AnswerCreate
  <2>2. \A k \in jobs' : k \in jobs \/ GoodJob(k)
    BY <1>8, <2>1, GoodRequests DEF AnswerCreate
  <2>3. CatalogueFinite'
    BY <1>1, <1>8 DEF AnswerCreate, CatalogueFinite, catalogue
  <2> QED
    BY <1>1, <2>2, <2>3, GoodSteps
<1>9. CASE create
  <2>1. \A n, D : GoodJob([kind |-> "create", name |-> n, asked |-> D,
                           at |-> "service", st |-> "sent", here |-> TRUE])
    BY DEF GoodJob
  <2>2. \A k \in jobs' : k \in jobs \/ GoodJob(k)
    BY <1>9, <2>1 DEF create, Send
  <2>3. CatalogueFinite'
    BY <1>1, <1>9 DEF create, CatalogueFinite, catalogue
  <2> QED
    BY <1>1, <2>2, <2>3, GoodSteps
<1>10. CASE UNCHANGED <<svcs, insts, jobs>>
  BY <1>1, <1>10, GoodSteps DEF CatalogueFinite
<1>11. ASSUME dialog # None,
              \/ OpenDialog \/ CancelDialog \/ CloseDialog
              \/ \E p \in Preset : pick(p)
              \/ \E n \in Chosen : TypeName(n)
              \/ \E D \in Details : TypeDetails(D)
       PROVE  UNCHANGED <<svcs, insts, jobs>>
  BY <1>11 DEF OpenDialog, CancelDialog, CloseDialog, pick, TypeName, TypeDetails, Change,
     catalogue
<1> QED
  BY <1>3, <1>4, <1>5, <1>6, <1>7, <1>8, <1>9, <1>10, <1>11 DEF ServicesNext, CreateNext

(* The three smaller pages.                                                *)
LEMMA OtherPagesKeepLists ==
    ASSUME ListsInv, OtherNext, UNCHANGED dash
    PROVE  ListsInv'
<1>1. CatalogueFinite /\ Drawn(dash)' /\ \A j \in jobs : GoodJob(j)
  BY DEF ListsInv
<1>2. CatalogueFinite'
  <2>1. UNCHANGED catalogue
    BY DEF OtherNext, ClusterTick, TypeSeed, join, NewToken, TypeToken, CancelToken,
       createToken, revoke, setFilter, OtherAnswered, AnswerMembers, AnswerJoin,
       AnswerStatic, AnswerTokens, AnswerMint, AnswerRevoke, AnswerLog, ServeOther,
       OtherFails, PeersChange, Changes, Sends, Answers
  <2> QED
    BY <1>1, <2>1 DEF CatalogueFinite, catalogue
<1>3. ASSUME NEW J, NEW o, Sends(J, o), \A k \in J : GoodJob(k) PROVE ListsInv'
  BY <1>1, <1>2, <1>3, GoodSteps DEF Sends, Send
<1>4. ASSUME NEW j, NEW J, NEW o, Answers(j, J, o), \A k \in J : GoodJob(k) PROVE ListsInv'
  BY <1>1, <1>2, <1>4, GoodSteps DEF Answers
<1>5. CASE ClusterTick \/ TypeSeed \/ join \/ TypeToken \/ CancelToken \/ createToken
  BY <1>3, <1>5, GoodRequests DEF ClusterTick, TypeSeed, join, TypeToken, CancelToken,
     createToken, Changes
<1>6. ASSUME NEW t, revoke(t) PROVE ListsInv'
  BY <1>3, <1>6, GoodRequests DEF revoke
<1>7. ASSUME NEW f, setFilter(f) PROVE ListsInv'
  BY <1>3, <1>7, GoodRequests DEF setFilter
<1>8. ASSUME NEW j \in jobs, OtherAnswered(j) PROVE ListsInv'
  BY <1>4, <1>8, GoodRequests DEF OtherAnswered, AnswerMembers, AnswerJoin, AnswerStatic,
     AnswerTokens, AnswerMint, AnswerRevoke, AnswerLog
<1>9. ASSUME NEW j \in jobs, ServeOther(j) PROVE ListsInv'
  <2>1. /\ \A v : GoodJob([j EXCEPT !.st = v])
        /\ \A v, w : GoodJob([j EXCEPT !.st = v, !.got = w])
    BY <1>1, <1>9, OtherRequests DEF ServeOther
  <2>2. PICK d : jobs' = (jobs \ {j}) \union {d} /\ GoodJob(d)
    <3>1. CASE j.kind = "members"
      BY <1>9, <2>1, <3>1 DEF ServeOther
    <3>2. CASE j.kind = "tokens"
      BY <1>9, <2>1, <3>2 DEF ServeOther
    <3>3. CASE j.kind \notin {"members", "tokens"}
      BY <1>9, <2>1, <3>3 DEF ServeOther
    <3> QED
      BY <3>1, <3>2, <3>3
  <2> QED
    BY <1>1, <1>2, <2>2, GoodSteps
<1>10. CASE NewToken \/ PeersChange \/ \E j \in jobs : OtherFails(j)
  <2>1. jobs' \subseteq jobs
    BY <1>10 DEF NewToken, PeersChange, OtherFails
  <2> QED
    BY <1>1, <1>2, <2>1, GoodSteps
<1> QED
  BY <1>5, <1>6, <1>7, <1>8, <1>9, <1>10 DEF OtherNext

(* The server answers with what it has.                                    *)
LEMMA ServerKeepsLists ==
    ASSUME ListsInv, Others \/ \E j \in jobs : Serve(j), UNCHANGED dash
    PROVE  ListsInv'
<1>1. CatalogueFinite /\ Drawn(dash)' /\ \A j \in jobs : GoodJob(j)
  BY DEF ListsInv
<1>2. CASE Others
  <2>1. CatalogueFinite'
    BY <1>2, CatalogueStaysFinite DEF Others
  <2> QED
    BY <1>1, <1>2, <2>1, GoodSteps DEF Others
<1>3. ASSUME NEW j \in jobs, Serve(j) PROVE ListsInv'
  <2> DEFINE d == [j EXCEPT !.st = "read", !.got = IF j.kind = "fast" THEN insts ELSE svcs]
             e == [j EXCEPT !.st = "refused"]
  <2>1. CatalogueFinite' /\ \A k \in jobs' : k \in jobs \/ k = d \/ k = e
    BY <1>1, <1>3 DEF Serve, CatalogueFinite, catalogue
  <2>3. GoodJob(e)
    <3>1. CASE j.kind \in {"fast", "slow"}
      BY <1>1, <1>3, <3>1 DEF GoodJob, Serve
    <3>2. CASE j.kind \notin {"fast", "slow"}
      BY <1>1, <3>2, OtherRequests
    <3> QED
      BY <3>1, <3>2
  <2>2. GoodJob(d)
    <3>1. CASE j.kind \in {"fast", "slow"}
      <4>1. /\ DOMAIN d = {"kind", "st", "got"} /\ d.kind = j.kind
            /\ d.got = IF j.kind = "fast" THEN insts ELSE svcs
        BY <1>1, <3>1 DEF GoodJob
      <4> HIDE DEF d
      <4> QED
        BY <1>1, <3>1, <4>1 DEF GoodJob, CatalogueFinite
    <3>2. CASE j.kind \notin {"fast", "slow"}
      BY <1>1, <3>2, OtherRequests
    <3> QED
      BY <3>1, <3>2
  <2> HIDE DEF d, e
  <2> QED
    BY <1>1, <2>1, <2>2, <2>3, GoodSteps
<1> QED
  BY <1>2, <1>3

(* A page that appears starts with nothing, and finds no answers.          *)
LEMMA MountKeepsLists ==
    ASSUME ListsInv, NEW p, Mounted(p), UNCHANGED catalogue
    PROVE  ListsInv'
<1>1. CatalogueFinite' /\ \A j \in jobs : GoodJob(j)
  BY DEF ListsInv, CatalogueFinite, catalogue
<1>2. Drawn(dash)'
  <2>1. Drawn(None)
    BY DEF Drawn
  <2>2. Drawn(DashboardOpen)
    <3>1. Present([i \in Id |-> None]) = {}
      BY DEF Present
    <3> QED
      BY <3>1, FS_EmptySet DEF Drawn, DashboardOpen
  <2> QED
    BY <2>1, <2>2 DEF Mounted
<1>3. \A j \in Orphans(jobs) : GoodJob(j)
  <2>1. ASSUME NEW k \in jobs, k.kind \in {"create", "join", "mint", "revoke"}
        PROVE  GoodJob([k EXCEPT !.here = FALSE])
    BY <1>1, <2>1, OtherRequests
  <2> QED
    BY <2>1 DEF Orphans
<1>4. /\ \A j \in DashboardFirst : GoodJob(j)
      /\ \A j \in ServicesFirst : GoodJob(j)
      /\ \A j \in OtherFirst(p) : GoodJob(j)
  BY GoodRequests DEF DashboardFirst, ServicesFirst, OtherFirst
<1> QED
  BY <1>1, <1>2, <1>3, <1>4, GoodSteps DEF Mounted

(* Every step keeps all lists finite.                                      *)
LEMMA ListsStep == ListsInv /\ [ConsoleNext]_consoleVars => ListsInv'
<1> SUFFICES ASSUME ListsInv, [ConsoleNext]_consoleVars PROVE ListsInv'
  OBVIOUS
<1>1. CASE SessionStep
  <2>1. CASE Mounted(Shown') /\ UNCHANGED <<catalogue, steps>>
    BY <2>1, MountKeepsLists
  <2>2. CASE UNCHANGED <<pagesVars, pageVars>>
    BY <2>2 DEF pagesVars, pageVars, catalogue, ListsInv, CatalogueFinite
  <2> QED
    BY <1>1, <2>1, <2>2 DEF SessionStep
<1>2. CASE PageStep
  BY <1>2, DashboardKeepsLists, ServicesKeepLists, OtherPagesKeepLists, ServerKeepsLists
     DEF PageStep, pageVars
<1>3. CASE UNCHANGED consoleVars
  BY <1>3 DEF consoleVars, pagesVars, pageVars, catalogue, ListsInv, CatalogueFinite
<1> QED
  BY <1>1, <1>2, <1>3 DEF ConsoleNext

(* Dashboard.tsx, aggregate: the cards account for every instance the page *)
(* knows, each once and on the card of its service, and agree with the     *)
(* totals strip and among themselves, whenever the two lists were read.    *)
THEOREM CardsAlwaysAddUp == ConsoleSpec => []CardsAddUp
<1>1. ListsInv => CardsAddUp
  <2>1. ListsInv /\ dash # None =>
           IsFiniteSet(dash.services) /\ IsFiniteSet(Present(dash.instances))
    BY DEF ListsInv, Drawn
  <2>2. dash = None => CardsAddUp
    BY DEF CardsAddUp
  <2> QED
    BY <2>1, <2>2, FiniteListsAddUp
<1>2. ConsoleInit => ListsInv
  BY ListsInit
<1>3. ListsInv /\ [ConsoleNext]_consoleVars => ListsInv'
  BY ListsStep
<1> QED
  BY <1>1, <1>2, <1>3, PTL DEF ConsoleSpec

=============================================================================
