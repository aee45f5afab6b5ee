------------------------------ MODULE NodeProofs ----------------------------
(***************************************************************************)
(* What runs on every node beside the store and replication: the watch hub *)
(* and the health checker.  For any number of connections and events and   *)
(* any buffer sizes, the hub closes each channel at most once and sends on *)
(* open channels only, and a watcher misses nothing silently.              *)
(***************************************************************************)
EXTENDS Hub, Health, TLAPS

\* A connection's channel, in the hub's view.
Sane(c) == /\ closes[c] \in {0, 1}
           /\ c \in clients => closes[c] = 0
           /\ reader[c] = "none" => c \notin clients /\ closes[c] = 0

\* HubNeverPanics is not inductive: Watch puts a client into the hub, which
\* is right only because its channel is new.
HubInv == /\ closes \in [Client -> Nat]
          /\ reader \in [Client -> {"none", "reading", "removed", "done"}]
          /\ \A c \in Client : Sane(c)

(* remove, which the broadcaster and the reader call, keeps every channel  *)
(* sane, because it tests whether the client is still there.               *)
LEMMA RemoveSane ==
    ASSUME HubInv, NEW c \in Client, Remove(c),
           reader' \in [Client -> {"none", "reading", "removed", "done"}],
           \A p \in Client : reader'[p] = "none" => reader[p] = "none"
    PROVE  HubInv'
<1>1. CASE c \in clients
  <2>1. clients' = clients \ {c} /\ closes' = [closes EXCEPT ![c] = @ + 1]
    BY <1>1 DEF Remove
  <2>2. closes[c] = 0
    BY <1>1 DEF HubInv, Sane
  <2>3. closes' \in [Client -> Nat] /\ closes'[c] = 1
    BY <2>1, <2>2 DEF HubInv
  <2>4. \A p \in Client : p # c => closes'[p] = closes[p]
    BY <2>1 DEF HubInv
  <2>5. reader[c] # "none"
    BY <1>1 DEF HubInv, Sane
  <2>6. ASSUME NEW p \in Client PROVE Sane(p)'
    <3>1. CASE p = c
      BY <2>1, <2>3, <2>5, <3>1 DEF Sane
    <3>2. CASE p # c
      BY <2>1, <2>4, <3>2 DEF HubInv, Sane
    <3> QED
      BY <3>1, <3>2
  <2> QED
    BY <2>3, <2>6 DEF HubInv
<1>2. CASE c \notin clients
  BY <1>2 DEF Remove, HubInv, Sane
<1> QED
  BY <1>1, <1>2

(* The inductive invariant holds initially, and every step of the hub, of  *)
(* the two goroutines of a connection and of the store keeps it.           *)
THEOREM HubInvariant == Spec => []HubInv
<1>1. Init => HubInv
  BY DEF Init, HubInv, Sane
<1>2. HubInv /\ [Next]_vars => HubInv'
  <2> SUFFICES ASSUME HubInv, [Next]_vars PROVE HubInv'
    OBVIOUS
  <2>1. ASSUME UNCHANGED <<clients, closes, reader>> PROVE HubInv'
    BY <2>1 DEF HubInv, Sane
  <2>2. CASE Emit
    BY <2>1, <2>2 DEF Emit, watching
  <2>3. CASE Broadcast
    BY <2>1, <2>3 DEF Broadcast
  <2>4. CASE Stop
    BY <2>1, <2>4 DEF Stop, watching
  <2>5. ASSUME NEW c \in Client, DropDead(c) PROVE HubInv'
    <3>1. Remove(c) /\ reader' = reader
      BY <2>5 DEF DropDead
    <3> QED
      BY <3>1, RemoveSane DEF HubInv
  <2>6. ASSUME NEW c \in Client, Watch(c) PROVE HubInv'
    <3>1. /\ reader' = [reader EXCEPT ![c] = "reading"]
          /\ closes' = closes /\ clients' = clients \union {c}
          /\ reader[c] = "none"
      BY <2>6 DEF Watch, Add
    <3>2. ASSUME NEW p \in Client PROVE Sane(p)'
      BY <3>1 DEF HubInv, Sane
    <3> QED
      BY <3>1, <3>2 DEF HubInv
  <2>7. ASSUME NEW c \in Client, PeerGone(c) \/ Writer(c) PROVE HubInv'
    BY <2>1, <2>7 DEF PeerGone, Writer, WriterSends, WriterEnds, watching
  <2>8. ASSUME NEW c \in Client, ReaderRemoves(c) PROVE HubInv'
    <3>1. Remove(c) /\ reader' = [reader EXCEPT ![c] = "removed"]
      BY <2>8 DEF ReaderRemoves
    <3>2. /\ reader' \in [Client -> {"none", "reading", "removed", "done"}]
          /\ \A p \in Client : reader'[p] = "none" => reader[p] = "none"
      BY <3>1 DEF HubInv
    <3> QED
      BY <3>1, <3>2, RemoveSane
  <2>9. ASSUME NEW c \in Client, ReaderCloses(c) PROVE HubInv'
    <3>1. /\ reader' = [reader EXCEPT ![c] = "done"]
          /\ closes' = closes /\ clients' = clients
      BY <2>9 DEF ReaderCloses, watching
    <3> QED
      BY <3>1 DEF HubInv, Sane
  <2>10. CASE UNCHANGED vars
    BY <2>1, <2>10 DEF vars, watching
  <2> QED
    BY <2>2, <2>3, <2>4, <2>5, <2>6, <2>7, <2>8, <2>9, <2>10 DEF Next, Reader
<1> QED
  BY <1>1, <1>2, PTL DEF Spec

(* Hub.broadcast, Hub.remove and wsReader: no double close, no send on a   *)
(* closed channel, in any interleaving.                                    *)
THEOREM NeverPanics == Spec => []HubNeverPanics
<1>1. ASSUME HubInv PROVE HubNeverPanics
  <2>1. ASSUME NEW c \in Client
        PROVE  closes[c] <= 1 /\ (c \in clients => closes[c] = 0)
    <3>1. closes[c] = 0 \/ closes[c] = 1
      BY <1>1 DEF HubInv, Sane
    <3>2. c \in clients => closes[c] = 0
      BY <1>1 DEF HubInv, Sane
    <3> QED
      BY <3>1, <3>2
  <2> QED
    BY <2>1 DEF HubNeverPanics
<1> QED
  BY <1>1, HubInvariant, PTL

-----------------------------------------------------------------------------
(* Nothing is missed silently.                                             *)

\* x is what r holds after its first k elements, or a beginning of that.
Within(x, r, k) == /\ k + Len(x) <= Len(r)
                   /\ \A j \in 1..Len(x) : x[j] = r[k + j]

(* Sequences of numbers are equal if their lengths and elements are.       *)
LEMMA SeqEqual ==
    ASSUME NEW s \in Seq(Nat), NEW t \in Seq(Nat), Len(s) = Len(t),
           \A j \in 1..Len(s) : s[j] = t[j]
    PROVE  s = t
OBVIOUS

(* A broadcast makes r longer: what was within it still is.                *)
LEMMA WithinLonger ==
    ASSUME NEW x \in Seq(Nat), NEW r \in Seq(Nat), NEW k \in Nat, NEW e \in Nat,
           Within(x, r, k)
    PROVE  Within(x, Append(r, e), k)
<1>1. /\ Len(Append(r, e)) = Len(r) + 1
      /\ \A j \in 1..Len(r) : Append(r, e)[j] = r[j]
  OBVIOUS
<1>2. ASSUME NEW j \in 1..Len(x) PROVE x[j] = Append(r, e)[k + j]
  <2>1. k + j \in 1..Len(r)
    BY DEF Within
  <2> QED
    BY <1>1, <2>1 DEF Within
<1> QED
  BY <1>1, <1>2 DEF Within

(* A client with room, whose channel x reaches to the end of r, gets the   *)
(* broadcast event and then reaches to the end again.                      *)
LEMMA WithinAppend ==
    ASSUME NEW x \in Seq(Nat), NEW r \in Seq(Nat), NEW k \in Nat, NEW e \in Nat,
           Within(x, r, k), k + Len(x) = Len(r)
    PROVE  /\ Within(Append(x, e), Append(r, e), k)
           /\ k + Len(Append(x, e)) = Len(Append(r, e))
<1>1. /\ Len(Append(x, e)) = Len(x) + 1 /\ Len(Append(r, e)) = Len(r) + 1
      /\ Append(x, e)[Len(x) + 1] = e /\ Append(r, e)[Len(r) + 1] = e
      /\ \A j \in 1..Len(x) : Append(x, e)[j] = x[j]
  OBVIOUS
<1>2. Len(x) \in Nat /\ Len(r) \in Nat
  OBVIOUS
<1>3. k + (Len(x) + 1) = Len(r) + 1 /\ Len(r) + 1 <= Len(r) + 1
  BY <1>2
<1>4. ASSUME NEW j \in 1..(Len(x) + 1) PROVE Append(x, e)[j] = Append(r, e)[k + j]
  <2>1. CASE j \in 1..Len(x)
    <3>1. x[j] = Append(r, e)[k + j]
      BY <2>1, WithinLonger DEF Within
    <3> QED
      BY <1>1, <2>1, <3>1
  <2>2. CASE j = Len(x) + 1
    BY <1>1, <1>3, <2>2
  <2>3. j \in 1..Len(x) \/ j = Len(x) + 1
    BY <1>2
  <2> QED
    BY <2>1, <2>2, <2>3
<1>5. k + Len(Append(x, e)) = Len(Append(r, e))
  BY <1>1, <1>3
<1>6. k + Len(Append(x, e)) <= Len(Append(r, e))
  BY <1>1, <1>3
<1> QED
  BY <1>1, <1>4, <1>5, <1>6 DEF Within

(* The event that the writer takes from the channel s and writes to g.     *)
LEMMA WithinMove ==
    ASSUME NEW g \in Seq(Nat), NEW s \in Seq(Nat), NEW r \in Seq(Nat), NEW k \in Nat,
           Within(g, r, k), Within(s, r, k + Len(g)), s # <<>>
    PROVE  /\ Append(g, Head(s)) \in Seq(Nat) /\ Tail(s) \in Seq(Nat)
           /\ Within(Append(g, Head(s)), r, k)
           /\ Within(Tail(s), r, k + Len(Append(g, Head(s))))
           /\ k + Len(Append(g, Head(s))) + Len(Tail(s)) = k + Len(g) + Len(s)
<1> DEFINE h == Append(g, Head(s))
           t == Tail(s)
<1>1. /\ Head(s) \in Nat /\ Head(s) = s[1] /\ Len(s) >= 1
      /\ t \in Seq(Nat) /\ Len(t) = Len(s) - 1
      /\ \A j \in 1..Len(t) : t[j] = s[j + 1]
  OBVIOUS
<1>2. /\ h \in Seq(Nat) /\ Len(h) = Len(g) + 1
      /\ h[Len(g) + 1] = s[1] /\ \A j \in 1..Len(g) : h[j] = g[j]
  BY <1>1
<1>3. s[1] = r[k + Len(g) + 1]
  BY <1>1 DEF Within
<1>4. ASSUME NEW j \in 1..Len(h) PROVE h[j] = r[k + j]
  <2>1. CASE j \in 1..Len(g)
    BY <1>2, <2>1 DEF Within
  <2>2. CASE j = Len(g) + 1
    <3>1. k + Len(g) + 1 = k + j
      BY <2>2
    <3> QED
      BY <1>2, <1>3, <2>2, <3>1
  <2>3. j \in 1..Len(g) \/ j = Len(g) + 1
    <3>1. j \in 1..(Len(g) + 1) /\ Len(g) \in Nat
      BY <1>2
    <3> QED
      BY <3>1
  <2> QED
    BY <2>1, <2>2, <2>3
<1>5. ASSUME NEW j \in 1..Len(t) PROVE t[j] = r[k + Len(h) + j]
  <2>1. j + 1 \in 1..Len(s) /\ k + Len(g) + (j + 1) = k + Len(h) + j
    BY <1>1, <1>2
  <2>2. s[j + 1] = r[k + Len(g) + (j + 1)]
    BY <2>1 DEF Within
  <2> QED
    BY <1>1, <2>1, <2>2
<1>6. k + Len(h) <= Len(r) /\ k + Len(h) + Len(t) <= Len(r)
  <2>1. Len(g) \in Nat /\ Len(s) \in Nat /\ Len(t) \in Nat /\ Len(r) \in Nat
    OBVIOUS
  <2>2. k + Len(g) + Len(s) <= Len(r)
    BY DEF Within
  <2>3. k + Len(h) + Len(t) = k + Len(g) + Len(s) /\ k + Len(h) <= k + Len(h) + Len(t)
    BY <1>1, <1>2, <2>1
  <2> QED
    BY <1>2, <2>1, <2>2, <2>3
<1>7. k + Len(h) + Len(t) = k + Len(g) + Len(s)
  BY <1>1, <1>2
<1> QED
  BY <1>1, <1>2, <1>4, <1>5, <1>6, <1>7 DEF Within

(* Within in terms of SubSeq: g begins what r holds after k elements.      *)
LEMMA WithinSubSeq ==
    ASSUME NEW g \in Seq(Nat), NEW r \in Seq(Nat), NEW k \in Nat, Within(g, r, k)
    PROVE  g = SubSeq(SubSeq(r, k + 1, Len(r)), 1, Len(g))
<1> DEFINE due == SubSeq(r, k + 1, Len(r))
<1>1. Len(r) \in Nat /\ Len(g) \in Nat /\ k + Len(g) <= Len(r)
  BY DEF Within
<1>2. /\ due \in Seq(Nat) /\ Len(due) = Len(r) - k
      /\ \A j \in 1..(Len(r) - k) : due[j] = r[k + j]
  BY <1>1
<1>3. \A j \in 1..Len(g) : g[j] = due[j]
  BY <1>1, <1>2 DEF Within
<1> HIDE DEF due
<1>4. /\ SubSeq(due, 1, Len(g)) \in Seq(Nat)
      /\ Len(SubSeq(due, 1, Len(g))) = Len(g)
      /\ \A j \in 1..Len(g) : SubSeq(due, 1, Len(g))[j] = due[j]
  <2>1. due \in Seq(Nat) /\ Len(g) \in Nat /\ Len(g) <= Len(due) /\ Len(due) \in Nat
    BY <1>1, <1>2
  <2> HIDE DEF Within
  <2> QED
    BY <2>1
<1>5. g = SubSeq(due, 1, Len(g))
  BY <1>3, <1>4, SeqEqual
<1> QED
  BY <1>5 DEF due

(* Two parts that follow each other and reach the end of r are all of it.  *)
LEMMA WithinConcat ==
    ASSUME NEW g \in Seq(Nat), NEW s \in Seq(Nat), NEW r \in Seq(Nat), NEW k \in Nat,
           Within(g, r, k), Within(s, r, k + Len(g)), k + Len(g) + Len(s) = Len(r)
    PROVE  g \o s = SubSeq(r, k + 1, Len(r))
<1> DEFINE due == SubSeq(r, k + 1, Len(r))
           all == g \o s
<1>1. /\ Len(r) \in Nat /\ Len(g) \in Nat /\ Len(s) \in Nat
      /\ Len(r) - k = Len(g) + Len(s) /\ k <= Len(r)
  OBVIOUS
<1>2. /\ due \in Seq(Nat) /\ Len(due) = Len(r) - k
      /\ \A j \in 1..(Len(r) - k) : due[j] = r[k + j]
  BY <1>1
<1>3. /\ all \in Seq(Nat) /\ Len(all) = Len(g) + Len(s)
      /\ \A j \in 1..(Len(g) + Len(s)) :
            all[j] = IF j <= Len(g) THEN g[j] ELSE s[j - Len(g)]
  OBVIOUS
<1>4. ASSUME NEW j \in 1..(Len(g) + Len(s)) PROVE all[j] = r[k + j]
  <2>1. CASE j <= Len(g)
    BY <1>1, <1>3, <2>1 DEF Within
  <2>2. CASE ~(j <= Len(g))
    <3>1. j - Len(g) \in 1..Len(s) /\ k + Len(g) + (j - Len(g)) = k + j
      BY <1>1, <2>2
    <3>2. s[j - Len(g)] = r[k + Len(g) + (j - Len(g))]
      BY <3>1 DEF Within
    <3> QED
      BY <1>3, <2>2, <3>1, <3>2
  <2> QED
    BY <2>1, <2>2
<1> HIDE DEF due, all
<1>5. all = due
  BY <1>1, <1>2, <1>3, <1>4, SeqEqual
<1> QED
  BY <1>5 DEF due, all

FlowType == /\ emitted \in Nat
            /\ sub \in Seq(Nat) /\ relayed \in Seq(Nat)
            /\ send \in [Client -> Seq(Nat)] /\ got \in [Client -> Seq(Nat)]
            /\ since \in [Client -> Nat]
            /\ reader \in [Client -> {"none", "reading", "removed", "done"}]
            /\ writer \in [Client -> {"none", "writing", "done"}]

\* The events broadcast since c joined: written, in the channel, and while c
\* is served no others.
Written(c) == Within(got[c], relayed, since[c])
Queued(c)  == Within(send[c], relayed, since[c] + Len(got[c]))
Reached(c) == since[c] + Len(got[c]) + Len(send[c])

Flow(c) == /\ Written(c)
           /\ writer[c] = "writing" => Queued(c)
           /\ writer[c] = "writing" /\ c \in clients /\ c \notin dead
                 => Reached(c) = Len(relayed)
           /\ reader[c] = "none" => /\ c \notin clients
                                    /\ send[c] = <<>> /\ got[c] = <<>>

FlowInv == FlowType /\ \A c \in Client : Flow(c)

(* A step that moves no event and adds no client keeps the flow.           *)
LEMMA QuietFlow ==
    ASSUME FlowInv, FlowType',
           UNCHANGED <<relayed, send, got, since>>,
           clients' \subseteq clients,
           \A c \in Client : c \in clients' /\ c \in dead => c \in dead',
           \A c \in Client : writer'[c] = "writing" => writer[c] = "writing",
           \A c \in Client : reader'[c] = "none" => reader[c] = "none"
    PROVE  FlowInv'
<1>1. ASSUME NEW c \in Client PROVE Flow(c)'
  BY DEF FlowInv, Flow, Reached, Written, Queued, Within
<1> QED
  BY <1>1 DEF FlowInv

(* A broadcast extends relayed by one event, and the channel of each       *)
(* client that has room by the same event.                                 *)
LEMMA BroadcastFlow == ASSUME FlowInv, Broadcast PROVE FlowInv'
<1> DEFINE ev == Head(sub)
<1>1. /\ running /\ dead = {} /\ sub # <<>> /\ sub' = Tail(sub)
      /\ relayed' = Append(relayed, ev)
      /\ dead' = Slow
      /\ UNCHANGED <<emitted, clients, reader, writer, since, got>>
      /\ send' = [c \in Client |-> IF c \in clients /\ Room(c)
                                   THEN Append(send[c], ev) ELSE send[c]]
  BY DEF Broadcast
<1>2. ev \in Nat /\ sub' \in Seq(Nat) /\ relayed \in Seq(Nat)
  BY <1>1 DEF FlowInv, FlowType
<1> HIDE DEF ev
<1>3. relayed' \in Seq(Nat)
  BY <1>1, <1>2
<1>4. send' \in [Client -> Seq(Nat)]
  BY <1>1, <1>2 DEF FlowInv, FlowType
<1>5. FlowType'
  BY <1>1, <1>2, <1>3, <1>4 DEF FlowInv, FlowType
<1>6. ASSUME NEW c \in Client PROVE Flow(c)'
  <2>1. Flow(c) /\ send[c] \in Seq(Nat) /\ got[c] \in Seq(Nat) /\ since[c] \in Nat
    BY DEF FlowInv, FlowType
  <2>2. since[c] + Len(got[c]) \in Nat
    BY <2>1
  <2>3. Written(c)'
    BY <1>1, <1>2, <2>1, WithinLonger DEF Flow, Written
  <2>4. CASE c \in clients /\ Room(c)
    <3>1. send'[c] = Append(send[c], ev) /\ reader[c] # "none"
      BY <1>1, <2>1, <2>4 DEF Flow
    <3>2. ASSUME writer[c] = "writing" PROVE Queued(c)' /\ Reached(c)' = Len(relayed')
      <4> DEFINE k == since[c] + Len(got[c])
                 x == send[c]
      <4>1. /\ Within(x, relayed, k) /\ k + Len(x) = Len(relayed)
            /\ k \in Nat /\ x \in Seq(Nat)
        BY <1>1, <2>1, <2>2, <2>4, <3>2 DEF Flow, Queued, Reached
      <4> HIDE DEF k, x
      <4>2. /\ Within(Append(x, ev), Append(relayed, ev), k)
            /\ k + Len(Append(x, ev)) = Len(Append(relayed, ev))
        BY <1>2, <4>1, WithinAppend
      <4> QED
        BY <1>1, <3>1, <4>2 DEF Queued, Reached, k, x
    <3> QED
      BY <1>1, <2>3, <3>1, <3>2 DEF Flow
  <2>5. CASE ~(c \in clients /\ Room(c))
    <3>1. send'[c] = send[c]
      BY <1>1, <2>5
    <3>2. c \in clients' => c \in dead'
      BY <1>1, <2>5 DEF Slow
    <3>3. writer[c] = "writing" => Queued(c)'
      BY <1>1, <1>2, <2>1, <2>2, <3>1, WithinLonger DEF Flow, Queued
    <3> QED
      BY <1>1, <2>1, <2>3, <3>1, <3>2, <3>3 DEF Flow
  <2> QED
    BY <2>4, <2>5
<1> QED
  BY <1>5, <1>6 DEF FlowInv

(* The writer takes the next event from the channel.                       *)
LEMMA WriterFlow ==
    ASSUME FlowInv, NEW w \in Client, NEW ok \in BOOLEAN, WriterSends(w, ok)
    PROVE  FlowInv'
<1>1. /\ writer[w] = "writing" /\ send[w] # <<>>
      /\ send' = [send EXCEPT ![w] = Tail(@)]
      /\ UNCHANGED <<emitted, sub, clients, dead, reader, relayed, since>>
  BY DEF WriterSends
<1>2. /\ Flow(w) /\ send[w] \in Seq(Nat) /\ got[w] \in Seq(Nat) /\ since[w] \in Nat
      /\ relayed \in Seq(Nat)
  BY DEF FlowInv, FlowType
<1>3. /\ Append(got[w], Head(send[w])) \in Seq(Nat) /\ Tail(send[w]) \in Seq(Nat)
      /\ Within(Append(got[w], Head(send[w])), relayed, since[w])
      /\ Within(Tail(send[w]), relayed, since[w] + Len(Append(got[w], Head(send[w]))))
      /\ since[w] + Len(Append(got[w], Head(send[w]))) + Len(Tail(send[w])) = Reached(w)
  <2> DEFINE g == got[w]
             x == send[w]
             k == since[w]
  <2>1. /\ Within(g, relayed, k) /\ Within(x, relayed, k + Len(g)) /\ x # <<>>
        /\ g \in Seq(Nat) /\ x \in Seq(Nat) /\ relayed \in Seq(Nat) /\ k \in Nat
    BY <1>1, <1>2 DEF Flow, Written, Queued
  <2> HIDE DEF g, x, k
  <2>2. /\ Append(g, Head(x)) \in Seq(Nat) /\ Tail(x) \in Seq(Nat)
        /\ Within(Append(g, Head(x)), relayed, k)
        /\ Within(Tail(x), relayed, k + Len(Append(g, Head(x))))
        /\ k + Len(Append(g, Head(x))) + Len(Tail(x)) = k + Len(g) + Len(x)
    BY <2>1, WithinMove
  <2> QED
    BY <2>2 DEF Reached, g, x, k
<1>4. reader[w] # "none"
  BY <1>1, <1>2 DEF Flow
<1>5. send'[w] = Tail(send[w]) /\ \A c \in Client : c # w => send'[c] = send[c]
  BY <1>1 DEF FlowInv, FlowType
<1>6. CASE ok
  <2>1. got' = [got EXCEPT ![w] = Append(@, Head(send[w]))] /\ writer' = writer
    BY <1>6 DEF WriterSends
  <2>2. /\ got'[w] = Append(got[w], Head(send[w]))
        /\ \A c \in Client : c # w => got'[c] = got[c]
    BY <2>1 DEF FlowInv, FlowType
  <2>3. FlowType'
    BY <1>1, <1>3, <2>1 DEF FlowInv, FlowType
  <2>4. ASSUME NEW c \in Client PROVE Flow(c)'
    <3>1. CASE c # w
      BY <1>1, <1>5, <2>1, <2>2, <3>1 DEF FlowInv, Flow, Reached, Written, Queued, Within
    <3>2. CASE c = w
      <4>1. Written(w)' /\ Queued(w)' /\ Reached(w)' = Reached(w)
        BY <1>1, <1>3, <1>5, <2>2 DEF Written, Queued, Reached, Within
      <4> QED
        BY <1>1, <1>2, <1>4, <2>1, <3>2, <4>1 DEF Flow
    <3> QED
      BY <3>1, <3>2
  <2> QED
    BY <2>3, <2>4 DEF FlowInv
<1>7. CASE ~ok
  <2>1. writer' = [writer EXCEPT ![w] = "done"] /\ got' = got
    BY <1>7 DEF WriterSends
  <2>2. /\ writer'[w] = "done"
        /\ \A c \in Client : c # w => writer'[c] = writer[c]
    BY <2>1 DEF FlowInv, FlowType
  <2>3. FlowType'
    BY <1>1, <1>3, <2>1 DEF FlowInv, FlowType
  <2>4. ASSUME NEW c \in Client PROVE Flow(c)'
    <3>1. CASE c # w
      BY <1>1, <1>5, <2>1, <2>2, <3>1 DEF FlowInv, Flow, Reached, Written, Queued, Within
    <3>2. CASE c = w
      <4>1. Written(w)'
        BY <1>1, <1>2, <2>1 DEF Flow, Written, Within
      <4> QED
        BY <1>1, <1>4, <2>2, <3>2, <4>1 DEF Flow
    <3> QED
      BY <3>1, <3>2
  <2> QED
    BY <2>3, <2>4 DEF FlowInv
<1> QED
  BY <1>6, <1>7

(* Every step of the specification keeps the flow of events to each        *)
(* watcher in order and complete.                                          *)
THEOREM FlowInvariant == Spec => []FlowInv
<1>1. Init => FlowInv
  <2> SUFFICES ASSUME Init PROVE FlowInv
    OBVIOUS
  <2>1. FlowType
    BY DEF Init, FlowType
  <2>2. ASSUME NEW c \in Client PROVE Flow(c)
    BY DEF Init, Flow, Reached, Written, Queued, Within
  <2> QED
    BY <2>1, <2>2 DEF FlowInv
<1>2. FlowInv /\ [Next]_vars => FlowInv'
  <2> SUFFICES ASSUME FlowInv, [Next]_vars PROVE FlowInv'
    OBVIOUS
  <2>0. FlowType
    BY DEF FlowInv
  <2>1. CASE Emit
    <3>1. emitted' \in Nat /\ sub' \in Seq(Nat)
      BY <2>0, <2>1 DEF Emit, FlowType
    <3>2. UNCHANGED <<clients, dead, send, reader, writer, relayed, since, got>>
      BY <2>1 DEF Emit, watching, history
    <3>3. FlowType'
      BY <2>0, <3>1, <3>2 DEF FlowType
    <3> QED
      BY <3>2, <3>3, QuietFlow
  <2>2. CASE Broadcast
    BY <2>2, BroadcastFlow
  <2>3. CASE Stop
    <3>1. /\ sub' = <<>>
          /\ UNCHANGED <<emitted, clients, dead, send, reader, writer, relayed,
                         since, got>>
      BY <2>3 DEF Stop, watching, history
    <3>2. FlowType'
      BY <2>0, <3>1 DEF FlowType
    <3> QED
      BY <3>1, <3>2, QuietFlow
  <2>4. ASSUME NEW w \in Client, DropDead(w) PROVE FlowInv'
    <3>1. /\ UNCHANGED <<emitted, sub, send, reader, writer, relayed, since, got>>
          /\ dead' = dead \ {w}
          /\ clients' = clients \ {w}
      BY <2>4 DEF DropDead, Remove, history
    <3>2. FlowType'
      BY <2>0, <3>1 DEF FlowType
    <3> QED
      BY <3>1, <3>2, QuietFlow
  <2>5. ASSUME NEW w \in Client, Watch(w) PROVE FlowInv'
    <3>1. /\ reader[w] = "none"
          /\ clients' = clients \union {w}
          /\ since' = [since EXCEPT ![w] = Len(relayed)]
          /\ reader' = [reader EXCEPT ![w] = "reading"]
          /\ writer' = [writer EXCEPT ![w] = "writing"]
          /\ UNCHANGED <<emitted, sub, dead, send, relayed, got>>
      BY <2>5 DEF Watch, Add
    <3>2. FlowType'
      BY <2>0, <3>1 DEF FlowType
    <3>3. ASSUME NEW c \in Client PROVE Flow(c)'
      <4>1. CASE c # w
        <5>1. since'[c] = since[c] /\ reader'[c] = reader[c] /\ writer'[c] = writer[c]
          BY <2>0, <3>1, <4>1 DEF FlowType
        <5>2. c \in clients' <=> c \in clients
          BY <3>1, <4>1
        <5> QED
          BY <3>1, <5>1, <5>2 DEF FlowInv, Flow, Reached, Written, Queued, Within
      <4>2. CASE c = w
        <5>1. send[c] = <<>> /\ got[c] = <<>>
          BY <3>1, <4>2 DEF FlowInv, Flow
        <5>2. since'[c] = Len(relayed) /\ reader'[c] = "reading"
          BY <2>0, <3>1, <4>2 DEF FlowType
        <5>3. Reached(c)' = Len(relayed)
          BY <2>0, <3>1, <5>1, <5>2 DEF Reached, FlowType
        <5>4. Len(relayed) \in Nat
          BY <2>0 DEF FlowType
        <5> QED
          BY <3>1, <5>1, <5>2, <5>3, <5>4 DEF Flow, Written, Queued, Within
      <4> QED
        BY <4>1, <4>2
    <3> QED
      BY <3>2, <3>3 DEF FlowInv
  <2>6. ASSUME NEW w \in Client, PeerGone(w) PROVE FlowInv'
    <3>1. UNCHANGED <<emitted, sub, clients, dead, send, reader, writer, relayed,
                      since, got>>
      BY <2>6 DEF PeerGone, watching, history
    <3>2. FlowType'
      BY <2>0, <3>1 DEF FlowType
    <3> QED
      BY <3>1, <3>2, QuietFlow
  <2>7. ASSUME NEW w \in Client, Reader(w) PROVE FlowInv'
    <3>1. /\ clients' \subseteq clients
          /\ UNCHANGED <<emitted, sub, dead, send, writer, relayed, since, got>>
          /\ \/ reader' = [reader EXCEPT ![w] = "removed"]
             \/ reader' = [reader EXCEPT ![w] = "done"]
      BY <2>7 DEF Reader, ReaderRemoves, ReaderCloses, Remove, watching, history
    <3>2. FlowType'
      BY <2>0, <3>1 DEF FlowType
    <3>3. \A c \in Client : reader'[c] = "none" => reader[c] = "none"
      BY <2>0, <3>1 DEF FlowType
    <3> QED
      BY <3>1, <3>2, <3>3, QuietFlow
  <2>8. ASSUME NEW w \in Client, NEW ok \in BOOLEAN, WriterSends(w, ok)
        PROVE  FlowInv'
    BY <2>8, WriterFlow
  <2>9. ASSUME NEW w \in Client, WriterEnds(w) PROVE FlowInv'
    <3>1. /\ UNCHANGED <<emitted, sub, clients, dead, send, reader, relayed, since,
                         got>>
          /\ writer' = [writer EXCEPT ![w] = "done"]
      BY <2>9 DEF WriterEnds, watching, history
    <3>2. FlowType' /\ \A c \in Client : writer'[c] = "writing" => writer[c] = "writing"
      BY <2>0, <3>1 DEF FlowType
    <3> QED
      BY <3>1, <3>2, QuietFlow
  <2>10. CASE UNCHANGED vars
    <3>1. UNCHANGED <<emitted, sub, clients, dead, send, reader, writer, relayed,
                      since, got>>
      BY <2>10 DEF vars, watching, history
    <3>2. FlowType'
      BY <2>0, <3>1 DEF FlowType
    <3> QED
      BY <3>1, <3>2, QuietFlow
  <2> QED
    BY <2>1, <2>2, <2>3, <2>4, <2>5, <2>6, <2>7, <2>8, <2>9, <2>10 DEF Next, Writer
<1> QED
  BY <1>1, <1>2, PTL DEF Spec

(* Hub.broadcast and wsWriter: a watcher receives, in order and without a  *)
(* gap, what the hub broadcast since it joined; a served one gets it all.  *)
THEOREM NothingMissed == Spec => []NoSilentGap
<1>1. ASSUME FlowInv PROVE NoSilentGap
  <2> SUFFICES ASSUME NEW c \in Client
               PROVE  /\ got[c] = SubSeq(Due(c), 1, Len(got[c]))
                      /\ c \in clients \ dead /\ writer[c] = "writing"
                            => got[c] \o send[c] = Due(c)
    BY DEF NoSilentGap
  <2>1. /\ Flow(c) /\ send[c] \in Seq(Nat) /\ got[c] \in Seq(Nat)
        /\ since[c] \in Nat /\ relayed \in Seq(Nat)
    BY <1>1 DEF FlowInv, FlowType
  <2>2. got[c] = SubSeq(Due(c), 1, Len(got[c]))
    BY <2>1, WithinSubSeq DEF Flow, Written, Due
  <2>3. ASSUME c \in clients \ dead, writer[c] = "writing"
        PROVE  got[c] \o send[c] = Due(c)
    <3>1. /\ Within(got[c], relayed, since[c])
          /\ Within(send[c], relayed, since[c] + Len(got[c]))
          /\ since[c] + Len(got[c]) + Len(send[c]) = Len(relayed)
      BY <2>1, <2>3 DEF Flow, Written, Queued, Reached
    <3> QED
      BY <2>1, <3>1, WithinConcat DEF Due
  <2> QED
    BY <2>2, <2>3
<1> QED
  BY <1>1, FlowInvariant, PTL

-----------------------------------------------------------------------------
(* Types and capacities.                                                   *)

Event == 1..MaxEvents

\* TypeOK, with one account: what was broadcast and what waits in the
\* subscription was emitted, so that a client joins after at most MaxEvents.
TypeInv ==
    /\ TypeOK
    /\ send \in [Client -> Seq(Event)] /\ got \in [Client -> Seq(Event)]
    /\ Len(relayed) + Len(sub) <= emitted

(* A queue with one element more, and with its first taken off.            *)
LEMMA QueueFacts ==
    ASSUME NEW S, NEW q \in Seq(S)
    PROVE  /\ Len(q) \in Nat
           /\ \A e \in S : Append(q, e) \in Seq(S) /\ Len(Append(q, e)) = Len(q) + 1
           /\ q # <<>> => /\ Head(q) \in S /\ Tail(q) \in Seq(S)
                          /\ Len(q) >= 1 /\ Len(Tail(q)) = Len(q) - 1
  OBVIOUS

(* An event that is emitted has its number, and finds room or is dropped.  *)
LEMMA EmitTyped == TypeInv /\ Emit => TypeInv'
<1> SUFFICES ASSUME TypeInv, Emit PROVE TypeInv'
  OBVIOUS
<1>1. /\ emitted < MaxEvents /\ emitted \in 0..MaxEvents /\ MaxEvents \in Nat
      /\ SubCap \in Nat
  BY HubAssumption DEF Emit, TypeInv, TypeOK
<1>2. emitted + 1 \in Event /\ emitted' = emitted + 1 /\ emitted' \in 0..MaxEvents
  BY <1>1 DEF Emit, Event
<1>3. /\ sub \in Seq(Event) /\ Len(sub) <= SubCap /\ relayed \in Seq(Event)
      /\ Len(relayed) + Len(sub) <= emitted
  BY DEF TypeInv, TypeOK, Event
<1>4. UNCHANGED <<running, clients, dead, send, closes, reader, writer, gone, relayed,
                  since, got>>
  BY DEF Emit, watching, history
<1>5. Len(sub) \in Nat /\ Len(relayed) \in Nat
  BY <1>3, QueueFacts
<1>6. /\ sub' \in Seq(Event) /\ Len(sub') <= SubCap
      /\ Len(sub') <= Len(sub) + 1 /\ Len(sub') \in Nat
  <2>1. CASE running /\ Len(sub) < SubCap
    <3>1. sub' = Append(sub, emitted + 1)
      BY <2>1 DEF Emit
    <3> QED
      BY <1>1, <1>2, <1>3, <1>5, <2>1, <3>1, QueueFacts
  <2>2. CASE ~(running /\ Len(sub) < SubCap)
    <3>1. sub' = sub
      BY <2>2 DEF Emit
    <3> QED
      BY <1>3, <1>5, <3>1
  <2> QED
    BY <2>1, <2>2
<1>7. Len(relayed') + Len(sub') <= emitted'
  <2> DEFINE m == Len(relayed)
             n == Len(sub')
             k == Len(sub)
  <2>1. m \in Nat /\ n \in Nat /\ k \in Nat /\ m + k <= emitted /\ n <= k + 1
    BY <1>3, <1>5, <1>6
  <2> HIDE DEF m, n, k
  <2>2. m + n <= emitted + 1
    BY <1>1, <2>1
  <2>3. relayed' = relayed
    BY <1>4
  <2> QED
    BY <1>2, <2>2, <2>3 DEF m, n
<1> QED
  BY <1>2, <1>4, <1>6, <1>7 DEF TypeInv, TypeOK, Event

(* A broadcast moves one event to the clients that have room.              *)
LEMMA BroadcastTyped == TypeInv /\ Broadcast => TypeInv'
<1> SUFFICES ASSUME TypeInv, Broadcast PROVE TypeInv'
  OBVIOUS
<1> DEFINE e == Head(sub)
<1>1. /\ sub \in Seq(Event) /\ sub # <<>> /\ relayed \in Seq(Event)
      /\ Len(relayed) + Len(sub) <= emitted /\ Len(sub) <= SubCap
      /\ emitted \in Nat /\ SubCap \in Nat /\ SendCap \in Nat
  BY HubAssumption DEF TypeInv, TypeOK, Event, Broadcast
<1>2. /\ sub' = Tail(sub) /\ relayed' = Append(relayed, e)
      /\ send' = [c \in Client |-> IF c \in clients /\ Room(c)
                                   THEN Append(send[c], e) ELSE send[c]]
      /\ dead' = Slow
      /\ UNCHANGED <<emitted, running, clients, closes, reader, writer, gone, since, got>>
  BY DEF Broadcast
<1>3. /\ e \in Event /\ sub' \in Seq(Event) /\ relayed' \in Seq(Event)
      /\ Len(sub) \in Nat /\ Len(sub) >= 1 /\ Len(sub') = Len(sub) - 1
      /\ Len(relayed) \in Nat /\ Len(relayed') = Len(relayed) + 1
  <2>1. e \in Event /\ Tail(sub) \in Seq(Event) /\ Len(Tail(sub)) = Len(sub) - 1
        /\ Len(sub) \in Nat /\ Len(sub) >= 1
    BY <1>1, QueueFacts
  <2> HIDE DEF e
  <2>2. Len(relayed) \in Nat /\ relayed' \in Seq(Event) /\ Len(relayed') = Len(relayed) + 1
    BY <1>1, <1>2, <2>1, QueueFacts
  <2> QED
    BY <1>2, <2>1, <2>2
<1> HIDE DEF e
<1>4. Len(relayed') + Len(sub') <= emitted' /\ Len(sub') <= SubCap
  BY <1>1, <1>2, <1>3
<1>5. ASSUME NEW c \in Client
      PROVE  send'[c] \in Seq(Event) /\ Len(send'[c]) <= SendCap
  <2>1. send[c] \in Seq(Event) /\ Len(send[c]) <= SendCap
    BY DEF TypeInv, TypeOK
  <2>2. Len(send[c]) \in Nat
    BY <2>1, QueueFacts
  <2>3. CASE c \in clients /\ Room(c)
    <3>1. send'[c] = Append(send[c], e) /\ Len(send[c]) < SendCap
      BY <1>2, <2>3 DEF Room
    <3>2. Append(send[c], e) \in Seq(Event) /\ Len(Append(send[c], e)) = Len(send[c]) + 1
      BY <1>3, <2>1, QueueFacts
    <3> QED
      BY <1>1, <2>2, <3>1, <3>2
  <2>4. CASE ~(c \in clients /\ Room(c))
    BY <1>2, <2>1, <2>4
  <2> QED
    BY <2>3, <2>4
<1>6. send' \in [Client -> Seq(Event)]
  BY <1>2, <1>5
<1>7. dead' \subseteq Client
  BY <1>2 DEF Slow, TypeInv, TypeOK
<1> QED
  BY <1>2, <1>3, <1>4, <1>5, <1>6, <1>7 DEF TypeInv, TypeOK, Event

(* The writer takes the next event from the channel.                       *)
LEMMA WriterTyped ==
    ASSUME TypeInv, NEW c \in Client, NEW ok \in BOOLEAN, WriterSends(c, ok)
    PROVE  TypeInv'
<1>1. /\ send[c] \in Seq(Event) /\ send[c] # <<>> /\ Len(send[c]) <= SendCap
      /\ got[c] \in Seq(Event) /\ SendCap \in Nat
  BY HubAssumption DEF TypeInv, TypeOK, WriterSends
<1>2. /\ Head(send[c]) \in Event /\ Tail(send[c]) \in Seq(Event)
      /\ Len(send[c]) \in Nat /\ Len(Tail(send[c])) = Len(send[c]) - 1
  BY <1>1, QueueFacts
<1>3. /\ send' = [send EXCEPT ![c] = Tail(send[c])]
      /\ UNCHANGED <<emitted, running, sub, clients, dead, closes, reader, gone,
                     relayed, since>>
  BY DEF WriterSends
<1>4. /\ send' \in [Client -> Seq(Event)]
      /\ \A d \in Client : send'[d] \in Seq(Event) /\ Len(send'[d]) <= SendCap
  <2> DEFINE t == Tail(send[c])
  <2>1. t \in Seq(Event) /\ Len(t) <= SendCap
    BY <1>1, <1>2
  <2>2. send' = [send EXCEPT ![c] = t]
    BY <1>3
  <2> HIDE DEF t
  <2> QED
    BY <2>1, <2>2 DEF TypeInv, TypeOK
<1>5. /\ got' \in [Client -> Seq(Event)]
      /\ writer' \in [Client -> {"none", "writing", "done"}]
  <2> DEFINE g == Append(got[c], Head(send[c]))
  <2>1. g \in Seq(Event)
    BY <1>1, <1>2, QueueFacts
  <2>2. \/ got' = [got EXCEPT ![c] = g] /\ writer' = writer
        \/ writer' = [writer EXCEPT ![c] = "done"] /\ got' = got
    BY DEF WriterSends
  <2> HIDE DEF g
  <2> QED
    BY <2>1, <2>2 DEF TypeInv, TypeOK
<1>6. \A d \in Client : got'[d] \in Seq(Event)
  BY <1>5
<1> QED
  BY <1>3, <1>4, <1>5, <1>6 DEF TypeInv, TypeOK, Event

(* Every step keeps types and capacities.                                  *)
LEMMA TypeKept == TypeInv /\ [Next]_vars => TypeInv'
<1> SUFFICES ASSUME TypeInv, [Next]_vars PROVE TypeInv'
  OBVIOUS
<1>1. \A c \in Client : closes[c] + 1 \in Nat
  BY DEF TypeInv, TypeOK
<1>2. Len(relayed) \in Nat /\ Len(sub) \in Nat /\ emitted \in Nat
  BY QueueFacts, HubAssumption DEF TypeInv, TypeOK, Event
<1>3. CASE Stop
  <2>1. /\ sub' = <<>> /\ running' = FALSE
        /\ UNCHANGED <<emitted, clients, dead, send, closes, reader, writer, gone,
                       relayed, since, got>>
    BY <1>3 DEF Stop, watching, history
  <2>2. Len(sub') = 0 /\ sub' \in Seq(Event)
    BY <2>1
  <2>3. Len(relayed') + Len(sub') <= emitted' /\ Len(sub') <= SubCap
    BY <1>2, <2>1, <2>2, HubAssumption DEF TypeInv
  <2> QED
    BY <2>1, <2>2, <2>3 DEF TypeInv, TypeOK, Event
<1>4. ASSUME NEW c \in Client, DropDead(c) PROVE TypeInv'
  <2>1. /\ dead' \subseteq dead /\ clients' \subseteq clients
        /\ closes' = closes \/ closes' = [closes EXCEPT ![c] = @ + 1]
        /\ UNCHANGED <<emitted, running, sub, send, reader, writer, gone, relayed,
                       since, got>>
    BY <1>4 DEF DropDead, Remove, history
  <2>2. closes' \in [Client -> Nat]
    BY <1>1, <2>1 DEF TypeInv, TypeOK
  <2> QED
    BY <2>1, <2>2 DEF TypeInv, TypeOK
<1>5. ASSUME NEW c \in Client, Watch(c) PROVE TypeInv'
  <2>1. /\ clients' = clients \union {c}
        /\ since' = [since EXCEPT ![c] = Len(relayed)]
        /\ reader' = [reader EXCEPT ![c] = "reading"]
        /\ writer' = [writer EXCEPT ![c] = "writing"]
        /\ UNCHANGED <<emitted, running, sub, dead, send, closes, gone, relayed, got>>
    BY <1>5 DEF Watch, Add
  <2>2. Len(relayed) \in 0..MaxEvents
    BY <1>2, HubAssumption DEF TypeInv, TypeOK
  <2>3. /\ since' \in [Client -> 0..MaxEvents]
        /\ reader' \in [Client -> {"none", "reading", "removed", "done"}]
        /\ writer' \in [Client -> {"none", "writing", "done"}]
    BY <2>1, <2>2 DEF TypeInv, TypeOK
  <2> QED
    BY <2>1, <2>3 DEF TypeInv, TypeOK
<1>6. ASSUME NEW c \in Client, PeerGone(c) PROVE TypeInv'
  BY <1>6 DEF PeerGone, watching, history, TypeInv, TypeOK
<1>7. ASSUME NEW c \in Client, Reader(c) PROVE TypeInv'
  <2>1. /\ clients' \subseteq clients
        /\ closes' = closes \/ closes' = [closes EXCEPT ![c] = @ + 1]
        /\ \/ reader' = [reader EXCEPT ![c] = "removed"]
           \/ reader' = [reader EXCEPT ![c] = "done"]
        /\ UNCHANGED <<emitted, running, sub, dead, send, writer, gone, relayed, since, got>>
    BY <1>7 DEF Reader, ReaderRemoves, ReaderCloses, Remove, watching, history
  <2>2. /\ closes' \in [Client -> Nat]
        /\ reader' \in [Client -> {"none", "reading", "removed", "done"}]
    BY <1>1, <2>1 DEF TypeInv, TypeOK
  <2> QED
    BY <2>1, <2>2 DEF TypeInv, TypeOK
<1>8. ASSUME NEW c \in Client, WriterEnds(c) PROVE TypeInv'
  BY <1>8 DEF WriterEnds, watching, history, TypeInv, TypeOK
<1>9. CASE UNCHANGED vars
  BY <1>9 DEF vars, watching, history, TypeInv, TypeOK
<1> QED
  BY <1>3, <1>4, <1>5, <1>6, <1>7, <1>8, <1>9, EmitTyped, BroadcastTyped, WriterTyped
  DEF Next, Writer

(* The subscription and the channels never hold more than their capacity,  *)
(* and what is recorded of events is of events the store emitted.          *)
THEOREM TypeCorrect == Spec => []TypeOK
<1>1. Init => TypeInv
  <2> SUFFICES ASSUME Init PROVE TypeInv
    OBVIOUS
  <2>1. <<>> \in Seq(Event) /\ Len(<<>>) = 0
    OBVIOUS
  <2> DEFINE q == <<>>
  <2>2. /\ sub = q /\ relayed = q /\ emitted = 0
        /\ send = [c \in Client |-> q] /\ got = [c \in Client |-> q]
    BY DEF Init
  <2>3. q \in Seq(Event) /\ Len(q) = 0
    BY <2>1
  <2> HIDE DEF q
  <2>4. /\ Len(relayed) + Len(sub) <= emitted /\ emitted \in 0..MaxEvents
        /\ Len(sub) <= SubCap /\ \A c \in Client : Len(send[c]) <= SendCap
    BY <2>2, <2>3, HubAssumption
  <2>5. since \in [Client -> 0..MaxEvents] /\ closes \in [Client -> Nat]
    BY HubAssumption DEF Init
  <2>6. /\ running \in BOOLEAN /\ clients \subseteq Client /\ dead \subseteq Client
        /\ gone \subseteq Client
        /\ reader \in [Client -> {"none", "reading", "removed", "done"}]
        /\ writer \in [Client -> {"none", "writing", "done"}]
    BY DEF Init
  <2> QED
    BY <2>2, <2>3, <2>4, <2>5, <2>6 DEF TypeInv, TypeOK, Event
<1>2. TypeInv => TypeOK
  BY DEF TypeInv
<1> QED
  BY <1>1, <1>2, TypeKept, PTL DEF Spec

-----------------------------------------------------------------------------
(* The health checker.                                                     *)

(* An age counts up to its cap.                                            *)
LEMMA Aging ==
    ASSUME NEW cap \in Nat, NEW age \in 0..cap PROVE Older(age, cap) \in 0..cap
BY DEF Older

(* Every handler leaves instances, copies and ages of their types.         *)
LEMMA HealthTyped ==
    ASSUME HealthTypeOK, [HealthNext]_healthVars
    PROVE  HealthTypeOK'
<1> USE DEF HealthTypeOK
<1>1. TTL \in Nat /\ Interval \in Nat /\ Mode \subseteq CheckMode /\ Lives \subseteq 0..TTL
  BY HealthAssumption
<1>a. "up" \in Status /\ "down" \in Status
  BY HealthAssumption
<1>c. \A sent \in Sends : sent # "" => sent \in Status
  BY HealthAssumption
<1>2. ASSUME NEW i \in Inst, inst[i] # Absent
      PROVE  /\ inst[i] \in Instance
             /\ \A st \in Status : [inst[i] EXCEPT !.status = st] \in Instance
             /\ inst[i].status \in Status
             /\ \A st \in Status :
                   [inst[i] EXCEPT !.status = st, !.age = 0] \in Instance
  <2>1. inst[i] \in Instance
    BY <1>2
  <2>2. 0 \in 0..TTL + 1
    BY <1>1
  <2> HIDE DEF HealthTypeOK
  <2> QED
    BY <2>1, <2>2 DEF Instance
<1>b. ASSUME NEW rec \in Instance PROVE Aged(rec) \in Instance
  <2>1. rec.ttl \in 0..TTL /\ rec.age \in 0..TTL + 1
    BY DEF Instance
  <2>2. Older(rec.age, rec.ttl + 1) \in 0..TTL + 1
    BY <1>1, <2>1 DEF Older
  <2> QED
    BY <2>2 DEF Aged, Instance
<1>3. ASSUME NEW i \in Inst, NEW st \in Status, SetStatus(i, st)
      PROVE  inst' \in [Inst -> Instance \union {Absent}]
  BY <1>2, <1>3 DEF SetStatus
<1>4. \A ok \in BOOLEAN : Desired(ok) \in Status
  BY <1>a DEF Desired
<1>5. ASSUME NEW copy \in Copy
      PROVE  /\ copy.of \in Instance /\ copy.ok \in BOOLEAN
             /\ \A i \in Inst : \A ok \in BOOLEAN :
                   [copy EXCEPT !.stage = "verdict", !.ok = ok] \in Copy
             /\ \A i \in Inst : Passes(i, copy.of) \in BOOLEAN
             /\ [copy EXCEPT !.of = Aged(@)] \in Copy
  <2>1. copy.of \in Instance /\ copy.of.mode \in CheckMode
    BY DEF Copy, Instance
  <2>2. \A i \in Inst : Passes(i, copy.of) \in BOOLEAN
    BY <2>1 DEF Passes, CheckMode, Expired
  <2> QED
    BY <1>b, <2>1, <2>2 DEF Copy
<1>6. CASE Pass
  <2>1. inst' \in [Inst -> Instance \union {Absent}]
    BY <1>b, <1>2, <1>6 DEF Pass
  <2>2. \A i \in Inst : Older(probed[i], Interval) \in 0..Interval
    BY <1>1, Aging
  <2>3. check' \in [Inst -> Copy \union {Absent}]
    BY <1>5, <1>6 DEF Pass
  <2>4. late' \in [Inst -> BOOLEAN]
    <3>1. PICK L : late' = [i \in Inst |-> late[i] \/ L[i]]
      <4>1. PICK L : L = [i \in Inst |->
                            \/ inst[i] # Absent /\ Silent(inst'[i])
                            \/ /\ check[i] # Absent /\ check[i].stage = "listed"
                               /\ Silent(check'[i].of)]
        OBVIOUS
      <4>2. late' = [i \in Inst |-> late[i] \/ L[i]]
        BY <1>6, <4>1, Zenon DEF Pass
      <4> QED
        BY <4>2
    <3> QED
      BY <3>1
  <2> QED
    BY <1>6, <2>1, <2>2, <2>3, <2>4 DEF Pass
<1>7. CASE Tick
  <2>1. ASSUME NEW i \in Inst, inst[i] # Absent
        PROVE  [stage |-> "listed", of |-> inst[i], ok |-> TRUE] \in Copy
    BY <1>2, <2>1 DEF Copy
  <2>2. job' \in [Inst -> Copy \union {Absent}]
    BY <1>7, <2>1 DEF Tick
  <2>3. probed' \in [Inst -> 0..Interval]
    <3>1. 0 \in 0..Interval
      BY <1>1
    <3>2. PICK P : probed' = [i \in Inst |-> IF P[i] THEN 0 ELSE probed[i]]
      <4>1. PICK P : P = [i \in Inst |->
                            /\ /\ inst[i] # Absent
                               /\ \/ inst[i].mode = "heartbeat"
                                  \/ inst[i].mode = "probe" /\ probed[i] >= Interval
                            /\ inst[i].mode = "probe"]
        OBVIOUS
      <4>2. probed' = [i \in Inst |-> IF P[i] THEN 0 ELSE probed[i]]
        BY <1>7, <4>1 DEF Tick
      <4> QED
        BY <4>2
    <3> QED
      BY <3>1, <3>2
  <2> QED
    BY <1>7, <2>2, <2>3 DEF Tick
<1>8. ASSUME NEW i \in Inst, Die(i) \/ Restart(i) PROVE HealthTypeOK'
  BY <1>8 DEF Die, Restart
<1>9. ASSUME NEW i \in Inst, NEW mode \in Mode, NEW ttl \in Lives, NEW status \in Sends,
             Register(i, mode, ttl, status)
      PROVE  HealthTypeOK'
  <2>1. PICK st \in Status, life \in 0..TTL :
           /\ inst' = [inst EXCEPT ![i] = [mode |-> mode, status |-> st,
                                           ttl |-> life, age |-> 0]]
           /\ chosen' = [chosen EXCEPT ![i] = st]
    <3>1. PICK st : /\ st = (IF status = "" THEN "up" ELSE status)
                    /\ chosen' = [chosen EXCEPT ![i] = st]
      BY <1>9 DEF Register
    <3>2. PICK life : /\ life = (IF mode = "heartbeat" THEN ttl ELSE 0)
                      /\ inst' = [inst EXCEPT ![i] = [mode |-> mode, status |-> st,
                                                      ttl |-> life, age |-> 0]]
      BY <1>9, <3>1 DEF Register
    <3>3. st \in Status
      BY <1>a, <1>c, <3>1
    <3>4. life \in 0..TTL
      BY <1>1, <3>2
    <3> QED
      BY <3>1, <3>2, <3>3, <3>4
  <2>2. PICK n : n = [mode |-> mode, status |-> st, ttl |-> life, age |-> 0]
    OBVIOUS
  <2>3. n \in Instance
    BY <1>1, <2>2 DEF Instance
  <2>4. inst' = [inst EXCEPT ![i] = n] /\ UNCHANGED <<alive, job, check, probed, late>>
    BY <1>9, <2>1, <2>2 DEF Register
  <2> QED
    BY <2>1, <2>3, <2>4
<1>10. ASSUME NEW i \in Inst, Deregister(i) PROVE HealthTypeOK'
  BY <1>10 DEF Deregister
<1>11. ASSUME NEW i \in Inst, NEW sent \in Sends, Heartbeat(i, sent)
       PROVE  HealthTypeOK'
  <2>1. Lifted(inst[i].status, sent) \in Status
    BY <1>a, <1>c, <1>2, <1>11 DEF Heartbeat, Lifted
  <2>2. [inst[i] EXCEPT !.status = Lifted(@, sent), !.age = 0] \in Instance
    BY <1>2, <1>11, <2>1 DEF Heartbeat
  <2>3. inst' \in [Inst -> Instance \union {Absent}]
    BY <1>11, <2>2 DEF Heartbeat
  <2>4. chosen' \in [Inst -> Status]
    BY <1>c, <1>11 DEF Heartbeat
  <2> QED
    BY <1>11, <2>3, <2>4 DEF Heartbeat
<1>12. ASSUME NEW i \in Inst, EvalHeartbeat(i) PROVE HealthTypeOK'
  BY <1>3, <1>a, <1>12 DEF EvalHeartbeat
<1>13. ASSUME NEW i \in Inst, Probe(i) PROVE HealthTypeOK'
  BY <1>5, <1>13 DEF Probe
<1>14. ASSUME NEW i \in Inst, EvalProbe(i) PROVE HealthTypeOK'
  BY <1>3, <1>4, <1>5, <1>14 DEF EvalProbe
<1>15. ASSUME NEW i \in Inst, CheckRead(i) PROVE HealthTypeOK'
  BY <1>2, <1>15 DEF CheckRead, Copy
<1>16. ASSUME NEW i \in Inst, CheckProbe(i) PROVE HealthTypeOK'
  BY <1>5, <1>16 DEF CheckProbe
<1>17. ASSUME NEW i \in Inst, CheckWrite(i) PROVE HealthTypeOK'
  BY <1>3, <1>4, <1>5, <1>17 DEF CheckWrite
<1>18. CASE UNCHANGED healthVars
  BY <1>18 DEF healthVars
<1> QED
  BY <1>6, <1>7, <1>8, <1>9, <1>10, <1>11, <1>12, <1>13, <1>14, <1>15, <1>16, <1>17,
     <1>18 DEF HealthNext, Work

(* HealthTypeOK holds of every reachable state; it is part of what the     *)
(* next theorem needs.                                                     *)
LEMMA HealthTypes ==
    HealthSpec => []HealthTypeOK
<1>1. HealthInit => HealthTypeOK
  <2> SUFFICES ASSUME HealthInit PROVE HealthTypeOK
    OBVIOUS
  <2>1. Interval \in Nat
    BY HealthAssumption
  <2>2. Interval \in 0..Interval
    BY <2>1
  <2> QED
    BY <2>2, HealthAssumption DEF HealthInit, HealthTypeOK
<1>2. HealthTypeOK /\ [HealthNext]_healthVars => HealthTypeOK'
  BY HealthTyped
<1> QED
  BY <1>1, <1>2, PTL DEF HealthSpec

\* What a copy in the server's hands may make of an instance.
Fair(copy, l) == copy # Absent => /\ Silent(copy.of) => l
                                  /\ ~copy.ok => l

\* DownIsDeserved is not inductive: the verdicts under way have to be
\* deserved as well, and so the copies they are taken on.
Deserved(i) == /\ inst[i] # Absent =>
                    /\ inst[i].status = "down" /\ chosen[i] # "down" => late[i]
                    /\ Silent(inst[i]) => late[i]
               /\ ~alive[i] => late[i]
               /\ Fair(job[i], late[i])
               /\ Fair(check[i], late[i])

HealthInv == \A i \in Inst : Deserved(i)

(* Each step keeps the instances' statuses, and the verdicts under way,    *)
(* deserved: late never turns back, and every verdict goes by a copy that  *)
(* was silent or by a process that did not answer.                         *)
LEMMA DeservedStays ==
    ASSUME HealthTypeOK, HealthInv, [HealthNext]_healthVars
    PROVE  HealthInv'
<1> USE DEF HealthTypeOK
<1>1. ASSUME NEW i \in Inst, UNCHANGED <<inst[i], chosen[i], late[i], alive[i], job[i], check[i]>>
      PROVE  Deserved(i)'
  BY <1>1 DEF HealthInv, Deserved, Fair, Silent
<1>2. \A rec \in Instance : rec.mode = "heartbeat" => (Expired(rec) <=> Silent(rec))
  <2>1. TTL \in Nat
    BY HealthAssumption
  <2> QED
    BY <2>1 DEF Instance, Expired, Silent
<1>3. CASE Pass
  <2> SUFFICES ASSUME NEW i \in Inst PROVE Deserved(i)'
    BY DEF HealthInv
  <2>1. /\ inst'[i] = IF inst[i] = Absent THEN Absent ELSE Aged(inst[i])
        /\ late'[i] = (\/ late[i]
                       \/ inst[i] # Absent /\ Silent(inst'[i])
                       \/ /\ check[i] # Absent /\ check[i].stage = "listed"
                          /\ Silent(check'[i].of))
        /\ check'[i] = IF check[i] # Absent /\ check[i].stage = "listed"
                       THEN [check[i] EXCEPT !.of = Aged(@)] ELSE check[i]
        /\ alive'[i] = alive[i] /\ job'[i] = job[i] /\ chosen'[i] = chosen[i]
    BY <1>3 DEF Pass
  <2> QED
    BY <2>1 DEF HealthInv, Deserved, Fair, Aged, Instance, Copy
<1>4. ASSUME NEW i \in Inst, Deserved(i)',
             \A p \in Inst \ {i} :
                 UNCHANGED <<inst[p], chosen[p], late[p], alive[p], job[p], check[p]>>
      PROVE  HealthInv'
  BY <1>1, <1>4 DEF HealthInv
<1>5. ASSUME NEW i \in Inst, NEW st, SetStatus(i, st),
             st = "down" => late[i],
             UNCHANGED <<chosen, late, alive>>,
             \A p \in Inst \ {i} : UNCHANGED <<job[p], check[p]>>,
             Fair(job[i], late[i])', Fair(check[i], late[i])'
      PROVE  HealthInv'
  <2>1. inst[i] # Absent => inst[i] \in Instance
    OBVIOUS
  <2>2. inst[i] = Absent => inst' = inst
    BY <1>5 DEF SetStatus
  <2>3. inst[i] # Absent => inst' = [inst EXCEPT ![i].status = st]
    BY <1>5 DEF SetStatus
  <2>4. Deserved(i)'
    BY <1>5, <2>1, <2>2, <2>3 DEF HealthInv, Deserved, Silent, Instance
  <2>5. \A p \in Inst \ {i} :
            UNCHANGED <<inst[p], chosen[p], late[p], alive[p], job[p], check[p]>>
    BY <1>5, <2>2, <2>3
  <2> QED
    BY <1>4, <2>4, <2>5
<1>6. CASE Tick
  <2> SUFFICES ASSUME NEW i \in Inst PROVE Deserved(i)'
    BY DEF HealthInv
  <2>1. \/ job'[i] = Absent
        \/ /\ inst[i] # Absent
           /\ job'[i] = [stage |-> "listed", of |-> inst[i], ok |-> TRUE]
    BY <1>6 DEF Tick
  <2>2. UNCHANGED <<inst, alive, check, chosen, late>>
    BY <1>6 DEF Tick
  <2> QED
    BY <2>1, <2>2 DEF HealthInv, Deserved, Fair, Silent
<1>7. ASSUME NEW i \in Inst, Die(i) \/ Restart(i) \/ Deregister(i) PROVE HealthInv'
  <2>1. Deserved(i)'
    BY <1>7 DEF Die, Restart, Deregister, HealthInv, Deserved, Fair, Silent
  <2>2. \A p \in Inst \ {i} :
            UNCHANGED <<inst[p], chosen[p], late[p], alive[p], job[p], check[p]>>
    BY <1>7 DEF Die, Restart, Deregister
  <2> QED
    BY <1>4, <2>1, <2>2
<1>8. ASSUME NEW i \in Inst, NEW mode \in Mode, NEW ttl \in Lives, NEW status \in Sends,
             Register(i, mode, ttl, status)
      PROVE  HealthInv'
  <2>1. PICK st, life :
           /\ inst' = [inst EXCEPT ![i] = [mode |-> mode, status |-> st,
                                           ttl |-> life, age |-> 0]]
           /\ chosen' = [chosen EXCEPT ![i] = st]
           /\ UNCHANGED <<alive, job, check, late>>
    BY <1>8 DEF Register
  <2>2. inst'[i].status = chosen'[i] /\ ~Silent(inst'[i])
    BY <2>1 DEF Silent
  <2>3. Deserved(i)'
    BY <2>1, <2>2 DEF HealthInv, Deserved, Fair, Silent
  <2>4. \A p \in Inst \ {i} :
            UNCHANGED <<inst[p], chosen[p], late[p], alive[p], job[p], check[p]>>
    BY <2>1
  <2> QED
    BY <1>4, <2>3, <2>4
<1>9. ASSUME NEW i \in Inst, NEW sent \in Sends, Heartbeat(i, sent) PROVE HealthInv'
  <2>1. PICK st :
           /\ st = Lifted(inst[i].status, sent)
           /\ inst' = [inst EXCEPT ![i].status = st, ![i].age = 0]
           /\ UNCHANGED <<alive, job, check, late>>
           /\ inst[i] # Absent
    BY <1>9 DEF Heartbeat
  <2>2. chosen' \in [Inst -> Status] /\ (st # "down" \/ st = chosen'[i])
        /\ \A p \in Inst \ {i} : chosen'[p] = chosen[p]
    <3>1. CASE sent = ""
      BY <1>9, <2>1, <3>1, Zenon DEF Heartbeat, Lifted
    <3>2. CASE sent # ""
      <4>1. st = sent
        BY <2>1, <3>2, Zenon DEF Lifted
      <4>2. chosen' = [chosen EXCEPT ![i] = sent]
        BY <1>9, <3>2, Zenon DEF Heartbeat
      <4>3. sent \in Status
        BY <3>2, HealthAssumption, Zenon
      <4> QED
        BY <4>1, <4>2, <4>3
    <3> QED
      BY <3>1, <3>2
  <2>3. inst[i] \in Instance
    BY <2>1
  <2>4. inst'[i] = [inst[i] EXCEPT !.status = st, !.age = 0]
    BY <2>1
  <2>5. inst'[i].status = st /\ ~Silent(inst'[i])
    BY <2>3, <2>4 DEF Silent, Instance
  <2>6. Deserved(i)'
    BY <2>1, <2>2, <2>5 DEF HealthInv, Deserved, Fair, Silent
  <2>7. \A p \in Inst \ {i} :
            UNCHANGED <<inst[p], chosen[p], late[p], alive[p], job[p], check[p]>>
    BY <2>1, <2>2
  <2> QED
    BY <1>4, <2>6, <2>7
<1>10. ASSUME NEW i \in Inst, EvalHeartbeat(i) PROVE HealthInv'
  <2>1. /\ UNCHANGED <<chosen, late, alive, check>>
        /\ job' = [job EXCEPT ![i] = Absent]
        /\ job[i] # Absent /\ job[i].of.mode = "heartbeat"
    BY <1>10 DEF EvalHeartbeat
  <2>2. job[i].of \in Instance
    BY <2>1 DEF Copy
  <2>3. Fair(job[i], late[i])' /\ Fair(check[i], late[i])'
    BY <2>1 DEF HealthInv, Deserved, Fair, Silent
  <2>4. CASE Expired(job[i].of) /\ job[i].of.status # "down"
    <3>1. SetStatus(i, "down")
      BY <1>10, <2>4 DEF EvalHeartbeat
    <3>2. late[i]
      BY <1>2, <2>1, <2>2, <2>4 DEF HealthInv, Deserved, Fair
    <3> QED
      BY <1>5, <2>1, <2>3, <3>1, <3>2
  <2>5. CASE ~(Expired(job[i].of) /\ job[i].of.status # "down")
    <3>1. inst' = inst
      BY <1>10, <2>5 DEF EvalHeartbeat
    <3>2. Deserved(i)'
      BY <2>1, <2>3, <3>1 DEF HealthInv, Deserved, Silent
    <3> QED
      BY <1>4, <2>1, <3>1, <3>2
  <2> QED
    BY <2>4, <2>5
<1>11. ASSUME NEW i \in Inst, NEW copy \in Copy, Fair(copy, late[i]), copy # Absent
       PROVE  Fair([copy EXCEPT !.stage = "verdict", !.ok = Passes(i, copy.of)], late[i])
  <2>1. copy.of \in Instance /\ copy.of.mode \in CheckMode
    BY DEF Copy, Instance
  <2>2. CASE copy.of.mode = "heartbeat"
    <3>1. ~Passes(i, copy.of) => Silent(copy.of)
      BY <1>2, <2>1, <2>2 DEF Passes
    <3> QED
      BY <1>11, <3>1 DEF Fair, Copy
  <2>3. CASE copy.of.mode = "probe"
    <3>1. ~Passes(i, copy.of) => late[i]
      BY <2>3 DEF Passes, HealthInv, Deserved
    <3> QED
      BY <1>11, <3>1 DEF Fair, Copy
  <2>4. CASE copy.of.mode = "none"
    <3>1. Passes(i, copy.of)
      BY <2>4 DEF Passes
    <3> QED
      BY <1>11, <3>1 DEF Fair, Copy
  <2> QED
    BY <2>1, <2>2, <2>3, <2>4 DEF CheckMode
<1>12. ASSUME NEW i \in Inst, Probe(i) \/ CheckProbe(i) PROVE HealthInv'
  <2>1. UNCHANGED <<inst, alive, chosen, late>>
    BY <1>12 DEF Probe, CheckProbe
  <2>2. /\ Fair(job[i], late[i])' /\ Fair(check[i], late[i])'
        /\ \A p \in Inst \ {i} : UNCHANGED <<job[p], check[p]>>
    <3>1. CASE Probe(i)
      <4>1. /\ job[i] # Absent /\ job[i] \in Copy
            /\ job'[i] = [job[i] EXCEPT !.stage = "verdict",
                                    !.ok = Passes(i, job[i].of)]
            /\ check' = check
            /\ \A p \in Inst \ {i} : job'[p] = job[p]
        BY <3>1 DEF Probe
      <4>2. Fair(job'[i], late[i])
        <5>1. Fair(job[i], late[i])
          BY DEF HealthInv, Deserved
        <5>2. Fair([job[i] EXCEPT !.stage = "verdict", !.ok = Passes(i, job[i].of)],
                   late[i])
          BY <1>11, <4>1, <5>1
        <5> QED
          BY <4>1, <5>2
      <4> QED
        BY <2>1, <4>1, <4>2 DEF HealthInv, Deserved, Fair, Silent
    <3>2. CASE CheckProbe(i)
      <4>1. /\ check[i] # Absent /\ check[i] \in Copy
            /\ check'[i] = [check[i] EXCEPT !.stage = "verdict",
                                    !.ok = Passes(i, check[i].of)]
            /\ job' = job
            /\ \A p \in Inst \ {i} : check'[p] = check[p]
        BY <3>2 DEF CheckProbe
      <4>2. Fair(check'[i], late[i])
        <5>1. Fair(check[i], late[i])
          BY DEF HealthInv, Deserved
        <5>2. Fair([check[i] EXCEPT !.stage = "verdict", !.ok = Passes(i, check[i].of)],
                   late[i])
          BY <1>11, <4>1, <5>1
        <5> QED
          BY <4>1, <5>2
      <4> QED
        BY <2>1, <4>1, <4>2 DEF HealthInv, Deserved, Fair, Silent
    <3> QED
      BY <1>12, <3>1, <3>2
  <2>3. Deserved(i)'
    BY <2>1, <2>2 DEF HealthInv, Deserved, Silent
  <2> QED
    BY <1>4, <2>1, <2>2, <2>3
<1>13. ASSUME NEW i \in Inst, EvalProbe(i) PROVE HealthInv'
  <2>1. /\ UNCHANGED <<chosen, late, alive, check>>
        /\ job' = [job EXCEPT ![i] = Absent]
        /\ job[i] # Absent
    BY <1>13 DEF EvalProbe
  <2>2. Fair(job[i], late[i])' /\ Fair(check[i], late[i])'
    BY <2>1 DEF HealthInv, Deserved, Fair, Silent
  <2>3. CASE Write(i, job[i].of, job[i].ok)
    <3>1. SetStatus(i, Desired(job[i].ok))
      BY <1>13, <2>3 DEF EvalProbe
    <3>2. Desired(job[i].ok) = "down" => late[i]
      BY <2>1 DEF HealthInv, Deserved, Fair, Desired
    <3> QED
      BY <1>5, <2>1, <2>2, <3>1, <3>2
  <2>4. CASE ~Write(i, job[i].of, job[i].ok)
    <3>1. inst' = inst
      BY <1>13, <2>4 DEF EvalProbe
    <3>2. Deserved(i)'
      BY <2>1, <2>2, <3>1 DEF HealthInv, Deserved, Silent
    <3> QED
      BY <1>4, <2>1, <3>1, <3>2
  <2> QED
    BY <2>3, <2>4
<1>14. ASSUME NEW i \in Inst, CheckRead(i) PROVE HealthInv'
  <2>1. /\ check' = [check EXCEPT ![i] = [stage |-> "listed", of |-> inst[i], ok |-> TRUE]]
        /\ UNCHANGED <<inst, alive, job, chosen, late>>
        /\ inst[i] # Absent
    BY <1>14 DEF CheckRead
  <2>2. check'[i] = [stage |-> "listed", of |-> inst[i], ok |-> TRUE]
    BY <2>1
  <2>3. Deserved(i)'
    BY <2>1, <2>2 DEF HealthInv, Deserved, Fair, Silent
  <2> QED
    BY <1>4, <2>1, <2>3
<1>15. ASSUME NEW i \in Inst, CheckWrite(i) PROVE HealthInv'
  <2>1. /\ UNCHANGED <<chosen, late, alive, job>>
        /\ check' = [check EXCEPT ![i] = Absent]
        /\ check[i] # Absent
        /\ SetStatus(i, Desired(check[i].ok))
    BY <1>15 DEF CheckWrite
  <2>2. Fair(job[i], late[i])' /\ Fair(check[i], late[i])'
    BY <2>1 DEF HealthInv, Deserved, Fair, Silent
  <2>3. Desired(check[i].ok) = "down" => late[i]
    BY <2>1 DEF HealthInv, Deserved, Fair, Desired
  <2> QED
    BY <1>5, <2>1, <2>2, <2>3
<1>16. CASE UNCHANGED healthVars
  BY <1>1, <1>16 DEF healthVars, HealthInv
<1> QED
  BY <1>3, <1>6, <1>7, <1>8, <1>9, <1>10, <1>12, <1>13, <1>14, <1>15, <1>16
     DEF HealthNext, Work

(* health.go, server.go: in every interleaving of ticks, on-demand checks, *)
(* registrations and heartbeats, and for any TTLs, an instance is down     *)
(* only if its client asked for it or it was silent or out of reach.       *)
THEOREM DownOnlyIfDeserved == HealthSpec => []DownIsDeserved
<1>1. HealthInit => HealthInv
  BY DEF HealthInit, HealthInv, Deserved, Fair
<1>2. HealthTypeOK /\ HealthInv /\ [HealthNext]_healthVars => HealthInv'
  BY DeservedStays
<1>3. HealthInv => DownIsDeserved
  BY DEF HealthInv, Deserved, DownIsDeserved
<1> QED
  BY <1>1, <1>2, <1>3, HealthTypes, PTL DEF HealthSpec
=============================================================================
