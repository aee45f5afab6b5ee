-------------------------------- MODULE Hub --------------------------------
(***************************************************************************)
(* GET /v1/watch: the fan-out of store events to WebSocket clients         *)
(* (internal/server/hub.go, watch, wsReader and wsWriter of server.go, and *)
(* the subscription of store/bolt.go that feeds it).                       *)
(*                                                                         *)
(*   emit -> subscription -> Hub.Run -> c.send -> wsWriter -> peer         *)
(*                                                                         *)
(* A connection is served by two goroutines; the broadcaster and the       *)
(* reader may both remove it from the hub, and remove closes the channel   *)
(* the broadcaster sends on and the writer receives from.  The broadcaster *)
(* holds the hub's read lock while it sends, so the set of clients does    *)
(* not change meanwhile and a broadcast is one step; what it found to be   *)
(* slow it removes afterwards, one client at a time, with the lock taken   *)
(* anew.  Who may watch is left open.                                      *)
(***************************************************************************)
EXTENDS Integers, Sequences

CONSTANTS Client,     \* connections; each is opened at most once
          MaxEvents,  \* bound on the events the store emits
          SubCap,     \* capacity of the hub's subscription (512)
          SendCap     \* capacity of a client's channel (64)

ASSUME HubAssumption == /\ MaxEvents \in Nat
                        /\ SubCap \in Nat \ {0}
                        /\ SendCap \in Nat \ {0}

VARIABLES emitted,  \* events emitted so far; an event is its number
          running,  \* is Hub.Run in its loop?
          sub,      \* the hub's subscription
          clients,  \* h.clients
          dead,     \* clients the broadcaster found slow and has to remove
          send,     \* per client: its channel
          closes,   \* per client: how often its channel was closed
          reader,   \* per client: its reader goroutine; it closes conn last
          writer,   \* per client: its writer goroutine
          gone,     \* clients whose peer hung up or stopped answering
          relayed,  \* history: the events the hub has broadcast
          since,    \* history, per client: events broadcast before it joined
          got       \* history, per client: the events written to its peer

watching == <<clients, dead, send, closes>>
history  == <<relayed, since, got>>
vars == <<emitted, running, sub, watching, reader, writer, gone, history>>

TypeOK == /\ emitted \in 0..MaxEvents
          /\ running \in BOOLEAN
          /\ sub \in Seq(1..MaxEvents) /\ Len(sub) <= SubCap
          /\ clients \subseteq Client
          /\ dead \subseteq Client
          /\ \A c \in Client : /\ send[c] \in Seq(1..MaxEvents)
                               /\ Len(send[c]) <= SendCap
          /\ closes \in [Client -> Nat]
          /\ reader \in [Client -> {"none", "reading", "removed", "done"}]
          /\ writer \in [Client -> {"none", "writing", "done"}]
          /\ gone \subseteq Client
          /\ relayed \in Seq(1..MaxEvents)
          /\ since \in [Client -> 0..MaxEvents]
          /\ \A c \in Client : got[c] \in Seq(1..MaxEvents)

Init == /\ emitted = 0
        /\ running = TRUE
        /\ sub = <<>>
        /\ clients = {}
        /\ dead = {}
        /\ send = [c \in Client |-> <<>>]
        /\ closes = [c \in Client |-> 0]
        /\ reader = [c \in Client |-> "none"]
        /\ writer = [c \in Client |-> "none"]
        /\ gone = {}
        /\ relayed = <<>>
        /\ since = [c \in Client |-> 0]
        /\ got = [c \in Client |-> <<>>]

-----------------------------------------------------------------------------
(* The store.                                                              *)

\* A full subscription drops the event; after Unsubscribe there is none.
Emit ==
    /\ emitted < MaxEvents
    /\ emitted' = emitted + 1
    /\ sub' = IF running /\ Len(sub) < SubCap THEN Append(sub, emitted + 1) ELSE sub
    /\ UNCHANGED <<running, watching, reader, writer, gone, history>>

-----------------------------------------------------------------------------
(* The hub.                                                                *)

Add(c) == /\ clients' = clients \union {c}
          /\ since' = [since EXCEPT ![c] = Len(relayed)]

\* Mutant of Remove: no test whether the client is still there.
RemoveUnchecked(c) == /\ clients' = clients \ {c}
                      /\ closes' = [closes EXCEPT ![c] = @ + 1]

Remove(c) == IF c \in clients
             THEN /\ clients' = clients \ {c}
                  /\ closes' = [closes EXCEPT ![c] = @ + 1]
             ELSE UNCHANGED <<clients, closes>>

\* Mutant of Room: one event too many.
RoomForOneMore(c) == Len(send[c]) <= SendCap

Room(c) == Len(send[c]) < SendCap

\* Mutant of Slow: a client that misses an event stays.
SlowNever == {}

Slow == {c \in clients : ~Room(c)}

\* broadcast, up to the release of the read lock.
Broadcast ==
    /\ running
    /\ dead = {}
    /\ sub # <<>>
    /\ sub' = Tail(sub)
    /\ send' = [c \in Client |-> IF c \in clients /\ Room(c)
                                 THEN Append(send[c], Head(sub)) ELSE send[c]]
    /\ dead' = Slow
    /\ relayed' = Append(relayed, Head(sub))
    /\ UNCHANGED <<emitted, running, clients, closes, reader, writer, gone,
                   since, got>>

\* broadcast's second loop; the reader may have removed the client already.
DropDead(c) ==
    /\ c \in dead
    /\ Remove(c)
    /\ dead' = dead \ {c}
    /\ UNCHANGED <<emitted, running, sub, send, reader, writer, gone, history>>

\* The server shuts down: Run returns and unsubscribes, connections stay.
Stop == /\ running
        /\ dead = {}
        /\ running' = FALSE
        /\ sub' = <<>>
        /\ UNCHANGED <<emitted, watching, reader, writer, gone, history>>

-----------------------------------------------------------------------------
(* A connection.                                                           *)

Watch(c) ==
    /\ reader[c] = "none"
    /\ Add(c)
    /\ reader' = [reader EXCEPT ![c] = "reading"]
    /\ writer' = [writer EXCEPT ![c] = "writing"]
    /\ UNCHANGED <<emitted, running, sub, dead, send, closes, gone, relayed, got>>

\* The peer closes, fails, or leaves pings unanswered.
PeerGone(c) ==
    /\ reader[c] # "none"
    /\ c \notin gone
    /\ gone' = gone \union {c}
    /\ UNCHANGED <<emitted, running, sub, watching, reader, writer, history>>

\* Mutant of ReaderRemoves: the connection is closed but stays in the hub.
ReaderRemovesNot(c) ==
    /\ reader[c] = "reading"
    /\ c \in gone \/ writer[c] = "done"
    /\ reader' = [reader EXCEPT ![c] = "removed"]
    /\ UNCHANGED <<emitted, running, sub, watching, writer, gone, history>>

\* NextReader fails: the peer is gone, or no ping was sent for so long (the
\* writer has ended) that the read deadline of 60 seconds passed.
ReaderRemoves(c) ==
    /\ reader[c] = "reading"
    /\ c \in gone \/ writer[c] = "done"
    /\ Remove(c)
    /\ reader' = [reader EXCEPT ![c] = "removed"]
    /\ UNCHANGED <<emitted, running, sub, dead, send, writer, gone, history>>

ReaderCloses(c) ==
    /\ reader[c] = "removed"
    /\ reader' = [reader EXCEPT ![c] = "done"]
    /\ UNCHANGED <<emitted, running, sub, watching, writer, gone, history>>

\* The next event is written, or the write fails (a peer that is slow for 10
\* seconds is enough) and the writer ends.
WriterSends(c, ok) ==
    /\ writer[c] = "writing"
    /\ send[c] # <<>>
    /\ ok => reader[c] # "done"
    /\ send' = [send EXCEPT ![c] = Tail(@)]
    /\ IF ok THEN /\ got' = [got EXCEPT ![c] = Append(@, Head(send[c]))]
                  /\ UNCHANGED writer
             ELSE /\ writer' = [writer EXCEPT ![c] = "done"]
                  /\ UNCHANGED got
    /\ UNCHANGED <<emitted, running, sub, clients, dead, closes, reader, gone,
                   relayed, since>>

\* The channel is closed and drained, or a ping cannot be written.
WriterEnds(c) ==
    /\ writer[c] = "writing"
    /\ \/ closes[c] > 0 /\ send[c] = <<>>
       \/ c \in gone \/ reader[c] = "done"
    /\ writer' = [writer EXCEPT ![c] = "done"]
    /\ UNCHANGED <<emitted, running, sub, watching, reader, gone, history>>

Reader(c) == ReaderRemoves(c) \/ ReaderCloses(c)
Writer(c) == \/ \E ok \in BOOLEAN : WriterSends(c, ok)
             \/ WriterEnds(c)

Next == \/ Emit
        \/ Broadcast
        \/ Stop
        \/ \E c \in Client : \/ DropDead(c) \/ Watch(c) \/ PeerGone(c)
                             \/ Reader(c) \/ Writer(c)

Spec == Init /\ [][Next]_vars

\* The goroutines run: reads and writes have deadlines.
FairSpec == /\ Spec
            /\ WF_vars(Broadcast)
            /\ \A c \in Client : /\ WF_vars(DropDead(c))
                                 /\ WF_vars(Reader(c))
                                 /\ WF_vars(Writer(c))

-----------------------------------------------------------------------------
(* Neither the broadcaster nor the reader panics: although both remove     *)
(* clients, a channel is closed at most once, and the broadcaster never    *)
(* sends on a closed one, since it sends to members of h.clients only.     *)
HubNeverPanics ==
    \A c \in Client : /\ closes[c] <= 1
                      /\ c \in clients => closes[c] = 0

\* What a client ought to have been sent.
Due(c) == SubSeq(relayed, since[c] + 1, Len(relayed))

(* A watcher misses nothing silently: what it received is, without a gap   *)
(* and in order, what the hub broadcast since it joined, and as long as it *)
(* is served the rest is in its channel.  A client that cannot keep up is  *)
(* dropped, so it notices.                                                 *)
NoSilentGap ==
    \A c \in Client :
        /\ got[c] = SubSeq(Due(c), 1, Len(got[c]))
        /\ c \in clients \ dead /\ writer[c] = "writing" => got[c] \o send[c] = Due(c)

(* A connection whose peer is gone or whose client was dropped is cleaned  *)
(* up: out of the hub, its channel closed, both goroutines ended.  The two *)
(* goroutines notice each other's end only through the channel, the        *)
(* connection and the pings that stop.                                     *)
NoLeak ==
    \A c \in Client :
        c \in gone \/ closes[c] > 0 ~>
           /\ c \notin clients /\ closes[c] = 1
           /\ reader[c] = "done" /\ writer[c] = "done"
=============================================================================
