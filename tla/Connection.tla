----------------------------- MODULE Connection -----------------------------
(***************************************************************************)
(* The life of one websocket connection                                    *)
(* (src/internal/relay/engine/handlers.go and websocket.go, and the        *)
(* connection metrics of src/internal/relay/telemetry.go).                 *)
(*                                                                         *)
(* A connection has a reader and a pinger goroutine, and any number of     *)
(* goroutines that write to it: message handlers and other clients'        *)
(* broadcasts.  ws.mutex serialises the writes.  No write has a deadline,  *)
(* so a peer that takes no bytes blocks the writer that holds the mutex    *)
(* and all that wait for it, the pinger too.  What ends this is the        *)
(* reader's deadline, which a pong puts off: a peer that takes no bytes    *)
(* and sends pongs of its own accord blocks them for as long as it likes.  *)
(* Reader and pinger both defer kill, so kill runs twice, its steps        *)
(* interleaved.                                                            *)
(***************************************************************************)
EXTENDS Integers

CONSTANT Writer     \* goroutines that write once to the connection

WriterAssumption == Writer \cap {"reader", "pinger", "nobody"} = {}

VARIABLES
    peer,       \* "reading" (and answering pings), "deaf" (takes no bytes,
                \* sends pongs), "stalled" (neither) or "gone"
    conn,       \* "open" or "closed" by the relay
    ctxDone,    \* the connection context is cancelled
    registered, \* ws is a key of rl.clients
    pc,         \* of the reader, the pinger and the writers
    mutex,      \* who holds ws.mutex
    metrics     \* connection metrics

vars == <<peer, conn, ctxDone, registered, pc, mutex, metrics>>

Loop == {"reader", "pinger"}
Process == Loop \cup Writer
Nobody == "nobody"

\* HandleWebsocket has registered ws and started both goroutines.
Init ==
    /\ peer = "reading"
    /\ conn = "open"
    /\ ctxDone = FALSE
    /\ registered = TRUE
    /\ pc = [p \in Process |-> CASE p = "reader" -> "start"
                                 [] p = "pinger" -> "loop"
                                 [] OTHER -> "idle"]
    /\ mutex = Nobody
    /\ metrics = [started |-> FALSE, connections |-> 0, opens |-> 0,
                  closes |-> 0, durations |-> 0]

Goto(p, l) == pc' = [pc EXCEPT ![p] = l]

-----------------------------------------------------------------------------
(* The peer *)

PeerStalls ==
    /\ \/ peer = "reading" /\ peer' \in {"stalled", "deaf"}
       \/ peer = "deaf" /\ peer' = "stalled"
    /\ UNCHANGED <<conn, ctxDone, registered, pc, mutex, metrics>>

PeerResumes ==
    /\ peer \in {"stalled", "deaf"}
    /\ peer' = "reading"
    /\ UNCHANGED <<conn, ctxDone, registered, pc, mutex, metrics>>

PeerGoes ==
    /\ peer # "gone"
    /\ peer' = "gone"
    /\ UNCHANGED <<conn, ctxDone, registered, pc, mutex, metrics>>

-----------------------------------------------------------------------------
(* The reader *)

\* The OnConnect hooks, on the reader's goroutine: the pinger may be ahead.
OnConnect ==
    /\ pc["reader"] = "start"
    /\ Goto("reader", "loop")
    /\ metrics' = [metrics EXCEPT !.started = TRUE, !.connections = @ + 1, !.opens = @ + 1]
    /\ UNCHANGED <<peer, conn, ctxDone, registered, mutex>>

\* Faulty: without a read deadline only a closed connection ends a read.
ReadFailsNoDeadline ==
    /\ pc["reader"] = "loop"
    /\ conn = "closed" \/ peer = "gone"
    /\ Goto("reader", "kill")
    /\ UNCHANGED <<peer, conn, ctxDone, registered, mutex, metrics>>

\* ReadMessage fails: the relay has closed the connection, the peer has, or
\* no pong has come for PongWait (handlers.go:111-115).
ReadFails ==
    /\ pc["reader"] = "loop"
    /\ conn = "closed" \/ peer \in {"stalled", "gone"}
    /\ Goto("reader", "kill")
    /\ UNCHANGED <<peer, conn, ctxDone, registered, mutex, metrics>>

\* ReadMessage refuses a message: it is too long, or no websocket frame.
ReadRefuses ==
    /\ pc["reader"] = "loop"
    /\ conn = "open"
    /\ peer # "gone"
    /\ Goto("reader", "kill")
    /\ UNCHANGED <<peer, conn, ctxDone, registered, mutex, metrics>>

-----------------------------------------------------------------------------
(* Writes *)

\* A message handler or a broadcast has something to write.
WantWrite(w) ==
    /\ pc[w] = "idle"
    /\ Goto(w, "lock")
    /\ UNCHANGED <<peer, conn, ctxDone, registered, mutex, metrics>>

\* The ticker fires.
Tick ==
    /\ pc["pinger"] = "loop"
    /\ Goto("pinger", "lock")
    /\ UNCHANGED <<peer, conn, ctxDone, registered, mutex, metrics>>

Lock(p) ==
    /\ pc[p] = "lock"
    /\ mutex = Nobody
    /\ mutex' = p
    /\ Goto(p, "write")
    /\ UNCHANGED <<peer, conn, ctxDone, registered, metrics>>

\* The pinger goes on after a ping; a writer returns.
Written(p) == Goto(p, IF p = "pinger" THEN "loop" ELSE "done")

\* The peer takes the bytes.
WriteSucceeds(p) ==
    /\ pc[p] = "write"
    /\ conn = "open"
    /\ peer = "reading"
    /\ mutex' = Nobody
    /\ Written(p)
    /\ UNCHANGED <<peer, conn, ctxDone, registered, metrics>>

\* Nobody reads, but there is still room in the buffers.
WriteBuffered(p) ==
    /\ pc[p] = "write"
    /\ conn = "open"
    /\ peer # "reading"
    /\ mutex' = Nobody
    /\ Written(p)
    /\ UNCHANGED <<peer, conn, ctxDone, registered, metrics>>

\* Faulty: a failed write returns with the mutex held.
WriteFailsLocked(p) ==
    /\ pc[p] = "write"
    /\ conn = "closed" \/ peer = "gone"
    /\ Goto(p, IF p = "pinger" THEN "kill" ELSE "done")
    /\ UNCHANGED <<peer, conn, ctxDone, registered, mutex, metrics>>

\* The connection has been closed, by the relay or by the peer.
WriteFails(p) ==
    /\ pc[p] = "write"
    /\ conn = "closed" \/ peer = "gone"
    /\ mutex' = Nobody
    /\ Goto(p, IF p = "pinger" THEN "kill" ELSE "done")
    /\ UNCHANGED <<peer, conn, ctxDone, registered, metrics>>

\* case <-ctx.Done()
PingerStops ==
    /\ pc["pinger"] = "loop"
    /\ ctxDone
    /\ Goto("pinger", "kill")
    /\ UNCHANGED <<peer, conn, ctxDone, registered, mutex, metrics>>

-----------------------------------------------------------------------------
(* kill, on either goroutine *)

\* The OnDisconnect hooks.
OnDisconnect(p) ==
    /\ pc[p] = "kill"
    /\ Goto(p, "cancel")
    /\ metrics' = [metrics EXCEPT !.started = FALSE,
                                  !.connections = @ - 1, !.closes = @ + 1,
                                  !.durations = IF metrics.started THEN @ + 1 ELSE @]
    /\ UNCHANGED <<peer, conn, ctxDone, registered, mutex>>

\* ticker.Stop(), cancel(), ws.cancel()
CancelContexts(p) ==
    /\ pc[p] = "cancel"
    /\ ctxDone' = TRUE
    /\ Goto(p, "close")
    /\ UNCHANGED <<peer, conn, registered, mutex, metrics>>

\* Faulty: the connection is left to the other side to close.
CloseNothing(p) ==
    /\ pc[p] = "close"
    /\ Goto(p, "remove")
    /\ UNCHANGED <<peer, conn, ctxDone, registered, mutex, metrics>>

\* ws.conn.Close() takes no lock: it frees a write that is blocked.
CloseConn(p) ==
    /\ pc[p] = "close"
    /\ conn' = "closed"
    /\ Goto(p, "remove")
    /\ UNCHANGED <<peer, ctxDone, registered, mutex, metrics>>

\* rl.removeClientAndListeners(ws): module Listeners.
RemoveClient(p) ==
    /\ pc[p] = "remove"
    /\ registered' = FALSE
    /\ Goto(p, "ended")
    /\ UNCHANGED <<peer, conn, ctxDone, mutex, metrics>>

KillStep(p) == OnDisconnect(p) \/ CancelContexts(p) \/ CloseConn(p) \/ RemoveClient(p)

Next ==
    \/ PeerStalls \/ PeerResumes \/ PeerGoes
    \/ OnConnect \/ ReadFails \/ ReadRefuses
    \/ Tick \/ PingerStops
    \/ \E w \in Writer : WantWrite(w)
    \/ \E p \in Writer \cup {"pinger"} :
          Lock(p) \/ WriteSucceeds(p) \/ WriteBuffered(p) \/ WriteFails(p)
    \/ \E p \in Loop : KillStep(p)

\* Goroutines run on, the read deadline comes for a peer that is silent, and a
\* mutex waited for is got in the end (Go's mutexes are not unfair for ever);
\* the pinger's rivals want it once each.  A peer that comes back to reading
\* again and again takes the bytes of whoever writes in the end.  Not relied
\* on: the ticker, a peer that comes back or a deaf one that falls silent, room
\* in the buffers.
Fairness ==
    /\ WF_vars(OnConnect) /\ WF_vars(ReadFails) /\ WF_vars(PingerStops)
    /\ WF_vars(Lock("pinger")) /\ \A w \in Writer : SF_vars(Lock(w))
    /\ SF_vars(\E p \in Writer \cup {"pinger"} : WriteSucceeds(p))
    /\ WF_vars(\E p \in Writer \cup {"pinger"} : WriteFails(p))
    /\ \A p \in Loop : WF_vars(KillStep(p))

Spec == Init /\ [][Next]_vars
FairSpec == Spec /\ Fairness

-----------------------------------------------------------------------------
(* Properties *)

Ended == pc["reader"] = "ended" /\ pc["pinger"] = "ended"

TypeOK ==
    /\ peer \in {"reading", "deaf", "stalled", "gone"}
    /\ conn \in {"open", "closed"}
    /\ ctxDone \in BOOLEAN
    /\ registered \in BOOLEAN
    /\ pc \in [Process -> {"start", "idle", "loop", "lock", "write", "done",
                          "kill", "cancel", "close", "remove", "ended"}]
    /\ pc["reader"] \in {"start", "loop", "kill", "cancel", "close", "remove", "ended"}
    /\ pc["pinger"] \in {"loop", "lock", "write", "kill", "cancel", "close", "remove", "ended"}
    /\ \A w \in Writer : pc[w] \in {"idle", "lock", "write", "done"}
    /\ mutex \in {Nobody, "pinger"} \cup Writer
    /\ metrics \in [started : BOOLEAN, connections : -1..1, opens : 0..1,
                    closes : 0..2, durations : 0..1]

\* Whoever is in a write holds ws.mutex (websocket.go:34-46): two goroutines are
\* never inside a write of one connection.
OneWriter == \A p \in Writer \cup {"pinger"} : pc[p] = "write" <=> mutex = p

\* However the two kills and OnConnect interleave, nothing is left behind, and
\* the duration of the connection is recorded exactly once and its start is
\* forgotten (handlers.go:94-105, telemetry.go:581-592).
EndedIsClean ==
    Ended =>
        /\ conn = "closed" /\ ctxDone /\ ~registered
        /\ metrics.durations = 1 /\ ~metrics.started /\ metrics.opens = 1

\* A write that waits for ws.mutex or for the peer ends, although no write has
\* a deadline: a peer that falls silent lets the read deadline pass, and kill
\* closes the connection without the mutex.  The exception is the peer that
\* stays deaf: its pongs put the deadline off for ever (handlers.go:112-115).
WritesEnd ==
    []<>(peer # "deaf") => \A w \in Writer : (pc[w] = "lock" ~> pc[w] = "done")

\* A peer that goes leaves neither goroutines nor a client behind.
PeerGoneEnds == peer = "gone" ~> (Ended /\ ~registered)

=============================================================================
