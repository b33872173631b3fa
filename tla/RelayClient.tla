----------------------------- MODULE RelayClient -----------------------------
(***************************************************************************)
(* The client's connection to a relay (src/internal/nostr/relay.go and     *)
(* connection.go): the goroutine that writes and pings, the goroutine that *)
(* reads, close, and publishing.                                           *)
(*                                                                         *)
(* Publishers of events wait for the OK of the relay through a callback    *)
(* that is kept by the event's id; the reader calls it.  The connection    *)
(* ends with the connection context: close cancels it, called by a reader  *)
(* whose read fails, by the writer after three pings without an answer, or *)
(* by the user.  The goroutine that pings is the one that writes, and its  *)
(* writes have no deadline but that context: nothing pings while one is    *)
(* blocked.                                                                *)
(***************************************************************************)
EXTENDS Integers, FiniteSets

CONSTANTS
    Publisher,    \* calls of Publish or Auth
    Id,           \* ids of events
    IdOf          \* IdOf[p]: the event that p publishes

IdAssumption == IdOf \in [Publisher -> Id]
PublisherAssumption == Publisher \cap {"reader", "writer", "user", "nobody"} = {}

VARIABLES
    peer,         \* "up", "stalled" (it neither reads nor answers) or "down"
    oks,          \* OK messages, [id, ok], that the relay sends
    verdict,      \* verdict[i]: what the relay says of event i, once it has it
    cause,        \* the connection context: "none", or why it is done
    connection,   \* r.Connection is set
    websocket,    \* "open" or "closed"
    closer,       \* closer[c]: the step of c's call of close
    closeMutex,
    writer,       \* the writer's step, whom it writes for, its pingAttempt
    reader,       \* the reader's step, and the callback and verdict it is at
    okCallbacks,  \* okCallbacks[i]: whose callback is stored for event i
    pub,          \* the calls of publish
    panicked      \* a nil connection was used

vars == <<peer, oks, verdict, cause, connection, websocket, closer, closeMutex,
          writer, reader, okCallbacks, pub, panicked>>

Nobody == "nobody"
Closer == {"reader", "writer", "user"}
Done == cause # "none"          \* r.connectionContext.Done()

\* What close and the two goroutines do not touch.
publishing == <<oks, verdict, okCallbacks, pub>>
ending == <<cause, connection, websocket, closer, closeMutex>>

\* Connect has succeeded.
Connected ==
    /\ peer = "up"
    /\ oks = {}
    /\ verdict = [i \in Id |-> {}]
    /\ cause = "none"
    /\ connection = TRUE
    /\ websocket = "open"
    /\ closer = [c \in Closer |-> IF c = "user" THEN "lock" ELSE "idle"]
    /\ closeMutex = Nobody
    /\ writer = [pc |-> "select", for |-> Nobody, pingAttempt |-> 0]
    /\ reader = [pc |-> "read", callback |-> Nobody, ok |-> FALSE]
    /\ okCallbacks = [i \in Id |-> Nobody]
    /\ pub = [p \in Publisher |-> [pc |-> "idle", gotOk |-> FALSE, err |-> FALSE,
                                   ctx |-> "live", result |-> "none"]]

Init == Connected /\ panicked = FALSE

-----------------------------------------------------------------------------
(* The relay at the other end *)

\* What becomes of it once the connection has ended is of no account.
PeerFails ==
    /\ ~Done
    /\ \/ peer = "up" /\ peer' \in {"stalled", "down"}
       \/ peer = "stalled" /\ peer' \in {"up", "down"}
    /\ UNCHANGED <<publishing, ending, writer, reader, panicked>>

\* It has one verdict on an event, however often it is sent.
Judge(i) ==
    \E ok \in BOOLEAN :
        /\ verdict[i] \subseteq {ok}
        /\ verdict' = [verdict EXCEPT ![i] = {ok}]
        /\ oks' = IF reader.pc = "stopped" THEN {} ELSE oks \cup {[id |-> i, ok |-> ok]}

-----------------------------------------------------------------------------
(* close *)

CloseGoto(c, l) == closer' = [closer EXCEPT ![c] = l]

\* Cancelled once: a second call finds connectionContextCancel nil.
CancelContext(c) ==
    /\ closer[c] = "lock"
    /\ closeMutex = Nobody
    /\ IF Done
       THEN CloseGoto(c, "returned") /\ UNCHANGED <<cause, closeMutex>>
       ELSE CloseGoto(c, "check") /\ cause' = c /\ closeMutex' = c
    /\ UNCHANGED <<peer, publishing, connection, websocket, writer, reader, panicked>>

CheckConnection(c) ==
    /\ closer[c] = "check"
    /\ IF connection
       THEN CloseGoto(c, "close") /\ UNCHANGED closeMutex
       ELSE CloseGoto(c, "returned") /\ closeMutex' = Nobody
    /\ UNCHANGED <<peer, publishing, cause, connection, websocket, writer, reader, panicked>>

\* r.Connection is read again: the writer may have set it to nil.
CloseConnection(c) ==
    /\ closer[c] = "close"
    /\ panicked' = ~connection
    /\ websocket' = IF connection THEN "closed" ELSE websocket
    /\ CloseGoto(c, "returned")
    /\ closeMutex' = Nobody
    /\ UNCHANGED <<peer, publishing, cause, connection, writer, reader>>

CloseStep(c) == CancelContext(c) \/ CheckConnection(c) \/ CloseConnection(c)

-----------------------------------------------------------------------------
(* The writer *)

Returned(p, result) ==
    /\ pub' = [pub EXCEPT ![p].pc = "returned", ![p].result = result,
                           ![p].gotOk = FALSE, ![p].err = FALSE]
    /\ okCallbacks' = [okCallbacks EXCEPT ![IdOf[p]] = Nobody]

WriterAt(l) == writer.pc = l

\* The subscriptions that are there are ended: see RelaySubscription.
WriterStops ==
    /\ WriterAt("select")
    /\ Done
    /\ writer' = [writer EXCEPT !.pc = "stopped", !.pingAttempt = 0]
    /\ connection' = FALSE
    /\ UNCHANGED <<peer, publishing, cause, websocket, closer, closeMutex, reader, panicked>>

PingOk ==
    /\ WriterAt("select")
    /\ peer = "up" /\ ~Done
    /\ writer' = [writer EXCEPT !.pingAttempt = 0]
    /\ UNCHANGED <<peer, publishing, ending, reader, panicked>>

\* The third one in a row closes the connection, on this goroutine.  (A ping
\* after the end fails too, and ends nothing.)
PingFails ==
    /\ WriterAt("select")
    /\ peer # "up" /\ ~Done
    /\ IF writer.pingAttempt >= 2
       THEN /\ closer["writer"] \in {"idle", "returned"}
            /\ writer' = [writer EXCEPT !.pc = "closing", !.pingAttempt = 3]
            /\ CloseGoto("writer", "lock")
       ELSE /\ writer' = [writer EXCEPT !.pingAttempt = @ + 1]
            /\ UNCHANGED closer
    /\ UNCHANGED <<peer, publishing, cause, connection, websocket, closeMutex, reader, panicked>>

PingerClosed ==
    /\ WriterAt("closing")
    /\ closer["writer"] = "returned"
    /\ writer' = [writer EXCEPT !.pc = "select"]
    /\ UNCHANGED <<peer, publishing, ending, reader, panicked>>

\* The write goes through, be the peer stalled: there may be room in the buffers.
WriteSucceeds ==
    /\ WriterAt("write")
    /\ websocket = "open" /\ peer # "down"
    /\ Judge(IdOf[writer.for])
    /\ writer' = [writer EXCEPT !.pc = "select", !.for = Nobody]
    /\ pub' = [pub EXCEPT ![writer.for].pc = "waiting"]
    /\ UNCHANGED <<peer, okCallbacks, ending, reader, panicked>>

\* Faulty: a failed write is answered by nothing.
WriteFailsSilently ==
    /\ WriterAt("write")
    /\ websocket = "closed" \/ peer = "down" \/ Done
    /\ writer' = [writer EXCEPT !.pc = "select", !.for = Nobody]
    /\ UNCHANGED <<peer, publishing, ending, reader, panicked>>

\* A write that blocks on a stalled peer ends with the connection only: the
\* call of publish it is for does not look at its deadline (relay.go:382).  That
\* call returns the error; its deferred Delete takes whatever callback is there.
WriteFails ==
    /\ WriterAt("write")
    /\ websocket = "closed" \/ peer = "down" \/ Done
    /\ writer' = [writer EXCEPT !.pc = "select", !.for = Nobody]
    /\ Returned(writer.for, "error")
    /\ UNCHANGED <<peer, oks, verdict, ending, reader, panicked>>

WriterStep ==
    WriterStops \/ PingOk \/ PingFails \/ PingerClosed \/ WriteSucceeds \/ WriteFails

\* The peer does not take the bytes; the connection, which only others end, is up.
WriteBlocked == WriterAt("write") /\ peer = "stalled" /\ websocket = "open" /\ ~Done

-----------------------------------------------------------------------------
(* The reader *)

ReaderGoto(l) == reader' = [reader EXCEPT !.pc = l]

\* What is on its way is lost.
ReadFails ==
    /\ reader.pc = "read"
    /\ Done \/ websocket = "closed" \/ peer = "down"
    /\ reader' = [reader EXCEPT !.pc = "stopped"]
    /\ oks' = {}
    /\ CloseGoto("reader", "lock")
    /\ UNCHANGED <<peer, verdict, okCallbacks, pub, cause, connection, websocket, closeMutex, writer, panicked>>

\* An OK without a callback is logged.
ReadOk ==
    /\ reader.pc = "read"
    /\ websocket = "open" /\ peer = "up"
    /\ \E m \in oks :
        /\ oks' = oks \ {m}
        /\ LET p == okCallbacks[m.id]
           IN  IF p = Nobody
               THEN UNCHANGED reader
               ELSE reader' = [pc |-> "gotOk", callback |-> p, ok |-> m.ok]
    /\ UNCHANGED <<peer, verdict, okCallbacks, pub, ending, writer, panicked>>

\* The callback writes the variables of a call that may have returned.
SetGotOk ==
    /\ reader.pc = "gotOk"
    /\ pub' = [pub EXCEPT ![reader.callback].gotOk = pub[reader.callback].pc # "returned"]
    /\ ReaderGoto("err")
    /\ UNCHANGED <<peer, oks, verdict, okCallbacks, ending, writer, panicked>>

\* The call's context is cancelled, if it lives.
CallbackEnds(err) ==
    /\ reader.pc = "err"
    /\ LET p == reader.callback
       IN  pub' = IF pub[p].pc = "returned" THEN pub
                  ELSE [pub EXCEPT ![p].err = err,
                                   ![p].ctx = IF @ = "live" THEN "cancelled" ELSE @]
    /\ reader' = [pc |-> "read", callback |-> Nobody, ok |-> FALSE]
    /\ UNCHANGED <<peer, oks, verdict, okCallbacks, ending, writer, panicked>>

\* Faulty: the verdict is not looked at.
SetErrNever == CallbackEnds(FALSE)

SetErr == CallbackEnds(~reader.ok)

ReaderStep == ReadFails \/ ReadOk \/ SetGotOk \/ SetErr

-----------------------------------------------------------------------------
(* publish *)

PubGoto(p, l) == pub' = [pub EXCEPT ![p].pc = l]

\* Takes the place of the callback of another call for the same event.
StoreCallback(p) ==
    /\ pub[p].pc = "idle"
    /\ okCallbacks' = [okCallbacks EXCEPT ![IdOf[p]] = p]
    /\ PubGoto(p, "queue")
    /\ UNCHANGED <<peer, oks, verdict, ending, writer, reader, panicked>>

\* Write: the writer takes the request, or the connection has ended.
Queue(p) ==
    /\ pub[p].pc = "queue"
    /\ WriterAt("select")
    /\ writer' = [writer EXCEPT !.pc = "write", !.for = p]
    /\ PubGoto(p, "writing")
    /\ UNCHANGED <<peer, oks, verdict, okCallbacks, ending, reader, panicked>>

\* The seven seconds, or the caller's deadline: looked at from here on only.
Timeout(p) ==
    /\ pub[p].pc = "waiting"
    /\ pub[p].ctx = "live"
    /\ pub' = [pub EXCEPT ![p].ctx = "expired"]
    /\ UNCHANGED <<peer, oks, verdict, okCallbacks, ending, writer, reader, panicked>>

Return(p, result) ==
    /\ Returned(p, result)
    /\ UNCHANGED <<peer, oks, verdict, ending, writer, reader, panicked>>

NotQueued(p) == pub[p].pc = "queue" /\ Done /\ Return(p, "error")

ErrOf(p) == IF pub[p].err THEN "rejected" ELSE "nil"

ContextDone(p) ==
    /\ pub[p].pc = "waiting"
    /\ pub[p].ctx # "live"
    /\ Return(p, IF pub[p].gotOk THEN ErrOf(p) ELSE "error")

\* err is what the callback has made it, nil if there was no OK.
ConnectionDone(p) == pub[p].pc = "waiting" /\ Done /\ Return(p, ErrOf(p))

PublishStep(p) == StoreCallback(p) \/ Queue(p) \/ NotQueued(p) \/ ContextDone(p) \/ ConnectionDone(p)

-----------------------------------------------------------------------------

Next ==
    /\ ~panicked
    /\ \/ PeerFails
       \/ WriterStep \/ ReaderStep
       \/ \E c \in Closer : CloseStep(c)
       \/ \E p \in Publisher : PublishStep(p) \/ Timeout(p)

\* Goroutines run and deadlines pass.  A peer that is up takes the bytes of a
\* write, also if it was stalled meanwhile, again and again; a stalled one need
\* not take them, nor come back, nor be given up by TCP, which keeps a peer that
\* acknowledges and has no room.  The user need not close.  The calls are
\* finitely many, so a mutex or a queue that is served in turn need not be
\* assumed strongly fair.
Fairness ==
    /\ WF_vars(~panicked /\ WriterStep /\ ~WriteBlocked)
    /\ SF_vars(~panicked /\ WriteSucceeds /\ peer = "up")
    /\ WF_vars(~panicked /\ ReaderStep)
    /\ WF_vars(~panicked /\ (\/ CheckConnection("user") \/ CloseConnection("user")
                             \/ CloseStep("reader") \/ CloseStep("writer")))
    /\ \A p \in Publisher : WF_vars(~panicked /\ (PublishStep(p) \/ Timeout(p)))

Spec == Init /\ [][Next]_vars
FairSpec == Spec /\ Fairness

-----------------------------------------------------------------------------

TypeOK ==
    /\ peer \in {"up", "stalled", "down"}
    /\ oks \subseteq [id : Id, ok : BOOLEAN]
    /\ verdict \in [Id -> SUBSET BOOLEAN]
    /\ cause \in Closer \cup {"none"}
    /\ connection \in BOOLEAN /\ panicked \in BOOLEAN
    /\ websocket \in {"open", "closed"}
    /\ closer \in [Closer -> {"idle", "lock", "check", "close", "returned"}]
    /\ closeMutex \in Closer \cup {Nobody}
    /\ writer \in [pc : {"select", "write", "closing", "stopped"},
                   for : Publisher \cup {Nobody}, pingAttempt : 0 .. 3]
    /\ reader \in [pc : {"read", "gotOk", "err", "stopped"},
                   callback : Publisher \cup {Nobody}, ok : BOOLEAN]
    /\ okCallbacks \in [Id -> Publisher \cup {Nobody}]
    /\ pub \in [Publisher ->
            [pc : {"idle", "queue", "writing", "waiting", "returned"},
             gotOk : BOOLEAN, err : BOOLEAN, ctx : {"live", "cancelled", "expired"},
             result : {"none", "nil", "rejected", "error"}]]

(***************************************************************************)
(* A publish that returns nil before its deadline, on a connection that    *)
(* has not ended, was accepted by the relay; one that returns the relay's  *)
(* reason was rejected.  The OK of one event never answers another, nor is *)
(* an event answered by what a replaced callback got.                      *)
(***************************************************************************)
ResultIsVerdict ==
    \A p \in Publisher :
        /\ pub[p].result = "nil" /\ pub[p].ctx # "expired" /\ ~Done => verdict[IdOf[p]] = {TRUE}
        /\ pub[p].result = "rejected" => verdict[IdOf[p]] = {FALSE}

(***************************************************************************)
(* What relay.go:328 says, that Publish waits for an OK: nil is returned   *)
(* for accepted events only.                                               *)
(***************************************************************************)
NilIsAccepted ==
    \A p \in Publisher : pub[p].result = "nil" => verdict[IdOf[p]] = {TRUE}

(***************************************************************************)
(* Every publish returns, whoever closes the connection and whatever       *)
(* becomes of the callback.  The exception is the write that stays blocked *)
(* (relay.go:205, 382): then its call and all that queue behind it wait    *)
(* for as long as the relay keeps the connection up and reads nothing.     *)
(***************************************************************************)
PublishEnds ==
    []<>~WriteBlocked =>
        \A p \in Publisher : (pub[p].pc = "queue" ~> pub[p].pc = "returned" \/ panicked)

=============================================================================
