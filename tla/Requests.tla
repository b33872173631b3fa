------------------------------ MODULE Requests ------------------------------
(***************************************************************************)
(* The REQ and CLOSE messages of one connection                            *)
(* (src/internal/relay/engine/handlers.go, responding.go, lifecycle.go).   *)
(*                                                                         *)
(* The reader goroutine hands every message to a goroutine of its own, so  *)
(* the messages of one client are handled in any order.  A REQ handles its *)
(* filters one after the other; each query hook of a filter starts a       *)
(* loader goroutine that writes the stored events, and the WaitGroup eose  *)
(* is to hold back the EOSE until the last loader has ended.  The client   *)
(* may vanish at any moment: writes fail, kill cancels all contexts, and   *)
(* the client's listeners go.                                              *)
(*                                                                         *)
(* The registry is the set of this client's listeners here: its operations *)
(* hold clientsMutex throughout, and module Listeners shows what they do   *)
(* to the slices.                                                          *)
(***************************************************************************)
EXTENDS Integers, Sequences, FiniteSets

CONSTANTS
    Req,        \* the REQ messages the client may send, each once
    Close,      \* the CLOSE messages it may send, each once
    IdOf,       \* the subscription id of a REQ or CLOSE
    Filters,    \* how many filters a REQ has
    Hooks,      \* how many query hooks the relay has: len(rl.QueryEvents)
    Event,      \* events the storage may hold; every filter matches them
    ScanErrors  \* whether a scan of the storage may end with an error

ASSUME FiltersAssumption == Filters \in [Req -> Nat]
ASSUME HooksAssumption == Hooks \in Nat
ASSUME EventAssumption == IsFiniteSet(Event)
ASSUME ScanErrorsAssumption == ScanErrors \in BOOLEAN

VARIABLES
    conn,       \* "open", "dropped" (peer gone, not noticed), "closed", "gone"
    pc,         \* where the goroutine of a REQ is
    at,         \* the filter it is handling
    hook,       \* the query hook it runs next
    eose,       \* its WaitGroup
    loaders,    \* its loader goroutines: events still to be written
    cancelled,  \* REQs whose own context was cancelled
    listeners,  \* the registered listeners, one per filter of a REQ
    sent,       \* what the client received for a REQ, in order
    obs,        \* the messageObservation of a REQ
    outcome,    \* the reported result of a REQ
    closing,    \* the goroutines of the CLOSE messages
    stored,     \* the events in the storage
    \* What the REQs and CLOSEs met, for the properties:
    before,     \* the events stored when a REQ was read
    queried,    \* every filter of the REQ was queried for
    broken,     \* a loader of the REQ broke off
    scanFailed, \* ... because the scan of the rows ended with an error
    lost,       \* the write of a response to the REQ failed
    answered    \* the REQs of its id answered when a CLOSE was read

goroutines == <<pc, at, hook, eose, loaders>>
answers == <<sent, obs, outcome>>
history == <<before, queried, broken, scanFailed, lost, answered>>
vars == <<goroutines, answers, conn, cancelled, listeners, closing, stored, history>>

Init ==
    /\ conn = "open"
    /\ pc = [q \in Req |-> "unread"]
    /\ at = [q \in Req |-> 1]
    /\ hook = [q \in Req |-> 1]
    /\ eose = [q \in Req |-> 0]
    /\ loaders = [q \in Req |-> {}]
    /\ cancelled = {}
    /\ listeners = {}
    /\ sent = [q \in Req |-> <<>>]
    /\ obs = [q \in Req |-> [writeFailed |-> FALSE, internalError |-> FALSE]]
    /\ outcome = [q \in Req |-> "none"]
    /\ closing = [c \in Close |-> "unread"]
    /\ stored = {}
    /\ before = [q \in Req |-> {}]
    /\ queried = [q \in Req |-> FALSE]
    /\ broken = {}
    /\ scanFailed = {}
    /\ lost = {}
    /\ answered = [c \in Close |-> {}]

-----------------------------------------------------------------------------
(* Contexts, responses and their results *)

\* A REQ's context is a child of the connection's.
CtxDone(q) == q \in cancelled \/ conn \in {"closed", "gone"}

Kinds(s) == {s[i].kind : i \in DOMAIN s}
Answered(q) == Kinds(sent[q]) \cap {"EOSE", "CLOSED"} # {}

\* writeResponse: the client receives m; or the write fails, which is recorded
\* unless the message has finished; or m goes to a peer that is not there.
Received(q, m) ==
    /\ conn = "open"
    /\ sent' = [sent EXCEPT ![q] = Append(@, m)]
    /\ UNCHANGED lost

Swallowed ==
    /\ conn = "dropped"
    /\ UNCHANGED <<sent, lost>>

Failed(q) ==
    /\ conn # "open"
    /\ lost' = lost \cup {q}
    /\ UNCHANGED sent

Observed(q, failed, queryError) ==
    [obs EXCEPT ![q] = IF outcome[q] # "none" THEN @
                       ELSE [writeFailed |-> @.writeFailed \/ failed,
                             internalError |-> @.internalError \/ queryError]]

\* A write of m, and in queryError whether a query failure is marked with it.
WriteResponse(q, m, queryError) ==
    \/ (Received(q, m) \/ Swallowed) /\ obs' = Observed(q, FALSE, queryError)
    \/ Failed(q) /\ obs' = Observed(q, TRUE, queryError)

\* Faulty: a failed query leaves the result "ok".
ResultOfWrites(o, base) ==
    IF base = "ok" /\ o.writeFailed THEN "write_error" ELSE base

\* messageObservation.result: only an "ok" is overruled.
Result(o, base) ==
    CASE base = "ok" /\ o.writeFailed -> "write_error"
      [] base = "ok" /\ ~o.writeFailed /\ o.internalError -> "error"
      [] OTHER -> base

-----------------------------------------------------------------------------
(* The REQ goroutine *)

\* The reader reads the message and starts its goroutine.
ReadReq(q) ==
    /\ conn \in {"open", "dropped"}
    /\ pc[q] = "unread"
    /\ pc' = [pc EXCEPT ![q] = "filters"]
    /\ eose' = [eose EXCEPT ![q] = Filters[q]]
    /\ before' = [before EXCEPT ![q] = stored]
    /\ queried' = [queried EXCEPT ![q] = TRUE]
    /\ UNCHANGED <<answers, conn, at, hook, loaders, cancelled, listeners, closing, stored,
                   broken, scanFailed, lost, answered>>

Handling(q) == pc[q] = "filters" /\ at[q] <= Filters[q]

\* addListener ignores a client that has gone.
AddsListener(q) ==
    listeners' = IF conn = "gone" THEN listeners
                 ELSE listeners \cup {[req |-> q, filter |-> at[q]]}

\* handleRequest returns nil: its deferred Done runs, the listener is added.
FilterAccepted(q) ==
    /\ eose' = [eose EXCEPT ![q] = @ - 1]
    /\ at' = [at EXCEPT ![q] = @ + 1]
    /\ AddsListener(q)

\* Faulty: the filter is accepted and never listened to.
LimitZeroIgnored(q) ==
    /\ Handling(q)
    /\ eose' = [eose EXCEPT ![q] = @ - 1]
    /\ at' = [at EXCEPT ![q] = @ + 1]
    /\ queried' = [queried EXCEPT ![q] = FALSE]
    /\ UNCHANGED <<answers, conn, pc, hook, loaders, cancelled, listeners, closing, stored,
                   before, broken, scanFailed, lost, answered>>

\* A limit of zero asks for no stored events.
LimitZero(q) ==
    /\ Handling(q)
    /\ FilterAccepted(q)
    /\ queried' = [queried EXCEPT ![q] = FALSE]
    /\ UNCHANGED <<answers, conn, pc, hook, loaders, cancelled, closing, stored,
                   before, broken, scanFailed, lost, answered>>

\* A RejectFilter hook refuses the filter: CLOSED, and the goroutine returns.
RejectFilter(q) ==
    /\ Handling(q)
    /\ eose' = [eose EXCEPT ![q] = @ - 1]
    /\ WriteResponse(q, [kind |-> "CLOSED"], FALSE)
    /\ cancelled' = cancelled \cup {q}
    /\ outcome' = [outcome EXCEPT ![q] = Result(obs'[q], "blocked")]
    /\ pc' = [pc EXCEPT ![q] = "done"]
    /\ UNCHANGED <<conn, at, hook, loaders, listeners, closing, stored,
                   before, queried, broken, scanFailed, answered>>

\* eose.Add(len(rl.QueryEvents))
BeginQueries(q) ==
    /\ Handling(q)
    /\ eose' = [eose EXCEPT ![q] = @ + Hooks]
    /\ pc' = [pc EXCEPT ![q] = "hooks"]
    /\ hook' = [hook EXCEPT ![q] = 1]
    /\ UNCHANGED <<answers, conn, at, loaders, cancelled, listeners, closing, stored, history>>

Querying(q) == pc[q] = "hooks" /\ hook[q] <= Hooks

\* The query runs: its result is what the storage holds now.  A loader starts.
\* (The storage refuses a query whose context is done.)
StartLoader(q) ==
    /\ Querying(q)
    /\ ~CtxDone(q)
    /\ loaders' = [loaders EXCEPT ![q] = @ \cup
           {[filter |-> at[q], hook |-> hook[q], left |-> stored]}]
    /\ hook' = [hook EXCEPT ![q] = @ + 1]
    /\ UNCHANGED <<answers, conn, pc, at, eose, cancelled, listeners, closing, stored, history>>

\* The query fails: a NOTICE, and one Done.
QueryFails(q) ==
    /\ Querying(q)
    /\ WriteResponse(q, [kind |-> "NOTICE"], TRUE)
    /\ eose' = [eose EXCEPT ![q] = @ - 1]
    /\ hook' = [hook EXCEPT ![q] = @ + 1]
    /\ UNCHANGED <<conn, pc, at, loaders, cancelled, listeners, outcome, closing, stored,
                   before, queried, broken, scanFailed, answered>>

\* All hooks have run.
EndQueries(q) ==
    /\ pc[q] = "hooks"
    /\ hook[q] > Hooks
    /\ FilterAccepted(q)
    /\ pc' = [pc EXCEPT ![q] = "filters"]
    /\ UNCHANGED <<answers, conn, hook, loaders, cancelled, closing, stored, history>>

\* Faulty: the EOSE does not wait for the loaders.
SendEoseAtOnce(q) ==
    /\ pc[q] = "filters"
    /\ at[q] > Filters[q]
    /\ WriteResponse(q, [kind |-> "EOSE"], FALSE)
    /\ outcome' = [outcome EXCEPT ![q] = Result(obs'[q], "ok")]
    /\ cancelled' = cancelled \cup {q}
    /\ pc' = [pc EXCEPT ![q] = "done"]
    /\ UNCHANGED <<conn, at, hook, eose, loaders, listeners, closing, stored,
                   before, queried, broken, scanFailed, answered>>

\* eose.Wait() returns: EOSE, the deferred cancelReqCtx, and the result.
SendEose(q) ==
    /\ pc[q] = "filters"
    /\ at[q] > Filters[q]
    /\ eose[q] = 0
    /\ WriteResponse(q, [kind |-> "EOSE"], FALSE)
    /\ outcome' = [outcome EXCEPT ![q] = Result(obs'[q], "ok")]
    /\ cancelled' = cancelled \cup {q}
    /\ pc' = [pc EXCEPT ![q] = "done"]
    /\ UNCHANGED <<conn, at, hook, eose, loaders, listeners, closing, stored,
                   before, queried, broken, scanFailed, answered>>

-----------------------------------------------------------------------------
(* The loaders *)

\* One more stored event is written.
LoaderWrites(q) ==
    /\ \E l \in loaders[q] : \E e \in l.left :
         /\ WriteResponse(q, [kind |-> "EVENT", event |-> e], FALSE)
         /\ loaders' = [loaders EXCEPT ![q] =
                (@ \ {l}) \cup {[l EXCEPT !.left = @ \ {e}]}]
    /\ UNCHANGED <<conn, pc, at, hook, eose, cancelled, listeners, outcome, closing, stored,
                   before, queried, broken, scanFailed, answered>>

\* Faulty: the loader ends with its last event unwritten.
LoaderEndsBeforeLast(q) ==
    /\ \E l \in loaders[q] :
         /\ Cardinality(l.left) <= 1
         /\ loaders' = [loaders EXCEPT ![q] = @ \ {l}]
    /\ eose' = [eose EXCEPT ![q] = @ - 1]
    /\ UNCHANGED <<answers, conn, pc, at, hook, cancelled, listeners, closing, stored, history>>

\* The channel is closed after the last event.
LoaderEnds(q) ==
    /\ \E l \in loaders[q] :
         /\ l.left = {}
         /\ loaders' = [loaders EXCEPT ![q] = @ \ {l}]
    /\ eose' = [eose EXCEPT ![q] = @ - 1]
    /\ UNCHANGED <<answers, conn, pc, at, hook, cancelled, listeners, closing, stored, history>>

\* The channel is closed early: the context is done, or the scan of the rows
\* ends with an error, which nobody asks for (rows.Err).
LoaderBreaks(q) ==
    /\ \/ CtxDone(q) /\ UNCHANGED scanFailed
       \/ ScanErrors /\ scanFailed' = scanFailed \cup {q}
    /\ \E l \in loaders[q] :
         /\ l.left # {}
         /\ loaders' = [loaders EXCEPT ![q] = @ \ {l}]
    /\ eose' = [eose EXCEPT ![q] = @ - 1]
    /\ broken' = broken \cup {q}
    /\ UNCHANGED <<answers, conn, pc, at, hook, cancelled, listeners, closing, stored,
                   before, queried, lost, answered>>

-----------------------------------------------------------------------------
(* CLOSE, and the end of the connection *)

ReadClose(c) ==
    /\ conn \in {"open", "dropped"}
    /\ closing[c] = "unread"
    /\ closing' = [closing EXCEPT ![c] = "started"]
    /\ answered' = [answered EXCEPT ![c] = {q \in Req : IdOf[q] = IdOf[c] /\ Answered(q)}]
    /\ UNCHANGED <<goroutines, answers, conn, cancelled, listeners, stored,
                   before, queried, broken, scanFailed, lost>>

\* Faulty: only the last listener of the id is removed.
RemoveOneListener(c) ==
    /\ closing[c] = "started"
    /\ closing' = [closing EXCEPT ![c] = "done"]
    /\ LET closed == {l \in listeners : IdOf[l.req] = IdOf[c]}
           gone == {l \in closed : \A k \in closed : k.filter <= l.filter}
       IN  /\ listeners' = listeners \ gone
           /\ cancelled' = cancelled \cup {l.req : l \in gone}
    /\ UNCHANGED <<goroutines, answers, conn, stored, history>>

\* removeListenerId: the listeners of the id go, and the contexts of the REQs
\* that own them are cancelled.
RemoveListeners(c) ==
    /\ closing[c] = "started"
    /\ closing' = [closing EXCEPT ![c] = "done"]
    /\ LET closed == {l \in listeners : IdOf[l.req] = IdOf[c]}
       IN  /\ listeners' = listeners \ closed
           /\ cancelled' = cancelled \cup {l.req : l \in closed}
    /\ UNCHANGED <<goroutines, answers, conn, stored, history>>

\* The peer vanishes; the relay does not know yet.
Drop ==
    /\ conn = "open"
    /\ conn' = "dropped"
    /\ UNCHANGED <<goroutines, answers, cancelled, listeners, closing, stored, history>>

\* kill, up to conn.Close(): a read or a ping has failed.
Kill ==
    /\ conn \in {"open", "dropped"}
    /\ conn' = "closed"
    /\ UNCHANGED <<goroutines, answers, cancelled, listeners, closing, stored, history>>

\* kill: removeClientAndListeners.
RemoveClient ==
    /\ conn = "closed"
    /\ conn' = "gone"
    /\ listeners' = {}
    /\ UNCHANGED <<goroutines, answers, cancelled, closing, stored, history>>

\* Somebody publishes an event.
Store(e) ==
    /\ e \notin stored
    /\ stored' = stored \cup {e}
    /\ UNCHANGED <<goroutines, answers, conn, cancelled, listeners, closing, history>>

ReqStep(q) ==
    \/ LimitZero(q)
    \/ RejectFilter(q)
    \/ BeginQueries(q)
    \/ StartLoader(q)
    \/ QueryFails(q)
    \/ EndQueries(q)
    \/ SendEose(q)

LoaderStep(q) ==
    \/ LoaderWrites(q)
    \/ LoaderEnds(q)
    \/ LoaderBreaks(q)

Next ==
    \/ \E q \in Req : ReadReq(q) \/ ReqStep(q) \/ LoaderStep(q)
    \/ \E c \in Close : ReadClose(c) \/ RemoveListeners(c)
    \/ Drop
    \/ Kill
    \/ RemoveClient
    \/ \E e \in Event : Store(e)

\* A goroutine that can run does; the storage returns from its queries, and a write
\* from the websocket (Connection: not while the peer stays deaf).
Fairness == \A q \in Req : WF_vars(ReqStep(q)) /\ WF_vars(LoaderStep(q))

Spec == Init /\ [][Next]_vars
FairSpec == Spec /\ Fairness

-----------------------------------------------------------------------------
(* Properties *)

Envelope == [kind : {"EOSE", "CLOSED", "NOTICE"}] \cup [kind : {"EVENT"}, event : Event]
Loader == [filter : Nat, hook : Nat, left : SUBSET Event]

TypeOK ==
    /\ conn \in {"open", "dropped", "closed", "gone"}
    /\ pc \in [Req -> {"unread", "filters", "hooks", "done"}]
    /\ at \in [Req -> Nat]
    /\ hook \in [Req -> Nat]
    /\ eose \in [Req -> Int]
    /\ loaders \in [Req -> SUBSET Loader]
    /\ cancelled \in SUBSET Req
    /\ listeners \in SUBSET [req : Req, filter : Nat]
    /\ sent \in [Req -> Seq(Envelope)]
    /\ obs \in [Req -> [writeFailed : BOOLEAN, internalError : BOOLEAN]]
    /\ outcome \in [Req -> {"none", "ok", "blocked", "error", "write_error"}]
    /\ closing \in [Close -> {"unread", "started", "done"}]
    /\ stored \in SUBSET Event
    /\ before \in [Req -> SUBSET Event]
    /\ queried \in [Req -> BOOLEAN]
    /\ broken \in SUBSET Req
    /\ scanFailed \in SUBSET Req
    /\ lost \in SUBSET Req
    /\ answered \in [Close -> SUBSET Req]

\* Until its goroutine has returned, the WaitGroup of a REQ counts the filters
\* not handled, the hooks not run and the loaders still writing: so Done never
\* takes it below zero, and Wait returns neither early nor never
\* (handlers.go:348-385, responding.go:12-62).
EoseCounts ==
    \A q \in Req :
        /\ pc[q] = "filters" =>
             eose[q] = Filters[q] - at[q] + 1 + Cardinality(loaders[q])
        /\ pc[q] = "hooks" =>
             eose[q] = Filters[q] - at[q] + 1 + (Hooks - hook[q] + 1) + Cardinality(loaders[q])

\* EOSE ends the stored events: neither an event from the storage nor a notice
\* of the REQ follows it, and a REQ is answered once (handlers.go:384-386).
EoseIsLast ==
    \A q \in Req : \A i, j \in DOMAIN sent[q] :
        i < j => sent[q][i].kind # "EOSE" /\ ~(sent[q][i].kind = "CLOSED"
                                              /\ sent[q][j].kind \in {"EOSE", "CLOSED"})

\* A client that gets EOSE has got every event that was stored when its REQ was
\* read, if all filters were queried for and no query failed or broke off.
EoseIsComplete ==
    \A q \in Req :
        /\ "EOSE" \in Kinds(sent[q])
        /\ queried[q] /\ Filters[q] > 0 /\ Hooks > 0
        /\ ~obs[q].internalError
        /\ q \notin broken
        => \A e \in before[q] : \E i \in DOMAIN sent[q] :
               sent[q][i] = [kind |-> "EVENT", event |-> e]

\* An EOSE also promises the events to come: from then on every filter of the
\* REQ has its listener, until a CLOSE of the id is handled or the client goes.
EoseIsSubscribed ==
    \A q \in Req :
        /\ "EOSE" \in Kinds(sent[q])
        /\ \A c \in Close : closing[c] = "done" => IdOf[c] # IdOf[q]
        /\ conn # "gone"
        => \A k \in 1..Filters[q] : [req |-> q, filter |-> k] \in listeners

\* A client that waits for the answer to a REQ before it sends CLOSE is left
\* without a listener of that REQ, however the goroutines run.
CloseIsFinal ==
    \A c \in Close : closing[c] = "done" =>
        \A l \in listeners : l.req \notin answered[c]

\* No goroutine brings back a listener of a client that has gone (listener.go:46).
GoneIsClean == conn = "gone" => listeners = {}

\* What "ok" tells an operator (README.md:115, lifecycle.go:104-121).  No response
\* was lost and no query was refused; and what was loaded has been written to
\* its end, but for a scan that ended with an error nobody asked for
\* (query.go:29) and for a CLOSE of the id, handled before the EOSE.  A
\* connection that ends while events are loaded is never reported "ok".
OkIsTrue ==
    \A q \in Req : outcome[q] = "ok" =>
        /\ q \notin lost /\ ~obs[q].internalError
        /\ q \in broken \ scanFailed =>
             \E c \in Close : closing[c] = "done" /\ IdOf[c] = IdOf[q]

\* README.md:128: a REQ whose search failed is reported "error", never "ok"; :115:
\* neither a storage error nor a cancellation is treated as "ok".
OkIsSearched == \A q \in Req : outcome[q] = "ok" => q \notin broken

\* Every REQ that is read comes to its end.
ReqsEnd == \A q \in Req : pc[q] = "filters" ~> pc[q] = "done"

=============================================================================
