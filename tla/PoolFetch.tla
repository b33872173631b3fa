------------------------------ MODULE PoolFetch ------------------------------
(***************************************************************************)
(* Fetching from many relays until each has sent EOSE                      *)
(* (SubManyEose, BatchedSubManyEose and FetchManyReplaceable of            *)
(* src/internal/nostr/pool.go, with the reader's check for duplicates in   *)
(* src/internal/nostr/relay.go).                                           *)
(*                                                                         *)
(* The relays' readers share a map of what they have seen, which they look *)
(* at and change before an event is verified and passed on.  What passes   *)
(* is received by the goroutine of the relay's subscription.               *)
(***************************************************************************)
EXTENDS Integers, Sequences, FiniteSets

CONSTANTS
    Relay,
    Stored,       \* Stored[u]: what relay u answers, [id, key, time, good] records
    Live          \* Live[u]: what it sends after EOSE

Copy == UNION {{s[i] : i \in DOMAIN s} : s \in {Stored[u] : u \in Relay} \cup {Live[u] : u \in Relay}}
Id == {e.id : e \in Copy}
Key == {e.key : e \in Copy}

CopyAssumption ==
    /\ Stored \in [Relay -> Seq(Copy)] /\ Live \in [Relay -> Seq(Copy)]
    /\ \A e \in Copy : e.time \in Nat \ {0} /\ e.good \in BOOLEAN

VARIABLES
    mode,         \* "ids" (SubManyEose) or "latest" (FetchManyReplaceable)
    ctx,          \* "live", "cancelled" by the caller, or "over"
    seen,         \* seenAlready
    latest,       \* seenAlreadyLatest
    toRead,       \* toRead[u]: what relay u has yet to send
    eose,         \* relays that have sent EOSE
    dispatched,   \* dispatched[u]: copies whose goroutines wait for the subscription's
    g,            \* g[u]: the subscription's goroutine: its step and the copy it holds
    hasAuthed,
    received,     \* received[i]: how often the caller has got event i
    results,      \* results[k]: the time of the event kept for key k
    wasted        \* events marked as seen through a copy that is not passed on

vars == <<mode, ctx, seen, latest, toRead, eose, dispatched, g, hasAuthed, received, results, wasted>>

Init ==
    /\ mode \in {"ids", "latest"}
    /\ ctx = "live"
    /\ seen = {}
    /\ latest = [k \in Key |-> 0]
    /\ toRead = Stored
    /\ eose = {}
    /\ dispatched = [u \in Relay |-> {}]
    /\ g = [u \in Relay |-> [pc |-> "start", holds |-> {}]]
    /\ hasAuthed = {}
    /\ received = [i \in Id |-> 0]
    /\ results = [k \in Key |-> 0]
    /\ wasted = {}

At(u, l) == g[u].pc = l
Goto(u, l) == g' = [g EXCEPT ![u] = [pc |-> l, holds |-> {}]]
Left(u) == At(u, "eose") \/ At(u, "left")
Subscribed(u) == ~At(u, "start") /\ ctx # "over"
Ids(es) == {e.id : e \in es}

-----------------------------------------------------------------------------

CancelContext ==
    /\ ctx = "live"
    /\ ctx' = "cancelled"
    /\ UNCHANGED <<mode, seen, latest, toRead, eose, dispatched, g, hasAuthed, received, results, wasted>>

Subscribe(u) ==
    /\ At(u, "start")
    /\ Goto(u, "loop")
    /\ UNCHANGED <<mode, ctx, seen, latest, toRead, eose, dispatched, hasAuthed, received, results, wasted>>

\* No connection, or no subscription.
SubscribeFails(u) ==
    /\ At(u, "start")
    /\ Goto(u, "left")
    /\ UNCHANGED <<mode, ctx, seen, latest, toRead, eose, dispatched, hasAuthed, received, results, wasted>>

-----------------------------------------------------------------------------
(* The relay's reader *)

\* FetchManyReplaceable's function returns that the event is newer.
Drops(e) == IF mode = "ids" THEN e.id \in seen ELSE e.time > latest[e.key]

\* Faulty: an event is marked when it is passed on.
MarkLater(e) == UNCHANGED <<seen, latest>>

\* LoadOrStore, or Compute: the event is marked whatever becomes of it.
Mark(e) ==
    /\ seen' = seen \cup {e.id}
    /\ latest' = [latest EXCEPT ![e.key] = IF e.time > @ THEN e.time ELSE @]

ReadCopy(u) ==
    /\ Subscribed(u)
    /\ toRead[u] # <<>>
    /\ toRead' = [toRead EXCEPT ![u] = Tail(@)]
    /\ LET e == Head(toRead[u])
           Passes == ~Drops(e) /\ e.good
       IN  /\ Mark(e)
           /\ dispatched' = IF Passes /\ ~Left(u) THEN [dispatched EXCEPT ![u] = @ \cup {e}]
                            ELSE dispatched
           /\ wasted' = IF ~Drops(e) /\ ~(Passes /\ ~Left(u)) THEN wasted \cup {e.id} ELSE wasted
    /\ UNCHANGED <<mode, ctx, eose, g, hasAuthed, received, results>>

ReadEose(u) ==
    /\ Subscribed(u)
    /\ toRead[u] = <<>>
    /\ u \notin eose
    /\ eose' = eose \cup {u}
    /\ toRead' = [toRead EXCEPT ![u] = Live[u]]
    /\ UNCHANGED <<mode, ctx, seen, latest, dispatched, g, hasAuthed, received, results, wasted>>

-----------------------------------------------------------------------------
(* The subscription's goroutine *)

\* EndOfStoredEvents comes after the stored events: see RelaySubscription.
LeaveAtEose(u) ==
    /\ At(u, "loop")
    /\ u \in eose
    /\ dispatched[u] \cap {Stored[u][i] : i \in DOMAIN Stored[u]} = {}
    /\ wasted' = wasted \cup Ids(dispatched[u])
    /\ dispatched' = [dispatched EXCEPT ![u] = {}]
    /\ Goto(u, "eose")
    /\ UNCHANGED <<mode, ctx, seen, latest, toRead, eose, hasAuthed, received, results>>

\* CLOSED, the end of the connection or that of the context: what waits for
\* the goroutine is lost, and so is what it holds.
Leave(u) ==
    /\ At(u, "loop") \/ (At(u, "send") /\ ctx # "live")
    /\ Goto(u, "left")
    /\ wasted' = wasted \cup Ids(dispatched[u] \cup g[u].holds)
    /\ dispatched' = [dispatched EXCEPT ![u] = {}]
    /\ UNCHANGED <<mode, ctx, seen, latest, toRead, eose, hasAuthed, received, results>>

\* CLOSED asks for AUTH: a new subscription, once.
Authenticate(u) ==
    /\ At(u, "loop")
    /\ u \notin hasAuthed
    /\ hasAuthed' = hasAuthed \cup {u}
    /\ Goto(u, "start")
    /\ toRead' = [toRead EXCEPT ![u] = Stored[u]]
    /\ eose' = eose \ {u}
    /\ wasted' = wasted \cup Ids(dispatched[u])
    /\ dispatched' = [dispatched EXCEPT ![u] = {}]
    /\ UNCHANGED <<mode, ctx, seen, latest, received, results>>

\* FetchManyReplaceable keeps the event at once.
TakeEvent(u) ==
    /\ At(u, "loop")
    /\ \E e \in dispatched[u] :
        /\ dispatched' = [dispatched EXCEPT ![u] = @ \ {e}]
        /\ IF mode = "latest"
           THEN results' = [results EXCEPT ![e.key] = e.time] /\ UNCHANGED g
           ELSE g' = [g EXCEPT ![u] = [pc |-> "send", holds |-> {e}]] /\ UNCHANGED results
    /\ UNCHANGED <<mode, ctx, seen, latest, toRead, eose, hasAuthed, received, wasted>>

SendEvent(u) ==
    /\ At(u, "send")
    /\ received' = [i \in Id |-> received[i] + Cardinality({e \in g[u].holds : e.id = i})]
    /\ Goto(u, "loop")
    /\ UNCHANGED <<mode, ctx, seen, latest, toRead, eose, dispatched, hasAuthed, results, wasted>>

\* wg.Wait: the subscriptions are cancelled and the channel is closed.
FetchEnds ==
    /\ \A u \in Relay : Left(u)
    /\ ctx # "over"
    /\ ctx' = "over"
    /\ UNCHANGED <<mode, seen, latest, toRead, eose, dispatched, g, hasAuthed, received, results, wasted>>

Next ==
    \/ CancelContext \/ FetchEnds
    \/ \E u \in Relay :
        \/ Subscribe(u) \/ SubscribeFails(u) \/ ReadCopy(u) \/ ReadEose(u)
        \/ LeaveAtEose(u) \/ Leave(u) \/ Authenticate(u) \/ TakeEvent(u) \/ SendEvent(u)

Spec == Init /\ [][Next]_vars

-----------------------------------------------------------------------------

TypeOK ==
    /\ mode \in {"ids", "latest"} /\ ctx \in {"live", "cancelled", "over"}
    /\ seen \subseteq Id
    /\ latest \in [Key -> Nat] /\ results \in [Key -> Nat]
    /\ eose \subseteq Relay /\ hasAuthed \subseteq Relay
    /\ \A u \in Relay : toRead[u] \in Seq(Copy) /\ dispatched[u] \subseteq Copy
    /\ \A u \in Relay : g[u].pc \in {"start", "loop", "send", "eose", "left"} /\ g[u].holds \subseteq Copy
    /\ received \in [Id -> Nat]
    /\ wasted \subseteq Id

(***************************************************************************)
(* FetchMany gives its caller every event that some relay has sent before  *)
(* its EOSE, once: no event twice, and none lost between the relays, other *)
(* than one marked as seen through a copy that is not passed on: it is     *)
(* badly signed, comes after the EOSE of its relay, or is caught by the    *)
(* end of its subscription.                                                *)
(***************************************************************************)
FetchIsUnion ==
    mode = "ids" =>
        /\ \A i \in Id : received[i] <= 1
        /\ \A u \in Relay : \A n \in DOMAIN Stored[u] :
            ctx = "over" /\ At(u, "eose") =>
                LET i == Stored[u][n].id IN received[i] = 1 \/ i \in wasted

(***************************************************************************)
(* What pool.go:315 says: FetchManyReplaceable returns the latest event of *)
(* each key.                                                               *)
(***************************************************************************)
LatestIsKept ==
    mode = "latest" /\ ctx = "over" /\ (\A u \in Relay : At(u, "eose")) =>
        \A u \in Relay : \A n \in DOMAIN Stored[u] :
            LET e == Stored[u][n] IN e.good => results[e.key] >= e.time

=============================================================================
