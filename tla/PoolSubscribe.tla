---------------------------- MODULE PoolSubscribe ----------------------------
(***************************************************************************)
(* A subscription to many relays (subMany of src/internal/nostr/pool.go).  *)
(*                                                                         *)
(* One goroutine for every relay of the list connects, subscribes, passes  *)
(* events on to one channel and starts again when the connection breaks.   *)
(* Another one for every subscription waits for its EOSE.  The last of     *)
(* the first closes the channel of events; a WaitGroup counts the relays   *)
(* whose EOSE is outstanding.                                              *)
(***************************************************************************)
EXTENDS Integers, Sequences, FiniteSets

CONSTANTS
    Lists,        \* lists of relays, normalized
    MaxTries      \* bound: connections that break or fail

ListsAssumption == Lists \subseteq Seq(STRING) /\ MaxTries \in Nat

VARIABLES
    urls,         \* the list subscribed to
    ctxDone,      \* the context of the subscription is cancelled
    pending,      \* goroutines that have not left
    eoseWg,
    eoseChan,     \* "open" or "closed"
    events,       \* "open" or "closed"
    g,            \* the goroutine of each relay: its step and its variables
    watchers,     \* watchers[i]: goroutines that wait for EOSE, and those that have got it
    sawEose,      \* relays that have sent EOSE
    tries,        \* breaks and failures left
    panicked      \* a channel was closed twice, or a WaitGroup went below zero

vars == <<urls, ctxDone, pending, eoseWg, eoseChan, events, g, watchers, sawEose, tries, panicked>>

Position == UNION {DOMAIN l : l \in Lists}
Index == DOMAIN urls
FirstOf(i) == \A j \in 1 .. i - 1 : urls[j] # urls[i]
Started == {i \in Index : FirstOf(i)}      \* duplicates are skipped

\* The loop over urls has run: a duplicate is taken off eoseWg only.
Fresh ==
    /\ urls \in Lists
    /\ ctxDone = FALSE
    /\ pending = Len(urls)
    /\ eoseWg = Cardinality(Started)
    /\ eoseChan = "open"
    /\ events = "open"
    /\ g = [i \in Started |-> [pc |-> "top", eosed |-> FALSE, hasAuthed |-> FALSE]]
    /\ watchers = [i \in Started |-> [waiting |-> FALSE, woken |-> FALSE]]
    /\ sawEose = {}
    /\ tries = MaxTries

Init == Fresh /\ panicked = FALSE

At(i, l) == g[i].pc = l
Goto(i, l) == g' = [g EXCEPT ![i].pc = l]

-----------------------------------------------------------------------------

CancelContext ==
    /\ ~ctxDone
    /\ ctxDone' = TRUE
    /\ UNCHANGED <<urls, pending, eoseWg, eoseChan, events, g, watchers, sawEose, tries, panicked>>

Top(i) ==
    /\ At(i, "top")
    /\ Goto(i, IF ctxDone THEN "leave" ELSE "ensure")
    /\ UNCHANGED <<urls, ctxDone, pending, eoseWg, eoseChan, events, watchers, sawEose, tries, panicked>>

EnsureRelay(i) ==
    /\ At(i, "ensure")
    /\ g' = [g EXCEPT ![i].pc = "subscribe", ![i].hasAuthed = FALSE]
    /\ UNCHANGED <<urls, ctxDone, pending, eoseWg, eoseChan, events, watchers, sawEose, tries, panicked>>

\* No connection, no subscription, or the channel of its events is closed.
\* The sleep between the attempts does not look at the context.
Reconnect(i) ==
    /\ At(i, "ensure") \/ At(i, "subscribe") \/ At(i, "loop")
    /\ tries > 0
    /\ tries' = tries - 1
    /\ Goto(i, "top")
    /\ watchers' = [watchers EXCEPT ![i].waiting = FALSE]
    /\ UNCHANGED <<urls, ctxDone, pending, eoseWg, eoseChan, events, sawEose, panicked>>

Subscribe(i) ==
    /\ At(i, "subscribe")
    /\ Goto(i, "loop")
    /\ watchers' = [watchers EXCEPT ![i].waiting = TRUE]
    /\ UNCHANGED <<urls, ctxDone, pending, eoseWg, eoseChan, events, sawEose, tries, panicked>>

ReceiveEvent(i) ==
    /\ At(i, "loop")
    /\ Goto(i, "deliver")
    /\ UNCHANGED <<urls, ctxDone, pending, eoseWg, eoseChan, events, watchers, sawEose, tries, panicked>>

Deliver(i) ==
    /\ At(i, "deliver")
    /\ Goto(i, "loop")
    /\ UNCHANGED <<urls, ctxDone, pending, eoseWg, eoseChan, events, watchers, sawEose, tries, panicked>>

\* CLOSED that asks for AUTH, and AUTH succeeds: subscribe again, once.
Authenticate(i) ==
    /\ At(i, "loop")
    /\ ~g[i].hasAuthed
    /\ g' = [g EXCEPT ![i].pc = "subscribe", ![i].hasAuthed = TRUE]
    /\ watchers' = [watchers EXCEPT ![i].waiting = FALSE]
    /\ UNCHANGED <<urls, ctxDone, pending, eoseWg, eoseChan, events, sawEose, tries, panicked>>

\* Any other CLOSED, an AUTH that fails, or the end of the context.
Leave(i) ==
    /\ At(i, "loop") \/ (At(i, "deliver") /\ ctxDone)
    /\ Goto(i, "leave")
    /\ UNCHANGED <<urls, ctxDone, pending, eoseWg, eoseChan, events, watchers, sawEose, tries, panicked>>

\* A closed connection or a CLOSED leaves the watcher waiting: without effect.
RelaySendsEose(i) ==
    /\ watchers[i].waiting
    /\ At(i, "loop") \/ At(i, "deliver")
    /\ watchers' = [watchers EXCEPT ![i] = [waiting |-> FALSE, woken |-> TRUE]]
    /\ sawEose' = sawEose \cup {i}
    /\ UNCHANGED <<urls, ctxDone, pending, eoseWg, eoseChan, events, g, tries, panicked>>

-----------------------------------------------------------------------------
(* Taking a relay off eoseWg *)

\* Faulty: a subscription that is made anew counts anew.
DoneTwice(i, gg) ==
    /\ eoseWg' = eoseWg - 1
    /\ panicked' = (panicked \/ eoseWg = 0)
    /\ g' = gg

\* CompareAndSwap of eosed.
DoneOnce(i, gg) ==
    IF g[i].eosed
    THEN g' = gg /\ UNCHANGED <<eoseWg, panicked>>
    ELSE /\ g' = [gg EXCEPT ![i].eosed = TRUE]
         /\ eoseWg' = eoseWg - 1
         /\ panicked' = (panicked \/ eoseWg = 0)

WatcherDone(i) ==
    /\ watchers[i].woken
    /\ watchers' = [watchers EXCEPT ![i].woken = FALSE]
    /\ DoneOnce(i, g)
    /\ UNCHANGED <<urls, ctxDone, pending, eoseChan, events, sawEose, tries>>

CloseEoseChan ==
    /\ eoseWg = 0
    /\ eoseChan = "open"
    /\ eoseChan' = "closed"
    /\ UNCHANGED <<urls, ctxDone, pending, eoseWg, events, g, watchers, sawEose, tries, panicked>>

-----------------------------------------------------------------------------
(* The deferred function of a goroutine that leaves *)

\* Faulty: a relay is taken off only with its EOSE.
DecPendingWithEose(i) ==
    /\ At(i, "leave")
    /\ pending' = IF g[i].eosed THEN pending - 1 ELSE pending
    /\ Goto(i, "last?")
    /\ UNCHANGED <<urls, ctxDone, eoseWg, eoseChan, events, watchers, sawEose, tries, panicked>>

DecPending(i) ==
    /\ At(i, "leave")
    /\ pending' = pending - 1
    /\ Goto(i, "last?")
    /\ UNCHANGED <<urls, ctxDone, eoseWg, eoseChan, events, watchers, sawEose, tries, panicked>>

\* The counter is read after it was decremented: two may find it zero.
CloseEvents(i) ==
    /\ At(i, "last?")
    /\ IF pending = 0
       THEN /\ events' = "closed"
            /\ ctxDone' = TRUE
            /\ panicked' = (events = "closed")
       ELSE UNCHANGED <<events, ctxDone, panicked>>
    /\ Goto(i, "eose")
    /\ UNCHANGED <<urls, pending, eoseWg, eoseChan, watchers, sawEose, tries>>

EndGoroutine(i) ==
    /\ At(i, "eose")
    /\ DoneOnce(i, [g EXCEPT ![i].pc = "ended"])
    /\ UNCHANGED <<urls, ctxDone, pending, eoseChan, events, watchers, sawEose, tries>>

-----------------------------------------------------------------------------

\* What needs neither the relay nor the consumer.
Run(i) ==
    \/ Top(i) \/ EnsureRelay(i) \/ Subscribe(i)
    \/ (ctxDone /\ Leave(i))
    \/ WatcherDone(i) \/ DecPending(i) \/ CloseEvents(i) \/ EndGoroutine(i)

Next ==
    /\ ~panicked
    /\ \/ CancelContext \/ CloseEoseChan
       \/ \E i \in Started :
            \/ Top(i) \/ EnsureRelay(i) \/ Reconnect(i) \/ Subscribe(i) \/ ReceiveEvent(i)
            \/ Deliver(i) \/ Authenticate(i) \/ Leave(i) \/ RelaySendsEose(i)
            \/ WatcherDone(i) \/ DecPending(i) \/ CloseEvents(i) \/ EndGoroutine(i)

\* Goroutines run, sleeps end, and a select does not pass over the context
\* for ever though events keep coming.
Fairness ==
    /\ WF_vars(~panicked /\ CloseEoseChan)
    /\ \A i \in Position : WF_vars(~panicked /\ i \in Started /\ Run(i))

Spec == Init /\ [][Next]_vars
FairSpec == Spec /\ Fairness

-----------------------------------------------------------------------------

TypeOK ==
    /\ urls \in Lists
    /\ ctxDone \in BOOLEAN /\ panicked \in BOOLEAN
    /\ pending \in 0 .. Len(urls)
    /\ eoseWg \in (IF panicked THEN Int ELSE 0 .. Len(urls))
    /\ eoseChan \in {"open", "closed"} /\ events \in {"open", "closed"}
    /\ g \in [Started -> [pc : {"top", "ensure", "subscribe", "loop", "deliver", "leave",
                                "last?", "eose", "ended"},
                          eosed : BOOLEAN, hasAuthed : BOOLEAN]]
    /\ watchers \in [Started -> [waiting : BOOLEAN, woken : BOOLEAN]]
    /\ sawEose \subseteq Started
    /\ tries \in 0 .. MaxTries

(***************************************************************************)
(* The channel that SubscribeManyNotifyEOSE closes is closed only when     *)
(* every relay of the list has sent EOSE or has been given up, however     *)
(* often another one was subscribed to anew.                               *)
(***************************************************************************)
EoseIsAll ==
    eoseChan = "closed" => \A i \in Started : i \in sawEose \/ At(i, "ended")

(***************************************************************************)
(* When the context ends, the channel of events is closed, in whatever     *)
(* state the goroutines are; unless it is closed twice, or the list has a  *)
(* duplicate, which pending counts though no goroutine takes it off.       *)
(***************************************************************************)
SubManyEnds == ctxDone /\ Started = Index ~> events = "closed" \/ panicked

=============================================================================
