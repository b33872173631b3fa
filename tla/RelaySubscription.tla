-------------------------- MODULE RelaySubscription --------------------------
(***************************************************************************)
(* Subscriptions and counts of a client on one relay connection            *)
(* (src/internal/nostr/subscription.go, and the reader, Subscribe and      *)
(* countInternal of src/internal/nostr/relay.go).                          *)
(*                                                                         *)
(* A subscription lives in goroutines: the caller, which fires it and      *)
(* reads its channels; start, which waits for its context; one for every   *)
(* event, that sends it to the caller; one for EOSE; one for CLOSED; and   *)
(* the connection's writer, which ends all subscriptions when the          *)
(* connection ends.  sub.mu is held while an event waits for the caller.   *)
(* A write takes no time here: RelayClient shows the writer.               *)
(***************************************************************************)
EXTENDS Integers, Sequences, FiniteSets

CONSTANTS
    Sub,
    Script,       \* Script[k]: what the relay may answer a "req" or a "count"
    MaxEvents     \* bound: events that the relay sends a subscription

ScriptAssumption == DOMAIN Script = {"req", "count"}
EventsAssumption == MaxEvents \in Nat

VARIABLES
    link,         \* the connection: "up", "done" or "swept" (the writer has stopped)
    reader,       \* what the reader is doing, and for which subscription
    kind,         \* kind[s]: "req" or "count"
    known,        \* r.Subscriptions
    sub,          \* the subscriptions' fields
    caller,       \* the caller's step
    unsubs,       \* unsubs[s][g]: the step of goroutine g's unsub of s
    inbox,        \* inbox[s]: messages for s on their way from the relay
    event,        \* event[s][i]: the goroutine of the i-th event, stored if before EOSE
    eose,         \* eose[s]: the goroutine of EOSE
    panicked,     \* a send on a closed channel
    lateFire      \* subscriptions fired after their context was cancelled

vars == <<link, reader, kind, known, sub, caller, unsubs, inbox, event, eose, panicked, lateFire>>

Index == 1 .. MaxEvents
Goroutine == {"start", "caller", "closed", "writer"}
Free == 0               \* sub.mu is held by nobody

Connected ==
    /\ link = "up"
    /\ reader = [pc |-> "read", sub |-> {}]
    /\ known = {}
    /\ sub = [s \in Sub |-> [live |-> FALSE, eosed |-> FALSE, cancelled |-> FALSE,
                             closed |-> FALSE, storedwg |-> 0, mu |-> Free]]
    /\ caller = [s \in Sub |-> "idle"]
    /\ unsubs = [s \in Sub |-> [g \in Goroutine |-> "none"]]
    /\ kind \in [Sub -> DOMAIN Script]
    /\ inbox \in [Sub -> UNION {Script[k] : k \in DOMAIN Script}]
    /\ \A s \in Sub : inbox[s] \in Script[kind[s]]
    /\ event = [s \in Sub |-> [i \in Index |-> [pc |-> "none", stored |-> FALSE, added |-> FALSE]]]
    /\ eose = [s \in Sub |-> "none"]
    /\ lateFire = {}

Init == Connected /\ panicked = FALSE

CallerGoto(s, l) == caller' = [caller EXCEPT ![s] = l]
Begin(s, g) == unsubs' = [unsubs EXCEPT ![s][g] = "cancel"]

-----------------------------------------------------------------------------
(* Subscribe and countInternal *)

PrepareSubscription(s) ==
    /\ caller[s] = "idle"
    /\ known' = known \cup {s}
    /\ CallerGoto(s, IF kind[s] = "req" THEN "check" ELSE "fire")
    /\ UNCHANGED <<link, reader, kind, sub, unsubs, inbox, event, eose, panicked, lateFire>>

\* r.Connection == nil: the subscription stays known until its context ends.
CheckConnection(s) ==
    /\ caller[s] = "check"
    /\ CallerGoto(s, IF link = "swept" THEN "refused" ELSE "fire")
    /\ UNCHANGED <<link, reader, kind, known, sub, unsubs, inbox, event, eose, panicked, lateFire>>

FireLive(s) ==
    /\ caller[s] = "fire"
    /\ sub' = [sub EXCEPT ![s].live = TRUE]
    /\ lateFire' = IF sub[s].cancelled THEN lateFire \cup {s} ELSE lateFire
    /\ CallerGoto(s, "write")
    /\ UNCHANGED <<link, reader, kind, known, unsubs, inbox, event, eose, panicked>>

FireWrite(s) ==
    /\ caller[s] = "write"
    /\ IF link = "up"
       THEN CallerGoto(s, "subscribed") /\ UNCHANGED sub
       ELSE CallerGoto(s, "failed") /\ sub' = [sub EXCEPT ![s].cancelled = TRUE]
    /\ UNCHANGED <<link, reader, kind, known, unsubs, inbox, event, eose, panicked, lateFire>>

\* The caller's context is cancelled, or its time is up.
ContextDone(s) ==
    /\ caller[s] # "idle"
    /\ ~sub[s].cancelled
    /\ sub' = [sub EXCEPT ![s].cancelled = TRUE]
    /\ UNCHANGED <<link, reader, kind, known, caller, unsubs, inbox, event, eose, panicked, lateFire>>

\* Unsub, the end of QueryEvents, or countInternal's own timeout.
CallerUnsubs(s) ==
    /\ caller[s] = "subscribed"
    /\ CallerGoto(s, "left")
    /\ Begin(s, "caller")
    /\ UNCHANGED <<link, reader, kind, known, sub, inbox, event, eose, panicked, lateFire>>

-----------------------------------------------------------------------------
(* unsub, and start, which closes the channel after it *)

UnsubAt(s, g, l) == unsubs[s][g] = l
UnsubGoto(s, g, l) == unsubs' = [unsubs EXCEPT ![s][g] = l]

Start(s) ==
    /\ caller[s] # "idle"
    /\ UnsubAt(s, "start", "none")
    /\ sub[s].cancelled
    /\ Begin(s, "start")
    /\ UNCHANGED <<link, reader, kind, known, sub, caller, inbox, event, eose, panicked, lateFire>>

UnsubCancel(s, g) ==
    /\ UnsubAt(s, g, "cancel")
    /\ sub' = [sub EXCEPT ![s].cancelled = TRUE]
    /\ UnsubGoto(s, g, "swap")
    /\ UNCHANGED <<link, reader, kind, known, caller, inbox, event, eose, panicked, lateFire>>

\* CompareAndSwap; the CLOSE makes the relay stop if the link is up.
UnsubSwap(s, g) ==
    /\ UnsubAt(s, g, "swap")
    /\ sub' = [sub EXCEPT ![s].live = FALSE]
    /\ UnsubGoto(s, g, "delete")
    /\ UNCHANGED <<link, reader, kind, known, caller, inbox, event, eose, panicked, lateFire>>

UnsubDelete(s, g) ==
    /\ UnsubAt(s, g, "delete")
    /\ known' = known \ {s}
    /\ UnsubGoto(s, g, IF g = "start" THEN "closeEvents" ELSE "ended")
    /\ UNCHANGED <<link, reader, kind, sub, caller, inbox, event, eose, panicked, lateFire>>

CloseEvents(s) ==
    /\ UnsubAt(s, "start", "closeEvents")
    /\ sub[s].mu = Free
    /\ sub' = [sub EXCEPT ![s].closed = TRUE]
    /\ UnsubGoto(s, "start", "ended")
    /\ UNCHANGED <<link, reader, kind, known, caller, inbox, event, eose, panicked, lateFire>>

UnsubStep(s) ==
    \/ Start(s) \/ CloseEvents(s)
    \/ \E g \in Goroutine : UnsubCancel(s, g) \/ UnsubSwap(s, g) \/ UnsubDelete(s, g)

-----------------------------------------------------------------------------
(* The connection *)

\* The read fails, Close is called, or three pings are not answered: a reader
\* that is blocked on a count reads no pong.
LinkEnds ==
    /\ link = "up"
    /\ link' = "done"
    /\ UNCHANGED <<reader, kind, known, sub, caller, unsubs, inbox, event, eose, panicked, lateFire>>

\* The writer sets r.Connection to nil, and ends the subscriptions it finds.
Sweep ==
    /\ link = "done"
    /\ link' = "swept"
    /\ unsubs' = [s \in Sub |-> IF s \in known THEN [unsubs[s] EXCEPT !["writer"] = "cancel"]
                                ELSE unsubs[s]]
    /\ UNCHANGED <<reader, kind, known, sub, caller, inbox, event, eose, panicked, lateFire>>

ReaderGoto(l, ss) == reader' = [pc |-> l, sub |-> ss]

\* The relay answers a request that has reached it.  A message for a
\* subscription that is not known is dropped.
Read(s, type) ==
    /\ reader.pc = "read"
    /\ link = "up"
    /\ caller[s] \in {"subscribed", "left"}
    /\ inbox[s] # <<>> /\ Head(inbox[s]) = type
    /\ inbox' = [inbox EXCEPT ![s] = Tail(@)]

\* A duplicate, and an event that does not match or is badly signed, is dropped.
ReadEvent(s) ==
    /\ Read(s, "event")
    /\ \/ s \in known /\ ReaderGoto("event", {s})
       \/ UNCHANGED reader
    /\ UNCHANGED <<link, kind, known, sub, caller, unsubs, event, eose, panicked, lateFire>>

\* Faulty: the goroutine adds itself to the WaitGroup.
DispatchAddsLate ==
    /\ reader.pc = "event"
    /\ \E s \in reader.sub, i \in Index :
        /\ event[s][i].pc = "none" /\ \A j \in 1 .. i - 1 : event[s][j].pc # "none"
        /\ event' = [event EXCEPT ![s][i] = [pc |-> "lock", stored |-> ~sub[s].eosed, added |-> FALSE]]
    /\ ReaderGoto("read", {})
    /\ UNCHANGED <<link, kind, known, sub, caller, unsubs, inbox, eose, panicked, lateFire>>

\* dispatchEvent, on the subscription found before, that may be over by now.
DispatchEvent ==
    /\ reader.pc = "event"
    /\ \E s \in reader.sub, i \in Index :
        /\ event[s][i].pc = "none" /\ \A j \in 1 .. i - 1 : event[s][j].pc # "none"
        /\ event' = [event EXCEPT ![s][i] = [pc |-> "lock", stored |-> ~sub[s].eosed,
                                              added |-> ~sub[s].eosed]]
        /\ sub' = [sub EXCEPT ![s].storedwg = @ + (IF sub[s].eosed THEN 0 ELSE 1)]
    /\ ReaderGoto("read", {})
    /\ UNCHANGED <<link, kind, known, caller, unsubs, inbox, eose, panicked, lateFire>>

ReadEose(s) ==
    /\ Read(s, "eose")
    /\ IF s \in known /\ ~sub[s].eosed
       THEN /\ sub' = [sub EXCEPT ![s].eosed = TRUE]
            /\ eose' = [eose EXCEPT ![s] = "wait"]
       ELSE UNCHANGED <<sub, eose>>
    /\ UNCHANGED <<link, reader, kind, known, caller, unsubs, event, panicked, lateFire>>

\* handleClosed: the reason is sent, live is unset and the subscription ends.
ReadClosed(s) ==
    /\ Read(s, "closed")
    /\ unsubs' = IF s \in known THEN [unsubs EXCEPT ![s]["closed"] = "live"] ELSE unsubs
    /\ UNCHANGED <<link, reader, kind, known, sub, caller, event, eose, panicked, lateFire>>

ClosedReason(s) ==
    /\ UnsubAt(s, "closed", "live")
    /\ sub' = [sub EXCEPT ![s].live = FALSE]
    /\ UnsubGoto(s, "closed", "cancel")
    /\ UNCHANGED <<link, reader, kind, known, caller, inbox, event, eose, panicked, lateFire>>

\* countResult has no buffer: the reader waits for the caller.
ReadCount(s) ==
    /\ Read(s, "count")
    /\ IF s \in known THEN ReaderGoto("count", {s}) ELSE UNCHANGED reader
    /\ UNCHANGED <<link, kind, known, sub, caller, unsubs, event, eose, panicked, lateFire>>

CountResult(s) ==
    /\ reader.pc = "count" /\ s \in reader.sub
    /\ caller[s] = "subscribed"
    /\ ReaderGoto("read", {})
    /\ CallerGoto(s, "left")
    /\ Begin(s, "caller")
    /\ UNCHANGED <<link, kind, known, sub, inbox, event, eose, panicked, lateFire>>

-----------------------------------------------------------------------------
(* The goroutines of events and of EOSE *)

\* The goroutine of event i ends.
Ended(s, i, l) ==
    /\ event' = [event EXCEPT ![s][i].pc = l]
    /\ sub' = [sub EXCEPT ![s].mu = Free, ![s].storedwg = @ - (IF event[s][i].added THEN 1 ELSE 0)]
    /\ UNCHANGED <<link, reader, kind, known, caller, unsubs, inbox, eose, lateFire>>

Locked(s, i) == event[s][i].pc = "lock" /\ sub[s].mu = Free

EventSkipped(s, i) ==
    /\ Locked(s, i)
    /\ ~sub[s].live
    /\ Ended(s, i, "dropped")
    /\ UNCHANGED panicked

\* Faulty: it is looked at before the mutex is taken.
MayLockUnchecked(s, i) == Locked(s, i)

MayLock(s, i) == Locked(s, i) /\ sub[s].live

EventLocks(s, i) ==
    /\ MayLock(s, i)
    /\ event' = [event EXCEPT ![s][i].pc = "send"]
    /\ sub' = [sub EXCEPT ![s].mu = i]
    /\ UNCHANGED <<link, reader, kind, known, caller, unsubs, inbox, eose, panicked, lateFire>>

EventReceived(s, i) ==
    /\ event[s][i].pc = "send"
    /\ caller[s] = "subscribed" /\ ~sub[s].closed
    /\ Ended(s, i, "received")
    /\ UNCHANGED panicked

\* Faulty: the send waits for the caller only.
GiveUpNever(s, i) == FALSE /\ Ended(s, i, "dropped") /\ UNCHANGED panicked

EventGivesUp(s, i) ==
    /\ event[s][i].pc = "send"
    /\ sub[s].cancelled
    /\ Ended(s, i, "dropped")
    /\ UNCHANGED panicked

\* A select that may send on a closed channel may panic.
EventPanics(s, i) ==
    /\ event[s][i].pc = "send"
    /\ sub[s].closed
    /\ panicked' = TRUE
    /\ Ended(s, i, "dropped")

EventStep(s) ==
    \E i \in Index :
        \/ EventSkipped(s, i) \/ EventLocks(s, i)
        \/ EventGivesUp(s, i) \/ EventPanics(s, i)

EoseSignalled(s) ==
    /\ eose[s] = "wait"
    /\ sub[s].storedwg = 0
    /\ eose' = [eose EXCEPT ![s] = "signalled"]
    /\ UNCHANGED <<link, reader, kind, known, sub, caller, unsubs, inbox, event, panicked, lateFire>>

-----------------------------------------------------------------------------

CallerStep(s) == CheckConnection(s) \/ FireLive(s) \/ FireWrite(s)
ReaderStep(s) == ReadEvent(s) \/ ReadEose(s) \/ ReadClosed(s) \/ ReadCount(s) \/ CountResult(s)

Next ==
    /\ ~panicked
    /\ \/ LinkEnds \/ Sweep \/ DispatchEvent
       \/ \E s \in Sub :
            \/ PrepareSubscription(s) \/ CallerStep(s) \/ ContextDone(s) \/ CallerUnsubs(s)
            \/ UnsubStep(s) \/ ReaderStep(s) \/ ClosedReason(s)
            \/ EventStep(s) \/ EoseSignalled(s)
            \/ \E i \in Index : EventReceived(s, i)

\* Goroutines run; the caller need not read, nor the relay answer.
Fairness ==
    /\ WF_vars(~panicked /\ Sweep)
    /\ WF_vars(~panicked /\ DispatchEvent)
    /\ \A s \in Sub :
        /\ WF_vars(~panicked /\ (CallerStep(s) \/ ClosedReason(s)))
        /\ WF_vars(~panicked /\ UnsubStep(s))
        /\ WF_vars(~panicked /\ EventStep(s))

Spec == Init /\ [][Next]_vars
FairSpec == Spec /\ Fairness

-----------------------------------------------------------------------------

TypeOK ==
    /\ link \in {"up", "done", "swept"}
    /\ reader \in [pc : {"read", "event", "count"}, sub : SUBSET Sub]
    /\ known \subseteq Sub
    /\ kind \in [Sub -> {"req", "count"}]
    /\ sub \in [Sub -> [live : BOOLEAN, eosed : BOOLEAN, cancelled : BOOLEAN, closed : BOOLEAN,
                        storedwg : 0 .. MaxEvents, mu : 0 .. MaxEvents]]
    /\ caller \in [Sub -> {"idle", "check", "refused", "fire", "write", "failed", "subscribed", "left"}]
    /\ unsubs \in [Sub -> [Goroutine ->
            {"none", "live", "cancel", "swap", "delete", "closeEvents", "ended"}]]
    /\ \A s \in Sub : inbox[s] \in Seq({"event", "eose", "closed", "count"})
    /\ event \in [Sub -> [Index -> [pc : {"none", "lock", "send", "received", "dropped"},
                                    stored : BOOLEAN, added : BOOLEAN]]]
    /\ eose \in [Sub -> {"none", "wait", "signalled"}]
    /\ panicked \in BOOLEAN
    /\ lateFire \subseteq Sub

(***************************************************************************)
(* When EndOfStoredEvents fires, the caller has received every event that  *)
(* the relay sent before EOSE, unless the subscription has ended.          *)
(***************************************************************************)
EoseAfterStored ==
    \A s \in Sub :
        eose[s] = "signalled" =>
            \A i \in Index :
                event[s][i].stored => event[s][i].pc = "received"
                                     \/ sub[s].cancelled \/ unsubs[s]["closed"] # "none"

(***************************************************************************)
(* An event is sent on a closed channel, which start()'s comment           *)
(* (subscription.go:94) rules out, only if the subscription was fired      *)
(* after its context had been cancelled.                                   *)
(***************************************************************************)
OnlyLateFirePanics == panicked => lateFire # {}

(***************************************************************************)
(* When the context of a subscription ends, or the connection of one that  *)
(* has been subscribed, the channel of its events is closed and the        *)
(* caller's range over it ends, though the caller may not be reading and   *)
(* an event may be waiting for it under the mutex, and several goroutines  *)
(* may end the subscription at once.                                       *)
(***************************************************************************)
CallerFreed ==
    \A s \in Sub :
        sub[s].cancelled \/ (caller[s] = "subscribed" /\ link # "up")
            ~> sub[s].closed \/ panicked

=============================================================================
