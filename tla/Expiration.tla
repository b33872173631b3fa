----------------------------- MODULE Expiration -----------------------------
(***************************************************************************)
(* The NIP-40 expiration manager                                           *)
(* (src/internal/relay/engine/expiration.go, nostr/nip40/nip40.go).        *)
(*                                                                         *)
(* One goroutine wakes up every interval.  The first time it scans the     *)
(* storage; every time it pops the entries that are due from a heap and    *)
(* deletes their events.  Handlers of EVENTs push an entry after the       *)
(* event is stored, and handlers of deletions remove an entry after the    *)
(* event is deleted; a replaced version keeps its entry.  The heap is a    *)
(* bag of events: em.mu guards it, but not the storage.  A handler tracks  *)
(* what it was told is stored, or superseded: not an event whose save has  *)
(* failed, though its row may be there, nor one it finds there already     *)
(* (adding.go:64-71).                                                      *)
(***************************************************************************)
EXTENDS Integers, Sequences, FiniteSets

CONSTANTS
    Event,
    Tags,         \* Tags[e]: the tags of e; a value is the set of the number it spells
    CreatedAt,    \* the place of e in ORDER BY created_at, id
    QueryLimit,   \* rows that a filter without a limit returns
    MaxNow,       \* bound: the clock stops here
    Publications, \* bound: events published
    Faults,       \* bound: statements that fail
    Crashes       \* bound: restarts of the process

TagsAssumption == Tags \in [Event -> Seq([name : STRING, value : SUBSET Int])]
TimeAssumption == CreatedAt \in [Event -> Nat] /\ MaxNow \in Nat
ExpirationBounds == {QueryLimit, Publications, Faults, Crashes} \subseteq Nat

VARIABLES
    now,       \* the clock
    stored,    \* the events in the storage
    heap,      \* heap[e]: the entries of e in em.events
    scanned,   \* em.initialScanDone
    manager,   \* the goroutine: its step, its event, the time it has read; it is
               \* "stopped" when the relay's context is done
    tracking,  \* events whose EVENT handler has yet to call trackEvent
    untracking,\* events whose deletion's handler has yet to call removeEvent
    fresh,     \* rows whose handler was told, since the start, that they are stored
    missed,    \* rows to which something happened that may hide them for good
    budget     \* publications, faults and crashes left

vars == <<now, stored, heap, scanned, manager, tracking, untracking, fresh, missed, budget>>

-----------------------------------------------------------------------------
(* nip40.GetExpiration *)

Never == -1

GetExpiration(tags) ==
    LET Named == {i \in DOMAIN tags : tags[i].name = "expiration"}
        Value == tags[CHOOSE i \in Named : \A j \in Named : i <= j].value
    IN  IF Named = {} \/ Value = {} THEN Never ELSE CHOOSE n \in Value : TRUE

Expiring(e) == GetExpiration(Tags[e]) # Never
ExpiresAt(e) == GetExpiration(Tags[e])

-----------------------------------------------------------------------------

Init ==
    /\ now = 0
    /\ stored \in SUBSET Event
    /\ heap = [e \in Event |-> 0]
    /\ scanned = FALSE
    /\ manager = [pc |-> "idle", event |-> {}, now |-> 0]
    /\ tracking = {}
    /\ untracking = {}
    /\ fresh = {}
    /\ missed = {}
    /\ budget = [publications |-> Publications, faults |-> Faults, crashes |-> Crashes]

At(l) == manager.pc = l
Goto(l, es) == manager' = [manager EXCEPT !.pc = l, !.event = es]
Pay(b) == budget[b] > 0 /\ budget' = [budget EXCEPT ![b] = @ - 1]
Unlocked == manager.pc \notin {"pop", "query", "delete"}    \* em.mu

Clock ==
    /\ now < MaxNow
    /\ now' = now + 1
    /\ UNCHANGED <<stored, heap, scanned, manager, tracking, untracking, fresh, missed, budget>>

-----------------------------------------------------------------------------
(* The manager's goroutine *)

Tick ==
    /\ At("idle")
    /\ Goto(IF scanned THEN "check" ELSE "scan", {})
    /\ UNCHANGED <<now, stored, heap, scanned, tracking, untracking, fresh, missed, budget>>

\* The first n rows of an empty filter, the newest first.
Newest(n) == {e \in stored : Cardinality({f \in stored : CreatedAt[f] > CreatedAt[e]}) < n}

\* Faulty: the rows take the place of what is tracked already.
OnlyRows(rows) ==
    /\ heap' = [e \in Event |-> IF e \in rows /\ Expiring(e) THEN 1 ELSE 0]
    /\ missed' = (missed \ rows) \cup (stored \ (rows \cup fresh))
    /\ scanned' = TRUE
    /\ Goto("check", {})

\* The rows are pushed, also those that have an entry.  Rows from before the
\* start that are not among them are never looked for again.
PushRows(rows) ==
    /\ heap' = [e \in Event |-> heap[e] + (IF e \in rows /\ Expiring(e) THEN 1 ELSE 0)]
    /\ missed' = (missed \ rows) \cup (stored \ (rows \cup fresh))
    /\ scanned' = TRUE
    /\ Goto("check", {})

\* A filter without a limit has the storage's.
InitialScan ==
    /\ At("scan")
    /\ PushRows(Newest(QueryLimit))
    /\ UNCHANGED <<now, stored, tracking, untracking, fresh, budget>>

\* The query fails, or the scan of its rows breaks off.  It is not tried again.
ScanFails ==
    /\ At("scan")
    /\ Pay("faults")
    /\ \E n \in 0 .. QueryLimit : PushRows(Newest(n))
    /\ UNCHANGED <<now, stored, tracking, untracking, fresh>>

BeginCheck ==
    /\ At("check")
    /\ manager' = [manager EXCEPT !.pc = "pop", !.now = now]
    /\ UNCHANGED <<now, stored, heap, scanned, tracking, untracking, fresh, missed, budget>>

Entries == {e \in Event : heap[e] > 0}
Next1 == {e \in Entries : \A f \in Entries : ExpiresAt(e) <= ExpiresAt(f)}
Due == {e \in Next1 : manager.now >= ExpiresAt(e)}

PopExpired ==
    /\ At("pop")
    /\ \E e \in Due :
        /\ heap' = [heap EXCEPT ![e] = @ - 1]
        /\ Goto("query", {e})
    /\ UNCHANGED <<now, stored, scanned, tracking, untracking, fresh, missed, budget>>

EndCheck ==
    /\ At("pop")
    /\ Due = {}
    /\ Goto("idle", {})
    /\ UNCHANGED <<now, stored, heap, scanned, tracking, untracking, fresh, missed, budget>>

QueryById ==
    /\ At("query")
    /\ IF manager.event \subseteq stored THEN Goto("delete", manager.event) ELSE Goto("pop", {})
    /\ UNCHANGED <<now, stored, heap, scanned, tracking, untracking, fresh, missed, budget>>

DeleteExpired ==
    /\ At("delete")
    /\ stored' = stored \ manager.event
    /\ fresh' = fresh \ manager.event
    /\ missed' = missed \ manager.event
    /\ Goto("pop", {})
    /\ UNCHANGED <<now, heap, scanned, tracking, untracking, budget>>

\* The query or the deletion fails: the entry has gone already.
CheckFails ==
    /\ At("query") \/ At("delete")
    /\ Pay("faults")
    /\ missed' = missed \cup (manager.event \cap stored)
    /\ Goto("pop", {})
    /\ UNCHANGED <<now, stored, heap, scanned, tracking, untracking, fresh>>

-----------------------------------------------------------------------------
(* The handlers *)

Store(e) ==
    /\ e \notin stored \cup tracking
    /\ Pay("publications")
    /\ stored' = stored \cup {e}
    /\ tracking' = tracking \cup {e}
    /\ fresh' = fresh \cup {e}
    /\ UNCHANGED <<now, heap, scanned, manager, untracking, missed>>

\* The save fails after its effect: the handler returns before it tracks the
\* event, and sent again it is a duplicate.  Only a first scan may find it.
StoreFails(e) ==
    /\ e \notin stored \cup tracking
    /\ Pay("faults")
    /\ stored' = stored \cup {e}
    /\ missed' = IF scanned THEN missed \cup {e} ELSE missed
    /\ UNCHANGED <<now, heap, scanned, manager, tracking, untracking, fresh>>

\* What a newer version supersedes is not stored, and tracked.
Superseded(e) ==
    /\ e \notin stored \cup tracking
    /\ Pay("publications")
    /\ tracking' = tracking \cup {e}
    /\ UNCHANGED <<now, stored, heap, scanned, manager, untracking, fresh, missed>>

\* Faulty: only events that are not due yet are tracked.
TrackFuture(e) ==
    /\ e \in tracking
    /\ Unlocked
    /\ tracking' = tracking \ {e}
    /\ heap' = [heap EXCEPT ![e] = @ + (IF Expiring(e) /\ ExpiresAt(e) > now THEN 1 ELSE 0)]
    /\ UNCHANGED <<now, stored, scanned, manager, untracking, fresh, missed, budget>>

TrackEvent(e) ==
    /\ e \in tracking
    /\ Unlocked
    /\ tracking' = tracking \ {e}
    /\ heap' = [heap EXCEPT ![e] = @ + (IF Expiring(e) THEN 1 ELSE 0)]
    /\ UNCHANGED <<now, stored, scanned, manager, untracking, fresh, missed, budget>>

\* A newer version takes the place of e; or a deletion fails after its effect.
Replaced(e) ==
    /\ e \in stored
    /\ stored' = stored \ {e}
    /\ fresh' = fresh \ {e}
    /\ missed' = missed \ {e}
    /\ UNCHANGED <<now, heap, scanned, manager, tracking, untracking, budget>>

Deleted(e) ==
    /\ e \in stored \ untracking
    /\ stored' = stored \ {e}
    /\ fresh' = fresh \ {e}
    /\ missed' = missed \ {e}
    /\ untracking' = untracking \cup {e}
    /\ UNCHANGED <<now, heap, scanned, manager, tracking, budget>>

\* One entry goes, be it that of an event that has been stored and tracked anew.
RemoveEvent(e) ==
    /\ e \in untracking
    /\ Unlocked
    /\ untracking' = untracking \ {e}
    /\ heap' = [heap EXCEPT ![e] = IF @ = 0 THEN 0 ELSE @ - 1]
    /\ missed' = missed \cup ({e} \cap (stored \ tracking))
    /\ UNCHANGED <<now, stored, scanned, manager, tracking, fresh, budget>>

\* The heap is lost, the storage is not.
Crash ==
    /\ Pay("crashes")
    /\ heap' = [e \in Event |-> 0]
    /\ scanned' = FALSE
    /\ Goto("idle", {})
    /\ tracking' = {}
    /\ untracking' = {}
    /\ fresh' = {}
    /\ missed' = {}
    /\ UNCHANGED <<now, stored>>

-----------------------------------------------------------------------------

ManagerStep ==
    \/ Tick \/ InitialScan \/ ScanFails \/ BeginCheck \/ PopExpired \/ EndCheck
    \/ QueryById \/ DeleteExpired \/ CheckFails

Next ==
    \/ Clock \/ ManagerStep \/ Crash
    \/ \E e \in Event :
          \/ Store(e) \/ StoreFails(e) \/ Superseded(e) \/ TrackEvent(e)
          \/ Replaced(e) \/ Deleted(e) \/ RemoveEvent(e)

\* The runtime schedules every goroutine, and a mutex is not held for ever.
Fairness ==
    /\ WF_vars(Clock)
    /\ WF_vars(ManagerStep)
    /\ \A e \in Event : SF_vars(TrackEvent(e)) /\ SF_vars(RemoveEvent(e))

Spec == Init /\ [][Next]_vars
FairSpec == Spec /\ Fairness

-----------------------------------------------------------------------------

TypeOK ==
    /\ now \in 0 .. MaxNow
    /\ stored \subseteq Event
    /\ heap \in [Event -> Nat]
    /\ scanned \in BOOLEAN
    /\ manager \in [pc : {"idle", "scan", "check", "pop", "query", "delete", "stopped"},
                    event : SUBSET Event, now : Nat]
    /\ tracking \subseteq Event
    /\ untracking \subseteq Event
    /\ fresh \subseteq stored
    /\ missed \subseteq stored
    /\ budget \in [publications : Nat, faults : Nat, crashes : Nat]

(***************************************************************************)
(* An event that expires and whose handler was told it is stored has an    *)
(* entry, is about to get one, or is in the manager's hands, through any   *)
(* scan, replacement, deletion and publication beside it; after the first  *)
(* scan so has every stored event that expires.  Only these lose one: the  *)
(* limit of the scan or its failure, for a row from before the start; a    *)
(* save that fails after its effect; a query or deletion of the manager's  *)
(* that fails; and a deletion's handler that comes to remove the entry     *)
(* only after the event has been published and tracked again.              *)
(***************************************************************************)
StoredIsTracked ==
    \A e \in stored :
        Expiring(e) /\ (scanned \/ e \in fresh) =>
            heap[e] > 0 \/ e \in tracking \cup manager.event \cup missed

(***************************************************************************)
(* A stored event whose time has come is deleted by a later wake-up,       *)
(* unless one of these has hidden it; after a restart too.                  *)
(***************************************************************************)
ExpiredGoes ==
    \A e \in Event :
        e \in stored /\ Expiring(e) /\ ExpiresAt(e) <= MaxNow ~> e \notin stored \/ e \in missed

=============================================================================
