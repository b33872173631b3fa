------------------------------ MODULE Services ------------------------------
(***************************************************************************)
(* The smaller parts of the system side by side: the monitor (Monitor),    *)
(* negentropy reconciliation, sessions and synchronization (Reconcile,     *)
(* NegSessions, NegSync), filters against stored and live events           *)
(* (StoredAndLive) and the client's paginator (Paginator).  A behaviour is *)
(* one of the parts; the others stay in a state in which nothing is due.   *)
(***************************************************************************)
EXTENDS Integers, Sequences, FiniteSets

CONSTANTS
    Interval, RemindInterval, MaxAge, Retries, MaxClock, MaxDelay,      \* of Monitor
    MaxItem, Buckets, FrameLimit,                                       \* of Reconcile
    Open, Msg, Close, Prompt,                                           \* of NegSessions
    Event, Filter, Letter, ListLimit, TagsLimit, QueryLimit, Nil,       \* of StoredAndLive
    Syncs, ChanLimit,                                                   \* of NegSync
    PageEvent, MaxTime, Stamps, Cap, Limits                             \* of Paginator

VARIABLES
    part,
    clock, next, check, previous, pending, lastAlert, recoveredPending, since, told, began, failed,
    items, turn, reader, output, prev, skipping, haves, haveNots, hidden,
    at, session, uses, armed, deltas, reply, overlap,
    filter, req, table, notified, got, early, late,
    syncing, used, found, source, chan, loop, seen, lists, pool, batches, asked, result, shared,
    stamps, wanted, atMost, nextUntil, repeatedCache, nextRepeatedCache, page, cut, lost,
    keepGoing, globalCh, globalCount, pager

monitorVars == <<clock, next, check, previous, pending, lastAlert, recoveredPending, since, told,
                 began, failed>>
syncVars == <<items, turn, reader, output, prev, skipping, haves, haveNots, hidden>>
sessVars == <<at, session, uses, armed, deltas, reply, overlap>>
subVars == <<filter, req, table, notified, got, early, late>>
copyVars == <<syncing, used, found, source, chan, loop, seen, lists, pool, batches, asked, result,
              shared>>
pageVars == <<stamps, wanted, atMost, nextUntil, repeatedCache, nextRepeatedCache, page, cut, lost,
              keepGoing, globalCh, globalCount, pager>>
vars == <<part, monitorVars, syncVars, sessVars, subVars, copyVars, pageVars>>

-----------------------------------------------------------------------------
(* The instances *)

M == INSTANCE Monitor
R == INSTANCE Reconcile
N == INSTANCE NegSessions
S == INSTANCE StoredAndLive

C == INSTANCE NegSync WITH reader <- source

P == INSTANCE Paginator WITH Event <- PageEvent

ASSUME InstancesAssumption ==
    /\ M!MonitorAssumption /\ R!ReconcileAssumption /\ N!SessionAssumption /\ N!NoneAssumption
    /\ S!FilterAssumption /\ C!SyncAssumption /\ P!PagesAssumption

-----------------------------------------------------------------------------
(* One part runs *)

Parts == {"monitor", "sync", "sessions", "filters", "copying", "pages"}

NoSync ==
    /\ items = [client |-> {}, server |-> {}] /\ turn = "done" /\ reader = <<>> /\ output = <<>>
    /\ prev = 0 /\ skipping = FALSE /\ haves = {} /\ haveNots = {} /\ hidden = FALSE

NoPages ==
    /\ stamps = (CHOOSE s \in Stamps : TRUE) /\ wanted = {} /\ atMost = 0 /\ nextUntil = 1
    /\ repeatedCache = <<>> /\ nextRepeatedCache = <<>> /\ page = {} /\ keepGoing = FALSE
    /\ cut = FALSE /\ lost = {} /\ globalCh = {} /\ globalCount = 0 /\ pager = "full"

Init ==
    /\ part \in Parts
    /\ M!MonitorInit
    /\ IF part = "sync" THEN R!SyncInit ELSE NoSync
    /\ N!SessInit
    /\ S!SubInit /\ (part # "filters" => filter = CHOOSE f \in Filter : TRUE)
    /\ C!SyncInit
    /\ (part # "copying" => used = {"up"} /\ syncing = CHOOSE y \in Syncs : TRUE)
    /\ IF part = "pages" THEN P!PagesInit ELSE NoPages

Next ==
    /\ UNCHANGED part
    /\ \/ part = "monitor" /\ M!Run
          /\ UNCHANGED <<syncVars, sessVars, subVars, copyVars, pageVars>>
       \/ part = "sync" /\ R!SyncNext
          /\ UNCHANGED <<monitorVars, sessVars, subVars, copyVars, pageVars>>
       \/ part = "sessions" /\ N!SessNext
          /\ UNCHANGED <<monitorVars, syncVars, subVars, copyVars, pageVars>>
       \/ part = "filters" /\ S!SubNext
          /\ UNCHANGED <<monitorVars, syncVars, sessVars, copyVars, pageVars>>
       \/ part = "copying" /\ C!SyncNext
          /\ UNCHANGED <<monitorVars, syncVars, sessVars, subVars, pageVars>>
       \/ part = "pages" /\ P!PagesNext
          /\ UNCHANGED <<monitorVars, syncVars, sessVars, subVars, copyVars>>

Spec == Init /\ [][Next]_vars
FairSpec == Spec /\ R!SyncFairness

-----------------------------------------------------------------------------

\* The operator knows how the relay is: see Monitor.
ToldIsCurrent == M!ToldIsCurrent

\* Reconciliation finds the difference of two sets: see Reconcile.
SyncIsExact == R!SyncIsExact

\* Every reconciliation ends: see Reconcile.
SyncEnds == R!SyncEnds

\* No negentropy session is left without a timer: see NegSessions.
SessionsExpire == N!SessionsExpire

\* Only messages that reconcile at once spoil each other: see NegSessions.
RepliesAreWhole == N!RepliesAreWhole

\* Matching events reach the subscriber, stored or live: see StoredAndLive.
MatchesAreSent == S!MatchesAreSent

\* Every id that is found is copied: see NegSync.
CopiesAll == C!CopiesAll

\* Nothing is lost between two pages: see Paginator.
PagesAreComplete == P!PagesAreComplete

=============================================================================
