-------------------------------- MODULE Pool --------------------------------
(***************************************************************************)
(* Many connections and one.  The client's pool: a subscription to a list  *)
(* of relays (PoolSubscribe), a fetch from several (PoolFetch), or         *)
(* publications through one (PoolRelays).  The relay's end of a connection *)
(* with all that write to it (Connection).  A behaviour is one of the four *)
(* parts; the others stay as they are, with nothing due.                   *)
(***************************************************************************)
EXTENDS Integers, Sequences, FiniteSets

CONSTANTS
    Lists, MaxTries,            \* of PoolSubscribe
    Relay, Stored, Live,        \* of PoolFetch
    Task, MaxConnects,          \* of PoolRelays
    Writer                      \* of Connection

VARIABLES
    part,
    urls, ctxDone, pending, eoseWg, eoseChan, events, g, watchers, sawEose, tries, panicked,
    mode, ctx, seen, latest, toRead, eose, dispatched, goroutine, hasAuthed, received, results, wasted,
    relay, alive, attempts, lock, penalty, task,
    peer, socket, socketDone, registered, process, writeMutex, metrics

subscribeVars == <<urls, ctxDone, pending, eoseWg, eoseChan, events, g, watchers, sawEose, tries, panicked>>
fetchVars == <<mode, ctx, seen, latest, toRead, eose, dispatched, goroutine, hasAuthed, received, results, wasted>>
connVars == <<peer, socket, socketDone, registered, process, writeMutex, metrics>>
relaysVars == <<relay, alive, attempts, lock, penalty, task>>
vars == <<part, subscribeVars, fetchVars, relaysVars, connVars>>

S == INSTANCE PoolSubscribe
F == INSTANCE PoolFetch WITH g <- goroutine
R == INSTANCE PoolRelays
K == INSTANCE Connection WITH
        conn <- socket, ctxDone <- socketDone, pc <- process, mutex <- writeMutex

ASSUME InstancesAssumption == S!ListsAssumption /\ F!CopyAssumption /\ R!ConnectsAssumption /\ K!WriterAssumption

NoSubscription == S!Fresh /\ urls = (CHOOSE l \in Lists : TRUE) /\ panicked = TRUE

\* A connection that has ended.
NoConnection ==
    /\ peer = "gone" /\ socket = "closed" /\ socketDone = TRUE /\ registered = FALSE
    /\ process = [p \in K!Process |-> IF p \in K!Loop THEN "ended" ELSE "done"]
    /\ writeMutex = K!Nobody
    /\ metrics = [started |-> FALSE, connections |-> -1, opens |-> 1, closes |-> 2, durations |-> 1]

Init ==
    \/ part = "subscribe" /\ S!Init /\ F!Init /\ mode = "ids" /\ R!Init /\ NoConnection
    \/ part = "fetch" /\ NoSubscription /\ F!Init /\ R!Init /\ NoConnection
    \/ part = "relays" /\ NoSubscription /\ F!Init /\ mode = "ids" /\ R!Init /\ NoConnection
    \/ part = "connection" /\ NoSubscription /\ F!Init /\ mode = "ids" /\ R!Init /\ K!Init

Next ==
    \/ part = "subscribe" /\ S!Next /\ UNCHANGED <<part, fetchVars, relaysVars, connVars>>
    \/ part = "fetch" /\ F!Next /\ UNCHANGED <<part, subscribeVars, relaysVars, connVars>>
    \/ part = "relays" /\ R!Next /\ UNCHANGED <<part, subscribeVars, fetchVars, connVars>>
    \/ part = "connection" /\ K!Next /\ UNCHANGED <<part, subscribeVars, fetchVars, relaysVars>>

Spec == Init /\ [][Next]_vars
FairSpec == Spec /\ S!Fairness /\ K!Fairness

\* The EOSE of all relays: see PoolSubscribe.
EoseIsAll == S!EoseIsAll

\* The channel of events is closed: see PoolSubscribe.
SubManyEnds == S!SubManyEnds

\* Every event once: see PoolFetch.
FetchIsUnion == F!FetchIsUnion

\* The latest event of every key (pool.go:315): see PoolFetch.
LatestIsKept == F!LatestIsKept

\* Two kills leave nothing of a connection behind: see Connection.
EndedIsClean == K!EndedIsClean

\* No write to a connection waits for ever, but for a peer that takes no bytes and sends pongs for
\* ever, nor is a connection kept whose peer has gone: see Connection.
ConnectionEnds == K!WritesEnd /\ K!PeerGoneEnds

\* One connection: see PoolRelays.
OneConnection == R!OneConnection

=============================================================================
