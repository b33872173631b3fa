# Formal models of khatru-redbean

khatru-redbean is a Nostr relay in Go: websocket clients publish events, ask
for stored ones and subscribe to those to come; PostgreSQL keeps the events.
This directory holds TLA+ models of the relay, the TLC configurations that
check them on small instances, and TLAPS proofs for every instance.  Paths are
relative to `src/`; `engine/` is `internal/relay/engine/`, `postgres/` is
`internal/storage/postgres/`.

    tlc -workers 2 -config MCRequests.cfg MCRequests    # one run
    tlapm ListenersProofs.tla                           # the proofs

`PROJECT.json` lists the runs, the code behind every definition, the hazards
with the properties that watch them, the mutations each property is known to
catch, and the theorems.

## The system

| Component | State | Operations | What makes it correct |
|---|---|---|---|
| Listener registry (`engine/listener.go`) | per relay a slice of listeners; per websocket a slice of specs with positions in those slices; `clientsMutex` | `addListener`, `removeListenerId`, `removeClientAndListeners` | positions and listeners correspond one to one through every swap-delete; a client that has gone leaves nothing |
| Broadcast (`engine/listener.go`, `broadcasting.go`) | a walk over the slice, without the mutex | `notifyListeners` | whoever listens and matches gets the event once, nobody else does |
| REQ and CLOSE (`engine/handlers.go`, `responding.go`, `lifecycle.go`) | a goroutine and a context per message, a WaitGroup per REQ, a loader goroutine per query | reject, query, load, listen, EOSE, CLOSED, CLOSE | EOSE comes after all stored events and promises the live ones; CLOSE is final; the reported result is true |
| Connection (`engine/handlers.go`, `websocket.go`) | reader and pinger goroutines, `ws.mutex`, contexts, connection metrics | read, ping, write, `kill` | one writer at a time, everything torn down once, no write hangs for ever on a silent peer |
| EVENT (`engine/handlers.go`, `adding.go`, `deleting.go`) | a goroutine per message | checks, deletion requests, store or replace, answer, broadcast | deletions hold, nothing accepted is lost, broadcasts announce new events |
| Storage (`postgres/`, `internal/storage/`) | table `event`, one mutex for replacements | save, replace, delete, query, count | one row per address, the newest; outcomes that are true |
| Expiration (`engine/expiration.go`, `internal/nostr/nip40`) | a heap of expiring ids, a mutex | hourly tick, first scan, track, remove | what expires is deleted, nothing else is |
| Negentropy sessions (`engine/handlers.go:407-475`, `negentropy.go`) | sessions by id, a debounce timer each | OPEN, MSG, CLOSE, timeout | a session lives while it is used. It is the engine as a library: nothing in this program sets `rl.Negentropy`, so the messages are ignored (`handlers.go:160`) |
| Negentropy algorithm (`internal/nostr/nip77/`) | ranges and items of the two parties | `Reconcile` rounds | the rounds end and find the difference, whatever the limit on a message cuts off |
| Instance (`internal/relay/instance.go`, `database_failure.go`, `policy.go`) | a channel of database failures, the HTTP server | start, shut down on signal, failure or error | the process ends on a failure of the database, and for no expected error |
| Relay telemetry (`internal/relay/telemetry.go`) | metrics, one observation per message, the buffer of a query | observers, `queryOperation` | gauges and outcomes tell the truth; the buffer neither loses nor blocks |
| Policies and rate limiter (`engine/policies/`) | token buckets by key | limit, sweep | at most the configured number passes |
| Lifecycle and subrelays (`engine/relay.go`, `get-started.go`, `router.go`, `utils.go`) | the hooks of a relay, its subrelays | construct, start, route, authenticate | a message goes to one relay |
| Management and documents (`engine/nip86.go`, `nip11.go`, `ephemeral.go`) | none | one HTTP handler each | - |
| Monitor (`internal/monitor/`, `cmd/monitor.go`) | incident, pending alert, last alert | check, alert, remind, recover | each incident is announced, reminded of and closed |
| Negentropy synchronization (`internal/nostr/nip77/nip77.go`, `idlistpool.go`) | two channels of ids, a pool of lists, one channel of results | reconcile, batch, copy | every difference is copied, once |
| Nostr client (`internal/nostr/relay.go`, `subscription.go`, `pool.go`, `paginator.go`, `connection.go`) | OK callbacks, subscriptions, counters, channels, pages | publish, subscribe, dispatch, pool, paginate | answers reach their callers, channels are closed once, nothing is lost between relays or pages |
| Nostr data (`internal/nostr/*.go`, nip40, 42, 45, 70) | none | match, classify, encode, sign | a filter selects the same events stored and live |
| Set-up (`main.go`, `cmd/`, `internal/config`, `logger`, `telemetry`) | none | start once | - |

**How they interact.**  The reader of a connection starts one goroutine per
message, so the messages of one client are handled in any order.  An EVENT
goroutine runs a chain of SQL statements and then broadcasts: it walks the
listeners of *all* clients and writes to their websockets, each write under the
other connection's `ws.mutex`.  A REQ goroutine queries, starts loaders that
write to its own websocket, and registers listeners.  `kill`, deferred by
reader and pinger, calls the disconnect hooks, cancels the contexts all these
goroutines run under, closes the socket and empties the registry.  The storage
is wrapped by the telemetry, whose query buffer stands between the rows and the
loaders and whose error callback ends the process.

**What is hard here.**  Order: goroutine per message, loader per query, EOSE as
a barrier.  Shared slices: positions that others move, a walk without the
mutex.  Atomicity: check-then-store and delete-then-insert as separate
statements.  Failure: statements that fail before or after their effect, scans
that break off silently, peers that stall or vanish, a process that dies by
design when the database fails.  Teardown that runs twice.  The list, line by
line, is `hazards` in `PROJECT.json`.

## Modules

| Module | Models | State and actions |
|---|---|---|
| `Listeners` | `listener.go:36-133` | `clients` (specs), `backing` and `len` (array and slice length of each relay), `op` (who holds `clientsMutex` and where in its loop). One action per critical section, one per loop iteration of the removals |
| `Subscriptions` | what the registry promises | a multiset of (websocket, id, relay, filter) and who is removing what |
| `Broadcast` | `listener.go:135-151` | extends `Listeners` by a walk that reads one element in two steps while the registry moves; `history` notes what it met |
| `Requests` | `handlers.go:348-391`, `responding.go`, `lifecycle.go` | a program counter, WaitGroup and set of loaders per REQ; CLOSE goroutines; the peer's disappearance and `kill` |
| `StoredAndLive` | `query.go:74-190`, `filter.go:55-95`, `tags.go:244-260`, `init.go:36-53` | one REQ beside EVENTs: the snapshot of the query, the answer cut at its limit, the listener, the broadcast. `Where` is what the SQL selects, its search included (`Found`), `Matches` what the relay does, which does not look at a search |
| `Connection` | `handlers.go:75-140, 481-498`, `websocket.go`, `telemetry.go:581-595` | program counters of reader, pinger and writers, `ws.mutex`, contexts, metrics |
| `Ingest` | `handlers.go:186-316`, `adding.go`, `deleting.go`, `postgres/*.go` | the table, a task per EVENT message, the replacement mutex; one action per SQL statement, each with its failures |
| `Expiration` | `expiration.go`, `nip40.go` | the heap as a bag, the clock, the manager's goroutine under `em.mu`, handlers that have yet to track or to remove; one action per critical section, query or deletion |
| `QueryPipe` | `query.go:14-47`, `telemetry.go:147-208` | scan, collector and consumer, the queue between them, the span |
| `Lifecycle` | `instance.go:111-149`, `database_failure.go`, `telemetry.go:476-546`, `serve.go`, `main.go` | database operations with their errors and contexts, the channel of failures, the select of `Start`, the shutdown, the exit code |
| `NegSessions` | `handlers.go:407-475`, `negentropy.go` (engine) | the session of an id, which session's timer runs, a program counter per message |
| `Reconcile` | `nip77/negentropy/negentropy.go`, `encoding.go`, `vector.go` | the ranges still to read, the message being written, skipped bounds, what the client knows; one action per range |
| `NegSync` | `nip77/nip77.go`, `idlistpool.go` | the reader, two channels, a loop and batches per direction, the pool's lists, each access in two steps |
| `Monitor` | `internal/monitor/` | the loop's flags, the clock, what the operator was told; one action per round |
| `RelayClient` | `nostr/relay.go`, `connection.go` | reader, writer with pings, close in its steps, OK callbacks, publishers |
| `RelaySubscription` | `nostr/subscription.go`, `relay.go:201-326, 420-592` | callers, one goroutine per event, for EOSE and for CLOSED, the sweep of the writer |
| `PoolSubscribe`, `PoolFetch`, `PoolRelays` | `nostr/pool.go` | `subMany`; `SubManyEose` and `FetchManyReplaceable`; `EnsureRelay`, the penalty box and `PublishMany` |
| `Paginator` | `nostr/paginator.go`, `pool.go:602-695` | the page being read, which may have been cut off, the until that moves, the two caches that share one array |
| `Ends`, `Services`, `Client`, `Pool` | several small systems that do not meet, instances of the modules above: `Ends` of `Requests`, `Ingest`, `Expiration`, `QueryPipe` and `Lifecycle`; `Services` of `Monitor`, `Reconcile`, `NegSessions`, `StoredAndLive`, `NegSync` and `Paginator`; `Client` of `RelayClient` and `RelaySubscription`; `Pool` of the three pool modules and `Connection` | `part` is chosen in the initial state, and only the actions of that part are taken |
| `ListenersProofs`, `RequestsProofs`, `IngestProofs` | theorems about `Listeners` (with `Broadcast` and the refinement of `Subscriptions`), `Requests` and `Ingest` | |
| `EndsProofs`, `ServicesProofs`, `ClientProofs`, `PoolProofs` | theorems about the four composites, one section for each part | |
| `MC*` | instances for TLC: the values of the constants, and what bounds a run | |

Definitions whose comment begins with *Faulty* or *A plausible fault* are no
part of a specification: they are the mutations that show what a property
catches (`mutants` in `PROJECT.json`).

**Abstractions.**  Events, filters, ids and websockets are names; a filter
matches by a constant relation, except in `StoredAndLive`, whose subject it is.
Slices are arrays with a length, since the broadcast reads slots past it;
positions count from one.  In `Requests` the registry is the *set* of one
client's listeners: its operations are atomic under the mutex, and `Listeners`
shows what they do.  A query's result is what the table holds when it runs.
The answer of a hook (policy, signature check) is a choice.  In `Ingest` the
pair kind/author/d is a class and an address; the SQL's comparison of a
value with the values of *all* tags is kept (`RowsAt`), with the rows it finds beyond
those of the address and those it does not find: events without a "d" tag, and of
a replaceable kind when a deletion names its address (`Targets`).  In `Connection` and
`RelayClient` a deadline is a step that may come as soon as what it watches is
late.  `Expiration` has a bag for the heap, of which only the order of times
matters.  `Reconcile` has a fingerprint stand for the set it is computed from,
and the accumulator's arithmetic is left out.  Rendezvous on unbuffered channels
are one step of both sides.

## Runs

| Run | Instance | Shows |
|---|---|---|
| `registry` | 2 websockets, 2 ids, 2 relays with 3 and 2 places; and a broadcast beside 1 relay of 2 places, a matching and another filter | positions always right, nobody's listener taken, refinement of the multiset; a walk that no removal overlaps is exact, and only sockets that listened are written to |
| `requests` | 2 REQs of one id with 2 and 1 filters, 1 CLOSE, 1 event | EOSE, CLOSE, disconnect and result, but for scans that fail unnoticed (`search_failed`) |
| `ingest` | up to 4 messages in 7 workloads: versions of an address, of one with a shared tag value, without a "d" tag and of a replaceable kind, their deletions, and a deletion of a deletion request; 1 failing statement, 1 broken scan, 1 restart | rows, outcomes and broadcasts |
| `ends` | a REQ with a CLOSE; two EVENTs of one address with a failing statement and a broken scan; two events that expire, with a publication, a restart and two failures, one of them of a save; four rows through a queue of two; two database operations and an HTTP request | what is begun ends; no expiring event is lost sight of but in the known ways; rows stay in order; the exit code is true |
| `services` | rounds of the monitor up to time 5; all pairs of sets of seven items; two OPENs, two MSGs and a CLOSE of one id; seventeen filters over three events; four ids in batches of one, five in batches of two; four events of up to three seconds in pages of three, whole or cut off | alerts, reconciliation and its end, sessions, filters, copying and pages |
| `client` | two publications of one event; one subscription or count with two events | results are the relay's verdicts, EOSE after the stored events, everyone is let go, but by a write that stays blocked |
| `pool` | lists of two relays, one with a duplicate; two relays with copies of two events, one forged; three publications over up to three connections; a relay's connection with two writers | EOSE means all, nothing is lost or doubled, one connection; its clean end, and no write waits for ever but on a peer that stays deaf |
| `shared_tag` (violated) | 2 messages | a replacement deletes a row of another address |
| `search_failed` (violated) | as `requests` | a REQ whose scan failed or was cancelled ends with EOSE and is reported ok |
| `client_nil` (violated) | as `client` | a publish whose connection is lost reports success |
| `pool_latest` (violated) | as `pool` | the latest version is dropped and the older one kept |
| `hidden_tail` (violated) | all pairs of sets of eight items | a reconciliation ends without the items of a tail that fitted in no frame |

**Why the bounds are enough.**  A swap-delete involves the removed and the last
listener; three places let one be neither, and the second relay gives the same
position a second meaning.  A walk over two places meets every relation of its
position to the removed and the moved one.  Two filters give an order between them
and a filter that comes after a rejection; two REQs of one id share what a CLOSE
removes.  Three versions of one address (one newer, two of one second) and a resent
one exercise both orders of `IsOlder`; more faults than one per run only repeat what
one leaves behind.  In `Expiration` there are two, one of them of a save.  Of two expiring
events a scan of one row misses one, and either may be stored or tracked beside
the scan; a clock of two values has an expiration before and one at its end.  A queue of two is empty, full and between with four rows.  Two
buckets split a set of four, and seven items split twice; a frame just larger than a
split ends in a remainder, also one that hides its tail (which loses items from
eight items on, `hidden_tail`).  Batches of one give a list back while another is
borrowed, batches of two end in one that is not full.  Three seconds over four
events put those of one second on one page, on two, or fill one.  An address with a
tag value of another's, one without a "d" tag and one of a replaceable kind are the
three ways a query for a "d" does not find the rows of the address and no others.
Two relays and a duplicate in the list give `pending` every value it goes wrong at.

`Room` and `Cap` bound the slices; `Broadcasts`, `Faults`, `Breaks`, `Crashes`,
`Publications`, `SaveFaults`, `Restarts`, `MaxNow`, `MaxClock`, `MaxDelay`,
`MaxEvents`, `MaxTries`, `MaxConnects` bound what has no end.  The rounds of a
reconciliation need no bound.

**Fairness.**  Goroutines that can run do (weak fairness of their steps), and a
mutex that is free again and again is got (strong fairness of the lock steps; Go's
mutexes are starvation-free).  In `Ingest` and `Expiration` the database answers
each statement.  In `Connection` the read deadline comes for a peer that sends no
pong (`ReadFails`).  A pong puts it off (`handlers.go:112-115`), so a *deaf* peer,
which takes no bytes and sends pongs of its own accord, never meets it:
`ConnectionEnds` is about writes to a peer that does not stay deaf for ever.
Neither the ticker nor room in the buffers nor a returning peer is relied on; the
pinger's rivals for the mutex want it once each, so weak fairness does for its
lock.  In `RelayClient` a write that is blocked is not assumed to end
(`WriteBlocked`): it has no deadline, the goroutine that would miss the pongs is the
one that writes (`relay.go:182-205`), and TCP keeps a peer that acknowledges and has
no room.  `PublishEnds` is about connections without a write that stays blocked.
The deadline of a publish comes.  In `Reconcile` messages arrive and are read to
their ends.  In `Expiration` the ticker ticks and the clock goes on.  In `QueryPipe`
scan and collector are scheduled, and so is the consumer: it takes the rows that are
sent (`Send`) and sees the channel close (`SeeClose`), unless the query is
cancelled.  In `Requests`, `Ingest` and `QueryPipe` a write to a websocket thus
returns; when it does is the subject of `Connection`: a peer that stays deaf also
keeps the loaders of its REQs, and the EVENTs broadcast to it, from their ends.  In
`PoolSubscribe` and `Lifecycle` nothing is asked of the consumer or of a database
operation.  No client is assumed to send anything, no relay to answer, no operator
to send a signal.  CHECK_DEADLOCK is off where the system may stop: when every
message has been handled, the connection has ended, or nothing more is asked.
`Prompt`, the assumption of `SessionsExpire`, says that the timer of seven seconds
of a session does not fire between the two statements that start and store it.

## What is proved

Every theorem is about the specification that a run checks, with its constants
left open: `Spec` (or `BSpec`) of the module, under the assumptions that the
modules state about their constants, and those the theorem names.  Each rests on
an inductive invariant, on a lemma that `Init` gives it and on lemmas that every
action keeps it.  In the composites a part is proved about by itself: its instance
steps while `part` names it, and stands still otherwise.

`ListenersProofs` (`RequestAssumption`, `CapAssumption`, `RoomAssumption`: any
number of websockets, ids, filters and relays, slices of any capacity).
`NeverPanics`, `SpecsAlwaysPointHome`, `SpecsAlwaysDistinct` and
`ListenersAlwaysOwned` are not inductive by themselves: in the middle of a
removal the spec of the moved listener is stale, or a listener has no spec.
`IInv` is the types, `NoPanic`, where the loops of the removals stand
(`LoopOK`), and `Paired`: the specs *in force*, those the removal in progress
has not dealt with, correspond one to one to the listeners, up to the one being
removed.

`RegistryImplementsSubscriptions` is the refinement, step by step: the abstract
multiset counts the positions of a slice that hold a subscription
(`Cardinality` of the set of positions).  Subscribing adds one position; one
iteration of a removal, whose swap-delete moves a listener that somebody else
may own, takes out one position of the subscription it names and leaves every
other count as it was; the end of a removal is the abstract end only because by
then no position of that websocket and id is left, which needs where the loop
stands (`LoopOK`).  All other steps stutter.

The last sections are about `Broadcast`, with `BIInv` on top of `IInv`.  The walk
reads a slot beside the registry, so what it has sent is compared with what the
slots it has passed wanted when it began (`QuietWalk`, as long as no removal has
overlapped it); in any case a listener in a slot still to be read was registered
at some time during the walk (`WalkSeen`).

`RequestsProofs` (any number of REQs, CLOSEs, filters, hooks and events). Everything
the run `requests` checks is a theorem, and the types, `EoseCounts` and that a
connection that has gone leaves nothing besides.  `IInv` has three layers, each
proved from those before it.  `Answers`: the goroutine is at a filter it has and at
a hook there is (`Placed`), its loaders belong to different queries it has already
made (`Apart`), so the WaitGroup is their number plus what is not begun (`Counted`);
hence at EOSE there are none (`Drained`), so nothing is written after it
(`Concluded`, `LastOf`), and what the observation holds is the truth (`Truthful`):
an ok query was loaded and written to its end, unless its scan failed (`scanFailed`)
or a CLOSE cancelled it, which is the finding `search_failed`.  `Listening`: every
filter handled has its listener unless a CLOSE or the end took it, and what was
answered before a CLOSE adds none any more.  `Loading`: every event stored when the
REQ was read has been sent, waits in a loader, or no query has been made yet.
`OwnSteps` says once that a REQ is changed by its own steps only, so each layer has
one case per action.

`IngestProofs` (`EventAssumption`, `TagAssumption`, `WorkloadAssumption`,
`BoundsAssumption`, `MsgAssumption`: any number of messages and events, failing
statements, broken scans and restarts).  `OnePerAddress` needs to know what a
message knows: who is inside `ReplaceEvent` holds the mutex (`Placed`), so
between its query and its insertion others only take rows away, and the rows of
its address are the one it is about to delete, or none (`Known`).  That is so for
addresses which a query finds (`Findable`), all of a replaceable kind and those of an
addressable one that have a "d" tag of their own (`OwnTag`, a condition of the
property itself).  Of the others two rows may stay, and a replacement may delete
the row of another address (run `shared_tag`).
`BroadcastAlwaysNew` rests on `Reported`: what a message has inserted it reports
as stored or as an error, never otherwise.  `AcceptedAlwaysKept` has an
invariant of its own, `KInv`: a message about to delete a row deletes an
addressable one or one that its event names (`Deleting`), so whoever was told
OK has its row for as long as no such event has arrived (`Kept`).

`DeletedAlwaysGone` and `NewestAlwaysWins` have longer invariants, for runs in
which no statement fails and no scan breaks off (of the second: nor the process
dies), which are the hypotheses of the properties.  Both assume
that an id names one event (`Identified`: it is a hash), the first that no event names
its own id (`Hashed`), the second that ids and times are numbers (`Ordered`).
What an address says is excused where a query for it does not find its rows: a
deletion by address of a replaceable kind, or of events without a "d" tag of their
own, deletes nothing, and `DeletedIsGone` says so.  `Gone`
follows each deletion request and each message that brings what it names: a
request has searched the tags it has passed (`Searched`), and a message that
came after the request was stored does not pass the check for it (`Checked`);
whoever slips through ran beside the request (`Together`).  A deletion request
can itself be deleted, and the check of a later message then does not find it:
the property speaks of requests against which no other has been sent
(`Unnamed`), a hypothesis the workload `MCUndone` of `MCIngest` shows to be needed.
`Wins` says that everybody who was told that its version is kept or superseded
is stood for by a row, or by a newer version that is about to be saved under the
mutex (`Standing`), if no query for another address finds a version of it and no
deletion hits one (`Undisturbed`): what is deleted to be replaced is older, and of the
same address if its tags are its own (`GivesWay`).

`EndsProofs` (any number of operations, rows, events that expire, failures and
restarts).  `ExitAlwaysTellsWhy`: what the channel of failures holds was reported by
an operation that failed and was not excused, and the exit code is 0 unless `Start`
has left its select.  `RowsAlwaysInOrder`: received, queued, offered and unread rows
are, in that order, the rows of the query (`NothingLost`), and a channel closed
undisturbed leaves nothing behind (`ClosedIsEmpty`). `StoredAlwaysTracked` speaks of
the rows whose handler was told, since the start, that they are stored (`fresh`),
and after the first scan of every row: the scan has found a row from before the
start or is accountable for it.  `missed` is set by what goes wrong and not by what
the heap holds: a scan's limit or failure, a save that fails after its effect, a
check that fails, and a removal that comes after the event has been stored and
tracked again.  The manager has an event in its hands only between popping and
deleting it (`InHands`).

`ServicesProofs` (any number of messages, schedules, pages, filters and ids).
`RepliesAlwaysWhole`: a session is known to others only when its OPEN is done
(`Published`), and two MSGs that reconcile at once are in `overlap` (`Disturbed`).
`SessionsAlwaysExpire`, under `Prompt`: the timer of a session that is stored, or is
about to be, runs (`Timed`). `ToldAlwaysCurrent`: the flags of `Run` say what the
last alert said (`Remembered`), for each way a round can end.
`PagesAlwaysComplete`: what is newer than the next page, or than an event of the
answer, has been delivered, is in the rest of the answer, or was cut off with it
(`Covered`); a whole page of which nothing is new is full of one second, which is
what the property excuses, or the last (`Repeats`), by counting; of a page that was
cut off nothing of the kind follows. `MatchesAlwaysSent`, for filters with a search
too: of the matching events that the limit cuts off the first has all its
predecessors in the answer, so there are as many as the limit (`CutOffByLimit`).
Both assume finitely many events, the latter that times and ids are numbers.
`CopiesAlwaysAll`: a reported id is still to be reported, in the channel or seen
(`Reported`); a seen one is in its direction's list, in one batch that has not
queried, or was queried once, and in one of these only (`Account`).  The accounts
hold as long as no list has two holders (`Exclusive`), which the property
presupposes; that arrays are as long as their holders say (`Lent`) holds always.

`SyncAlwaysExact` (any sets, any number of buckets, any frame limit; that a frame
has room for a split and a skip before it, `ReconcileAssumption`, matters to the end
of the exchange, `SyncEnds`) has an invariant on the two messages, the one being
read and the one being written (`SyncInv`).  Their bounds rise, and what they say
is so (`Says`): a list holds all items that its sender has in the range, and a
fingerprint that the reader finds equal is of all of them too.  What the client does
not know yet is in a range still to be read, or in one of the answer
(`NothingLost`).  What is said of fingerprints, and that nothing is lost, holds
unless `hidden`.  A split is stated by counting (`Index`, `Cut`) and not by sorting,
so the lemmas on it are that the cuts rise from none to all, and hence that its
buckets cover the range and have nothing in common (`SplitSays`).  A list that is
cut short leaves no room (`CutShortIsFull`), so the message breaks off there, and
its fingerprint of the rest tells of all that was still to be read (`FullTail`,
`BreaksOff`).

`ClientProofs` (any number of publications, subscriptions, events and answers of
the relay).  `ResultAlwaysVerdict`: an OK on its way, in the reader's hands and
in the callback's variables is the verdict on the event of that publication
(`Judged`, `Heard`, `CallOk`), although a callback may replace another under the
same id (`Owned`).  `EoseAlwaysAfterStored`: the WaitGroup is the number of stored
events on their way (`StoredOk`), an event is dropped by a subscription that is
over only (`FireOk`, `Over`), since live is set before the relay can answer and
unset by what ends it.  `OnlyLateFireAlwaysPanics`: start closes the channel
after its unsub has cancelled and unset live (`UnsubOk`), the sender holds the mutex
and looked at live under it (`SendOk`); live is set again by a late Fire only.

`PoolProofs` (any lists of relays, copies, publications and failures).
`AlwaysOneConnection`: who connects holds the relay's lock and has found none.
`EoseAlwaysAll`: the WaitGroup counts the relays that owe an EOSE, and each is
taken off once (`SubInv`).  `FetchAlwaysUnion`: an event is on its way in one
place from when it is marked as seen until it is received or wasted (`Travels`),
and what a relay stores is marked or still to be read (`Reads`).  For any number
of writers to a relay's connection, `AlwaysOneWriter` needs only that who writes
holds the lock; `EndsClean` needs which parts of `kill` each of the two goroutines
has done (`KillOrder`) and what its hooks have counted (`Counted`); and
`GaugeEndsBelowZero` proves that the gauge of connections falls below zero with
every connection that ends.

`EoseCounts` (the WaitGroup of a REQ is what is not begun plus what is not
loaded) and `OneWriter` (one goroutine writes to a websocket at a time) hold by
proof only; no run repeats them.

Only model-checked: all liveness (`ConnectionEnds`, `SyncEnds`, `HandlersEnd`,
`ExpiredGoes`, `PipeEnds`, `FailureEnds`, `PublishEnds`, `CallerFreed`,
`SubManyEnds`), which is out of the prover's reach.  Every safety property of a
passing run is a theorem.

## What the models found

Five runs show the code at odds with what it or its documentation says; the
findings in `PROJECT.json` quote both sides.

* The query for the row to replace compares the value of the d tag with the
  values of all tags, so another address's row may be replaced.
* A REQ whose scan of the storage failed, or that a CLOSE cancelled while its events
  were being loaded, ends with EOSE and is reported ok: the scan closes its channel
  without looking at the error (`query.go:29`), and nobody looks at the context.
* `Publish` returns nil when the connection is lost before the OK came.
* `FetchManyReplaceable` drops the latest version of an event and keeps older
  ones: its test for duplicates answers the opposite of what the reader asks.
* A negentropy reconciliation may end without all differences.  A frame that is full
  at a range of which its sender has nothing, nor of what follows, ends in a
  fingerprint of nothing.  When the answer to that does not fit either, the items the
  other side has there are left out, and that frame too ends in a fingerprint
  of nothing, which is found equal.  `hidden` records that it happened, and is the
  one case `SyncIsExact` leaves room for.

Others came up in modelling.  The properties leave room for them where the
code does them (a bound, a variable such as `missed`, `shared`, `overlap` or
`lateFire`, or a disjunct), and narrowing that room makes TLC show them:

* A broadcast does not reach every listener: it walks the slice without the
  mutex, and a removal may move a listener behind it (`QuietIsExact` without its
  hypothesis).
* "Fail everything if any filter is rejected" (`handlers.go:370`) leaves the
  listeners of the filters before it.
* The connection gauge loses one more for every connection, because `kill` runs
  on both goroutines (theorem `GaugeEndsBelowZero`).
* A scan that breaks off passes for the end of the rows, since `rows.Err` is not
  read: `Ingest` then ends with two rows of one address (`OnePerAddress` without its
  hypothesis).  An addressable event without a "d" tag is of the address with an
  empty d, but no row is found by it (`tags.go:56-64`, `query.go:132`): its versions
  stay beside each other.  An addressable event that is sent again is reported
  superseded and broadcast.
* A deletion request by address is always a query for a "d" tag (`deleting.go:32-37`):
  for a replaceable kind it is accepted and deletes nothing.
* Whatever is not regular goes to `ReplaceEvent` (`adding.go:63, 107`), kinds from 40000
  on as if they were replaceable: one row for each kind and author.
* A peer that sends pongs and reads nothing holds `ws.mutex` for as long as it likes,
  and with it whoever writes to it, other clients' broadcasts among them
  (`websocket.go:34-46`).  A blocked write of the client holds `Publish` past its
  deadline (`nostr/relay.go:205, 382`).
* An event stored after a REQ's snapshot and broadcast before its listener is added
  is not sent.  A list of ids, authors or kinds that is empty selects everything in
  SQL and nothing live; `LIMIT` has no effect on `CountEvents`.  A search limits
  what is found and not what is broadcast (`filter.go:55-95`): a REQ with one is
  sent every live event that its other conditions let through.
* Expiring events beyond the first scan's limit, and those whose query or deletion
  fails once, stay for the life of the process, and so does one whose save failed
  after its effect, which sent again is a duplicate (`adding.go:64-71`); a deletion
  may remove the entry of the same event published again (`deleting.go:76`).
* Two NEG-MSG of one session at once garble each other's answers.  An OPEN's
  timer is started before the session is stored.
* `idlistpool.giveback` does not lock: a list may be lent twice.
  `NegentropySync` waits for neither its context nor the connection
  (`nip77.go:151`), and with one direction only the other channel is never
  emptied, so that more than 64 differences block the relay's reader.
* The client reads `r.Connection` twice in `close`, and panics when two closes
  meet; a Fire that comes after the context has ended sends on a closed channel
  (`subscription.go:81-118`); a count's result blocks the reader when nobody
  waits for it any more (`relay.go:303`).
* `subMany` may close its channel twice (`pending.Dec`, then `Value`), never
  closes it for a list with a duplicate, and moves `Since` in filters that all
  relays share; the penalty box is filled and not looked at (`pool.go:166`); a
  forged copy of an event hides the true one, because ids are noted before
  signatures are checked (`relay.go:235`).
* The paginator's `filter.Until` points to the variable it lowers while it reads
  (`paginator.go:33`): with several relays the until that one relay's events lower
  is what other relays' events are matched with and what their REQs are written
  with, so their newer events are lost.  For one relay `PagesAreComplete` holds, but
  a page that was cut off, by a connection that failed or was lost or by a CLOSED,
  and brings nothing new is taken for the end (`paginator.go:57`), and one that
  brings something moves the until past what it did not bring.  A caller's limit
  leaves the page's goroutine behind.

Read in the code without a model of its own: the HyperLogLog registers that
`CountMany` merges are not locked (`pool.go:722`); the error envelope of NIP-77
is written as `NEG-ERROR` in two places and read as `NEG-ERR`
(`nip77/envelopes.go:28, 158, 177`); `MultiStore.QueryEvents` never closes its
channel; `AuthedPublicKey` is written and read without a lock;
`IsNegentropySession` is never consulted, so sets are cut at the query limit.

## What is not modelled

Not modelled, and why:

* COUNT and AUTH: straight-line handlers of one goroutine.  The estimate of
  NIP-45 is floating-point arithmetic, and no hook of this program computes it.
* HTTP upgrade, frames, NIP-86 management, NIP-11 documents, ephemeral events:
  one handler each without state of its own; in `Ingest` they are verdicts.
* Encoding and decoding of envelopes, events, filters, keys and pointers,
  signatures, URL normalization: conversions without state.
* The rate limiter, the router, `Shutdown`, `MultiStore`, `RelayWrapper` and
  `PaginatorWithInterval` over several relays: the first five are installed or
  called by nothing in this program; of the last the README says above what goes
  wrong.
* Spans, histograms, labels, logging, configuration, OTLP set-up.
