-------------------------------- MODULE Ends --------------------------------
(***************************************************************************)
(* What is begun ends: a REQ with its loaders (Requests), the goroutines   *)
(* of EVENT messages (Ingest), the life of an event that expires           *)
(* (Expiration), of a query (QueryPipe), and of the process without its    *)
(* database (Lifecycle).  A behaviour is one of the parts; the others stay *)
(* in a state in which their fairness asks for no step.                    *)
(***************************************************************************)
EXTENDS Integers, Sequences, FiniteSets

CONSTANTS
    Req, Close, IdOf, Filters, Hooks, LiveEvent, ScanErrors,            \* of Requests
    Submitted, Msg, Workload, Faults, Breaks, Crashes,                  \* of Ingest
    ExpEvent, Tags, CreatedAt, QueryLimit, MaxNow, Publications,        \* of Expiration
    SaveFaults, Restarts,
    Rows, QueueLimit, Takes,                                            \* of QueryPipe
    Op, Request                                                         \* of Lifecycle

VARIABLES
    part,
    conn, pc, at, hook, eose, loaders, cancelled, listeners, sent, obs, outcome, closing,
    stored, before, queried, broken, scanFailed, lost, answered,
    table, task, mutex, bad, history,
    now, storage, heap, scanned, manager, tracking, untracking, fresh, missed, budget,
    unread, scan, offered, queue, collector, sourceOpen, spanEnds, consumer, received, ctxDone, broke,
    op, failures, signalled, server, inFlight, main, exit

reqVars == <<conn, pc, at, hook, eose, loaders, cancelled, listeners, sent, obs, outcome, closing,
             stored, before, queried, broken, scanFailed, lost, answered>>
ingestVars == <<table, task, mutex, bad, history>>
expirationVars == <<now, storage, heap, scanned, manager, tracking, untracking, fresh, missed, budget>>
pipeVars == <<unread, scan, offered, queue, collector, sourceOpen, spanEnds, consumer, received,
              ctxDone, broke>>
lifeVars == <<op, failures, signalled, server, inFlight, main, exit>>
vars == <<part, reqVars, ingestVars, expirationVars, pipeVars, lifeVars>>

-----------------------------------------------------------------------------
(* The instances *)

R == INSTANCE Requests WITH Event <- LiveEvent
G == INSTANCE Ingest WITH Event <- Submitted
X == INSTANCE Expiration WITH
        Event <- ExpEvent, Faults <- SaveFaults, Crashes <- Restarts, stored <- storage
Q == INSTANCE QueryPipe
L == INSTANCE Lifecycle

ASSUME InstancesAssumption ==
    /\ X!TagsAssumption /\ X!TimeAssumption /\ X!ExpirationBounds
    /\ Q!PipeAssumption /\ L!LifecycleAssumption

-----------------------------------------------------------------------------
(* One part runs *)

NoExpiration ==
    /\ now = 1 /\ storage = {} /\ heap = [e \in ExpEvent |-> 0] /\ scanned = FALSE
    /\ manager = [pc |-> "stopped", event |-> {}, now |-> 0]
    /\ tracking = {} /\ untracking = {} /\ fresh = {} /\ missed = {}
    /\ budget = [publications |-> 0, faults |-> 0, crashes |-> 0]

NoPipe ==
    /\ unread = <<>> /\ scan = "closed" /\ offered = <<>> /\ queue = <<>> /\ collector = "closed"
    /\ sourceOpen = FALSE /\ spanEnds = 1 /\ consumer = "done" /\ received = <<>>
    /\ ctxDone = TRUE /\ broke = FALSE

NoProcess ==
    /\ op = [o \in Op |-> [phase |-> "ready", err |-> "nil", done |-> FALSE]]
    /\ failures = <<>> /\ signalled = FALSE /\ server = "closed" /\ inFlight = {}
    /\ main = "exited" /\ exit = -1

Init ==
    /\ part \in {"requests", "ingest", "expiration", "pipe", "process"}
    /\ R!Init
    /\ G!Init
    /\ IF part = "expiration" THEN X!Init ELSE NoExpiration
    /\ IF part = "pipe" THEN Q!PipeInit ELSE NoPipe
    /\ IF part = "process" THEN L!LifeInit ELSE NoProcess

Next ==
    /\ UNCHANGED part
    /\ \/ part = "requests" /\ R!Next
          /\ UNCHANGED <<ingestVars, expirationVars, pipeVars, lifeVars>>
       \/ part = "ingest" /\ G!Next
          /\ UNCHANGED <<reqVars, expirationVars, pipeVars, lifeVars>>
       \/ part = "expiration" /\ X!Next
          /\ UNCHANGED <<reqVars, ingestVars, pipeVars, lifeVars>>
       \/ part = "pipe" /\ Q!PipeNext
          /\ UNCHANGED <<reqVars, ingestVars, expirationVars, lifeVars>>
       \/ part = "process" /\ L!LifeNext
          /\ UNCHANGED <<reqVars, ingestVars, expirationVars, pipeVars>>

Spec == Init /\ [][Next]_vars

FairSpec ==
    /\ Spec
    /\ R!Fairness /\ G!Fairness /\ X!Fairness /\ Q!PipeFairness /\ L!LifeFairness

-----------------------------------------------------------------------------

\* A REQ that is read is answered and returns, and an EVENT message is handled to its end: see
\* Requests and Ingest.
HandlersEnd == R!ReqsEnd /\ G!MessagesEnd

\* No stored event that expires is lost sight of but in the known ways: see Expiration.
StoredIsTracked == X!StoredIsTracked

\* Events whose time has come are deleted: see Expiration.
ExpiredGoes == X!ExpiredGoes

\* Rows reach the consumer in order, each once: see QueryPipe.
RowsInOrder == Q!RowsInOrder

\* A query's goroutines end, and its span: see QueryPipe.
PipeEnds == Q!PipeEnds

\* The exit code tells why the process ended: see Lifecycle.
ExitTellsWhy == L!ExitTellsWhy

\* A database that is gone ends the process: see Lifecycle.
FailureEnds == L!FailureEnds

=============================================================================
