----------------------------- MODULE QueryPipe -----------------------------
(***************************************************************************)
(* A query of stored events on its way to who asked for it                 *)
(* (QueryEvents in src/internal/storage/postgres/query.go, queryOperation  *)
(* in src/internal/relay/telemetry.go).                                    *)
(*                                                                         *)
(* Three goroutines: the scan reads rows and offers them on a channel      *)
(* without a buffer; the collector moves them from there into a queue and  *)
(* from the queue to a second such channel; the consumer takes all of      *)
(* them, or one and then cancels the query's context.  A rendezvous on an  *)
(* unbuffered channel is one step of both.                                 *)
(***************************************************************************)
EXTENDS Integers, Sequences, SequencesExt

CONSTANTS
    Rows,       \* the rows of the query, in its order
    QueueLimit, \* queryPendingLimit
    Takes       \* what consumers do: "all" or "first"

PipeAssumption ==
    /\ Rows \in Seq(Nat)
    /\ QueueLimit \in Nat \ {0}
    /\ Takes \subseteq {"all", "first"} /\ Takes # {}

VARIABLES
    unread,    \* the rows the database still has
    scan,      \* the scan's goroutine: "next", "offer" or "closed" (its channel is closed)
    offered,   \* the row in the scan's hands
    queue,     \* the collector's queue
    collector, \* "select", or "closed": the consumer's channel is closed
    sourceOpen,
    spanEnds,  \* how often finishDatabase has run for the query
    consumer,  \* what the consumer does: "all", "first", or "done"
    received,  \* what it has got
    ctxDone,   \* the query's context is cancelled
    broke      \* history: the scan ended on an error that nobody reads

pipeVars == <<unread, scan, offered, queue, collector, sourceOpen, spanEnds, consumer, received,
              ctxDone, broke>>

-----------------------------------------------------------------------------

PipeInit ==
    /\ unread = Rows
    /\ scan = "next"
    /\ offered = <<>>
    /\ queue = <<>>
    /\ collector = "select"
    /\ sourceOpen = TRUE
    /\ spanEnds = 0
    /\ consumer \in Takes
    /\ received = <<>>
    /\ ctxDone = FALSE
    /\ broke = FALSE

-----------------------------------------------------------------------------
(* The scan *)

ReadRow ==
    /\ scan = "next"
    /\ unread # <<>>
    /\ offered' = <<Head(unread)>>
    /\ unread' = Tail(unread)
    /\ scan' = "offer"
    /\ UNCHANGED <<queue, collector, sourceOpen, spanEnds, consumer, received, ctxDone, broke>>

\* rows.Next is false at the end and when the context is cancelled.
EndScan ==
    /\ scan = "next"
    /\ unread = <<>> \/ ctxDone
    /\ scan' = "closed"
    /\ UNCHANGED <<unread, offered, queue, collector, sourceOpen, spanEnds, consumer, received,
                   ctxDone, broke>>

\* rows.Next is false after an error too, or Scan fails.
BreakScan ==
    /\ scan = "next"
    /\ unread # <<>>
    /\ scan' = "closed"
    /\ broke' = TRUE
    /\ UNCHANGED <<unread, offered, queue, collector, sourceOpen, spanEnds, consumer, received,
                   ctxDone>>

AbandonRow ==
    /\ scan = "offer"
    /\ ctxDone
    /\ scan' = "closed"
    /\ UNCHANGED <<unread, offered, queue, collector, sourceOpen, spanEnds, consumer, received,
                   ctxDone, broke>>

-----------------------------------------------------------------------------
(* The collector's select *)

Receiving == collector = "select" /\ sourceOpen /\ Len(queue) < QueueLimit

Collect ==
    /\ Receiving
    /\ scan = "offer"
    /\ queue' = queue \o offered
    /\ offered' = <<>>
    /\ scan' = "next"
    /\ UNCHANGED <<unread, collector, sourceOpen, spanEnds, consumer, received, ctxDone, broke>>

\* Faulty: the rows that are queued are dropped with the end of the scan.
SourceClosesDrops ==
    /\ Receiving
    /\ scan = "closed"
    /\ sourceOpen' = FALSE
    /\ spanEnds' = spanEnds + 1
    /\ collector' = "closed"
    /\ UNCHANGED <<unread, scan, offered, queue, consumer, received, ctxDone, broke>>

\* Its span ends with the scan; without rows left the collector ends too.
SourceCloses ==
    /\ Receiving
    /\ scan = "closed"
    /\ sourceOpen' = FALSE
    /\ spanEnds' = spanEnds + 1
    /\ collector' = IF queue = <<>> THEN "closed" ELSE "select"
    /\ UNCHANGED <<unread, scan, offered, queue, consumer, received, ctxDone, broke>>

\* The consumer of one event cancels as soon as it has it.
Send ==
    /\ collector = "select"
    /\ queue # <<>>
    /\ consumer \in {"all", "first"}
    /\ received' = Append(received, Head(queue))
    /\ queue' = Tail(queue)
    /\ ctxDone' = (ctxDone \/ consumer = "first")
    /\ consumer' = IF consumer = "first" THEN "done" ELSE consumer
    /\ collector' = IF Tail(queue) = <<>> /\ ~sourceOpen THEN "closed" ELSE "select"
    /\ UNCHANGED <<unread, scan, offered, sourceOpen, spanEnds, broke>>

\* Faulty: once the scan is over the collector waits for the consumer alone.
CancelledWhileOpen ==
    /\ collector = "select"
    /\ ctxDone /\ sourceOpen
    /\ collector' = "closed"
    /\ spanEnds' = spanEnds + 1
    /\ UNCHANGED <<unread, scan, offered, queue, sourceOpen, consumer, received, ctxDone, broke>>

\* The deferred endSpan does nothing the second time.
CollectorCancelled ==
    /\ collector = "select"
    /\ ctxDone
    /\ collector' = "closed"
    /\ spanEnds' = IF sourceOpen THEN spanEnds + 1 ELSE spanEnds
    /\ UNCHANGED <<unread, scan, offered, queue, sourceOpen, consumer, received, ctxDone, broke>>

-----------------------------------------------------------------------------
(* The consumer *)

\* The channel is closed; a consumer of one event has got nil and cancels.
SeeClose ==
    /\ collector = "closed"
    /\ consumer # "done"
    /\ consumer' = "done"
    /\ ctxDone' = TRUE
    /\ UNCHANGED <<unread, scan, offered, queue, collector, sourceOpen, spanEnds, received, broke>>

\* The client disconnects: the contexts of its messages are cancelled.
Disconnect ==
    /\ ~ctxDone
    /\ ctxDone' = TRUE
    /\ UNCHANGED <<unread, scan, offered, queue, collector, sourceOpen, spanEnds, consumer,
                   received, broke>>

-----------------------------------------------------------------------------

Scan == ReadRow \/ EndScan \/ BreakScan \/ AbandonRow
Collector == Collect \/ SourceCloses \/ Send \/ CollectorCancelled

PipeNext == Scan \/ Collector \/ SeeClose \/ Disconnect

\* Goroutines that can run do, the consumer among them: it takes the rows that are
\* sent, and sees the close, unless its context is cancelled.
PipeFairness ==
    /\ WF_pipeVars(Scan)
    /\ WF_pipeVars(Collector)
    /\ WF_pipeVars(SeeClose)

PipeSpec == PipeInit /\ [][PipeNext]_pipeVars /\ PipeFairness

-----------------------------------------------------------------------------

(***************************************************************************)
(* The consumer gets the rows in the order of the query, each once, and    *)
(* the queue never outgrows its limit.  A channel that is closed although  *)
(* nobody cancelled means all the rows, or a scan that broke: which of the *)
(* two the consumer cannot tell.  The span of the query ends once, when    *)
(* the collector has seen the end of the scan or has gone.                 *)
(***************************************************************************)
RowsInOrder ==
    /\ IsPrefix(received \o queue \o offered, Rows)
    /\ scan # "closed" => received \o queue \o offered \o unread = Rows
    /\ Len(queue) <= QueueLimit
    /\ collector = "closed" /\ ~ctxDone /\ ~broke => received = Rows
    /\ spanEnds = IF sourceOpen /\ collector = "select" THEN 0 ELSE 1

(***************************************************************************)
(* Whatever the consumer does and wherever the scan breaks, with the queue *)
(* full or empty, all three goroutines end and the span with them: none    *)
(* waits on a channel that the others have left.                           *)
(***************************************************************************)
PipeEnds == <>(scan = "closed" /\ collector = "closed" /\ consumer = "done" /\ spanEnds = 1)

=============================================================================
