----------------------------- MODULE Lifecycle -----------------------------
(***************************************************************************)
(* The life of the server process: what ends it and with which exit code   *)
(* (src/internal/relay/instance.go, database_failure.go, the end of        *)
(* finishDatabaseWithAttributes in telemetry.go, cmd/serve.go, main.go).   *)
(*                                                                         *)
(* Start waits for a signal, for a database operation that reports the     *)
(* database to be gone, or for the HTTP server to fail.  Operations run in *)
(* the goroutines of the messages; each has the context of its message.    *)
(***************************************************************************)
EXTENDS Integers, Sequences, FiniteSets

CONSTANTS
    Op,      \* database operations
    Request  \* HTTP requests, other than hijacked websockets, in flight

LifecycleAssumption == IsFiniteSet(Op) /\ IsFiniteSet(Request)

VARIABLES
    op,        \* op[o]: the operation's phase, its error, and whether its context is done
    failures,  \* the channel databaseFailures, of one place
    signalled, \* sigCtx is done
    server,    \* "listening", "failed" (its error is in serverErr) or "closed"
    inFlight,  \* the requests that server.Shutdown waits for
    main,      \* "select", "shutdown", "deferred" or "exited"
    exit       \* the exit code, None while the process runs

lifeVars == <<op, failures, signalled, server, inFlight, main, exit>>

-----------------------------------------------------------------------------
(* Which errors are the database's *)

None == -1

\* What next returns: nothing, an error that a request earns, a cancelled or late
\* context, or any other error.
Expected == {"too many ids", "too many authors", "too many kinds", "too many tag values",
             "empty tag set"}
Errors == {"nil", "canceled", "deadline exceeded", "database"} \cup Expected

\* Faulty: the context of the operation is not looked at.
FailureOfAnyContext(err, done) == err \notin {"nil", "canceled", "deadline exceeded"} \cup Expected

isDatabaseFailure(err, done) ==
    /\ err # "nil"
    /\ ~done
    /\ err \notin {"canceled", "deadline exceeded"}
    /\ err \notin Expected

-----------------------------------------------------------------------------

LifeInit ==
    /\ op = [o \in Op |-> [phase |-> "ready", err |-> "nil", done |-> FALSE]]
    /\ failures = <<>>
    /\ signalled = FALSE
    /\ server = "listening"
    /\ inFlight = Request
    /\ main = "select"
    /\ exit = None

Alive == main # "exited"

\* The client of o's message goes, or the connection is killed.
CancelContext(o) ==
    /\ Alive /\ op[o].phase # "reported" /\ ~op[o].done
    /\ op' = [op EXCEPT ![o].done = TRUE]
    /\ UNCHANGED <<failures, signalled, server, inFlight, main, exit>>

\* The operation returns from the database; a driver may answer a cancelled context
\* with an error of its own.  A scan that breaks is finished like one that is complete,
\* with nil: nobody reads rows.Err.
Return(o) ==
    /\ Alive /\ op[o].phase = "ready"
    /\ \E err \in {"nil", "canceled", "database", "empty tag set"} :
        /\ err = "canceled" => op[o].done
        /\ op' = [op EXCEPT ![o].phase = "returned", ![o].err = err]
    /\ UNCHANGED <<failures, signalled, server, inFlight, main, exit>>

\* onDatabaseError: the first failure is kept and the operation never blocks.
Report(o) ==
    /\ Alive /\ op[o].phase = "returned"
    /\ op' = [op EXCEPT ![o].phase = "reported"]
    /\ failures' = IF isDatabaseFailure(op[o].err, op[o].done) /\ failures = <<>>
                   THEN <<o>> ELSE failures
    /\ UNCHANGED <<signalled, server, inFlight, main, exit>>

-----------------------------------------------------------------------------
(* Start *)

Signal ==
    /\ Alive /\ ~signalled
    /\ signalled' = TRUE
    /\ UNCHANGED <<op, failures, server, inFlight, main, exit>>

ServerFails ==
    /\ Alive /\ server = "listening"
    /\ server' = "failed"
    /\ UNCHANGED <<op, failures, signalled, inFlight, main, exit>>

\* shutdownServer closes the listeners first: ErrServerClosed is no server error.
Shutdown(code) ==
    /\ main' = "shutdown"
    /\ exit' = code
    /\ server' = IF server = "listening" THEN "closed" ELSE server

SelectSignal ==
    /\ main = "select" /\ signalled
    /\ Shutdown(0)
    /\ UNCHANGED <<op, failures, signalled, inFlight>>

SelectFailure ==
    /\ main = "select" /\ failures # <<>>
    /\ failures' = <<>>
    /\ Shutdown(1)
    /\ UNCHANGED <<op, signalled, inFlight>>

SelectServerError ==
    /\ main = "select" /\ server = "failed"
    /\ main' = "deferred"
    /\ exit' = 1
    /\ UNCHANGED <<op, failures, signalled, server, inFlight>>

Answer(r) ==
    /\ Alive /\ r \in inFlight
    /\ inFlight' = inFlight \ {r}
    /\ UNCHANGED <<op, failures, signalled, server, main, exit>>

\* Faulty: the shutdown has no deadline.
ShutdownWaits ==
    /\ main = "shutdown"
    /\ inFlight = {}
    /\ main' = "deferred"
    /\ UNCHANGED <<op, failures, signalled, server, inFlight, exit>>

\* All requests are answered, or 30 seconds are over.
ShutdownEnds ==
    /\ main = "shutdown"
    /\ main' = "deferred"
    /\ UNCHANGED <<op, failures, signalled, server, inFlight, exit>>

\* The telemetry is flushed for at most 5 seconds, then main exits.
Exit ==
    /\ main = "deferred"
    /\ main' = "exited"
    /\ UNCHANGED <<op, failures, signalled, server, inFlight, exit>>

Main == SelectSignal \/ SelectFailure \/ SelectServerError \/ ShutdownEnds \/ Exit

LifeNext ==
    \/ \E o \in Op : CancelContext(o) \/ Return(o) \/ Report(o)
    \/ Signal \/ ServerFails \/ Main
    \/ \E r \in Request : Answer(r)

\* The main goroutine runs when it can; both of its waits have a deadline.
LifeFairness == WF_lifeVars(Main)

LifeSpec == LifeInit /\ [][LifeNext]_lifeVars /\ LifeFairness

-----------------------------------------------------------------------------

Gone(o) == op[o].phase = "reported" /\ op[o].err = "database"

(***************************************************************************)
(* The exit code tells why the process ends: 0 after a signal only, 1 only *)
(* when the server failed or a database operation did whose message nobody *)
(* had given up.  Errors that requests earn and cancelled messages do not  *)
(* end it; and a failure once reported does, for no other failure takes    *)
(* its place in the channel without that.                                  *)
(***************************************************************************)
ExitTellsWhy ==
    /\ exit = 0 => signalled
    /\ exit = 1 => server = "failed" \/ \E o \in Op : Gone(o) /\ ~op[o].done
    /\ main = "select" /\ (\E o \in Op : Gone(o) /\ ~op[o].done) => failures # <<>>

(***************************************************************************)
(* When the database is gone and an operation has met that, the process    *)
(* ends, so that it can be started again.                                  *)
(***************************************************************************)
FailureEnds == \A o \in Op : Gone(o) /\ ~op[o].done ~> main = "exited"

=============================================================================
