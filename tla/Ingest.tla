------------------------------- MODULE Ingest -------------------------------
(***************************************************************************)
(* EVENT messages on their way into the storage                            *)
(* (src/internal/relay/engine/handlers.go, deleting.go, adding.go and      *)
(* src/internal/storage/postgres).                                         *)
(*                                                                         *)
(* Every message runs on a goroutine of its own.  It is a chain of SQL     *)
(* statements, each atomic, with no transaction around them: a deletion    *)
(* request looks for its targets and deletes them; then policies, a check  *)
(* for an earlier deletion, and the write.  Only ReplaceEvent holds a      *)
(* mutex over its statements.  A statement may fail, before or after its   *)
(* effect, and the process may die and start again on the same table.      *)
(*                                                                         *)
(* An event is a record; its class stands for the kind: "regular",         *)
(* "deletion" (kind 5), "replaceable" (0, 3, from 10000 on: all others     *)
(* that are stored and not addressable) or "addressable".  d is the value  *)
(* of its first "d" tag, "" if it has none; values are those of its tags   *)
(* with a name of one letter, the "d" tag among them if there is one.      *)
(***************************************************************************)
EXTENDS Naturals, Sequences, FiniteSets

CONSTANTS
    Event,      \* [id, class, author, time, d, values, tags]
    Msg,        \* EVENT messages
    Workload,   \* what the clients may send: an event, or None, for each message
    Faults,     \* bound: statements that fail
    Breaks,     \* bound: scans that break off unnoticed while replacing
    Crashes     \* bound: deaths of the process

\* No event: a message that is not sent, a query without a row.
None == [id |-> 0, class |-> "none", tags |-> <<>>]

ASSUME EventAssumption ==
    \A e \in Event : e.class \in {"regular", "deletion", "replaceable", "addressable"}
ASSUME TagAssumption ==
    \A e \in Event :
        /\ e.tags \in Seq({e.tags[i] : i \in DOMAIN e.tags})
        /\ \A i \in DOMAIN e.tags :
              /\ e.tags[i].name = "e" => e.tags[i] = [name |-> "e", id |-> e.tags[i].id]
              /\ e.tags[i].name = "a"
                    => e.tags[i] = [name |-> "a", class |-> e.tags[i].class,
                                    author |-> e.tags[i].author, d |-> e.tags[i].d]
ASSUME WorkloadAssumption == Workload \subseteq [Msg -> Event \cup {None}]
ASSUME BoundsAssumption == Faults \in Nat /\ Breaks \in Nat /\ Crashes \in Nat

VARIABLES
    table,      \* the rows of table event
    task,       \* the goroutine of a message
    mutex,      \* who holds the mutex of PostgresBackend
    bad,        \* [faults, breaks, crashes] so far
    history     \* what happened, for the properties

vars == <<table, task, mutex, bad, history>>

Nobody == "nobody"

ASSUME MsgAssumption == Nobody \notin Msg

Init ==
    /\ table = {}
    /\ \E events \in Workload :
          task = [m \in Msg |-> [event |-> events[m], pc |-> "idle", tag |-> 1, found |-> None,
                                 persistence |-> "none", failed |-> FALSE, skip |-> FALSE]]
    /\ mutex = Nobody
    /\ bad = [faults |-> 0, breaks |-> 0, crashes |-> 0]
    /\ history = [inserted |-> {},                          \* by which messages
                  broadcast |-> {},                         \* for which messages
                  beside |-> [m \in Msg |-> {}]]            \* who was running meanwhile

-----------------------------------------------------------------------------
(* What the queries return *)

\* ORDER BY created_at DESC, id
Precedes(x, y) == x.time > y.time \/ (x.time = y.time /\ x.id < y.id)

\* The first row of a result, if there is one: with LIMIT 1 or because no more is read.
FirstRow(rows) == {x \in rows : \A y \in rows \ {x} : Precedes(x, y)}

\* Faulty: events of the same second count as equal.
OlderInTime(previous, next) == previous.time < next.time

IsOlder(previous, next) ==
    previous.time < next.time \/ (previous.time = next.time /\ previous.id > next.id)

\* Of these kinds only the newest event of an address is kept: all but the regular.
Versioned(e) == e.class \in {"replaceable", "addressable"}

\* kinds, authors and the "d" tag.  The SQL compares the value with the values
\* of all single-letter tags; an event without a "d" tag is not found by "".
RowsAt(class, author, d) ==
    {x \in table : x.class = class /\ x.author = author /\ d \in x.values}

\* The rows ReplaceEvent asks for: those of a replaceable kind have no "d".
RowsToReplace(e) ==
    IF e.class = "addressable" THEN RowsAt(e.class, e.author, e.d)
    ELSE {x \in table : x.class = e.class /\ x.author = e.author}

\* The rows a tag of a deletion request is a query for.  An "a" tag is always a
\* query for a "d", also of a replaceable kind, whose d is "".
Targets(e, tag) ==
    CASE tag.name = "e" -> {x \in table : x.id = tag.id}
      [] tag.name = "a" -> {x \in RowsAt(tag.class, tag.author, tag.d) : x.time <= e.time}
      [] OTHER -> {}

HasTag(d, tag) == \E i \in DOMAIN d.tags : d.tags[i] = tag

AddressOf(e) == [name |-> "a", class |-> e.class, author |-> e.author, d |-> e.d]

DeletionsById(e) ==
    {d \in table : d.class = "deletion" /\ HasTag(d, [name |-> "e", id |-> e.id])}

\* Faulty: the deletion must be newer than the event.
DeletionsAfter(e) ==
    {d \in table : /\ d.class = "deletion"
                   /\ d.time > e.time
                   /\ HasTag(d, AddressOf(e))}

DeletionsByAddress(e) ==
    {d \in table : /\ d.class = "deletion"
                   /\ d.time >= e.time
                   /\ HasTag(d, AddressOf(e))}

-----------------------------------------------------------------------------
(* The goroutine of message m with event e *)

EventOf(m) == task[m].event
At(m, l) == task[m].pc = l
Goto(m, l) == task' = [task EXCEPT ![m].pc = l]

\* The write pipeline returns: a persistence outcome, an error, skipBroadcast.
Return(m, persistence, failed, skip) ==
    task' = [task EXCEPT ![m].pc = "written", ![m].persistence = persistence,
                         ![m].failed = failed, ![m].skip = skip]

Running == {m \in Msg : task[m].pc \notin {"idle", "answered", "lost"}}

\* One more statement fails.
Fault ==
    /\ bad.faults < Faults
    /\ bad' = [bad EXCEPT !.faults = @ + 1]

\* The message has arrived.  Id, signature and NIP-70 are checked in memory.
Receive(m) ==
    /\ At(m, "idle")
    /\ EventOf(m) # None
    /\ history' = [history EXCEPT !.beside =
           [n \in Msg |-> CASE n = m -> Running
                            [] n \in Running -> @[n] \cup {m}
                            [] OTHER -> @[n]]]
    /\ \/ Goto(m, IF EventOf(m).class = "deletion" THEN "targets" ELSE "check")
       \/ Return(m, "not_attempted", TRUE, TRUE)
    /\ UNCHANGED <<table, mutex, bad>>

TagsLeft(m) == At(m, "targets") /\ task[m].tag <= Len(EventOf(m).tags)

NextTag(m) == task' = [task EXCEPT ![m].pc = "targets", ![m].tag = @ + 1]

\* The target of one tag is looked for; only its author may delete it.
FindTarget(m) ==
    /\ TagsLeft(m)
    /\ LET e == EventOf(m)
           targets == Targets(e, e.tags[task[m].tag])
       IN  \/ targets = {} /\ NextTag(m)
           \/ \E found \in FirstRow(targets) :
                 IF found.author = e.author
                    THEN task' = [task EXCEPT ![m].pc = "delete", ![m].found = found]
                    ELSE Return(m, "not_attempted", TRUE, TRUE)
    /\ UNCHANGED <<table, mutex, bad, history>>

\* A query that fails finds nothing.
FindTargetFails(m) ==
    /\ TagsLeft(m)
    /\ Fault
    /\ NextTag(m)
    /\ UNCHANGED <<table, mutex, history>>

DeleteTarget(m) ==
    /\ At(m, "delete")
    /\ table' = table \ {task[m].found}
    /\ NextTag(m)
    /\ UNCHANGED <<mutex, bad, history>>

DeleteTargetFails(m) ==
    /\ At(m, "delete")
    /\ Fault
    /\ table' \in {table, table \ {task[m].found}}
    /\ Return(m, "error", TRUE, FALSE)
    /\ UNCHANGED <<mutex, history>>

\* The deletion request is then an event like others.
EndTargets(m) ==
    /\ At(m, "targets")
    /\ task[m].tag > Len(EventOf(m).tags)
    /\ Goto(m, "check")
    /\ UNCHANGED <<table, mutex, bad, history>>

RejectEvent(m) ==
    /\ At(m, "check")
    /\ Return(m, "not_attempted", TRUE, TRUE)
    /\ UNCHANGED <<table, mutex, bad, history>>

AfterIdCheck(m) == IF Versioned(EventOf(m)) THEN "checkAddress" ELSE "store"

\* Has the event been deleted by id?
CheckId(m) ==
    /\ At(m, "check")
    /\ \/ DeletionsById(EventOf(m)) # {} /\ Return(m, "not_attempted", TRUE, TRUE)
       \/ DeletionsById(EventOf(m)) = {} /\ Goto(m, AfterIdCheck(m))
    /\ UNCHANGED <<table, mutex, bad, history>>

CheckIdFails(m) ==
    /\ At(m, "check")
    /\ Fault
    /\ Goto(m, AfterIdCheck(m))
    /\ UNCHANGED <<table, mutex, history>>

\* Has it been deleted by address?
CheckAddress(m) ==
    /\ At(m, "checkAddress")
    /\ \/ DeletionsByAddress(EventOf(m)) # {} /\ Return(m, "not_attempted", TRUE, TRUE)
       \/ DeletionsByAddress(EventOf(m)) = {} /\ Goto(m, "lock")
    /\ UNCHANGED <<table, mutex, bad, history>>

CheckAddressFails(m) ==
    /\ At(m, "checkAddress")
    /\ Fault
    /\ Goto(m, "lock")
    /\ UNCHANGED <<table, mutex, history>>

-----------------------------------------------------------------------------
(* The writes *)

\* Faulty: the rows affected are not looked at.
InsertAlwaysStored(m) ==
    /\ table' = table \cup {EventOf(m)}
    /\ history' = IF EventOf(m) \in table THEN history
                  ELSE [history EXCEPT !.inserted = @ \cup {m}]
    /\ Return(m, "stored", FALSE, FALSE)

\* INSERT ... ON CONFLICT (id) DO NOTHING, and the outcome of the write: a
\* duplicate is not broadcast.
SaveEvent(m) ==
    /\ table' = table \cup {EventOf(m)}
    /\ IF EventOf(m) \in table
       THEN Return(m, "duplicate", FALSE, TRUE) /\ UNCHANGED history
       ELSE /\ Return(m, "stored", FALSE, FALSE)
            /\ history' = [history EXCEPT !.inserted = @ \cup {m}]

\* Regular events and deletion requests.
Store(m) ==
    /\ At(m, "store")
    /\ SaveEvent(m)
    /\ UNCHANGED <<mutex, bad>>

\* The statement fails; the row may be there all the same.
SaveFails(m) ==
    /\ Fault
    /\ Return(m, "error", TRUE, FALSE)
    /\ \/ UNCHANGED <<table, history>>
       \/ /\ table' = table \cup {EventOf(m)}
          /\ history' = IF EventOf(m) \in table THEN history
                        ELSE [history EXCEPT !.inserted = @ \cup {m}]

\* Faulty: a failed write is taken for a duplicate.
StoreErrorIgnored(m) ==
    /\ At(m, "store")
    /\ Fault
    /\ Return(m, "duplicate", FALSE, TRUE)
    /\ UNCHANGED <<table, mutex, history>>

StoreFails(m) ==
    /\ At(m, "store")
    /\ SaveFails(m)
    /\ UNCHANGED mutex

\* Faulty: nobody waits.
BeginUnlocked(m) ==
    /\ At(m, "lock")
    /\ mutex' = m
    /\ Goto(m, "previous")
    /\ UNCHANGED <<table, bad, history>>

\* ReplaceEvent: b.Lock()
BeginReplace(m) ==
    /\ At(m, "lock")
    /\ mutex = Nobody
    /\ mutex' = m
    /\ Goto(m, "previous")
    /\ UNCHANGED <<table, bad, history>>

\* The newest row that is found is older, or it wins, or there is none.
FindPrevious(m) ==
    /\ At(m, "previous")
    /\ LET e == EventOf(m)
           rows == RowsToReplace(e)
       IN  \/ rows = {} /\ Goto(m, "save") /\ UNCHANGED mutex
           \/ \E previous \in FirstRow(rows) :
                 \/ /\ IsOlder(previous, e)
                    /\ task' = [task EXCEPT ![m].pc = "deletePrevious", ![m].found = previous]
                    /\ UNCHANGED mutex
                 \/ /\ ~IsOlder(previous, e)
                    /\ mutex' = Nobody
                    /\ Return(m, "superseded", FALSE, FALSE)
    /\ UNCHANGED <<table, bad, history>>

\* The scan ends with an error, which QueryEvents hides by closing the channel:
\* as if there were no row.
FindPreviousBreaks(m) ==
    /\ At(m, "previous")
    /\ bad.breaks < Breaks
    /\ bad' = [bad EXCEPT !.breaks = @ + 1]
    /\ Goto(m, "save")
    /\ UNCHANGED <<table, mutex, history>>

DeletePrevious(m) ==
    /\ At(m, "deletePrevious")
    /\ table' = table \ {task[m].found}
    /\ Goto(m, "save")
    /\ UNCHANGED <<mutex, bad, history>>

SaveReplacement(m) ==
    /\ At(m, "save")
    /\ SaveEvent(m)
    /\ mutex' = Nobody
    /\ UNCHANGED bad

\* Faulty: an error return that does not unlock.
ReplaceFailsLocked(m) ==
    \/ /\ At(m, "previous")
       /\ Fault
       /\ Return(m, "error", TRUE, FALSE)
       /\ UNCHANGED <<table, mutex, history>>
    \/ /\ At(m, "deletePrevious")
       /\ Fault
       /\ Return(m, "error", TRUE, FALSE)
       /\ table' \in {table, table \ {task[m].found}}
       /\ mutex' = Nobody
       /\ UNCHANGED history
    \/ At(m, "save") /\ SaveFails(m) /\ mutex' = Nobody

\* Each statement of ReplaceEvent may fail: it unlocks and leaves what it did.
ReplaceFails(m) ==
    /\ \/ /\ At(m, "previous")
          /\ Fault
          /\ Return(m, "error", TRUE, FALSE)
          /\ UNCHANGED <<table, history>>
       \/ /\ At(m, "deletePrevious")
          /\ Fault
          /\ Return(m, "error", TRUE, FALSE)
          /\ table' \in {table, table \ {task[m].found}}
          /\ UNCHANGED history
       \/ At(m, "save") /\ SaveFails(m)
    /\ mutex' = Nobody

\* The persistence outcome is reported; the event is broadcast unless the
\* write failed or was a duplicate; OK is sent.
Answer(m) ==
    /\ At(m, "written")
    /\ Goto(m, "answered")
    /\ history' = IF task[m].failed \/ task[m].skip THEN history
                  ELSE [history EXCEPT !.broadcast = @ \cup {m}]
    /\ UNCHANGED <<table, mutex, bad>>

\* The process dies, also after a database failure (instance.go), and starts
\* again; its messages are never answered.
Crash ==
    /\ bad.crashes < Crashes
    /\ bad' = [bad EXCEPT !.crashes = @ + 1]
    /\ task' = [m \in Msg |-> IF m \in Running THEN [task[m] EXCEPT !.pc = "lost"] ELSE task[m]]
    /\ mutex' = Nobody
    /\ UNCHANGED <<table, history>>

DeleteStep(m) ==
    FindTarget(m) \/ FindTargetFails(m) \/ DeleteTarget(m) \/ DeleteTargetFails(m) \/ EndTargets(m)

CheckStep(m) ==
    RejectEvent(m) \/ CheckId(m) \/ CheckIdFails(m) \/ CheckAddress(m) \/ CheckAddressFails(m)

WriteStep(m) ==
    \/ Store(m) \/ StoreFails(m)
    \/ FindPrevious(m) \/ FindPreviousBreaks(m) \/ DeletePrevious(m) \/ SaveReplacement(m)
    \/ ReplaceFails(m)

Step(m) == DeleteStep(m) \/ CheckStep(m) \/ WriteStep(m) \/ Answer(m)

Next ==
    \/ \E m \in Msg : Receive(m) \/ Step(m) \/ BeginReplace(m)
    \/ Crash

\* The database answers each statement, writes to websockets return, and the mutex is
\* got in the end.
Fairness == \A m \in Msg : WF_vars(Step(m)) /\ SF_vars(BeginReplace(m))

Spec == Init /\ [][Next]_vars
FairSpec == Spec /\ Fairness

-----------------------------------------------------------------------------
(* Properties *)

Outcomes == {"none", "stored", "duplicate", "superseded", "not_attempted", "error"}

Counter == {"idle", "targets", "delete", "check", "checkAddress", "store", "lock", "previous",
            "deletePrevious", "save", "written", "answered", "lost"}

Task == [event : Event \cup {None}, pc : Counter, tag : Nat \ {0}, found : Event \cup {None},
         persistence : Outcomes, failed : BOOLEAN, skip : BOOLEAN]

TypeOK ==
    /\ table \in SUBSET Event
    /\ task \in [Msg -> Task]
    /\ mutex \in Msg \cup {Nobody}
    /\ bad \in [faults : 0..Faults, breaks : 0..Breaks, crashes : 0..Crashes]
    /\ history \in [inserted : SUBSET Msg, broadcast : SUBSET Msg, beside : [Msg -> SUBSET Msg]]

\* The answer to m was OK true.
Accepted(m) == task[m].pc = "answered" /\ ~task[m].failed

\* Events of one address.
Alike(x, y) ==
    /\ Versioned(x)
    /\ x.class = y.class /\ x.author = y.author
    /\ x.class = "addressable" => x.d = y.d

\* A query for the d of e finds the events of its address and no others: each
\* has e's "d" tag, and nobody else of that kind and author has a tag of its value.
OwnTag(e) ==
    \A x \in Event : x.class = e.class /\ x.author = e.author => (e.d \in x.values <=> Alike(x, e))

\* No query for another address finds e.
Unshared(e) ==
    \A x \in Event : Versioned(x) /\ x.class = e.class /\ x.author = e.author /\ x.d \in e.values
                     => Alike(x, e)

\* At no moment does the table hold two rows of one address, whatever runs
\* beside a replacement and wherever it fails (replace.go:12-47), as long as
\* the channel of rows is closed "after the events are all delivered"
\* (store.go:35): a scan that breaks off hides the row to be replaced.  An
\* addressable kind needs its tags: without a "d" tag (tags.go:56), or with
\* another event that has a tag of its value, the row is not found.
OnePerAddress ==
    bad.breaks = 0 =>
        \A x, y \in table : Alike(x, y) /\ (x.class = "addressable" => OwnTag(x)) => x = y

\* A deletion request names e as its own, by id or by address.
Names(d, e) ==
    /\ d.class = "deletion"
    /\ d.author = e.author
    /\ \/ HasTag(d, [name |-> "e", id |-> e.id])
       \/ Versioned(e) /\ d.time >= e.time /\ HasTag(d, AddressOf(e))

\* A query of the deletion request d may return e, which is then deleted.
Hits(d, e) ==
    /\ d.class = "deletion"
    /\ d.author = e.author
    /\ \E i \in DOMAIN d.tags :
          \/ d.tags[i] = [name |-> "e", id |-> e.id]
          \/ /\ e.time <= d.time
             /\ \E v \in e.values : d.tags[i] = [AddressOf(e) EXCEPT !.d = v]

\* No deletion request that hits the event of m has arrived.
Unhit(m) == \A n \in Msg : Hits(task[n].event, task[m].event) => task[n].pc = "idle"

\* What was accepted is kept, over failures and deaths of the process, until a
\* deletion request for it arrives: a regular event that was answered OK is a row.
AcceptedIsKept ==
    \A m \in Msg : Accepted(m) /\ ~Versioned(EventOf(m)) /\ Unhit(m) => EventOf(m) \in table

\* In whatever order events of one address arrive and interleave, the table
\* ends with the newest accepted one (of two of one second, the lower id), if
\* no statement fails, no deletion hits one of them, and their tags tell them
\* from the other events of their kind and author (query.go:132).
NewestWins ==
    /\ bad.faults = 0 /\ bad.breaks = 0 /\ bad.crashes = 0 /\ Running = {}
    => \A m \in Msg :
        /\ Accepted(m) /\ Versioned(EventOf(m))
        /\ \A k \in Msg : Alike(EventOf(k), EventOf(m)) =>
              /\ EventOf(k).class = "addressable" => OwnTag(EventOf(k)) /\ Unshared(EventOf(k))
              /\ \A n \in Msg : ~Hits(EventOf(n), EventOf(k))
        /\ \A n \in Msg : Accepted(n) /\ Alike(EventOf(n), EventOf(m)) /\ EventOf(n) # EventOf(m)
                          => Precedes(EventOf(m), EventOf(n))
        => EventOf(m) \in table

\* Once a deletion request has been accepted, what it names is gone and stays
\* gone: for events whose messages do not run beside the request, which may
\* come before or after it.  (One that has passed its check is stored beside.)
\* A row named by its address must have the "d" tag the request is a query for,
\* and be alone with it: one of a replaceable kind has none, and stays
\* (deleting.go:32-37).  A request that another one deletes no longer holds.
DeletedIsGone ==
    bad.faults = 0 /\ bad.breaks = 0 =>
    \A d \in Msg : Accepted(d) /\ Unhit(d) =>
        \A e \in table : Names(EventOf(d), e) =>
            \/ ~OwnTag(e) /\ ~HasTag(EventOf(d), [name |-> "e", id |-> e.id])
            \/ \E m \in Msg : /\ EventOf(m) = e
                              /\ m \in history.beside[d] \/ d \in history.beside[m]

\* What is told is new: each broadcast of a regular event announces a row of its
\* own, however often and however concurrently it is sent; and "stored" is
\* reported for messages that inserted a row, and for all of them but those whose
\* insert failed after its effect or was never answered (README.md:133).
BroadcastIsNew ==
    /\ \A m \in history.broadcast : ~Versioned(EventOf(m)) => m \in history.inserted
    /\ \A m \in Msg :
        /\ task[m].persistence = "stored" => m \in history.inserted
        /\ m \in history.inserted => task[m].persistence \in {"stored", "error"}

\* Every EVENT is answered, unless the process dies: no error path of
\* ReplaceEvent keeps the mutex.
MessagesEnd ==
    \A m \in Msg : task[m].pc \in {"targets", "check"} ~> task[m].pc \in {"answered", "lost"}

\* adding.go:122: the query for what is replaced has the "d" tag: a
\* replacement takes away a row of its own address.
ReplacesOwnAddress ==
    [][\A m \in Msg : At(m, "deletePrevious") /\ task'[m].pc = "save"
          => \A x \in table \ table' : Alike(x, EventOf(m))]_vars

=============================================================================
