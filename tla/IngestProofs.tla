---------------------------- MODULE IngestProofs ----------------------------
(***************************************************************************)
(* Safety of the EVENT pipeline, for any number of messages, events,       *)
(* failing statements, broken scans and restarts.                          *)
(*                                                                         *)
(* A message that replaces holds the mutex, so nobody else adds a row of   *)
(* an address between its query and its insertion; others may only take    *)
(* rows away.  What a message reports as stored it has inserted.           *)
(*                                                                         *)
(* Two sections need that nothing fails: deletion requests (Gone: who      *)
(* missed the request, or the row, ran beside it and is found later), and  *)
(* versions (Wins: the row at an address is the newest that was brought).  *)
(***************************************************************************)
EXTENDS Ingest, TLAPS

Replacing == {"previous", "deletePrevious", "save"}

Ended == {"written", "answered", "lost"}

\* Where a message may be, by the class of its event; and who holds the mutex.
Placed ==
    \A m \in Msg :
        /\ task[m].pc # "idle" => task[m].event \in Event
        /\ task[m].pc \in Replacing \cup {"checkAddress", "lock"}
              => Versioned(task[m].event)
        /\ task[m].pc = "store" => ~Versioned(task[m].event)
        /\ task[m].pc \in Replacing => mutex = m

\* The query for what e replaces returns the rows of its address and no others.
Findable(e) == e.class = "addressable" => OwnTag(e)

\* What a message that replaces knows of the rows of its address.
Known ==
    bad.breaks = 0 =>
        \A m \in Msg : \A r \in table : Alike(r, task[m].event) /\ Findable(r) =>
            /\ task[m].pc # "save"
            /\ task[m].pc = "deletePrevious" => r = task[m].found

\* What a message has inserted and what it reports.
Reported ==
    \A m \in Msg :
        /\ m \in history.inserted => task[m].pc \in Ended
        /\ /\ task[m].pc = "written" /\ ~task[m].failed /\ ~task[m].skip
           /\ ~Versioned(task[m].event)
           => m \in history.inserted

-----------------------------------------------------------------------------
(* Addresses *)

\* Being of one address is an equivalence among versioned events.
LEMMA AlikeEvents ==
    ASSUME NEW x, NEW y
    PROVE  /\ Versioned(x) => Alike(x, x)
           /\ Alike(x, y) => Versioned(x) /\ Versioned(y) /\ Alike(y, x)
           /\ \A z : Alike(x, y) /\ Alike(y, z) => Alike(x, z)
  BY DEF Alike, Versioned

\* Either all events of an address are found by a query for it, or none.
LEMMA AlikeFindable ==
    ASSUME NEW x, NEW y, Alike(x, y)
    PROVE  Findable(x) <=> Findable(y)
  BY DEF Alike, Findable, OwnTag, Versioned

-----------------------------------------------------------------------------
(* How an action moves one task *)

\* A step of m changes the task of m only, and never its event.
Moves(m) ==
    /\ \A n \in Msg : n # m => task'[n] = task[n]
    /\ task'[m].event = task[m].event

\* Goto moves one task to a step.
LEMMA GotoMoves ==
    ASSUME TypeOK, NEW m \in Msg, NEW l \in Counter, Goto(m, l)
    PROVE  /\ task' \in [Msg -> Task]
           /\ Moves(m)
           /\ task'[m].pc = l
           /\ task'[m].persistence = task[m].persistence
  BY DEF TypeOK, Task, Goto, Moves

\* NextTag moves one task to its next tag.
LEMMA NextTagMoves ==
    ASSUME TypeOK, NEW m \in Msg, NextTag(m)
    PROVE  /\ task' \in [Msg -> Task]
           /\ Moves(m)
           /\ task'[m].pc = "targets"
           /\ task'[m].persistence = task[m].persistence
  BY DEF TypeOK, Task, NextTag, Moves, Counter

\* A task that has found a row keeps it.
LEMMA FindMoves ==
    ASSUME TypeOK, NEW m \in Msg, NEW l \in Counter, NEW r \in Event,
           task' = [task EXCEPT ![m].pc = l, ![m].found = r]
    PROVE  /\ task' \in [Msg -> Task]
           /\ Moves(m)
           /\ task'[m].pc = l
           /\ task'[m].found = r
           /\ task'[m].persistence = task[m].persistence
  <1>1. task \in [Msg -> Task]
    BY DEF TypeOK
  <1> DEFINE old == task[m]
             new == [old EXCEPT !.pc = l, !.found = r]
  <1>2. /\ new \in Task /\ new.pc = l /\ new.found = r
        /\ new.event = task[m].event /\ new.persistence = task[m].persistence
    <2>1. old \in Task
      BY ONLY <1>1, m \in Msg
    <2> HIDE DEF old
    <2>2. new \in Task /\ new.pc = l /\ new.found = r /\ new.event = old.event
          /\ new.persistence = old.persistence
      BY ONLY <2>1, l \in Counter, r \in Event DEF Task
    <2> QED
      BY <2>2 DEF old
  <1>3. PICK w : w = new
    OBVIOUS
  <1>4. task' = [task EXCEPT ![m] = w]
    BY <1>3
  <1>5. /\ task' \in [Msg -> Task] /\ task'[m] = w
        /\ \A n \in Msg : n # m => task'[n] = task[n]
    <2>1. w \in Task
      BY ONLY <1>2, <1>3
    <2> QED
      BY ONLY <1>1, <1>4, <2>1, m \in Msg
  <1> QED
    BY ONLY <1>2, <1>3, <1>5 DEF Moves

\* Return ends the writing of one task with its outcome.
LEMMA ReturnMoves ==
    ASSUME TypeOK, NEW m \in Msg, NEW p \in Outcomes, NEW f \in BOOLEAN, NEW s \in BOOLEAN,
           Return(m, p, f, s)
    PROVE  /\ task' \in [Msg -> Task]
           /\ Moves(m)
           /\ task'[m].pc = "written"
           /\ task'[m].persistence = p /\ task'[m].failed = f /\ task'[m].skip = s
  <1> DEFINE half == [task[m] EXCEPT !.pc = "written", !.persistence = p]
             new == [half EXCEPT !.failed = f, !.skip = s]
  <1>1. task[m] \in Task /\ task \in [Msg -> Task]
    BY DEF TypeOK
  <1>2. half \in Task /\ half.event = task[m].event /\ half.pc = "written" /\ half.persistence = p
    BY <1>1 DEF Task, Counter
  <1>3. task' = [task EXCEPT ![m] = new]
    BY <1>1 DEF Return, Task
  <1> HIDE DEF half
  <1>4. /\ new \in Task /\ new.event = half.event /\ new.pc = half.pc
        /\ new.persistence = half.persistence /\ new.failed = f /\ new.skip = s
    BY <1>2 DEF Task
  <1> HIDE DEF new
  <1>5. task' \in [Msg -> Task] /\ task'[m] = new /\ \A n \in Msg : n # m => task'[n] = task[n]
    BY <1>1, <1>3, <1>4
  <1> QED
    BY <1>2, <1>4, <1>5 DEF Moves

\* A failing statement is counted, and nothing else of bad.
LEMMA FaultCounts ==
    ASSUME TypeOK, Fault
    PROVE  /\ bad' \in [faults : 0..Faults, breaks : 0..Breaks, crashes : 0..Crashes]
           /\ bad'.breaks = bad.breaks
  BY BoundsAssumption DEF TypeOK, Fault

\* The row that a query returns first is one of its rows.
LEMMA FirstIsARow == \A rows : FirstRow(rows) \subseteq rows
  BY DEF FirstRow

\* What a tag names is searched in the table.
LEMMA TargetsAreRows ==
    ASSUME NEW e, NEW tag
    PROVE  Targets(e, tag) \subseteq table
  BY DEF Targets, RowsAt

\* Nothing has been received.
LEMMA InitIInv == Init => TypeOK /\ Placed /\ Known /\ Reported /\ BroadcastIsNew
  <1> SUFFICES ASSUME Init PROVE TypeOK /\ Placed /\ Known /\ Reported /\ BroadcastIsNew
    OBVIOUS
  <1>1. PICK events \in Workload :
            task = [m \in Msg |-> [event |-> events[m], pc |-> "idle", tag |-> 1, found |-> None,
                                   persistence |-> "none", failed |-> FALSE, skip |-> FALSE]]
    BY DEF Init
  <1>2. \A m \in Msg : events[m] \in Event \cup {None}
    BY WorkloadAssumption
  <1>3. \A m \in Msg : /\ task[m] \in Task /\ task[m].pc = "idle" /\ task[m].persistence = "none"
                       /\ task[m].event \in Event \cup {None}
    BY <1>1, <1>2 DEF Task, Counter, Outcomes
  <1>4. task \in [Msg -> Task]
    BY <1>1, <1>3
  <1>5. TypeOK
    BY <1>4, BoundsAssumption DEF Init, TypeOK
  <1>6. Placed
    BY <1>3 DEF Placed, Replacing
  <1>7. Known
    BY DEF Init, Known
  <1>8. Reported /\ BroadcastIsNew
    BY <1>3 DEF Init, Reported, BroadcastIsNew, Ended
  <1> QED
    BY <1>5, <1>6, <1>7, <1>8

-----------------------------------------------------------------------------
(* The steps of one message *)

\* Where a step before the write leads: to the refusal of the event, or onward.
EarlyMove(m) ==
    /\ task' \in [Msg -> Task]
    /\ Moves(m)
    /\ \/ /\ task'[m].pc = "written" /\ task'[m].failed = TRUE
          /\ task'[m].persistence = "not_attempted"
       \/ /\ task'[m].persistence = task[m].persistence
          /\ \/ task'[m].pc \in {"targets", "delete", "check"}
             \/ task'[m].pc \in {"checkAddress", "lock"} /\ Versioned(task[m].event)
             \/ task'[m].pc = "store" /\ ~Versioned(task[m].event)

\* The steps that change no row before the write.
EarlyStep(m) ==
    Receive(m) \/ FindTarget(m) \/ FindTargetFails(m) \/ EndTargets(m) \/ CheckStep(m)

HistoryOK ==
    history \in [inserted : SUBSET Msg, broadcast : SUBSET Msg, beside : [Msg -> SUBSET Msg]]

BadOK == bad \in [faults : 0..Faults, breaks : 0..Breaks, crashes : 0..Crashes]

\* What the steps before a write do to the tasks.
LEMMA EarlyTasks ==
    ASSUME TypeOK, Placed, NEW m \in Msg, EarlyStep(m)
    PROVE  EarlyMove(m)
  <1>1. ASSUME Return(m, "not_attempted", TRUE, TRUE) PROVE EarlyMove(m)
    BY <1>1, ReturnMoves DEF Outcomes, EarlyMove
  <1>2. CASE Receive(m)
    <2>1. CASE Goto(m, "targets") \/ Goto(m, "check")
      BY <2>1, GotoMoves DEF Counter, EarlyMove
    <2> QED
      BY <1>2, <1>1, <2>1 DEF Receive
  <1>3. CASE FindTarget(m)
    <2>1. CASE NextTag(m)
      BY <2>1, NextTagMoves DEF EarlyMove
    <2>2. ASSUME NEW r \in table, task' = [task EXCEPT ![m].pc = "delete", ![m].found = r]
          PROVE  EarlyMove(m)
      <3>1. r \in Event
        BY <2>2 DEF TypeOK
      <3> QED
        BY <2>2, <3>1, FindMoves DEF Counter, EarlyMove
    <2> QED
      BY <1>3, <1>1, <2>1, <2>2, FirstIsARow, TargetsAreRows DEF FindTarget
  <1>4. CASE FindTargetFails(m)
    BY <1>4, NextTagMoves DEF FindTargetFails, EarlyMove
  <1>5. CASE EndTargets(m) \/ RejectEvent(m) \/ CheckId(m) \/ CheckIdFails(m)
    <2>1. CASE Goto(m, "check")
      BY <2>1, GotoMoves DEF Counter, EarlyMove
    <2>2. CASE Goto(m, AfterIdCheck(m))
      <3>1. CASE Versioned(task[m].event) /\ Goto(m, "checkAddress")
        BY <3>1, GotoMoves DEF Counter, EarlyMove
      <3>2. CASE ~Versioned(task[m].event) /\ Goto(m, "store")
        BY <3>2, GotoMoves DEF Counter, EarlyMove
      <3> QED
        BY <2>2, <3>1, <3>2 DEF AfterIdCheck, EventOf
    <2> QED
      BY <1>1, <1>5, <2>1, <2>2 DEF EndTargets, RejectEvent, CheckId, CheckIdFails
  <1>6. CASE CheckAddress(m) \/ CheckAddressFails(m)
    <2>1. Versioned(task[m].event)
      BY <1>6 DEF Placed, CheckAddress, CheckAddressFails, At
    <2>2. CASE Goto(m, "lock")
      BY <2>1, <2>2, GotoMoves DEF Counter, EarlyMove
    <2> QED
      BY <1>1, <1>6, <2>2 DEF CheckAddress, CheckAddressFails
  <1> QED
    BY <1>2, <1>3, <1>4, <1>5, <1>6 DEF EarlyStep, CheckStep

\* What the steps before a write leave alone.
LEMMA EarlyRest ==
    ASSUME TypeOK, Placed, NEW m \in Msg, EarlyStep(m)
    PROVE  /\ UNCHANGED <<table, mutex, history.inserted, history.broadcast>>
           /\ BadOK' /\ bad'.breaks = bad.breaks
           /\ HistoryOK'
           /\ task[m].pc \notin Replacing \cup Ended \cup {"store"}
           /\ task[m].event \in Event
  <1> USE DEF EarlyStep, FindTarget, FindTargetFails, EndTargets, CheckStep, RejectEvent, CheckId,
              CheckIdFails, CheckAddress, CheckAddressFails
  <1>1. task[m].event \in Event
    <2>1. task[m].event \in Event \cup {None}
      BY DEF TypeOK, Task
    <2> QED
      BY <2>1 DEF Placed, Receive, TagsLeft, At, EventOf
  <1>2. task[m].pc \notin Replacing \cup Ended \cup {"store"}
    BY DEF Receive, TagsLeft, At, Replacing, Ended
  <1>3. UNCHANGED <<table, mutex, history.inserted, history.broadcast>>
    BY DEF TypeOK, Receive
  <1>4. BadOK' /\ bad'.breaks = bad.breaks
    BY FaultCounts DEF TypeOK, Receive, BadOK
  <1>5. HistoryOK'
    <2>1. CASE Receive(m)
      <3>1. history'.beside \in [Msg -> SUBSET Msg]
        BY <2>1 DEF TypeOK, Receive, Running
      <3> QED
        BY <2>1, <3>1 DEF TypeOK, Receive, HistoryOK
    <2> QED
      BY <2>1 DEF TypeOK, HistoryOK
  <1> QED
    BY <1>1, <1>2, <1>3, <1>4, <1>5

-----------------------------------------------------------------------------
(* What keeps each part of the invariant, whichever the step *)

\* Placed, when one task moves and the mutex follows.
LEMMA PlacedAfter ==
    ASSUME Placed, NEW m \in Msg, Moves(m), task[m].event \in Event,
           task'[m].pc \in Replacing \cup {"checkAddress", "lock"}
               => Versioned(task[m].event),
           task'[m].pc = "store" => ~Versioned(task[m].event),
           task'[m].pc \in Replacing => mutex' = m,
           \A n \in Msg : n # m /\ task[n].pc \in Replacing => mutex' = n
    PROVE  Placed'
  BY DEF Placed, Moves

\* A message that replaces is alone in it.
LEMMA Alone ==
    ASSUME Placed, NEW m \in Msg, task[m].pc \in Replacing
    PROVE  \A n \in Msg : task[n].pc \in Replacing => n = m
  BY DEF Placed

\* Rows that go, and a message that knows nothing of them.
LEMMA RowsGo ==
    ASSUME Known, OnePerAddress, NEW m \in Msg, Moves(m), table' \subseteq table,
           bad'.breaks = bad.breaks, task'[m].pc \notin {"deletePrevious", "save"}
    PROVE  Known' /\ OnePerAddress'
  <1>1. OnePerAddress'
    BY DEF OnePerAddress
  <1>2. Known'
    <2> SUFFICES ASSUME bad'.breaks = 0, NEW n \in Msg, NEW r \in table',
                        Alike(r, task'[n].event), Findable(r)
                 PROVE  /\ task'[n].pc # "save"
                        /\ task'[n].pc = "deletePrevious" => r = task'[n].found
      BY DEF Known
    <2>1. CASE n = m
      BY <2>1
    <2>2. CASE n # m
      BY <2>2 DEF Known, Moves
    <2> QED
      BY <2>1, <2>2
  <1> QED
    BY <1>1, <1>2

\* A row that comes, of a regular event or at the end of a replacement.
LEMMA RowComes ==
    ASSUME Placed, Known, OnePerAddress, NEW m \in Msg, Moves(m),
           table' = table \cup {task[m].event},
           bad'.breaks = bad.breaks, task'[m].pc = "written",
           ~Versioned(task[m].event) \/ task[m].pc = "save"
    PROVE  Known' /\ OnePerAddress'
  <1>1. bad.breaks = 0 =>
            \A r \in table : Alike(r, task[m].event) \/ Alike(task[m].event, r) => ~Findable(r)
    BY AlikeEvents DEF Known
  <1>2. ASSUME bad'.breaks = 0, NEW x \in table', NEW y \in table', Alike(x, y), Findable(x)
        PROVE  x = y
    <2>1. Findable(y)
      BY <1>2, AlikeFindable
    <2> QED
      BY <1>1, <1>2, <2>1 DEF OnePerAddress, Findable
  <1>3. OnePerAddress'
    BY <1>2 DEF OnePerAddress, Findable
  <1>4. Known'
    <2> SUFFICES ASSUME bad'.breaks = 0, NEW n \in Msg, NEW r \in table',
                        Alike(r, task'[n].event), Findable(r)
                 PROVE  /\ task'[n].pc # "save"
                        /\ task'[n].pc = "deletePrevious" => r = task'[n].found
      BY DEF Known
    <2>1. CASE n = m
      BY <2>1
    <2>2. CASE n # m /\ r \in table
      BY <2>2 DEF Known, Moves
    <2>3. CASE n # m /\ r = task[m].event
      <3>1. task[m].pc = "save"
        BY <2>3, AlikeEvents
      <3>2. task[n].pc \notin Replacing
        BY <2>3, <3>1, Alone DEF Replacing
      <3> QED
        BY <2>3, <3>2 DEF Moves, Replacing
    <2> QED
      BY <2>1, <2>2, <2>3
  <1> QED
    BY <1>3, <1>4

\* A step of m that reports and inserts for m only.
LEMMA ReportedAfter ==
    ASSUME TypeOK, Reported, BroadcastIsNew, NEW m \in Msg, Moves(m),
           task[m].pc \notin Ended,
           history'.broadcast = history.broadcast,
           history'.inserted \in {history.inserted, history.inserted \cup {m}},
           m \in history'.inserted
               => task'[m].pc \in Ended /\ task'[m].persistence \in {"stored", "error"},
           task'[m].persistence = "stored" => m \in history'.inserted,
           /\ task'[m].pc = "written" /\ ~task'[m].failed /\ ~task'[m].skip
           /\ ~Versioned(task[m].event)
           => m \in history'.inserted
    PROVE  Reported' /\ BroadcastIsNew'
  <1>1. Reported'
    BY DEF Reported, Moves
  <1>2. history.broadcast \subseteq Msg
    BY DEF TypeOK
  <1>3. BroadcastIsNew'
    BY <1>2 DEF BroadcastIsNew, Moves, EventOf
  <1> QED
    BY <1>1, <1>3

-----------------------------------------------------------------------------
(* One lemma per action *)

IInv ==
    /\ TypeOK /\ Placed /\ Reported /\ BroadcastIsNew
    /\ Known /\ OnePerAddress

\* The steps before a write keep the invariant.
LEMMA EarlyKeeps ==
    ASSUME IInv, NEW m \in Msg, EarlyStep(m)
    PROVE  IInv'
  <1>1. EarlyMove(m)
    BY EarlyTasks DEF IInv
  <1>2. /\ UNCHANGED <<table, mutex, history.inserted, history.broadcast>>
        /\ BadOK' /\ bad'.breaks = bad.breaks
        /\ HistoryOK'
        /\ task[m].pc \notin Replacing \cup Ended \cup {"store"}
        /\ task[m].event \in Event
    BY EarlyRest DEF IInv
  <1>3. TypeOK'
    BY <1>1, <1>2 DEF IInv, TypeOK, EarlyMove, BadOK, HistoryOK
  <1>4. Placed'
    BY <1>1, <1>2, PlacedAfter DEF IInv, EarlyMove, Placed, Replacing
  <1>5. Known' /\ OnePerAddress'
    BY <1>1, <1>2, RowsGo DEF IInv, EarlyMove
  <1>6. m \notin history.inserted
    BY <1>2 DEF IInv, Reported
  <1>7. Reported' /\ BroadcastIsNew'
    BY <1>1, <1>2, <1>6, ReportedAfter DEF IInv, EarlyMove, BroadcastIsNew
  <1> QED
    BY <1>3, <1>4, <1>5, <1>7 DEF IInv

\* Facts of a message at a later statement.
LEMMA Active ==
    ASSUME IInv, NEW m \in Msg, task[m].pc \notin Ended \cup {"idle"}
    PROVE  task[m].event \in Event /\ m \notin history.inserted /\ task[m].persistence # "stored"
  BY DEF IInv, Placed, Reported, BroadcastIsNew

\* So does the deletion of a target.
LEMMA DeleteTargetKeeps ==
    ASSUME IInv, NEW m \in Msg, DeleteTarget(m) \/ DeleteTargetFails(m)
    PROVE  IInv'
  <1> USE DEF DeleteTarget, DeleteTargetFails, At
  <1>1. /\ task[m].event \in Event /\ m \notin history.inserted /\ task[m].persistence # "stored"
        /\ task[m].pc \notin Replacing \cup Ended
    BY Active DEF Ended, Replacing
  <1>2. /\ task' \in [Msg -> Task] /\ Moves(m)
        /\ \/ task'[m].pc = "targets" /\ task'[m].persistence = task[m].persistence
           \/ task'[m].pc = "written" /\ task'[m].persistence = "error" /\ task'[m].failed
    <2>1. CASE DeleteTarget(m)
      BY <2>1, NextTagMoves DEF IInv
    <2>2. CASE DeleteTargetFails(m)
      BY <2>2, ReturnMoves DEF IInv, Outcomes
    <2> QED
      BY <2>1, <2>2
  <1>3. table' \subseteq table /\ UNCHANGED <<mutex, history>>
    OBVIOUS
  <1>4. BadOK' /\ bad'.breaks = bad.breaks
    BY FaultCounts DEF IInv, TypeOK, BadOK
  <1>5. TypeOK'
    BY <1>2, <1>3, <1>4 DEF IInv, TypeOK, BadOK
  <1>6. Placed'
    BY <1>1, <1>2, <1>3, PlacedAfter DEF IInv, Placed, Replacing
  <1>7. Known' /\ OnePerAddress'
    BY <1>2, <1>3, <1>4, RowsGo DEF IInv
  <1>8. Reported' /\ BroadcastIsNew'
    BY <1>1, <1>2, <1>3, ReportedAfter DEF IInv
  <1> QED
    BY <1>5, <1>6, <1>7, <1>8 DEF IInv

\* What an insertion does, whether it is answered or fails.
LEMMA SaveMoves ==
    ASSUME TypeOK, NEW m \in Msg, task[m].event \in Event,
           (SaveEvent(m) /\ UNCHANGED bad) \/ SaveFails(m)
    PROVE  /\ task' \in [Msg -> Task] /\ Moves(m) /\ task'[m].pc = "written"
           /\ table' \in {table, table \cup {task[m].event}}
           /\ BadOK' /\ bad'.breaks = bad.breaks
           /\ HistoryOK' /\ UNCHANGED history.broadcast
           /\ history'.inserted \in {history.inserted, history.inserted \cup {m}}
           /\ \/ task'[m].persistence = "error" /\ task'[m].failed
              \/ task'[m].persistence = "stored" /\ m \in history'.inserted
              \/ /\ task'[m].persistence = "duplicate" /\ task'[m].skip
                 /\ UNCHANGED history.inserted
  <1>1. CASE SaveEvent(m) /\ UNCHANGED bad
    <2>1. CASE task[m].event \in table
      BY <1>1, <2>1, ReturnMoves DEF SaveEvent, EventOf, TypeOK, BadOK, HistoryOK, Outcomes
    <2>2. CASE task[m].event \notin table
      <3>1. /\ history' = [history EXCEPT !.inserted = @ \cup {m}]
            /\ Return(m, "stored", FALSE, FALSE)
            /\ table' = table \cup {task[m].event}
        BY <1>1, <2>2 DEF SaveEvent, EventOf
      <3>2. /\ HistoryOK' /\ UNCHANGED history.broadcast
            /\ history'.inserted = history.inserted \cup {m}
        BY <3>1 DEF TypeOK, HistoryOK
      <3> QED
        BY <1>1, <3>1, <3>2, ReturnMoves DEF TypeOK, BadOK, Outcomes
    <2> QED
      BY <2>1, <2>2
  <1>2. CASE SaveFails(m)
    <2>1. \/ UNCHANGED <<table, history>>
          \/ table' = table \cup {task[m].event} /\ UNCHANGED history
          \/ /\ table' = table \cup {task[m].event}
             /\ history' = [history EXCEPT !.inserted = @ \cup {m}]
      BY <1>2 DEF SaveFails, EventOf
    <2>2. /\ HistoryOK' /\ UNCHANGED history.broadcast
          /\ history'.inserted \in {history.inserted, history.inserted \cup {m}}
      BY <2>1 DEF TypeOK, HistoryOK
    <2>3. BadOK' /\ bad'.breaks = bad.breaks
      BY <1>2, FaultCounts DEF SaveFails, BadOK
    <2> QED
      BY <1>2, <2>1, <2>2, <2>3, ReturnMoves DEF SaveFails, Outcomes
  <1> QED
    BY <1>1, <1>2

\* So does an insertion, or its failure.
LEMMA SaveKeeps ==
    ASSUME IInv, NEW m \in Msg,
           \/ Store(m) \/ StoreFails(m) \/ SaveReplacement(m)
           \/ At(m, "save") /\ SaveFails(m) /\ mutex' = Nobody
    PROVE  IInv'
  <1>1. /\ task[m].pc \in {"store", "save"}
        /\ (SaveEvent(m) /\ UNCHANGED bad) \/ SaveFails(m)
        /\ task[m].pc = "store" => UNCHANGED mutex
        /\ task[m].pc = "save" => mutex' = Nobody
    BY DEF Store, StoreFails, SaveReplacement, At
  <1>2. /\ task[m].event \in Event /\ m \notin history.inserted
        /\ task[m].pc \notin Ended
        /\ ~Versioned(task[m].event) \/ task[m].pc = "save"
    BY <1>1, Active DEF Ended, IInv, Placed
  <1>3. /\ task' \in [Msg -> Task] /\ Moves(m) /\ task'[m].pc = "written"
        /\ table' \in {table, table \cup {task[m].event}}
        /\ BadOK' /\ bad'.breaks = bad.breaks
        /\ HistoryOK' /\ UNCHANGED history.broadcast
        /\ history'.inserted \in {history.inserted, history.inserted \cup {m}}
        /\ \/ task'[m].persistence = "error" /\ task'[m].failed
           \/ task'[m].persistence = "stored" /\ m \in history'.inserted
           \/ /\ task'[m].persistence = "duplicate" /\ task'[m].skip
              /\ UNCHANGED history.inserted
    BY <1>1, <1>2, SaveMoves DEF IInv
  <1>4. TypeOK'
    BY <1>1, <1>2, <1>3 DEF IInv, TypeOK, BadOK, HistoryOK
  <1>5. \A n \in Msg : n # m /\ task[n].pc \in Replacing => mutex' = n
    <2>1. CASE task[m].pc = "store"
      BY <1>1, <2>1 DEF IInv, Placed
    <2>2. CASE task[m].pc = "save"
      BY <2>2, Alone DEF IInv, Replacing
    <2> QED
      BY <1>1, <2>1, <2>2
  <1>6. Placed'
    BY <1>2, <1>3, <1>5, PlacedAfter DEF IInv, Replacing
  <1>7. Known' /\ OnePerAddress'
    <2>1. CASE table' = table
      BY <1>3, <2>1, RowsGo DEF IInv
    <2>2. CASE table' = table \cup {task[m].event}
      BY <1>2, <1>3, <2>2, RowComes DEF IInv
    <2> QED
      BY <1>3, <2>1, <2>2
  <1>8. /\ m \in history'.inserted
             => task'[m].pc \in Ended /\ task'[m].persistence \in {"stored", "error"}
        /\ task'[m].persistence = "stored" => m \in history'.inserted
        /\ /\ task'[m].pc = "written" /\ ~task'[m].failed /\ ~task'[m].skip
           /\ ~Versioned(task[m].event)
           => m \in history'.inserted
    BY <1>2, <1>3 DEF Ended
  <1>9. Reported' /\ BroadcastIsNew'
    BY <1>2, <1>3, <1>8, ReportedAfter DEF IInv
  <1> QED
    BY <1>4, <1>6, <1>7, <1>9 DEF IInv

\* The steps of ReplaceEvent that insert nothing: what they have in common.
ReplaceStep(m) ==
    \/ BeginReplace(m) \/ FindPrevious(m) \/ FindPreviousBreaks(m) \/ DeletePrevious(m)
    \/ ReplaceFails(m) /\ ~(At(m, "save") /\ SaveFails(m))

\* What a replacement asks for, when the tags of its event are its own.
LEMMA RowsAreAlike ==
    ASSUME TypeOK, NEW e \in Event, Versioned(e), Findable(e)
    PROVE  RowsToReplace(e) = {x \in table : Alike(x, e)}
  <1>1. table \subseteq Event
    BY DEF TypeOK
  <1>2. CASE e.class = "addressable"
    BY <1>1, <1>2 DEF RowsToReplace, RowsAt, Findable, OwnTag, Alike
  <1>3. CASE e.class = "replaceable"
    BY <1>3 DEF RowsToReplace, Alike, Versioned
  <1> QED
    BY <1>2, <1>3 DEF Versioned

\* What the steps of ReplaceEvent before its insertion do.
LEMMA ReplaceTypes ==
    ASSUME IInv, NEW m \in Msg, ReplaceStep(m)
    PROVE  /\ TypeOK' /\ Moves(m)
           /\ table' \subseteq table /\ UNCHANGED history
           /\ task[m].pc \in Replacing \cup {"lock"}
           /\ \/ /\ task'[m].pc = "written"
                 /\ task'[m].failed \/ task'[m].persistence = "superseded"
                 /\ task'[m].persistence # "stored"
                 /\ mutex' = Nobody
              \/ /\ task'[m].pc \in Replacing
                 /\ task'[m].persistence = task[m].persistence
                 /\ mutex' = m
  <1> USE DEF At
  <1>1. CASE BeginReplace(m)
    BY <1>1, GotoMoves DEF BeginReplace, IInv, TypeOK, Counter, Replacing
  <1>2. CASE FindPrevious(m)
    <2>1. mutex = m
      BY <1>2 DEF FindPrevious, IInv, Placed, Replacing
    <2>2. CASE Goto(m, "save") /\ UNCHANGED mutex
      BY <1>2, <2>1, <2>2, GotoMoves DEF FindPrevious, IInv, TypeOK, Counter, Replacing
    <2>3. ASSUME NEW r \in table,
                 task' = [task EXCEPT ![m].pc = "deletePrevious", ![m].found = r],
                 UNCHANGED mutex
          PROVE  /\ TypeOK' /\ Moves(m) /\ mutex' = m
                 /\ task'[m].pc \in Replacing /\ task'[m].persistence = task[m].persistence
      <3>1. r \in Event
        BY DEF IInv, TypeOK
      <3> QED
        BY <1>2, <2>1, <2>3, <3>1, FindMoves DEF FindPrevious, IInv, TypeOK, Counter, Replacing
    <2>4. CASE Return(m, "superseded", FALSE, FALSE) /\ mutex' = Nobody
      BY <1>2, <2>4, ReturnMoves DEF FindPrevious, IInv, TypeOK, Outcomes, Replacing
    <2>5. RowsToReplace(EventOf(m)) \subseteq table
      BY DEF RowsToReplace, RowsAt
    <2> QED
      BY <1>2, <2>2, <2>3, <2>4, <2>5, FirstIsARow DEF FindPrevious, Replacing
  <1>3. CASE FindPreviousBreaks(m)
    <2>1. bad' \in [faults : 0..Faults, breaks : 0..Breaks, crashes : 0..Crashes]
      BY <1>3, BoundsAssumption DEF FindPreviousBreaks, IInv, TypeOK
    <2> QED
      BY <1>3, <2>1, GotoMoves DEF FindPreviousBreaks, IInv, TypeOK, Placed, Counter, Replacing
  <1>4. CASE DeletePrevious(m)
    BY <1>4, GotoMoves DEF DeletePrevious, IInv, TypeOK, Placed, Counter, Replacing
  <1>5. CASE ReplaceFails(m) /\ ~(At(m, "save") /\ SaveFails(m))
    BY <1>5, FaultCounts, ReturnMoves DEF ReplaceFails, IInv, TypeOK, Outcomes, Replacing
  <1> QED
    BY <1>1, <1>2, <1>3, <1>4, <1>5 DEF ReplaceStep

\* Under the mutex the rows of the address are those the query returned, or fewer.
LEMMA ReplaceKnows ==
    ASSUME IInv, NEW m \in Msg, ReplaceStep(m)
    PROVE  Known' /\ OnePerAddress'
  <1> USE DEF At
  <1>1. /\ Moves(m) /\ table' \subseteq table /\ task[m].pc \in Replacing \cup {"lock"}
    BY ReplaceTypes
  <1>2. CASE bad'.breaks = bad.breaks /\ task'[m].pc \notin {"deletePrevious", "save"}
    BY <1>1, <1>2, RowsGo DEF IInv
  <1>3. CASE bad'.breaks # 0
    BY <1>3 DEF Known, OnePerAddress
  <1>4. ASSUME bad'.breaks = bad.breaks,
               bad.breaks = 0 => \A r \in table' : Alike(r, task[m].event) /\ Findable(r) =>
                   /\ task'[m].pc # "save"
                   /\ task'[m].pc = "deletePrevious" => r = task'[m].found
        PROVE  Known' /\ OnePerAddress'
    <2>1. OnePerAddress'
      BY <1>1, <1>4 DEF IInv, OnePerAddress
    <2>2. Known'
      BY <1>1, <1>4 DEF IInv, Known, Moves
    <2> QED
      BY <2>1, <2>2
  <1>5. task[m].event \in Event /\ Versioned(task[m].event)
    BY <1>1 DEF IInv, Placed, Replacing
  <1>6. CASE FindPrevious(m)
    <2>1. ASSUME NEW r \in table, Alike(r, task[m].event), Findable(r)
          PROVE  RowsToReplace(task[m].event) = {x \in table : Alike(x, task[m].event)}
      BY <1>5, <2>1, RowsAreAlike, AlikeFindable DEF IInv
    <2>2. UNCHANGED <<table, bad>>
      BY <1>6 DEF FindPrevious
    <2>3. CASE RowsToReplace(task[m].event) = {}
      BY <1>4, <2>1, <2>2, <2>3
    <2>4. ASSUME NEW r \in RowsToReplace(task[m].event),
                 task' = [task EXCEPT ![m].pc = "deletePrevious", ![m].found = r]
          PROVE  Known' /\ OnePerAddress'
      <3>1. task'[m].pc = "deletePrevious" /\ task'[m].found = r
        <4>1. r \in Event
          BY DEF RowsToReplace, RowsAt, IInv, TypeOK
        <4> QED
          BY <2>4, <4>1, FindMoves DEF IInv, TypeOK, Counter
      <3>2. ASSUME bad.breaks = 0, NEW x \in table, Alike(x, task[m].event), Findable(x)
            PROVE  x = r
        <4>1. r \in table /\ Alike(r, task[m].event)
          BY <2>1, <2>4, <3>2
        <4>2. Alike(x, r)
          BY <3>2, <4>1, AlikeEvents
        <4> QED
          BY <3>2, <4>1, <4>2 DEF IInv, OnePerAddress, Findable
      <3> QED
        BY <1>4, <2>2, <3>1, <3>2
    <2>5. CASE Return(m, "superseded", FALSE, FALSE)
      BY <1>2, <2>2, <2>5, ReturnMoves DEF IInv, Outcomes
    <2> QED
      BY <1>6, <2>3, <2>4, <2>5, FirstIsARow DEF FindPrevious, EventOf
  <1>7. CASE DeletePrevious(m)
    <2>1. /\ table' = table \ {task[m].found} /\ UNCHANGED bad
          /\ task[m].pc = "deletePrevious"
      BY <1>7 DEF DeletePrevious
    <2>2. bad.breaks = 0 => \A r \in table' : ~(Alike(r, task[m].event) /\ Findable(r))
      BY <2>1 DEF IInv, Known
    <2> QED
      BY <1>4, <2>1, <2>2
  <1>8. CASE BeginReplace(m)
    BY <1>2, <1>8, GotoMoves DEF BeginReplace, IInv, Counter
  <1>9. CASE FindPreviousBreaks(m)
    BY <1>3, <1>9 DEF FindPreviousBreaks, IInv, TypeOK
  <1>10. CASE ReplaceFails(m) /\ ~(At(m, "save") /\ SaveFails(m))
    BY <1>2, <1>10, FaultCounts, ReturnMoves DEF ReplaceFails, IInv, Outcomes
  <1> QED
    BY <1>6, <1>7, <1>8, <1>9, <1>10 DEF ReplaceStep

\* They keep the invariant.
LEMMA ReplaceKeeps ==
    ASSUME IInv, NEW m \in Msg, ReplaceStep(m)
    PROVE  IInv'
  <1>1. /\ TypeOK' /\ Moves(m)
        /\ table' \subseteq table /\ UNCHANGED history
        /\ task[m].pc \in Replacing \cup {"lock"}
        /\ \/ /\ task'[m].pc = "written"
              /\ task'[m].failed \/ task'[m].persistence = "superseded"
              /\ task'[m].persistence # "stored"
              /\ mutex' = Nobody
           \/ /\ task'[m].pc \in Replacing
              /\ task'[m].persistence = task[m].persistence
              /\ mutex' = m
    BY ReplaceTypes
  <1>2. /\ task[m].event \in Event /\ m \notin history.inserted /\ task[m].persistence # "stored"
        /\ Versioned(task[m].event) /\ task[m].pc \notin Ended
    BY <1>1, Active DEF IInv, Placed, Replacing, Ended
  <1>3. \A n \in Msg : n # m => task[n].pc \notin Replacing
    <2>1. CASE task[m].pc \in Replacing
      BY <2>1, Alone DEF IInv
    <2>2. CASE task[m].pc = "lock"
      <3>1. BeginReplace(m)
        BY <2>2 DEF ReplaceStep, FindPrevious, FindPreviousBreaks, DeletePrevious, ReplaceFails, At
      <3> QED
        BY <3>1, MsgAssumption DEF BeginReplace, IInv, Placed
    <2> QED
      BY <1>1, <2>1, <2>2
  <1>4. Placed'
    BY <1>1, <1>2, <1>3, PlacedAfter DEF IInv, Replacing
  <1>5. Reported' /\ BroadcastIsNew'
    BY <1>1, <1>2, ReportedAfter DEF IInv
  <1> QED
    BY <1>1, <1>4, <1>5, ReplaceKnows DEF IInv

\* So do the answer and the broadcast.
LEMMA AnswerKeeps ==
    ASSUME IInv, NEW m \in Msg, Answer(m)
    PROVE  IInv'
  <1>1. /\ task[m].pc = "written" /\ Goto(m, "answered")
        /\ history' = IF task[m].failed \/ task[m].skip THEN history
                      ELSE [history EXCEPT !.broadcast = @ \cup {m}]
        /\ UNCHANGED <<table, mutex, bad>>
    BY DEF Answer, At
  <1>2. /\ task' \in [Msg -> Task] /\ Moves(m) /\ task'[m].pc = "answered"
        /\ task'[m].persistence = task[m].persistence
    BY <1>1, GotoMoves DEF IInv, Counter
  <1>3. /\ HistoryOK' /\ UNCHANGED history.inserted
        /\ history'.broadcast = IF task[m].failed \/ task[m].skip THEN history.broadcast
                                ELSE history.broadcast \cup {m}
    BY <1>1 DEF IInv, TypeOK, HistoryOK
  <1>4. TypeOK'
    BY <1>1, <1>2, <1>3 DEF IInv, TypeOK, HistoryOK
  <1>5. Placed'
    BY <1>1, <1>2, PlacedAfter DEF IInv, Placed, Replacing
  <1>6. Known' /\ OnePerAddress'
    BY <1>1, <1>2, RowsGo DEF IInv
  <1>7. Reported'
    BY <1>2, <1>3 DEF IInv, Reported, Moves, Ended
  <1>8. BroadcastIsNew'
    <2>1. history.broadcast \subseteq Msg
      BY DEF IInv, TypeOK
    <2>2. task'[m].event = task[m].event
      BY <1>2 DEF Moves
    <2>3. \A n \in history'.broadcast :
              ~Versioned(task'[n].event) => n \in history'.inserted
      BY <1>1, <1>2, <1>3, <2>1, <2>2 DEF IInv, BroadcastIsNew, Reported, Moves, EventOf
    <2>4. \A n \in Msg : task'[n].persistence = task[n].persistence
      BY <1>2 DEF Moves
    <2> QED
      BY <1>3, <2>3, <2>4 DEF IInv, BroadcastIsNew, EventOf
  <1> QED
    BY <1>4, <1>5, <1>6, <1>7, <1>8 DEF IInv

\* So does the end of the process.
LEMMA CrashKeeps ==
    ASSUME IInv, Crash
    PROVE  IInv'
  <1>1. bad' \in [faults : 0..Faults, breaks : 0..Breaks, crashes : 0..Crashes]
        /\ bad'.breaks = bad.breaks
    BY BoundsAssumption DEF Crash, IInv, TypeOK
  <1>0. /\ task \in [Msg -> Task]
        /\ task' = [m \in Msg |-> IF m \in Running THEN [task[m] EXCEPT !.pc = "lost"] ELSE task[m]]
    BY DEF Crash, IInv, TypeOK
  <1>2. \A m \in Msg : /\ task'[m] \in Task
                       /\ task'[m].event = task[m].event
                       /\ task'[m].persistence = task[m].persistence
                       /\ task'[m].pc \in {"idle", "answered", "lost"}
                       /\ task'[m].pc # "lost" => task'[m] = task[m]
                       /\ task[m].pc # "idle" => task'[m].pc # "idle"
    <2> TAKE m \in Msg
    <2>1. CASE m \in Running
      BY <1>0, <2>1 DEF Task, Counter, Running
    <2>2. CASE m \notin Running
      BY <1>0, <2>2 DEF Running
    <2> QED
      BY <2>1, <2>2
  <1>3. TypeOK'
    BY <1>1, <1>2 DEF Crash, IInv, TypeOK
  <1>4. Placed'
    <2>1. \A m \in Msg : task'[m].pc = "lost" => task[m].pc # "idle" \/ task'[m] = task[m]
      BY DEF Crash, IInv, TypeOK, Running, Task
    <2> QED
      BY <1>2, <2>1 DEF IInv, Placed, Replacing
  <1>5. Known'
    BY <1>2 DEF Known
  <1>6. OnePerAddress'
    BY <1>1 DEF Crash, IInv, OnePerAddress
  <1>7. UNCHANGED history
    BY DEF Crash
  <1>8. Reported'
    BY <1>2, <1>7 DEF IInv, Reported, Ended
  <1>9. BroadcastIsNew'
    BY <1>2, <1>7 DEF IInv, TypeOK, BroadcastIsNew, EventOf
  <1> QED
    BY <1>3, <1>4, <1>5, <1>6, <1>8, <1>9 DEF IInv

-----------------------------------------------------------------------------
(* Regular events that were accepted *)

\* Who may take a row away, and who has been told that its row is kept.
Deleting(m) ==
    /\ task[m].pc \in {"targets", "delete"} => task[m].event.class = "deletion"
    /\ task[m].pc = "delete" => Hits(task[m].event, task[m].found)
    /\ task[m].pc = "deletePrevious" => Versioned(task[m].found)

Kept(m) ==
    /\ task[m].pc \in {"written", "answered"} /\ ~task[m].failed
    /\ ~Versioned(task[m].event)
    /\ Unhit(m)
    => task[m].event \in table

KInv == \A m \in Msg : Deleting(m) /\ Kept(m)

\* A step of m that takes away rows of addresses and those that its event hits.
LEMMA KeptAfter ==
    ASSUME KInv, NEW m \in Msg, Moves(m), task'[m].pc # "idle",
           \A x \in table \ table' : Versioned(x) \/ Hits(task[m].event, x),
           Deleting(m)',
           /\ task'[m].pc \in {"written", "answered"} /\ ~task'[m].failed
           /\ ~Versioned(task[m].event) /\ Unhit(m)
           => task[m].event \in table'
    PROVE  KInv'
  <1> SUFFICES ASSUME NEW n \in Msg PROVE Deleting(n)' /\ Kept(n)'
    BY DEF KInv
  <1>1. Deleting(n)'
    <2>1. CASE n = m
      BY <2>1
    <2>2. CASE n # m
      BY <2>2 DEF KInv, Deleting, Moves
    <2> QED
      BY <2>1, <2>2
  <1>2. \A k \in Msg : /\ task'[k].event = task[k].event
                       /\ task'[k].pc = "idle" => task[k].pc = "idle"
    BY DEF Moves
  <1>3. ASSUME Unhit(n)' PROVE Unhit(n) /\ ~Hits(task[m].event, task[n].event)
    BY <1>2, <1>3 DEF Unhit
  <1>4. Kept(n)'
    <2>1. CASE n = m
      BY <1>2, <1>3, <2>1 DEF Kept
    <2>2. CASE n # m
      BY <1>2, <1>3, <2>2 DEF KInv, Kept, Moves
    <2> QED
      BY <2>1, <2>2
  <1> QED
    BY <1>1, <1>4

\* The request hits the row that one of its tags finds, of the same author.
LEMMA TargetIsHit ==
    ASSUME NEW e \in Event, e.class = "deletion", NEW i \in DOMAIN e.tags,
           NEW r \in Targets(e, e.tags[i]), r.author = e.author
    PROVE  Hits(e, r)
  <1>1. CASE e.tags[i].name = "e"
    BY <1>1, TagAssumption DEF Targets, Hits
  <1>2. CASE e.tags[i].name = "a"
    <2>1. e.tags[i] = [name |-> "a", class |-> e.tags[i].class,
                       author |-> e.tags[i].author, d |-> e.tags[i].d]
      BY <1>2, TagAssumption
    <2>2. /\ r.class = e.tags[i].class /\ r.author = e.tags[i].author
          /\ e.tags[i].d \in r.values /\ r.time <= e.time
      BY <1>2 DEF Targets, RowsAt
    <2>3. e.tags[i] = [AddressOf(r) EXCEPT !.d = e.tags[i].d]
      BY <2>1, <2>2 DEF AddressOf
    <2> QED
      BY <2>2, <2>3 DEF Hits
  <1> QED
    BY <1>1, <1>2 DEF Targets

\* Who is about to delete handles a deletion request, and has found its author's row.
LEMMA EarlyDeletes ==
    ASSUME IInv, KInv, NEW m \in Msg, EarlyStep(m)
    PROVE  Deleting(m)'
  <1>1. task'[m].pc # "deletePrevious" /\ task'[m].event = task[m].event
    BY EarlyTasks DEF IInv, EarlyMove, Moves
  <1>2. CASE Receive(m)
    <2>1. CASE Return(m, "not_attempted", TRUE, TRUE)
      BY <1>1, <2>1, ReturnMoves DEF IInv, Outcomes, Deleting
    <2>2. CASE Goto(m, "targets") /\ task[m].event.class = "deletion"
      BY <1>1, <2>2, GotoMoves DEF IInv, Counter, Deleting
    <2>3. CASE Goto(m, "check")
      BY <1>1, <2>3, GotoMoves DEF IInv, Counter, Deleting
    <2> QED
      BY <1>2, <2>1, <2>2, <2>3 DEF Receive, EventOf
  <1>3. CASE FindTarget(m) \/ FindTargetFails(m)
    <2>1. task[m].event.class = "deletion" /\ task[m].event \in Event
      BY <1>3, EarlyRest DEF FindTarget, FindTargetFails, TagsLeft, At, KInv, Deleting, IInv
    <2>2. CASE NextTag(m)
      BY <1>1, <2>1, <2>2, NextTagMoves DEF IInv, Deleting
    <2>3. CASE Return(m, "not_attempted", TRUE, TRUE)
      BY <1>1, <2>3, ReturnMoves DEF IInv, Outcomes, Deleting
    <2>4. task[m].tag \in Nat \ {0}
      BY DEF IInv, TypeOK, Task
    <2>5. FindTarget(m) => task[m].tag \in DOMAIN task[m].event.tags
      BY <2>1, <2>4, TagAssumption DEF FindTarget, TagsLeft, EventOf
    <2>6. ASSUME FindTarget(m),
                 NEW r \in Targets(task[m].event, task[m].event.tags[task[m].tag]),
                 r.author = task[m].event.author,
                 task' = [task EXCEPT ![m].pc = "delete", ![m].found = r]
          PROVE  Deleting(m)'
      <3>1. r \in Event
        BY <2>6, TargetsAreRows DEF IInv, TypeOK
      <3>2. task'[m].pc = "delete" /\ task'[m].found = r
        BY <2>6, <3>1, FindMoves DEF IInv, Counter
      <3>3. Hits(task[m].event, r)
        BY <2>1, <2>5, <2>6, TargetIsHit
      <3> QED
        BY <1>1, <2>1, <3>2, <3>3 DEF Deleting
    <2> QED
      BY <1>3, <2>2, <2>3, <2>6, FirstIsARow DEF FindTarget, FindTargetFails, EventOf
  <1>4. CASE EndTargets(m) \/ CheckStep(m)
    <2>1. task'[m].pc \notin {"targets", "delete"}
      <3>1. CASE Return(m, "not_attempted", TRUE, TRUE)
        BY <3>1, ReturnMoves DEF IInv, Outcomes
      <3>2. CASE Goto(m, "check") \/ Goto(m, "lock") \/ Goto(m, "store") \/ Goto(m, "checkAddress")
        BY <3>2, GotoMoves DEF IInv, Counter
      <3> QED
        BY <1>4, <3>1, <3>2 DEF EndTargets, CheckStep, RejectEvent, CheckId, CheckIdFails,
                                CheckAddress, CheckAddressFails, AfterIdCheck
    <2> QED
      BY <1>1, <2>1 DEF Deleting
  <1> QED
    BY <1>2, <1>3, <1>4 DEF EarlyStep

\* Accepted events stay kept: the steps before a write.
LEMMA KeptByEarly ==
    ASSUME IInv, KInv, NEW m \in Msg, EarlyStep(m)
    PROVE  KInv'
  <1>1. EarlyMove(m) /\ UNCHANGED table
    BY EarlyTasks, EarlyRest DEF IInv
  <1> QED
    BY <1>1, EarlyDeletes, KeptAfter DEF EarlyMove

\* Accepted events stay kept: the deletion of a target.
LEMMA KeptByDelete ==
    ASSUME IInv, KInv, NEW m \in Msg, DeleteTarget(m) \/ DeleteTargetFails(m)
    PROVE  KInv'
  <1> USE DEF DeleteTarget, DeleteTargetFails, At
  <1>1. /\ Moves(m)
        /\ \/ task'[m].pc = "targets" 
           \/ task'[m].pc = "written" /\ task'[m].failed
    <2>1. CASE DeleteTarget(m)
      BY <2>1, NextTagMoves DEF IInv
    <2>2. CASE DeleteTargetFails(m)
      BY <2>2, ReturnMoves DEF IInv, Outcomes
    <2> QED
      BY <2>1, <2>2
  <1>2. /\ task[m].event.class = "deletion"
        /\ Hits(task[m].event, task[m].found)
    BY DEF KInv, Deleting
  <1>3. \A x \in table \ table' : Hits(task[m].event, x)
    BY <1>2
  <1>4. Deleting(m)'
    BY <1>1, <1>2 DEF Deleting, Moves
  <1> QED
    BY <1>1, <1>3, <1>4, KeptAfter

\* Accepted events stay kept: an insertion.
LEMMA KeptBySave ==
    ASSUME IInv, KInv, NEW m \in Msg,
           \/ Store(m) \/ StoreFails(m) \/ SaveReplacement(m)
           \/ At(m, "save") /\ SaveFails(m) /\ mutex' = Nobody
    PROVE  KInv'
  <1>1. /\ task[m].pc \in {"store", "save"}
        /\ (SaveEvent(m) /\ UNCHANGED bad) \/ SaveFails(m)
    BY DEF Store, StoreFails, SaveReplacement, At
  <1>2. task[m].event \in Event
    BY <1>1, Active DEF Ended
  <1>3. /\ Moves(m) /\ task'[m].pc = "written"
        /\ table' \in {table, table \cup {task[m].event}}
    BY <1>1, <1>2, SaveMoves DEF IInv
  <1>4. task'[m].failed \/ task[m].event \in table'
    <2>1. CASE SaveEvent(m)
      BY <2>1 DEF SaveEvent, EventOf
    <2>2. CASE SaveFails(m)
      BY <2>2, ReturnMoves DEF IInv, SaveFails, Outcomes
    <2> QED
      BY <1>1, <2>1, <2>2
  <1>5. Deleting(m)'
    BY <1>3 DEF Deleting
  <1> QED
    BY <1>3, <1>4, <1>5, KeptAfter

\* Accepted events stay kept: ReplaceEvent.
LEMMA KeptByReplace ==
    ASSUME IInv, KInv, NEW m \in Msg, ReplaceStep(m)
    PROVE  KInv'
  <1>1. /\ Moves(m) /\ Versioned(task[m].event)
        /\ task'[m].pc \in {"written"} \cup Replacing
    BY ReplaceTypes DEF IInv, Placed, Replacing
  <1>2. \A x \in table \ table' : Versioned(x)
    <2>1. table' = table \/ (At(m, "deletePrevious") /\ table' = table \ {task[m].found})
      BY DEF ReplaceStep, BeginReplace, FindPrevious, FindPreviousBreaks, DeletePrevious,
             ReplaceFails
    <2> QED
      BY <2>1 DEF KInv, Deleting, At
  <1>3. task'[m].pc = "deletePrevious" => Versioned(task'[m].found)
    <2> SUFFICES ASSUME task'[m].pc = "deletePrevious" PROVE Versioned(task'[m].found)
      OBVIOUS
    <2>1. CASE Goto(m, "previous") \/ Goto(m, "save")
      BY <2>1, GotoMoves DEF IInv, Counter
    <2>2. CASE Return(m, "error", TRUE, FALSE) \/ Return(m, "superseded", FALSE, FALSE)
      BY <2>2, ReturnMoves DEF IInv, Outcomes
    <2>3. ASSUME NEW r \in RowsToReplace(EventOf(m)),
                 task' = [task EXCEPT ![m].pc = "deletePrevious", ![m].found = r]
          PROVE  Versioned(task'[m].found)
      <3>1. r \in Event /\ Versioned(r)
        BY <1>1 DEF RowsToReplace, RowsAt, Versioned, EventOf, IInv, TypeOK
      <3> QED
        BY <2>3, <3>1, FindMoves DEF IInv, Counter, Versioned
    <2> QED
      BY <2>1, <2>2, <2>3, FirstIsARow
      DEF ReplaceStep, BeginReplace, FindPrevious, FindPreviousBreaks, DeletePrevious, ReplaceFails
  <1>4. Deleting(m)'
    BY <1>1, <1>3 DEF Deleting, Replacing
  <1> QED
    BY <1>1, <1>2, <1>4, KeptAfter DEF Replacing

\* Accepted events stay kept: the answer.
LEMMA KeptByAnswer ==
    ASSUME IInv, KInv, NEW m \in Msg, Answer(m)
    PROVE  KInv'
  <1>1. /\ task[m].pc = "written" /\ Goto(m, "answered") /\ UNCHANGED table
    BY DEF Answer, At
  <1>2. Moves(m) /\ task'[m].pc = "answered"
    BY <1>1, GotoMoves DEF IInv, Counter
  <1>3. task'[m].failed = task[m].failed
    BY <1>1 DEF IInv, TypeOK, Goto, Task
  <1>4. Deleting(m)'
    BY <1>2 DEF Deleting
  <1> QED
    BY <1>1, <1>2, <1>3, <1>4, KeptAfter DEF KInv, Kept

\* Accepted events stay kept: the end of the process.
LEMMA KeptByCrash ==
    ASSUME IInv, KInv, Crash
    PROVE  KInv'
  <1>1. /\ task \in [Msg -> Task] /\ UNCHANGED table
        /\ task' = [m \in Msg |-> IF m \in Running THEN [task[m] EXCEPT !.pc = "lost"] ELSE task[m]]
    BY DEF Crash, IInv, TypeOK
  <1>2. \A m \in Msg : /\ task'[m].event = task[m].event
                       /\ task'[m].pc = "idle" => task[m].pc = "idle"
                       /\ task'[m].pc # "lost" => task'[m] = task[m]
    <2> TAKE m \in Msg
    <2>1. CASE m \in Running
      BY <1>1, <2>1 DEF Task
    <2>2. CASE m \notin Running
      BY <1>1, <2>2
    <2> QED
      BY <2>1, <2>2
  <1>3. ASSUME NEW m \in Msg, Unhit(m)' PROVE Unhit(m)
    BY <1>2, <1>3 DEF Unhit
  <1> QED
    BY <1>1, <1>2, <1>3 DEF KInv, Deleting, Kept

\* Accepted events stay kept: nothing happens.
LEMMA KeptByStutter == KInv /\ UNCHANGED vars => KInv'
  BY DEF vars, KInv, Deleting, Kept, Unhit

\* Nothing has been accepted.
LEMMA InitKInv == Init => KInv
  <1>1. Init => \A m \in Msg : task[m].pc = "idle"
    BY DEF Init
  <1> QED
    BY <1>1 DEF KInv, Deleting, Kept

-----------------------------------------------------------------------------
(* Deletion requests *)

\* An id names one event, and no event can name its own.
Identified == \A e, f \in Event : e.id = f.id => e = f
Hashed == \A e \in Event : ~HasTag(e, [name |-> "e", id |-> e.id])

\* Two messages have run beside each other; a row is excused if a message that
\* brings its event has run beside the request.
Beside(m, n) == m \in history.beside[n] \/ n \in history.beside[m]
Excused(d, e) == \E m \in Msg : task[m].event = e /\ Beside(m, d)

\* The i-th tag of d names e, and is a query for it.
NamesBy(d, e, i) ==
    \/ d.tags[i] = [name |-> "e", id |-> e.id]
    \/ Versioned(e) /\ OwnTag(e) /\ d.time >= e.time /\ d.tags[i] = AddressOf(e)

\* Whoever runs at one time has run beside each other.
Together == \A m, n \in Running : m # n => Beside(m, n)

\* A deletion request has gone through its tags before it is stored; a message
\* that has not come has run beside none.
Tagged(m) ==
    /\ task[m].pc = "idle" => task[m].tag = 1 /\ history.beside[m] = {}
    /\ task[m].pc = "delete" => task[m].tag <= Len(task[m].event.tags)
    /\ /\ task[m].event.class = "deletion"
       /\ \/ task[m].pc \in {"check", "store"}
          \/ task[m].pc \in {"written", "answered"} /\ ~task[m].failed
       => task[m].tag > Len(task[m].event.tags)

\* A row that a tag names which has been gone through is excused.
InForce(d) ==
    /\ task[d].pc \notin {"idle", "lost"}
    /\ task[d].pc = "answered" => ~task[d].failed /\ Unhit(d)

Searched(d) ==
    InForce(d) /\ task[d].event.class = "deletion" =>
        \A e \in table : \A i \in DOMAIN task[d].event.tags :
            e.author = task[d].event.author /\ NamesBy(task[d].event, e, i) =>
                /\ i < task[d].tag => Excused(d, e)
                /\ i = task[d].tag /\ task[d].pc = "delete" => e = task[d].found \/ Excused(d, e)

\* A message that came after an accepted request does not pass the check for it.
Late(m, d) ==
    /\ task[d].pc = "answered" /\ ~task[d].failed /\ Unhit(d)
    /\ Names(task[d].event, task[m].event)
    /\ m \in Running /\ ~Beside(m, d)

PastAddress == {"lock"} \cup Replacing
PastId == {"checkAddress", "store"} \cup PastAddress

Checked(m) ==
    \A d \in Msg : Late(m, d) =>
        /\ HasTag(task[d].event, [name |-> "e", id |-> task[m].event.id]) => task[m].pc \notin PastId
        /\ task[m].pc \notin PastAddress

Gone == Together /\ \A m \in Msg : Tagged(m) /\ Searched(m) /\ Checked(m)

GInv == bad.faults = 0 /\ bad.breaks = 0 => Gone

\* A request that names a row does so by a tag; one by its address is a query
\* for the row when the tags of the address are its own.
LEMMA NamedByATag ==
    ASSUME NEW d, NEW e
    PROVE  /\ /\ Names(d, e)
              /\ OwnTag(e) \/ HasTag(d, [name |-> "e", id |-> e.id])
              => \E i \in DOMAIN d.tags : NamesBy(d, e, i)
           /\ \A i \in DOMAIN d.tags :
                 d.class = "deletion" /\ d.author = e.author /\ NamesBy(d, e, i) => Names(d, e)
  BY DEF Names, NamesBy, HasTag

\* A message whose request is no longer deleted was not before.
LEMMA StillUnhit ==
    ASSUME NEW m \in Msg, Moves(m), task'[m].pc # "idle", NEW n \in Msg, Unhit(n)'
    PROVE  Unhit(n)
  <1>1. \A k \in Msg : /\ task'[k].event = task[k].event
                       /\ task'[k].pc = "idle" => task[k].pc = "idle"
    BY DEF Moves
  <1> QED
    BY <1>1 DEF Unhit

\* A step of m keeps what holds of the others.
LEMMA GoneAfter ==
    ASSUME IInv, Gone, NEW m \in Msg, Moves(m), task'[m].pc # "idle",
           \A a, b \in Msg : Beside(a, b) => Beside(a, b)',
           m \in Running \/ \A n \in Running : Beside(m, n)' /\ Beside(n, m)',
           m \notin Running => task'[m].pc # "answered",
           \A n \in Msg : n # m /\ task[n].pc = "idle" => history'.beside[n] = history.beside[n],
           \/ table' \subseteq table
           \/ table' = table \cup {task[m].event} /\ task[m].pc \in {"store", "save"},
           Tagged(m)', Searched(m)', Checked(m)'
    PROVE  Gone'
  <1>1. \A k \in Msg : /\ task'[k].event = task[k].event
                       /\ k # m => task'[k] = task[k]
    BY DEF Moves
  <1>2. \A k \in Msg : k # m => (k \in Running' <=> k \in Running)
    BY <1>1 DEF Running
  <1>3. Together'
    <2> SUFFICES ASSUME NEW a \in Running', NEW b \in Running', a # b PROVE Beside(a, b)'
      BY DEF Together
    <2>0. a \in Msg /\ b \in Msg
      BY DEF Running
    <2>1. CASE a \in Running /\ b \in Running
      BY <2>0, <2>1 DEF Gone, Together
    <2>2. CASE ~(a \in Running /\ b \in Running)
      BY <2>0, <2>2, <1>2
    <2> QED
      BY <2>1, <2>2
  <1>4. \A d \in Msg : \A e : Excused(d, e) => Excused(d, e)'
    BY <1>1 DEF Excused
  <1>5. ASSUME NEW n \in Msg, n # m PROVE Tagged(n)'
    BY <1>1, <1>5 DEF Gone, Tagged
  <1>6. ASSUME NEW d \in Msg, d # m PROVE Searched(d)'
    <2> SUFFICES ASSUME InForce(d)', task[d].event.class = "deletion",
                        NEW e \in table', NEW i \in DOMAIN task[d].event.tags,
                        e.author = task[d].event.author, NamesBy(task[d].event, e, i)
                 PROVE  /\ i < task[d].tag => Excused(d, e)'
                        /\ i = task[d].tag /\ task[d].pc = "delete" => e = task[d].found \/ Excused(d, e)'
      BY <1>1, <1>6 DEF Searched, NamesBy
    <2>1. InForce(d)
      BY <1>1, <1>6, StillUnhit DEF InForce
    <2>2. CASE e \in table
      BY <2>1, <2>2, <1>4 DEF Gone, Searched
    <2>3. CASE e \notin table
      <3>1. e = task[m].event /\ task[m].pc \in {"store", "save"}
        BY <2>3
      <3>2. m \in Running
        BY <3>1 DEF Running
      <3>3. Beside(m, d)
        <4>1. CASE task[d].pc = "answered"
          <5>1. Names(task[d].event, e)
            BY NamedByATag
          <5>2. SUFFICES ASSUME ~Beside(m, d) PROVE FALSE
            OBVIOUS
          <5>3. Late(m, d)
            BY <5>1, <5>2, <4>1, <2>1, <3>1, <3>2 DEF Late, InForce
          <5>4. task[m].pc = "store" /\ ~Versioned(task[m].event)
            BY <5>3, <3>1 DEF Gone, Checked, PastAddress, Replacing, IInv, Placed
          <5>5. HasTag(task[d].event, [name |-> "e", id |-> e.id])
            BY <5>4, <3>1 DEF NamesBy, HasTag
          <5> QED
            BY <5>3, <5>4, <5>5, <3>1 DEF Gone, Checked, PastId
        <4>2. CASE task[d].pc # "answered"
          BY <4>2, <2>1, <3>2, <1>6 DEF InForce, Running, Gone, Together
        <4> QED
          BY <4>1, <4>2
      <3> QED
        BY <3>1, <3>3, <1>4 DEF Excused
    <2> QED
      BY <2>2, <2>3
  <1>7. ASSUME NEW n \in Msg, n # m PROVE Checked(n)'
    <2> SUFFICES ASSUME NEW d \in Msg, Late(n, d)'
                 PROVE  /\ HasTag(task[d].event, [name |-> "e", id |-> task[n].event.id])
                               => task[n].pc \notin PastId
                        /\ task[n].pc \notin PastAddress
      BY <1>1, <1>7 DEF Checked, HasTag
    <2>1. n \in Running /\ ~Beside(n, d) /\ Names(task[d].event, task[n].event)
      <3>1. Names(task'[d].event, task'[n].event) /\ n \in Running' /\ ~Beside(n, d)'
        BY DEF Late, Names, HasTag
      <3> QED
        BY <3>1, <1>1, <1>2, <1>7
    <2>2. d # m
      <3> SUFFICES ASSUME d = m PROVE FALSE
        OBVIOUS
      <3>1. m \in Running
        BY DEF Late
      <3> QED
        BY <3>1, <2>1, <1>7 DEF Gone, Together
    <2>3. Late(n, d)
      BY <2>1, <2>2, <1>1, StillUnhit DEF Late
    <2> QED
      BY <2>3 DEF Gone, Checked
  <1> QED
    BY <1>3, <1>5, <1>6, <1>7 DEF Gone

\* The tags of an event are numbered from 1.
LEMMA TagIndex ==
    ASSUME NEW e \in Event, NEW i \in DOMAIN e.tags
    PROVE  i \in Nat \ {0} /\ i <= Len(e.tags)
  <1>1. e.tags \in Seq({e.tags[j] : j \in DOMAIN e.tags})
    BY TagAssumption
  <1> QED
    BY <1>1

Finds(m, l, r) == task' = [task EXCEPT ![m].pc = l, ![m].found = r]

\* What the moves of a task do to its tag.
LEMMA TagMoves ==
    ASSUME TypeOK, NEW m \in Msg
    PROVE  /\ \A l : Goto(m, l) => task'[m].tag = task[m].tag /\ task'[m].failed = task[m].failed
           /\ \A p, f, s : Return(m, p, f, s) => task'[m].tag = task[m].tag
           /\ \A l, r : Finds(m, l, r) => task'[m].tag = task[m].tag
           /\ NextTag(m) => task'[m].tag = task[m].tag + 1
           /\ task[m].tag \in Nat \ {0}
  <1>1. task \in [Msg -> Task] /\ task[m] \in Task
    BY DEF TypeOK
  <1>2. \A l : Goto(m, l) => task'[m].tag = task[m].tag /\ task'[m].failed = task[m].failed
    BY <1>1 DEF Goto, Task
  <1>3. ASSUME NEW p, NEW f, NEW s, Return(m, p, f, s) PROVE task'[m].tag = task[m].tag
    BY <1>1, <1>3 DEF Return, Task
  <1>4. ASSUME NEW l, NEW r, Finds(m, l, r) PROVE task'[m].tag = task[m].tag
    BY <1>1, <1>4 DEF Finds, Task
  <1>5. NextTag(m) => task'[m].tag = task[m].tag + 1
    BY <1>1 DEF NextTag, Task
  <1> QED
    BY <1>1, <1>2, <1>3, <1>4, <1>5 DEF Task

\* A step of m that leaves its tag alone.
LEMMA SearchedStays ==
    ASSUME IInv, Gone, Hashed, NEW m \in Msg, Moves(m), task'[m].pc \notin {"idle", "delete"},
           \A a, b \in Msg : Beside(a, b) => Beside(a, b)',
           task[m].pc = "idle" \/ m \in Running, task[m].event \in Event,
           task'[m].tag = task[m].tag, table' \subseteq table \cup {task[m].event}
    PROVE  Searched(m)'
  <1>1. \A k \in Msg : task'[k].event = task[k].event
    BY DEF Moves
  <1> SUFFICES ASSUME task[m].event.class = "deletion",
                      NEW e \in table', NEW i \in DOMAIN task[m].event.tags,
                      e.author = task[m].event.author, NamesBy(task[m].event, e, i), i < task[m].tag
               PROVE  Excused(m, e)'
    BY <1>1 DEF Searched, NamesBy
  <1>3. i \in Nat \ {0}
    BY TagIndex
  <1>4. m \in Running
    BY <1>3 DEF Gone, Tagged
  <1>5. e # task[m].event
    BY DEF Hashed, HasTag, NamesBy, Versioned
  <1>6. Excused(m, e)
    BY <1>4, <1>5 DEF Gone, Searched, InForce, Running
  <1> QED
    BY <1>1, <1>6 DEF Excused

\* A step of m that passes no check.
LEMMA CheckedStays ==
    ASSUME Gone, NEW m \in Msg, Moves(m), task'[m].pc # "idle",
           \A a, b \in Msg : Beside(a, b) => Beside(a, b)',
           m \in Running \/ task'[m].pc \notin PastId,
           task'[m].pc \in PastId => task[m].pc \in PastId,
           task'[m].pc \in PastAddress => task[m].pc \in PastAddress
    PROVE  Checked(m)'
  <1>1. \A k \in Msg : /\ task'[k].event = task[k].event
                       /\ k # m => task'[k] = task[k]
    BY DEF Moves
  <1> SUFFICES ASSUME NEW d \in Msg, Late(m, d)'
               PROVE  /\ HasTag(task[d].event, [name |-> "e", id |-> task[m].event.id])
                             => task'[m].pc \notin PastId
                      /\ task'[m].pc \notin PastAddress
    BY <1>1 DEF Checked, HasTag
  <1>2. ~Beside(m, d) /\ Names(task[d].event, task[m].event) /\ d # m
    <2>1. Names(task'[d].event, task'[m].event) /\ m \in Running' /\ ~Beside(m, d)'
          /\ task'[d].pc = "answered"
      BY DEF Late, Names, HasTag
    <2> QED
      BY <2>1, <1>1 DEF Running
  <1>3. m \in Running => Late(m, d)
    BY <1>1, <1>2, StillUnhit DEF Late
  <1> QED
    BY <1>3 DEF Gone, Checked, PastId

\* An accepted request that has not been deleted is a row.
LEMMA LateIsFound ==
    ASSUME KInv, Gone, NEW m \in Msg, NEW d \in Msg, Late(m, d)
    PROVE  task[d].event \in table /\ task[d].event.class = "deletion"
  BY DEF Late, Names, KInv, Kept, Versioned

\* The row that a tag of a request names is the one that its query finds.
LEMMA TargetIsTheRow ==
    ASSUME IInv, Identified, bad.breaks = 0,
           NEW d \in Event, NEW e \in table, NEW i, NamesBy(d, e, i), d.author = e.author
    PROVE  Targets(d, d.tags[i]) = {e}
  <1>1. e \in Event /\ table \subseteq Event
    BY DEF IInv, TypeOK
  <1>2. CASE d.tags[i] = [name |-> "e", id |-> e.id]
    BY <1>1, <1>2 DEF Targets, Identified
  <1>3. CASE Versioned(e) /\ OwnTag(e) /\ d.time >= e.time /\ d.tags[i] = AddressOf(e)
    <2>1. \A x \in table : Alike(x, e) => x = e
      BY <1>3, AlikeEvents DEF IInv, OnePerAddress
    <2>2. e.d \in e.values
      BY <1>1, <1>3, AlikeEvents DEF OwnTag
    <2>3. RowsAt(e.class, e.author, e.d) = {e}
      BY <2>1, <2>2, <1>1, <1>3 DEF RowsAt, OwnTag
    <2>4. Targets(d, d.tags[i]) = {x \in RowsAt(e.class, e.author, e.d) : x.time <= d.time}
      BY <1>3 DEF Targets, AddressOf
    <2> QED
      BY <2>3, <2>4, <1>3
  <1> QED
    BY <1>2, <1>3 DEF NamesBy

\* A message that comes runs beside those that run.
LEMMA ReceiveBeside ==
    ASSUME TypeOK, Gone, NEW m \in Msg, Receive(m)
    PROVE  /\ \A a, b \in Msg : Beside(a, b) => Beside(a, b)'
           /\ \A n \in Running : Beside(m, n)' /\ Beside(n, m)'
           /\ \A n \in Msg : n # m /\ task[n].pc = "idle" => history'.beside[n] = history.beside[n]
           /\ m \notin Running
  <1>1. m \notin Running
    BY DEF Receive, At, Running
  <1>2. /\ history.beside \in [Msg -> SUBSET Msg]
        /\ history'.beside = [n \in Msg |-> CASE n = m -> Running
                                              [] n \in Running -> history.beside[n] \cup {m}
                                              [] OTHER -> history.beside[n]]
    BY DEF TypeOK, Receive
  <1>3. \A n \in Running : n \in Msg /\ n # m
    BY <1>1 DEF Running
  <1>4. history'.beside[m] = Running /\ \A n \in Running : m \in history'.beside[n]
    BY <1>2, <1>3
  <1>5. \A a, b \in Msg : a \in history.beside[b] => a \in history'.beside[b]
    <2>1. history.beside[m] = {}
      BY DEF Receive, At, Gone, Tagged
    <2> QED
      BY <1>2, <2>1
  <1>6. \A n \in Msg : n # m /\ task[n].pc = "idle" => history'.beside[n] = history.beside[n]
    BY <1>2 DEF Running
  <1>7. \A a, b \in Msg : Beside(a, b) => Beside(a, b)'
    BY <1>5 DEF Beside
  <1>8. \A n \in Running : Beside(m, n)' /\ Beside(n, m)'
    BY <1>3, <1>4 DEF Beside
  <1> QED
    BY <1>1, <1>6, <1>7, <1>8

GoneAssumptions == Identified /\ Hashed

\* Deleted events stay gone: an event arrives.
LEMMA GoneByReceive ==
    ASSUME IInv, Gone, Hashed, NEW m \in Msg, Receive(m)
    PROVE  Gone'
  <1>1. /\ EarlyMove(m) /\ UNCHANGED table /\ task[m].event \in Event
        /\ task[m].pc = "idle"
    BY EarlyTasks, EarlyRest DEF IInv, EarlyStep, Receive, At
  <1>2. /\ task'[m].tag = task[m].tag
        /\ \/ task'[m].pc = "written" /\ task'[m].failed
           \/ task'[m].pc = "targets"
           \/ task'[m].pc = "check" /\ task[m].event.class # "deletion"
    <2>1. CASE Return(m, "not_attempted", TRUE, TRUE)
      BY <2>1, ReturnMoves, TagMoves DEF IInv, Outcomes
    <2>2. CASE Goto(m, "targets")
      BY <2>2, GotoMoves, TagMoves DEF IInv, Counter
    <2>3. CASE Goto(m, "check") /\ task[m].event.class # "deletion"
      BY <2>3, GotoMoves, TagMoves DEF IInv, Counter
    <2> QED
      BY <2>1, <2>2, <2>3 DEF Receive, EventOf
  <1>3. /\ \A a, b \in Msg : Beside(a, b) => Beside(a, b)'
        /\ \A n \in Running : Beside(m, n)' /\ Beside(n, m)'
        /\ \A n \in Msg : n # m /\ task[n].pc = "idle" => history'.beside[n] = history.beside[n]
    BY ReceiveBeside DEF IInv
  <1>4. task'[m].pc \notin PastId
    BY <1>2 DEF PastId, PastAddress, Replacing
  <1>5. Moves(m)
    BY <1>1 DEF EarlyMove
  <1>6. Tagged(m)'
    BY <1>2, <1>5 DEF Tagged, Moves
  <1>7. Searched(m)'
    BY <1>1, <1>2, <1>3, <1>5, SearchedStays
  <1>8. Checked(m)'
    BY <1>2, <1>3, <1>4, <1>5, CheckedStays DEF PastId
  <1> QED
    BY <1>1, <1>2, <1>3, <1>5, <1>6, <1>7, <1>8, GoneAfter

\* A step of a running message that records nobody beside another.
LEMMA GoneByStep ==
    ASSUME IInv, Gone, NEW m \in Running, Moves(m), task'[m].pc # "idle",
           history'.beside = history.beside,
           \/ table' \subseteq table
           \/ table' = table \cup {task[m].event} /\ task[m].pc \in {"store", "save"},
           Tagged(m)', Searched(m)', Checked(m)'
    PROVE  Gone'
  <1>1. m \in Msg
    BY DEF Running
  <1>2. \A a, b \in Msg : Beside(a, b) => Beside(a, b)'
    BY DEF Beside
  <1> QED
    BY <1>1, <1>2, GoneAfter

\* Deleted events stay gone: a deletion request searches its targets.
LEMMA GoneByFind ==
    ASSUME IInv, KInv, Gone, GoneAssumptions, bad.breaks = 0, NEW m \in Msg, FindTarget(m)
    PROVE  Gone'
  <1> USE DEF GoneAssumptions
  <1> DEFINE d == task[m].event
             t == task[m].tag
             targets == Targets(d, d.tags[t])
  <1>1. /\ EarlyMove(m) /\ UNCHANGED <<table, history>> /\ d \in Event
        /\ task[m].pc = "targets" /\ t <= Len(d.tags) /\ d.class = "deletion"
    BY EarlyTasks, EarlyRest DEF IInv, EarlyStep, FindTarget, TagsLeft, At, EventOf, KInv, Deleting
  <1>2. m \in Running
    BY <1>1 DEF Running
  <1>3. Moves(m)
    BY <1>1 DEF EarlyMove
  <1>4. t \in Nat \ {0}
    BY TagMoves DEF IInv
  <1>5. \A e \in table : NamesBy(d, e, t) /\ e.author = d.author => targets = {e}
    BY <1>1, TargetIsTheRow
  <1>6. \/ Return(m, "not_attempted", TRUE, TRUE)
        \/ targets = {} /\ NextTag(m)
        \/ \E r \in targets : /\ task' = [task EXCEPT ![m].pc = "delete", ![m].found = r]
                              /\ r \in Event
    <2>1. targets \subseteq Event
      BY TargetsAreRows DEF IInv, TypeOK
    <2> QED
      BY <2>1, FirstIsARow DEF FindTarget, EventOf
  <1>7. \A a, b \in Msg : Beside(a, b) => Beside(a, b)'
    BY <1>1 DEF Beside
  <1>8. \A e : Excused(m, e) => Excused(m, e)'
    <2>1. \A k \in Msg : task'[k].event = task[k].event
      BY <1>3 DEF Moves
    <2> QED
      BY <2>1, <1>7 DEF Excused
  <1>9. ASSUME NEW e \in table, NEW i \in DOMAIN d.tags, e.author = d.author, NamesBy(d, e, i), i < t
        PROVE  Excused(m, e)'
    BY <1>1, <1>2, <1>8, <1>9 DEF Gone, Searched, InForce, Running
  <1>10. \A i \in DOMAIN d.tags : i \in Nat
    BY <1>1, TagIndex
  <1>11. CASE Return(m, "not_attempted", TRUE, TRUE)
    <2>1. task'[m].pc = "written" /\ task'[m].failed /\ task'[m].tag = t
      BY <1>11, ReturnMoves, TagMoves DEF IInv, Outcomes
    <2>2. Tagged(m)'
      BY <2>1 DEF Tagged
    <2>3. Searched(m)'
      BY <2>1, <1>1, <1>2, <1>3, <1>7, SearchedStays
    <2>4. Checked(m)'
      BY <2>1, <1>2, <1>3, <1>7, CheckedStays DEF PastId, PastAddress, Replacing
    <2> QED
      BY <2>1, <2>2, <2>3, <2>4, <1>1, <1>2, <1>3, GoneByStep
  <1>12. CASE targets = {} /\ NextTag(m)
    <2>1. task'[m].pc = "targets" /\ task'[m].tag = t + 1
      BY <1>12, NextTagMoves, TagMoves DEF IInv
    <2>2. Tagged(m)'
      BY <2>1 DEF Tagged
    <2>3. ASSUME NEW e \in table, NEW i \in DOMAIN d.tags, e.author = d.author, NamesBy(d, e, i), i < t + 1
          PROVE  Excused(m, e)'
      <3>1. i # t
        BY <1>5, <1>12, <2>3
      <3> QED
        BY <3>1, <2>3, <1>4, <1>9, <1>10
    <2>4. Searched(m)'
      BY <2>1, <2>3, <1>1, <1>3 DEF Searched, Moves, NamesBy
    <2>5. Checked(m)'
      BY <2>1, <1>2, <1>3, <1>7, CheckedStays DEF PastId, PastAddress, Replacing
    <2> QED
      BY <2>1, <2>2, <2>4, <2>5, <1>1, <1>2, <1>3, GoneByStep
  <1>13. ASSUME NEW r \in targets, r \in Event, task' = [task EXCEPT ![m].pc = "delete", ![m].found = r]
         PROVE  Gone'
    <2>1. task'[m].pc = "delete" /\ task'[m].found = r /\ task'[m].tag = t
      BY <1>13, FindMoves, TagMoves DEF IInv, Counter, Finds
    <2>2. Tagged(m)'
      BY <2>1, <1>1, <1>3 DEF Tagged, Moves
    <2>3. Searched(m)'
      BY <2>1, <1>1, <1>3, <1>5, <1>9, <1>13 DEF Searched, Moves, NamesBy
    <2>4. Checked(m)'
      BY <2>1, <1>2, <1>3, <1>7, CheckedStays DEF PastId, PastAddress, Replacing
    <2> QED
      BY <2>1, <2>2, <2>3, <2>4, <1>1, <1>2, <1>3, GoneByStep
  <1> QED
    BY <1>6, <1>11, <1>12, <1>13

\* Deleted events stay gone: a deletion request deletes a target.
LEMMA GoneByDelete ==
    ASSUME IInv, KInv, Gone, NEW m \in Msg, DeleteTarget(m)
    PROVE  Gone'
  <1> DEFINE d == task[m].event
             t == task[m].tag
  <1>1. /\ table' = table \ {task[m].found} /\ NextTag(m) /\ UNCHANGED history
        /\ task[m].pc = "delete" /\ d.class = "deletion" /\ d \in Event
    BY Active DEF DeleteTarget, At, KInv, Deleting, Ended
  <1>2. m \in Running
    BY <1>1 DEF Running
  <1>3. Moves(m) /\ task'[m].pc = "targets" /\ task'[m].tag = t + 1 /\ t \in Nat
    BY <1>1, NextTagMoves, TagMoves DEF IInv
  <1>4. Tagged(m)'
    BY <1>3 DEF Tagged
  <1>5. \A e : Excused(m, e) => Excused(m, e)'
    <2>1. \A k \in Msg : task'[k].event = task[k].event
      BY <1>3 DEF Moves
    <2> QED
      BY <2>1, <1>1 DEF Excused, Beside
  <1>9. \A i \in DOMAIN d.tags : i \in Nat
    BY <1>1, TagIndex
  <1>6. ASSUME NEW e \in table', NEW i \in DOMAIN d.tags, e.author = d.author, NamesBy(d, e, i), i < t + 1
        PROVE  Excused(m, e)'
    <2>1. i < t \/ i = t
      BY <1>3, <1>6, <1>9
    <2> QED
      BY <2>1, <1>1, <1>2, <1>5, <1>6 DEF Gone, Searched, InForce, Running
  <1>7. Searched(m)'
    BY <1>3, <1>6 DEF Searched, Moves, NamesBy
  <1>8. Checked(m)'
    BY <1>1, <1>2, <1>3, CheckedStays DEF PastId, PastAddress, Replacing, Beside
  <1> QED
    BY <1>1, <1>2, <1>3, <1>4, <1>7, <1>8, GoneByStep

\* A step that goes on with the same tag, and passes no check that it has not.
LEMMA GoneByMove ==
    ASSUME IInv, Gone, Hashed, NEW m \in Running, Moves(m),
           task'[m].pc \notin {"idle", "delete"},
           history'.beside = history.beside, task[m].event \in Event,
           task'[m].tag = task[m].tag,
           \/ table' \subseteq table
           \/ table' = table \cup {task[m].event} /\ task[m].pc \in {"store", "save"},
           /\ task[m].event.class = "deletion"
           /\ \/ task'[m].pc \in {"check", "store"}
              \/ task'[m].pc \in {"written", "answered"} /\ ~task'[m].failed
           => task[m].tag > Len(task[m].event.tags),
           \/ Checked(m)'
           \/ /\ task'[m].pc \in PastId => task[m].pc \in PastId
              /\ task'[m].pc \in PastAddress => task[m].pc \in PastAddress
    PROVE  Gone'
  <1>1. m \in Msg /\ \A a, b \in Msg : Beside(a, b) => Beside(a, b)'
    BY DEF Running, Beside
  <1>2. Tagged(m)'
    BY DEF Tagged, Moves
  <1>3. Searched(m)'
    BY <1>1, SearchedStays
  <1>4. Checked(m)'
    BY <1>1, CheckedStays
  <1> QED
    BY <1>2, <1>3, <1>4, GoneByStep

\* The check for deletions by id finds an accepted request that names the event.
LEMMA PassedById ==
    ASSUME IInv, KInv, Gone, NEW m \in Running, Moves(m), UNCHANGED <<table, history>>,
           At(m, "check"), DeletionsById(task[m].event) = {},
           task'[m].pc \in {"checkAddress", "store"}
    PROVE  Checked(m)'
  <1>3. m \in Msg
    BY DEF Running
  <1>1. \A k \in Msg : /\ task'[k].event = task[k].event
                       /\ k # m => task'[k] = task[k]
    BY DEF Moves
  <1> SUFFICES ASSUME NEW d \in Msg, Late(m, d)',
                      HasTag(task[d].event, [name |-> "e", id |-> task[m].event.id])
               PROVE  FALSE
    BY <1>1, <1>3 DEF Checked, HasTag, PastAddress, Replacing
  <1>2. Names(task[d].event, task[m].event) /\ ~Beside(m, d) /\ d # m
    <2>1. Names(task'[d].event, task'[m].event) /\ ~Beside(m, d)' /\ task'[d].pc = "answered"
      BY DEF Late, Names, HasTag
    <2> QED
      BY <2>1, <1>1, <1>3 DEF Beside
  <1>4. Unhit(d)
    BY <1>3, StillUnhit DEF Late
  <1>5. Late(m, d)
    BY <1>1, <1>2, <1>4 DEF Late
  <1>6. task[d].event \in DeletionsById(task[m].event)
    BY <1>3, <1>5, LateIsFound DEF DeletionsById
  <1> QED
    BY <1>6

\* The check for deletions by address finds an accepted request that names it.
LEMMA PassedByAddress ==
    ASSUME IInv, KInv, Gone, NEW m \in Running, Moves(m), UNCHANGED <<table, history>>,
           At(m, "checkAddress"), DeletionsByAddress(task[m].event) = {}
    PROVE  Checked(m)'
  <1>1. \A k \in Msg : /\ task'[k].event = task[k].event
                       /\ k # m => task'[k] = task[k]
    BY DEF Moves
  <1> SUFFICES ASSUME NEW d \in Msg, Late(m, d)', task'[m].pc # "idle"
               PROVE  FALSE
    <2>1. ASSUME NEW d \in Msg, Late(m, d)' PROVE task'[m].pc # "idle"
      BY <2>1 DEF Late, Running
    <2> QED
      BY <2>1 DEF Checked
  <1>2. Names(task[d].event, task[m].event) /\ ~Beside(m, d) /\ d # m
    <2>1. Names(task'[d].event, task'[m].event) /\ ~Beside(m, d)' /\ m \in Running'
          /\ task'[d].pc = "answered"
      BY DEF Late, Names, HasTag
    <2> QED
      BY <2>1, <1>1 DEF Beside, Running
  <1>3. m \in Msg
    BY DEF Running
  <1>4. Unhit(d)
    BY <1>3, StillUnhit DEF Late
  <1>5. Late(m, d)
    BY <1>1, <1>2, <1>4 DEF Late
  <1>6. ~HasTag(task[d].event, [name |-> "e", id |-> task[m].event.id])
    BY <1>3, <1>5 DEF Gone, Checked, PastId, At
  <1>7. task[d].event \in DeletionsByAddress(task[m].event)
    BY <1>2, <1>3, <1>5, <1>6, LateIsFound DEF DeletionsByAddress, Names
  <1> QED
    BY <1>7

\* Deleted events stay gone: the checks for earlier deletions.
LEMMA GoneByCheck ==
    ASSUME IInv, KInv, Gone, Hashed, NEW m \in Msg,
           EndTargets(m) \/ RejectEvent(m) \/ CheckId(m) \/ CheckAddress(m)
    PROVE  Gone'
  <1>1. /\ EarlyMove(m) /\ UNCHANGED <<table, history>> /\ task[m].event \in Event
        /\ task[m].pc \in {"targets", "check", "checkAddress"}
    BY EarlyTasks, EarlyRest
    DEF IInv, EarlyStep, CheckStep, EndTargets, RejectEvent, CheckId, CheckAddress, At
  <1>2. m \in Running /\ Moves(m)
    BY <1>1 DEF Running, EarlyMove
  <1>3. CASE Return(m, "not_attempted", TRUE, TRUE)
    <2>1. task'[m].pc = "written" /\ task'[m].failed /\ task'[m].tag = task[m].tag
      BY <1>3, ReturnMoves, TagMoves DEF IInv, Outcomes
    <2> QED
      BY <2>1, <1>1, <1>2, GoneByMove DEF PastId, PastAddress, Replacing
  <1>4. CASE EndTargets(m)
    <2>1. task'[m].pc = "check" /\ task'[m].tag = task[m].tag /\ task[m].tag > Len(task[m].event.tags)
      BY <1>4, GotoMoves, TagMoves DEF IInv, EndTargets, Counter, EventOf
    <2> QED
      BY <2>1, <1>1, <1>2, GoneByMove DEF PastId, PastAddress, Replacing
  <1>5. CASE At(m, "check") /\ DeletionsById(task[m].event) = {} /\ Goto(m, AfterIdCheck(m))
    <2>1. task'[m].pc \in {"checkAddress", "store"} /\ task'[m].tag = task[m].tag
      BY <1>5, GotoMoves, TagMoves DEF IInv, AfterIdCheck, Counter
    <2>2. Checked(m)'
      BY <2>1, <1>1, <1>2, <1>5, PassedById
    <2>3. task[m].event.class = "deletion" => task[m].tag > Len(task[m].event.tags)
      BY <1>5 DEF Gone, Tagged, At
    <2> QED
      BY <2>1, <2>2, <2>3, <1>1, <1>2, GoneByMove
  <1>6. CASE At(m, "checkAddress") /\ DeletionsByAddress(task[m].event) = {} /\ Goto(m, "lock")
    <2>1. task'[m].pc = "lock" /\ task'[m].tag = task[m].tag
      BY <1>6, GotoMoves, TagMoves DEF IInv, Counter
    <2>2. Checked(m)'
      BY <1>1, <1>2, <1>6, PassedByAddress
    <2> QED
      BY <2>1, <2>2, <1>1, <1>2, GoneByMove
  <1> QED
    BY <1>3, <1>4, <1>5, <1>6 DEF EndTargets, RejectEvent, CheckId, CheckAddress, EventOf

\* Deleted events stay gone: an insertion.
LEMMA GoneBySave ==
    ASSUME IInv, Gone, Hashed, NEW m \in Msg, Store(m) \/ SaveReplacement(m)
    PROVE  Gone'
  <1>1. /\ task[m].pc \in {"store", "save"} /\ SaveEvent(m) /\ UNCHANGED bad
    BY DEF Store, SaveReplacement, At
  <1>2. task[m].event \in Event /\ m \in Running
    BY <1>1, Active DEF Ended, Running
  <1>3. /\ Moves(m) /\ task'[m].pc = "written"
        /\ table' = table \cup {task[m].event}
    BY <1>1, <1>2, SaveMoves DEF IInv, SaveEvent, EventOf
  <1>4. task'[m].tag = task[m].tag /\ history'.beside = history.beside
    <2>1. \/ UNCHANGED history
          \/ history' = [history EXCEPT !.inserted = @ \cup {m}]
      BY <1>1 DEF SaveEvent
    <2>2. \E p, s : Return(m, p, FALSE, s)
      BY <1>1 DEF SaveEvent
    <2> QED
      BY <2>1, <2>2, TagMoves DEF IInv, TypeOK
  <1>5. task[m].event.class = "deletion" => task[m].tag > Len(task[m].event.tags)
    BY <1>1 DEF Gone, Tagged, IInv, Placed, Replacing, Versioned
  <1> QED
    BY <1>1, <1>2, <1>3, <1>4, <1>5, GoneByMove DEF PastId, PastAddress, Replacing

\* Deleted events stay gone: ReplaceEvent.
LEMMA GoneByReplace ==
    ASSUME IInv, Gone, Hashed, NEW m \in Msg, ReplaceStep(m), bad'.faults = bad.faults
    PROVE  Gone'
  <1>1. /\ Moves(m) /\ table' \subseteq table /\ UNCHANGED history
        /\ task[m].pc \in Replacing \cup {"lock"}
        /\ task'[m].pc \in {"written"} \cup Replacing
    BY ReplaceTypes
  <1>2. /\ task[m].event \in Event /\ Versioned(task[m].event) /\ m \in Running
    BY <1>1 DEF IInv, Placed, Replacing, Running
  <1>3. task'[m].tag = task[m].tag
    <2>1. \/ \E l : Goto(m, l)
          \/ \E p, f, s : Return(m, p, f, s)
          \/ \E l, r : Finds(m, l, r)
      BY DEF Finds, ReplaceStep, BeginReplace, FindPrevious, FindPreviousBreaks, DeletePrevious, ReplaceFails
    <2> QED
      BY <2>1, TagMoves DEF IInv
  <1> QED
    BY <1>1, <1>2, <1>3, GoneByMove DEF PastId, PastAddress, Replacing, Versioned

\* Deleted events stay gone: the answer.
LEMMA GoneByAnswer ==
    ASSUME IInv, Gone, Hashed, NEW m \in Msg, Answer(m)
    PROVE  Gone'
  <1>1. /\ task[m].pc = "written" /\ Goto(m, "answered") /\ UNCHANGED table
        /\ history'.beside = history.beside
    BY DEF Answer, At, IInv, TypeOK
  <1>2. /\ Moves(m) /\ task'[m].pc = "answered" /\ task'[m].tag = task[m].tag
        /\ task'[m].failed = task[m].failed
    BY <1>1, GotoMoves, TagMoves DEF IInv, Counter
  <1>3. m \in Running /\ task[m].event \in Event
    BY <1>1 DEF Running, IInv, Placed
  <1>4. /\ task[m].event.class = "deletion" /\ ~task[m].failed
        => task[m].tag > Len(task[m].event.tags)
    BY <1>1 DEF Gone, Tagged
  <1> QED
    BY <1>1, <1>2, <1>3, <1>4, GoneByMove DEF PastId, PastAddress, Replacing

\* Deleted events stay gone: the end of the process.
LEMMA GoneByCrash ==
    ASSUME IInv, Gone, Crash
    PROVE  Gone'
  <1>1. /\ task \in [Msg -> Task] /\ UNCHANGED <<table, history>>
        /\ task' = [m \in Msg |-> IF m \in Running THEN [task[m] EXCEPT !.pc = "lost"] ELSE task[m]]
    BY DEF Crash, IInv, TypeOK
  <1>2. \A m \in Msg : /\ task'[m].event = task[m].event
                       /\ task'[m].pc \in {"idle", "answered", "lost"}
                       /\ task'[m].pc # "lost" => task'[m] = task[m]
    <2> TAKE m \in Msg
    <2>1. CASE m \in Running
      BY <1>1, <2>1 DEF Task
    <2>2. CASE m \notin Running
      BY <1>1, <2>2 DEF Running
    <2> QED
      BY <2>1, <2>2
  <1>3. Running' = {}
    BY <1>2 DEF Running
  <1>4. ASSUME NEW m \in Msg, Unhit(m)' PROVE Unhit(m)
    BY <1>2, <1>4 DEF Unhit
  <1>5. ASSUME NEW d \in Msg PROVE Searched(d)'
    <2> SUFFICES ASSUME InForce(d)' PROVE Searched(d)'
      BY DEF Searched
    <2>1. InForce(d) /\ task'[d] = task[d]
      BY <1>2, <1>4 DEF InForce
    <2>2. \A e : Excused(d, e) => Excused(d, e)'
      BY <1>1, <1>2 DEF Excused, Beside
    <2> QED
      BY <2>1, <2>2, <1>1 DEF Gone, Searched, NamesBy
  <1>6. \A m \in Msg : Tagged(m)'
    BY <1>1, <1>2 DEF Gone, Tagged
  <1> QED
    BY <1>3, <1>5, <1>6 DEF Gone, Together, Checked, Late

\* Deleted events stay gone: nothing happens.
LEMMA GoneByStutter == Gone /\ UNCHANGED vars => Gone'
  <1> SUFFICES ASSUME Gone, UNCHANGED vars PROVE Gone'
    OBVIOUS
  <1>1. task' = task /\ table' = table /\ history' = history
    BY DEF vars
  <1>2. \A m : (m \in Running)' => m \in Running
    BY <1>1 DEF Running
  <1>3. \A m \in Msg : Unhit(m)' => Unhit(m)
    BY <1>1 DEF Unhit
  <1>4. \A m, n \in Msg : Beside(m, n) => Beside(m, n)'
    BY <1>1 DEF Beside
  <1>5. \A m \in Msg : \A e : Excused(m, e) => Excused(m, e)'
    BY <1>1 DEF Excused, Beside
  <1>6. Together'
    <2> SUFFICES ASSUME NEW m \in Running', NEW n \in Running', m # n PROVE Beside(m, n)'
      BY DEF Together
    <2>1. m \in Running /\ n \in Running /\ m \in Msg /\ n \in Msg
      BY <1>2 DEF Running
    <2> QED
      BY <2>1, <1>4 DEF Gone, Together
  <1>7. \A m \in Msg : Tagged(m)'
    BY <1>1 DEF Gone, Tagged
  <1>8. ASSUME NEW m \in Msg PROVE Checked(m)'
    <2> SUFFICES ASSUME NEW d \in Msg, Late(m, d)'
                 PROVE  /\ HasTag(task[d].event, [name |-> "e", id |-> task[m].event.id])
                               => task[m].pc \notin PastId
                        /\ task[m].pc \notin PastAddress
      BY <1>1 DEF Checked, HasTag
    <2>1. Names(task[d].event, task[m].event)
      BY <1>1 DEF Late, Names, HasTag
    <2>2. Late(m, d)
      BY <2>1, <1>1, <1>2, <1>3, <1>4 DEF Late
    <2> QED
      BY <2>2 DEF Gone, Checked
  <1>9. ASSUME NEW d \in Msg PROVE Searched(d)'
    <2> SUFFICES ASSUME InForce(d)' PROVE Searched(d)'
      BY DEF Searched
    <2>1. InForce(d)
      BY <1>1, <1>3 DEF InForce
    <2> QED
      BY <2>1, <1>1, <1>5 DEF Gone, Searched, NamesBy
  <1> QED
    BY <1>6, <1>7, <1>8, <1>9 DEF Gone

\* Nothing has been deleted.
LEMMA InitGone == Init => Gone
  <1> SUFFICES ASSUME Init PROVE Gone
    OBVIOUS
  <1>1. \A m \in Msg : task[m].pc = "idle" /\ task[m].tag = 1 /\ history.beside[m] = {}
    BY DEF Init
  <1> QED
    BY <1>1 DEF Gone, Together, Tagged, Searched, Checked, Late, Running, InForce

\* No statement fails and no scan breaks off in a step that counts none.
LEMMA NothingBad ==
    ASSUME IInv, Next, bad'.faults = 0, bad'.breaks = 0
    PROVE  /\ bad.faults = 0 /\ bad.breaks = 0
           /\ ~Fault
           /\ \A m \in Msg : ~FindPreviousBreaks(m)
  <1>1. bad.faults \in Nat /\ bad.breaks \in Nat /\ bad.crashes \in Nat
    BY BoundsAssumption DEF IInv, TypeOK
  <1>2. bad \in [faults : 0..Faults, breaks : 0..Breaks, crashes : 0..Crashes]
    BY DEF IInv, TypeOK
  <1>3. ~Fault
    BY <1>1, <1>2 DEF Fault
  <1>4. \A m \in Msg : ~FindPreviousBreaks(m)
    BY <1>1, <1>2 DEF FindPreviousBreaks
  <1>5. bad' = bad \/ bad' = [bad EXCEPT !.crashes = @ + 1]
    BY <1>3, <1>4
    DEF Next, Step, DeleteStep, CheckStep, WriteStep, Crash, Receive, BeginReplace, Answer, FindTarget,
        FindTargetFails, DeleteTarget, DeleteTargetFails, EndTargets, RejectEvent, CheckId,
        CheckIdFails, CheckAddress, CheckAddressFails, Store, StoreFails, SaveFails, FindPrevious,
        DeletePrevious, SaveReplacement, ReplaceFails
  <1> QED
    BY <1>2, <1>3, <1>4, <1>5

\* Deleted events stay gone: every step.
LEMMA GInvStep ==
    ASSUME IInv, KInv, GInv, GoneAssumptions, [Next]_vars
    PROVE  GInv'
  <1>1. CASE UNCHANGED vars
    BY <1>1, GoneByStutter DEF GInv, vars
  <1>2. CASE Next
    <2> SUFFICES ASSUME bad'.faults = 0, bad'.breaks = 0 PROVE Gone'
      BY DEF GInv
    <2>1. /\ bad.faults = 0 /\ bad.breaks = 0 /\ ~Fault
          /\ \A m \in Msg : ~FindPreviousBreaks(m)
      BY <1>2, NothingBad
    <2>2. Gone
      BY <2>1 DEF GInv
    <2>3. CASE Crash
      BY <2>2, <2>3, GoneByCrash
    <2>4. ASSUME NEW m \in Msg,
                 \/ Receive(m) \/ FindTarget(m) \/ DeleteTarget(m) \/ EndTargets(m) \/ RejectEvent(m)
                 \/ CheckId(m) \/ CheckAddress(m) \/ Store(m) \/ SaveReplacement(m) \/ Answer(m)
          PROVE  Gone'
      BY <2>1, <2>2, <2>4, GoneByReceive, GoneByFind, GoneByDelete, GoneByCheck, GoneBySave, GoneByAnswer
      DEF GoneAssumptions
    <2>5. ASSUME NEW m \in Msg, BeginReplace(m) \/ FindPrevious(m) \/ DeletePrevious(m)
          PROVE  Gone'
      BY <2>1, <2>2, <2>5, GoneByReplace
      DEF GoneAssumptions, ReplaceStep, BeginReplace, FindPrevious, DeletePrevious
    <2> QED
      BY <1>2, <2>1, <2>3, <2>4, <2>5
      DEF Next, Step, DeleteStep, CheckStep, WriteStep, FindTargetFails, DeleteTargetFails,
          CheckIdFails, CheckAddressFails, StoreFails, SaveFails, ReplaceFails
  <1> QED
    BY <1>1, <1>2

-----------------------------------------------------------------------------
(* Versions of one address *)

\* Times and ids are ordered.
Ordered == \A e \in Event : e.id \in Nat /\ e.time \in Nat

Settled(m) == task[m].pc \in {"written", "answered"} /\ ~task[m].failed

\* x stands for y: it is y, or a version that wins over it.
Same(x, y) == Alike(x, y) /\ (x = y \/ Precedes(x, y))

\* The tags of e tell it from the events of other addresses.
Clear(e) == e.class = "addressable" => OwnTag(e) /\ Unshared(e)

\* The versions of e that messages bring are clear, and no message hits them.
Undisturbed(e) ==
    \A k \in Msg : Alike(task[k].event, e) =>
        Clear(task[k].event) /\ \A n \in Msg : ~Hits(task[n].event, task[k].event)

\* r gives way to e: it is older, and of e's address if its tags are clear.
GivesWay(r, e) == Precedes(e, r) /\ (Clear(r) => Alike(r, e))

\* What is about to be taken away has been brought, and is older or hit by a request.
Chosen(m) ==
    /\ task[m].pc \in {"delete", "deletePrevious"} => \E k \in Msg : task[k].event = task[m].found
    /\ task[m].pc = "deletePrevious" => GivesWay(task[m].found, task[m].event)
    /\ task[m].pc = "delete" => Hits(task[m].event, task[m].found)

\* A row has been brought by a message that was told so.
Brought == \A r \in table : \E n \in Msg : task[n].event = r /\ Settled(n)

\* Whoever has been told that its version is kept, or superseded, is stood for
\* by a row, or by a replacement that is about to be saved.
Standing(m) ==
    Settled(m) /\ Versioned(task[m].event) /\ Undisturbed(task[m].event) =>
        \/ \E r \in table : Same(r, task[m].event)
        \/ \E n \in Msg : task[n].pc = "save" /\ Same(task[n].event, task[m].event)

Wins == Brought /\ \A m \in Msg : Chosen(m) /\ Standing(m)

NothingHappened == bad.faults = 0 /\ bad.breaks = 0 /\ bad.crashes = 0

WInv == NothingHappened => Wins

\* Versions of an address are ordered.
LEMMA SameIsTransitive ==
    ASSUME Ordered, NEW x \in Event, NEW y \in Event, NEW z \in Event, Same(x, y), Same(y, z)
    PROVE  Same(x, z)
  BY DEF Ordered, Same, Alike, Precedes

\* Of two versions, IsOlder tells the older from the newer.
LEMMA OlderIsPreceded ==
    ASSUME Ordered, Identified, NEW x \in Event, NEW y \in Event
    PROVE  /\ IsOlder(x, y) => Precedes(y, x)
           /\ ~IsOlder(x, y) /\ Alike(x, y) => Same(x, y)
  BY DEF Ordered, Identified, IsOlder, Same, Precedes

\* A step of m that brings its event, or takes away what it has chosen.
LEMMA WinsAfter ==
    ASSUME IInv, Wins, Ordered, NEW m \in Msg, Moves(m), TypeOK', task[m].event \in Event,
           Chosen(m)', Settled(m) => Settled(m)',
           \A r \in table' \ table : r = task[m].event /\ Settled(m)',
           \A r \in table \ table' :
              /\ \E k \in Msg : task[k].event = r
              /\ Hits(task[m].event, r) \/ (task'[m].pc = "save" /\ GivesWay(r, task[m].event)),
           task[m].pc = "save" => task[m].event \in table',
           Settled(m)' /\ ~Settled(m) /\ Versioned(task[m].event) /\ Clear(task[m].event)
              => \E r \in table' : Same(r, task[m].event)
    PROVE  Wins'
  <1>1. \A k \in Msg : /\ task'[k].event = task[k].event
                       /\ k # m => task'[k] = task[k]
    BY DEF Moves
  <1>2. \A n \in Msg : Settled(n) => Settled(n)'
    BY <1>1 DEF Settled
  <1>3. Brought'
    <2> SUFFICES ASSUME NEW r \in table' PROVE \E n \in Msg : task'[n].event = r /\ Settled(n)'
      BY DEF Brought
    <2>1. CASE r \in table
      BY <2>1, <1>1, <1>2 DEF Wins, Brought
    <2>2. CASE r \notin table
      BY <2>2, <1>1
    <2> QED
      BY <2>1, <2>2
  <1>4. ASSUME NEW n \in Msg PROVE Chosen(n)'
    <2>1. CASE n = m
      BY <2>1
    <2>2. CASE n # m
      BY <2>2, <1>1 DEF Wins, Chosen
    <2> QED
      BY <2>1, <2>2
  <1>5. ASSUME NEW n \in Msg PROVE Standing(n)'
    <2> DEFINE e == task[n].event
    <2> SUFFICES ASSUME Settled(n)', Versioned(e), Undisturbed(e)
                 PROVE  \/ \E r \in table' : Same(r, e)
                        \/ \E k \in Msg : task'[k].pc = "save" /\ Same(task[k].event, e)
      <3>1. task'[n].event = e
        BY <1>1
      <3>2. Undisturbed(task[n].event)' => Undisturbed(e)
        BY <1>1, <3>1 DEF Undisturbed
      <3>3. ASSUME Settled(n)', Versioned(e), Undisturbed(e),
                   \/ \E r \in table' : Same(r, e)
                   \/ \E k \in Msg : task'[k].pc = "save" /\ Same(task[k].event, e)
            PROVE  \/ \E r \in table' : Same(r, task'[n].event)
                   \/ \E k \in Msg : task'[k].pc = "save" /\ Same(task'[k].event, task'[n].event)
        BY <1>1, <3>1, <3>3
      <3> QED
        BY <3>1, <3>2, <3>3 DEF Standing
    <2>1. CASE n = m /\ ~Settled(m)
      <3>1. Clear(e)
        BY AlikeEvents DEF Undisturbed
      <3> QED
        BY <2>1, <3>1
    <2>2. CASE Settled(n)
      <3>0. e \in Event
        BY <2>2 DEF IInv, Placed, Settled
      <3>1. ASSUME NEW r \in table, Same(r, e)
            PROVE  \/ \E x \in table' : Same(x, e)
                   \/ \E k \in Msg : task'[k].pc = "save" /\ Same(task[k].event, e)
        <4>1. CASE r \in table'
          BY <3>1, <4>1
        <4>2. ASSUME r \notin table'
              PROVE  Clear(r) /\ ~Hits(task[m].event, r)
          <5>1. PICK k \in Msg : task[k].event = r
            BY <3>1, <4>2
          <5>2. Alike(task[k].event, e)
            BY <3>1, <5>1 DEF Same
          <5> QED
            BY <5>1, <5>2 DEF Undisturbed
        <4>3. CASE task'[m].pc = "save" /\ GivesWay(r, task[m].event) /\ r \notin table'
          <5>1. Same(task[m].event, r) /\ r \in Event
            BY <3>1, <4>2, <4>3, AlikeEvents DEF Same, GivesWay, IInv, TypeOK
          <5>2. Same(task[m].event, e)
            BY <5>1, <3>0, <3>1, SameIsTransitive
          <5> QED
            BY <5>2, <4>3
        <4> QED
          BY <4>1, <4>2, <4>3
      <3>2. ASSUME NEW k \in Msg, task[k].pc = "save", Same(task[k].event, e)
            PROVE  \/ \E x \in table' : Same(x, e)
                   \/ \E j \in Msg : task'[j].pc = "save" /\ Same(task[j].event, e)
        BY <3>2, <1>1
      <3> QED
        BY <2>2, <3>1, <3>2 DEF Wins, Standing
    <2>3. CASE n # m /\ ~Settled(n)
      BY <2>3, <1>1 DEF Settled
    <2> QED
      BY <2>1, <2>2, <2>3
  <1> QED
    BY <1>3, <1>4, <1>5 DEF Wins

\* A step that changes no row, chooses none and settles nothing.
LEMMA WinsByMove ==
    ASSUME IInv, Wins, Ordered, NEW m \in Msg, Moves(m), TypeOK', task[m].event \in Event,
           UNCHANGED table, task[m].pc # "save",
           Chosen(m)', Settled(m)' <=> Settled(m)
    PROVE  Wins'
  BY WinsAfter

\* The newest version wins: the steps before a write.
LEMMA WinsByEarly ==
    ASSUME IInv, KInv, IInv', Wins, Ordered, NEW m \in Msg, EarlyStep(m)
    PROVE  Wins'
  <1>1. /\ EarlyMove(m) /\ UNCHANGED table /\ task[m].event \in Event
        /\ task[m].pc \notin Replacing \cup Ended
    BY EarlyTasks, EarlyRest DEF IInv
  <1>2. ~Settled(m) /\ ~Settled(m)' /\ task[m].pc # "save"
    BY <1>1 DEF Settled, EarlyMove, Ended, Replacing
  <1>3. Moves(m) /\ task'[m].pc # "deletePrevious"
    BY <1>1 DEF EarlyMove
  <1>4. CASE task'[m].pc # "delete"
    BY <1>1, <1>2, <1>3, <1>4, WinsByMove DEF Chosen, IInv
  <1>5. CASE task'[m].pc = "delete"
    <2>1. FindTarget(m)
      <3>1. \A l \in {"targets", "check", "checkAddress", "store", "lock"} : Goto(m, l) => task'[m].pc # "delete"
        BY GotoMoves DEF IInv, Counter
      <3>2. Return(m, "not_attempted", TRUE, TRUE) => task'[m].pc # "delete"
        BY ReturnMoves DEF IInv, Outcomes
      <3>3. NextTag(m) => task'[m].pc # "delete"
        BY NextTagMoves DEF IInv
      <3> QED
        BY <1>5, <3>1, <3>2, <3>3
        DEF EarlyStep, CheckStep, Receive, FindTargetFails, EndTargets, RejectEvent, CheckId,
            CheckIdFails, CheckAddress, CheckAddressFails, AfterIdCheck
    <2>2. PICK r \in Targets(task[m].event, task[m].event.tags[task[m].tag]) :
              /\ r.author = task[m].event.author
              /\ task' = [task EXCEPT ![m].pc = "delete", ![m].found = r]
      <3>1. Return(m, "not_attempted", TRUE, TRUE) => task'[m].pc # "delete"
        BY ReturnMoves DEF IInv, Outcomes
      <3>2. NextTag(m) => task'[m].pc # "delete"
        BY NextTagMoves DEF IInv
      <3> QED
        BY <2>1, <1>5, <3>1, <3>2, FirstIsARow DEF FindTarget, EventOf
    <2>3. r \in table /\ r \in Event
      BY TargetsAreRows DEF IInv, TypeOK
    <2>4. task'[m].found = r
      BY <2>2, <2>3, FindMoves DEF IInv, Counter
    <2>5. task[m].event.class = "deletion"
      BY <2>1 DEF FindTarget, TagsLeft, At, KInv, Deleting
    <2>6. task[m].tag \in DOMAIN task[m].event.tags
      <3>1. task[m].tag \in Nat \ {0}
        BY TagMoves DEF IInv
      <3> QED
        BY <3>1, <1>1, <2>1, TagAssumption DEF FindTarget, TagsLeft, EventOf
    <2>7. Hits(task[m].event, r)
      BY <1>1, <2>2, <2>5, <2>6, TargetIsHit
    <2>8. \A k \in Msg : task'[k].event = task[k].event
      BY <1>3 DEF Moves
    <2>9. \E k \in Msg : task'[k].event = r
      BY <2>3, <2>8 DEF Wins, Brought
    <2>10. Chosen(m)'
      BY <1>3, <2>4, <2>7, <2>8, <2>9 DEF Chosen
    <2> QED
      BY <1>1, <1>2, <1>3, <2>10, WinsByMove DEF IInv
  <1> QED
    BY <1>4, <1>5

\* The newest version wins: the deletion of a target.
LEMMA WinsByDelete ==
    ASSUME IInv, IInv', Wins, Ordered, NEW m \in Msg, DeleteTarget(m)
    PROVE  Wins'
  <1>1. /\ task[m].pc = "delete" /\ table' = table \ {task[m].found} /\ NextTag(m)
    BY DEF DeleteTarget, At
  <1>2. Moves(m) /\ task'[m].pc = "targets"
    BY <1>1, NextTagMoves DEF IInv
  <1>3. task[m].event \in Event /\ ~Settled(m) /\ ~Settled(m)'
    BY <1>1, <1>2 DEF IInv, Placed, Settled
  <1>4. Hits(task[m].event, task[m].found) /\ \E k \in Msg : task[k].event = task[m].found
    BY <1>1 DEF Wins, Chosen
  <1>5. Chosen(m)'
    BY <1>2 DEF Chosen
  <1> QED
    BY <1>1, <1>2, <1>3, <1>4, <1>5, WinsAfter DEF IInv

\* The newest version wins: an insertion.
LEMMA WinsBySave ==
    ASSUME IInv, IInv', Wins, Ordered, NEW m \in Msg, Store(m) \/ SaveReplacement(m)
    PROVE  Wins'
  <1>1. /\ task[m].pc \in {"store", "save"} /\ SaveEvent(m) /\ UNCHANGED bad
    BY DEF Store, SaveReplacement, At
  <1>2. task[m].event \in Event /\ ~Settled(m)
    BY <1>1, Active DEF Ended, Settled
  <1>3. /\ Moves(m) /\ task'[m].pc = "written"
        /\ table' = table \cup {task[m].event}
    BY <1>1, <1>2, SaveMoves DEF IInv, SaveEvent, EventOf
  <1>4. ~task'[m].failed
    <2>1. Return(m, "duplicate", FALSE, TRUE) \/ Return(m, "stored", FALSE, FALSE)
      BY <1>1 DEF SaveEvent
    <2> QED
      BY <2>1, ReturnMoves DEF IInv, Outcomes
  <1>5. Settled(m)' /\ Chosen(m)'
    BY <1>3, <1>4 DEF Settled, Chosen
  <1>6. Versioned(task[m].event) => Same(task[m].event, task[m].event)
    BY AlikeEvents DEF Same
  <1> QED
    BY <1>2, <1>3, <1>5, <1>6, WinsAfter DEF IInv

\* The newest version wins: ReplaceEvent.
LEMMA WinsByReplace ==
    ASSUME IInv, IInv', Wins, Ordered, Identified, NEW m \in Msg,
           BeginReplace(m) \/ FindPrevious(m) \/ DeletePrevious(m)
    PROVE  Wins'
  <1>1. /\ Moves(m) /\ task[m].pc \in {"previous", "deletePrevious", "lock"}
    BY ReplaceTypes
    DEF ReplaceStep, BeginReplace, FindPrevious, DeletePrevious, At
  <1>2. /\ task[m].event \in Event /\ Versioned(task[m].event) /\ ~Settled(m)
    BY <1>1 DEF IInv, Placed, Replacing, Settled
  <1>3. CASE UNCHANGED table /\ (Goto(m, "previous") \/ Goto(m, "save"))
    <2>1. task'[m].pc \in {"previous", "save"}
      BY <1>3, GotoMoves DEF IInv, Counter
    <2>2. Chosen(m)' /\ ~Settled(m)'
      BY <2>1 DEF Chosen, Settled
    <2> QED
      BY <1>1, <1>2, <1>3, <2>2, WinsByMove DEF IInv
  <1>4. CASE DeletePrevious(m)
    <2>1. task[m].pc = "deletePrevious" /\ table' = table \ {task[m].found} /\ Goto(m, "save")
      BY <1>4 DEF DeletePrevious, At
    <2>2. task'[m].pc = "save"
      BY <2>1, GotoMoves DEF IInv, Counter
    <2>3. Chosen(m)' /\ ~Settled(m)'
      BY <2>2 DEF Chosen, Settled
    <2>4. /\ GivesWay(task[m].found, task[m].event)
          /\ \E k \in Msg : task[k].event = task[m].found
      BY <2>1 DEF Wins, Chosen
    <2> QED
      BY <1>1, <1>2, <2>1, <2>2, <2>3, <2>4, WinsAfter DEF IInv
  <1>5. ASSUME NEW r \in RowsToReplace(task[m].event)
        PROVE  /\ r \in table /\ r \in Event
               /\ Clear(r) \/ Clear(task[m].event) => Alike(r, task[m].event)
    <2>1. r \in table /\ r \in Event
      BY DEF RowsToReplace, RowsAt, IInv, TypeOK
    <2>2. CASE task[m].event.class = "addressable"
      <3>1. /\ r.class = "addressable" /\ r.author = task[m].event.author
            /\ task[m].event.d \in r.values
        BY <2>2 DEF RowsToReplace, RowsAt
      <3>2. Clear(r) => Alike(r, task[m].event)
        BY <2>2, <3>1, <1>2, AlikeEvents DEF Clear, Unshared
      <3>3. Clear(task[m].event) => Alike(r, task[m].event)
        BY <2>1, <2>2, <3>1 DEF Clear, OwnTag
      <3> QED
        BY <2>1, <3>2, <3>3
    <2>3. CASE task[m].event.class = "replaceable"
      BY <2>1, <2>3 DEF RowsToReplace, Alike, Versioned
    <2> QED
      BY <1>2, <2>2, <2>3 DEF Versioned
  <1>6. ASSUME FindPrevious(m), NEW r \in RowsToReplace(task[m].event),
               IsOlder(r, task[m].event),
               task' = [task EXCEPT ![m].pc = "deletePrevious", ![m].found = r]
        PROVE  Wins'
    <2>1. r \in Event /\ GivesWay(r, task[m].event)
      BY <1>2, <1>5, <1>6, OlderIsPreceded DEF GivesWay
    <2>2. task'[m].pc = "deletePrevious" /\ task'[m].found = r
      BY <1>6, <2>1, FindMoves DEF IInv, Counter
    <2>6. \E k \in Msg : task'[k].event = r
      BY <1>1, <1>5 DEF Wins, Brought, Moves
    <2>3. Chosen(m)' /\ ~Settled(m)'
      BY <1>1, <2>1, <2>2, <2>6 DEF Chosen, Settled, Moves
    <2>4. UNCHANGED table
      BY <1>6 DEF FindPrevious
    <2>5. task[m].pc # "save"
      BY <1>1
    <2> QED
      BY <1>1, <1>2, <2>3, <2>4, <2>5, WinsByMove DEF IInv
  <1>7. ASSUME FindPrevious(m), NEW r \in RowsToReplace(task[m].event),
               ~IsOlder(r, task[m].event), Return(m, "superseded", FALSE, FALSE)
        PROVE  Wins'
    <2>1. r \in table /\ (Clear(task[m].event) => Same(r, task[m].event))
      BY <1>2, <1>5, <1>7, OlderIsPreceded
    <2>2. task'[m].pc = "written" /\ ~task'[m].failed
      BY <1>7, ReturnMoves DEF IInv, Outcomes
    <2>3. Chosen(m)' /\ Settled(m)'
      BY <2>2 DEF Chosen, Settled
    <2>4. UNCHANGED table /\ task[m].pc # "save"
      BY <1>1, <1>7 DEF FindPrevious
    <2> QED
      BY <1>1, <1>2, <2>1, <2>3, <2>4, WinsAfter DEF IInv
  <1> QED
    BY <1>3, <1>4, <1>6, <1>7, FirstIsARow DEF BeginReplace, FindPrevious, EventOf

\* The newest version wins: the answer.
LEMMA WinsByAnswer ==
    ASSUME IInv, IInv', Wins, Ordered, NEW m \in Msg, Answer(m)
    PROVE  Wins'
  <1>1. /\ task[m].pc = "written" /\ Goto(m, "answered") /\ UNCHANGED table
    BY DEF Answer, At
  <1>2. Moves(m) /\ task'[m].pc = "answered" /\ task'[m].failed = task[m].failed
    BY <1>1, GotoMoves, TagMoves DEF IInv, Counter
  <1>3. (Settled(m)' <=> Settled(m)) /\ Chosen(m)' /\ task[m].event \in Event
    BY <1>1, <1>2 DEF Settled, Chosen, IInv, Placed
  <1> QED
    BY <1>1, <1>2, <1>3, WinsByMove DEF IInv

\* The newest version wins: nothing happens.
LEMMA WinsByStutter == Wins /\ UNCHANGED vars => Wins'
  <1> SUFFICES ASSUME Wins, UNCHANGED vars PROVE Wins'
    OBVIOUS
  <1>1. task' = task /\ table' = table
    BY DEF vars
  <1>2. Brought'
    BY <1>1 DEF Wins, Brought, Settled
  <1>3. \A m \in Msg : Chosen(m)'
    BY <1>1 DEF Wins, Chosen
  <1>4. ASSUME NEW m \in Msg PROVE Standing(m)'
    <2>1. (Settled(m)' => Settled(m)) /\ (Undisturbed(task[m].event)' => Undisturbed(task[m].event))
      BY <1>1 DEF Settled, Undisturbed
    <2> QED
      BY <1>1, <2>1 DEF Wins, Standing
  <1> QED
    BY <1>2, <1>3, <1>4 DEF Wins

\* The newest version wins: every step.
LEMMA WInvStep ==
    ASSUME IInv, IInv', KInv, WInv, Identified, Ordered, [Next]_vars
    PROVE  WInv'
  <1>1. CASE UNCHANGED vars
    BY <1>1, WinsByStutter DEF WInv, NothingHappened, vars
  <1>2. CASE Next
    <2> SUFFICES ASSUME NothingHappened' PROVE Wins'
      BY DEF WInv
    <2>0. bad'.faults = 0 /\ bad'.breaks = 0 /\ bad'.crashes = 0
      BY DEF NothingHappened
    <2>1. /\ bad.faults = 0 /\ bad.breaks = 0 /\ ~Fault
          /\ \A m \in Msg : ~FindPreviousBreaks(m)
      BY <1>2, <2>0, NothingBad
    <2>2. ~Crash
      BY <2>0, BoundsAssumption DEF Crash, IInv, TypeOK
    <2>3. PICK m \in Msg :
              \/ Receive(m) \/ FindTarget(m) \/ DeleteTarget(m) \/ EndTargets(m) \/ RejectEvent(m)
              \/ CheckId(m) \/ CheckAddress(m) \/ Store(m) \/ SaveReplacement(m) \/ Answer(m)
              \/ BeginReplace(m) \/ FindPrevious(m) \/ DeletePrevious(m)
      BY <1>2, <2>1, <2>2
      DEF Next, Step, DeleteStep, CheckStep, WriteStep, FindTargetFails, DeleteTargetFails,
          CheckIdFails, CheckAddressFails, StoreFails, SaveFails, ReplaceFails
    <2>4. bad' = bad
      BY <2>3 DEF Receive, FindTarget, DeleteTarget, EndTargets, RejectEvent, CheckId, CheckAddress,
                  Store, SaveReplacement, Answer, BeginReplace, FindPrevious, DeletePrevious
    <2>5. Wins
      BY <2>0, <2>4 DEF WInv, NothingHappened
    <2> QED
      BY <2>3, <2>5, WinsByEarly, WinsByDelete, WinsBySave, WinsByReplace, WinsByAnswer
      DEF EarlyStep, CheckStep
  <1> QED
    BY <1>1, <1>2

-----------------------------------------------------------------------------
(* The theorems *)

\* The invariant stays true when nothing happens.
LEMMA StutterKeeps == IInv /\ UNCHANGED vars => IInv'
  BY DEF vars, IInv, TypeOK, Placed, Known, OnePerAddress, Reported, BroadcastIsNew, EventOf

\* Both invariants hold of every state.
LEMMA Inductive == Spec => [](IInv /\ KInv)
  <1>1. Init => IInv /\ KInv
    BY InitIInv, InitKInv DEF IInv, Init, OnePerAddress
  <1>2. IInv /\ KInv /\ [Next]_vars => IInv' /\ KInv'
    <2> SUFFICES ASSUME IInv, KInv, Next PROVE IInv' /\ KInv'
      BY StutterKeeps, KeptByStutter
    <2>1. CASE Crash
      BY <2>1, CrashKeeps, KeptByCrash
    <2>2. ASSUME NEW m \in Msg, EarlyStep(m) \/ ReplaceStep(m) \/ Answer(m)
          PROVE  IInv' /\ KInv'
      BY <2>2, EarlyKeeps, ReplaceKeeps, AnswerKeeps, KeptByEarly, KeptByReplace, KeptByAnswer
    <2>3. ASSUME NEW m \in Msg, DeleteTarget(m) \/ DeleteTargetFails(m)
          PROVE  IInv' /\ KInv'
      BY <2>3, DeleteTargetKeeps, KeptByDelete
    <2>4. ASSUME NEW m \in Msg,
                 \/ Store(m) \/ StoreFails(m) \/ SaveReplacement(m)
                 \/ At(m, "save") /\ SaveFails(m) /\ mutex' = Nobody
          PROVE  IInv' /\ KInv'
      BY <2>4, SaveKeeps, KeptBySave
    <2>5. \A m \in Msg : ReplaceFails(m) /\ At(m, "save") /\ SaveFails(m) => mutex' = Nobody
      BY DEF ReplaceFails
    <2> QED
      BY <2>1, <2>2, <2>3, <2>4, <2>5
      DEF Next, Step, DeleteStep, WriteStep, EarlyStep, ReplaceStep
  <1> QED
    BY <1>1, <1>2, PTL DEF Spec

\* The state is of its type in every reachable state.
THEOREM TypeCorrect == Spec => []TypeOK
  BY Inductive, PTL DEF IInv

\* At no moment does the table hold two rows of one address (replace.go:12-47),
\* however many messages replace, fail and die, when no scan has broken off
\* unnoticed: of a replaceable kind always, of an addressable one if the query
\* for the address tells its events from others (tags.go:56, query.go:132).
THEOREM AlwaysOnePerAddress == Spec => []OnePerAddress
  <1>1. IInv => OnePerAddress
    BY DEF IInv
  <1> QED
    BY <1>1, Inductive, PTL

\* Each broadcast of a regular event announces a row of its own, and "stored"
\* is reported for messages that inserted one (handlers.go, adding.go).
THEOREM BroadcastAlwaysNew == Spec => []BroadcastIsNew
  BY Inductive, PTL DEF IInv

\* A regular event that was answered OK is a row, over failures and deaths of
\* the process, as long as no deletion request that hits it has arrived
\* (adding.go, deleting.go).
THEOREM AcceptedAlwaysKept == Spec => []AcceptedIsKept
  <1>1. KInv => AcceptedIsKept
    BY DEF KInv, Kept, Unhit, AcceptedIsKept, Accepted, EventOf
  <1> QED
    BY <1>1, Inductive, PTL

\* Once a deletion request has been accepted, and as long as no other has been
\* sent against it, the rows that it names are of messages that ran beside it
\* (deleting.go, adding.go:28-58), when no statement has failed, through any
\* number of deaths: rows named by id, and those named by an address that a
\* query can find, which one of a replaceable kind is not.  An id is a hash of
\* the event: it names one event, and an event cannot name its own.
THEOREM DeletedAlwaysGone ==
    ASSUME Identified, Hashed
    PROVE  Spec => []DeletedIsGone
  <1>1. Init => GInv
    BY InitGone DEF GInv
  <1>2. IInv /\ KInv /\ GInv /\ [Next]_vars => GInv'
    BY GInvStep DEF GoneAssumptions
  <1>3. IInv /\ GInv => DeletedIsGone
    <2> SUFFICES ASSUME IInv, Gone, NEW d \in Msg, Accepted(d), Unhit(d),
                        NEW e \in table, Names(task[d].event, e),
                        OwnTag(e) \/ HasTag(task[d].event, [name |-> "e", id |-> e.id])
                 PROVE  Excused(d, e)
      BY DEF GInv, DeletedIsGone, EventOf, Excused, Beside
    <2>1. PICK i \in DOMAIN task[d].event.tags : NamesBy(task[d].event, e, i)
      BY NamedByATag
    <2>2. task[d].event.class = "deletion" /\ task[d].event.author = e.author
      BY DEF Names
    <2>3. i < task[d].tag
      <3>1. task[d].event \in Event /\ task[d].tag \in Nat
        BY TagMoves DEF IInv, Placed, Accepted
      <3>2. i \in Nat /\ i <= Len(task[d].event.tags) /\ Len(task[d].event.tags) \in Nat
        BY <3>1, TagIndex, TagAssumption
      <3>3. task[d].tag > Len(task[d].event.tags)
        BY <2>2 DEF Gone, Tagged, Accepted
      <3> QED
        BY <3>1, <3>2, <3>3
    <2> QED
      BY <2>1, <2>2, <2>3 DEF Gone, Searched, InForce, Accepted
  <1> QED
    BY <1>1, <1>2, <1>3, Inductive, PTL DEF Spec

\* Of the versions of an address that were accepted the newest stays, in
\* whatever order they arrive and interleave (replace.go:12-47), as long as no
\* statement has failed, no deletion request hits one of them, and the query
\* for an address of theirs tells its events from others (query.go:132).
THEOREM NewestAlwaysWins ==
    ASSUME Identified, Ordered
    PROVE  Spec => []NewestWins
  <1>1. Init => WInv
    BY DEF Init, WInv, Wins, Brought, Chosen, Standing, Settled
  <1>2. IInv /\ KInv /\ IInv' /\ WInv /\ [Next]_vars => WInv'
    BY WInvStep
  <1>3. IInv /\ WInv => NewestWins
    <2> SUFFICES ASSUME IInv, Wins, Running = {}, NEW m \in Msg, Accepted(m),
                        Versioned(task[m].event), Undisturbed(task[m].event),
                        \A n \in Msg : /\ Accepted(n) /\ Alike(task[n].event, task[m].event)
                                       /\ task[n].event # task[m].event
                                       => Precedes(task[m].event, task[n].event)
                 PROVE  task[m].event \in table
      BY DEF WInv, NothingHappened, NewestWins, EventOf, Undisturbed, Clear
    <2>1. \A n \in Msg : task[n].pc # "save"
      BY DEF Running
    <2>2. Settled(m) /\ task[m].event \in Event
      BY DEF Accepted, Settled, IInv, Placed
    <2>3. PICK r \in table : Same(r, task[m].event)
      BY <2>1, <2>2 DEF Wins, Standing
    <2>4. PICK n \in Msg : task[n].event = r /\ Settled(n)
      BY DEF Wins, Brought
    <2>5. Accepted(n)
      BY <2>4 DEF Settled, Accepted, Running
    <2>6. r \in Event
      BY DEF IInv, TypeOK
    <2>7. CASE r # task[m].event
      BY <2>2, <2>3, <2>4, <2>5, <2>6, <2>7 DEF Same, Precedes, Ordered
    <2> QED
      BY <2>7
  <1> QED
    BY <1>1, <1>2, <1>3, Inductive, PTL DEF Spec

=============================================================================
