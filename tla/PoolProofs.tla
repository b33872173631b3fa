----------------------------- MODULE PoolProofs -----------------------------
(***************************************************************************)
(* Safety of the parts of module Pool, each for every instance: one        *)
(* connection to a relay (PoolRelays), a subscription to a list of relays  *)
(* (PoolSubscribe), a fetch from all of them (PoolFetch) and the relay's   *)
(* end of a connection (Connection).  The parts do not meet; every section *)
(* has its own inductive invariant, which holds in the part's own          *)
(* behaviours and so in those of Pool.                                     *)
(***************************************************************************)
EXTENDS Pool, FiniteSetTheorems, TLAPS

-----------------------------------------------------------------------------
(* One connection to a relay *)

TaskStep == {"ensure", "load", "connect", "publish", "auth", "publishAgain", "done"}
TaskState == [pc : TaskStep, relay : Nat, result : {"none", "nil", "error"}]

TasksOK == attempts \in Nat /\ task \in [Task -> TaskState]

\* Whoever looks the relay up, or connects, holds the lock alone, and no
\* connection is up from the moment it has not found one until it makes one.
ConnInv ==
    /\ TasksOK
    /\ relay \in Nat
    /\ \A t \in Task : R!At(t, "load") \/ R!At(t, "connect") => lock = {t}
    /\ \A t \in Task : R!At(t, "connect") => relay \notin alive
    /\ R!OneConnection

\* One place of a function changes.
LEMMA OneChange ==
    ASSUME NEW A, NEW B, NEW f \in [A -> B], NEW x \in A, NEW v \in B, NEW h,
           h = [f EXCEPT ![x] = v]
    PROVE  /\ h \in [A -> B] /\ h[x] = v
           /\ \A y \in A : y # x => h[y] = f[y]
  OBVIOUS

\* One goroutine goes on to another step.
LEMMA TaskMoves ==
    ASSUME task \in [Task -> TaskState], NEW t \in Task, NEW pc \in TaskStep, NEW r \in Nat,
           NEW res \in {"none", "nil", "error"},
           task' = [task EXCEPT ![t].pc = pc, ![t].relay = r, ![t].result = res]
    PROVE  /\ task' \in [Task -> TaskState]
           /\ task'[t].pc = pc
           /\ \A u \in Task : u # t => task'[u] = task[u]
  <1> DEFINE old == task[t]
             new == [old EXCEPT !.pc = pc, !.relay = r, !.result = res]
  <1>1. new \in TaskState /\ new.pc = pc
    BY DEF TaskState
  <1>2. task' = [task EXCEPT ![t] = new]
    OBVIOUS
  <1>3. PICK w : w = new
    OBVIOUS
  <1>4. w \in TaskState /\ w.pc = pc /\ task' = [task EXCEPT ![t] = w]
    BY <1>1, <1>2, <1>3
  <1>5. /\ task' \in [Task -> TaskState] /\ task'[t] = w
        /\ \A u \in Task : u # t => task'[u] = task[u]
    BY ONLY task \in [Task -> TaskState], t \in Task, <1>4, OneChange
  <1> QED
    BY ONLY <1>4, <1>5

\* No step of the goroutines that publish makes a second connection.
LEMMA ConnStep ==
    ASSUME ConnInv, [R!Next]_(R!vars)
    PROVE  ConnInv'
  <1> USE DEF ConnInv, TasksOK, TaskStep, R!At, R!OneConnection, R!Absent
  <1>1. CASE UNCHANGED R!vars
    BY <1>1 DEF R!vars
  <1>2. CASE R!PenaltyEnds
    BY <1>2 DEF R!PenaltyEnds
  <1>3. CASE R!ConnectionEnds
    BY <1>3 DEF R!ConnectionEnds
  <1>4. ASSUME NEW t \in Task, R!Lock(t)
        PROVE  ConnInv'
    BY <1>4 DEF TaskState, R!Lock, R!TakeLock, R!Goto
  <1>5. ASSUME NEW t \in Task, R!LoadRelay(t)
        PROVE  ConnInv'
    <2>1. CASE relay \in alive
      BY <1>5, <2>1 DEF TaskState, R!LoadRelay
    <2>2. CASE relay \notin alive
      BY <1>5, <2>2 DEF TaskState, R!LoadRelay, R!Goto
    <2> QED
      BY <2>1, <2>2
  <1>6. ASSUME NEW t \in Task, R!Connect(t)
        PROVE  ConnInv'
    <2>1. /\ lock = {t} /\ alive = {}
          /\ attempts' = attempts + 1 /\ attempts + 1 \in Nat /\ attempts + 1 # 0
          /\ relay' = attempts + 1 /\ alive' = {attempts + 1}
          /\ task' = [task EXCEPT ![t].pc = "publish", ![t].relay = attempts + 1]
      BY <1>6 DEF R!Connect
    <2> DEFINE w == [task[t] EXCEPT !.pc = "publish", !.relay = attempts + 1]
    <2>2. task' = [task EXCEPT ![t] = w]
      BY <2>1
    <2>6. w \in TaskState /\ w.pc = "publish"
      <3>1. task[t] \in TaskState
        OBVIOUS
      <3> HIDE DEF ConnInv, TasksOK
      <3> QED
        BY <2>1, <3>1 DEF TaskState
    <2> HIDE DEF w
    <2>3. /\ task' \in [Task -> TaskState] /\ task'[t].pc = "publish"
          /\ \A u \in Task : u # t => task'[u] = task[u]
      <3>1. task \in [Task -> TaskState]
        OBVIOUS
      <3> HIDE DEF ConnInv, TasksOK
      <3>2. /\ task' \in [Task -> TaskState] /\ task'[t] = w
            /\ \A u \in Task : u # t => task'[u] = task[u]
        BY <2>2, <2>6, <3>1, OneChange, Zenon
      <3> QED
        BY <2>6, <3>2
    <2>4. \A u \in Task : u # t => task[u].pc # "load" /\ task[u].pc # "connect"
      BY <2>1
    <2>5. \A u \in Task : task'[u].pc # "load" /\ task'[u].pc # "connect"
      BY <2>3, <2>4
    <2> QED
      BY <2>1, <2>3, <2>5
  <1>7. ASSUME NEW t \in Task, R!ConnectFails(t)
        PROVE  ConnInv'
    <2>1. /\ lock = {t} /\ lock' = {} /\ UNCHANGED <<relay, alive>>
          /\ attempts' = attempts + 1 /\ attempts + 1 \in Nat
          /\ task' = [task EXCEPT ![t].pc = "done", ![t].result = "error"]
      BY <1>7 DEF R!ConnectFails, R!Result
    <2>2. task' = [task EXCEPT ![t].pc = "done", ![t].relay = task[t].relay,
                               ![t].result = "error"]
          /\ task[t].relay \in Nat
      BY <2>1 DEF TaskState
    <2>3. /\ task' \in [Task -> TaskState] /\ task'[t].pc = "done"
          /\ \A u \in Task : u # t => task'[u] = task[u]
      BY <2>1, <2>2, TaskMoves
    <2>4. \A u \in Task : u # t => task[u].pc # "load" /\ task[u].pc # "connect"
      BY <2>1
    <2>5. \A u \in Task : task'[u].pc # "load" /\ task'[u].pc # "connect"
      BY <2>3, <2>4
    <2> QED
      BY <2>1, <2>3, <2>5
  <1>8. ASSUME NEW t \in Task,
               R!Published(t) \/ R!PublishFails(t) \/ R!AuthRequired(t) \/ R!Authenticated(t)
        PROVE  ConnInv'
    BY <1>8 DEF TaskState, R!Published, R!PublishFails, R!AuthRequired, R!Authenticated, R!Result, R!Goto
  <1> QED
    BY <1>1, <1>2, <1>3, <1>4, <1>5, <1>6, <1>7, <1>8 DEF R!Next

\* The pool never has two live connections to one relay, and the live one is
\* the one it knows: EnsureRelay connects under the relay's lock, after it
\* has found none (pool.go:165-205).
THEOREM AlwaysOneConnection == Spec => []OneConnection
  <1>1. Init => ConnInv
    BY DEF Init, R!Init, ConnInv, TasksOK, TaskState, TaskStep, R!At, R!OneConnection, R!Absent
  <1>2. ConnInv /\ [Next]_vars => ConnInv'
    <2>1. [Next]_vars => [R!Next]_(R!vars)
      BY DEF Next, vars, relaysVars, R!vars
    <2> QED
      BY <2>1, ConnStep
  <1>3. ConnInv => OneConnection
    BY DEF ConnInv, OneConnection
  <1> QED
    BY <1>1, <1>2, <1>3, PTL DEF Spec

-----------------------------------------------------------------------------
(* A subscription to a list of relays *)

GStep == {"top", "ensure", "subscribe", "loop", "deliver", "leave", "last?", "eose", "ended"}
GState == [pc : GStep, eosed : BOOLEAN, hasAuthed : BOOLEAN]
Watcher == [waiting : BOOLEAN, woken : BOOLEAN]

\* The relays that have not been taken off the WaitGroup.
Owing == {i \in S!Started : ~g[i].eosed}

\* The WaitGroup counts the relays that owe an EOSE; one is taken off only if
\* it has sent EOSE, or its goroutine has ended; a watcher that has got the
\* EOSE of its relay may yet have to take it off.
SubInv ==
    /\ urls \in Lists
    /\ g \in [S!Started -> GState]
    /\ watchers \in [S!Started -> Watcher]
    /\ eoseWg = Cardinality(Owing)
    /\ eoseChan = "closed" => Owing = {}
    /\ \A i \in S!Started : g[i].eosed => i \in sawEose \/ g[i].pc = "ended"
    /\ \A i \in S!Started : watchers[i].woken => i \in sawEose

\* A fetch starts finitely many goroutines.
LEMMA StartedFinite == ASSUME urls \in Lists PROVE IsFiniteSet(S!Started)
  <1>1. urls \in Seq(STRING)
    BY InstancesAssumption DEF S!ListsAssumption
  <1>2. S!Index = 1..Len(urls) /\ Len(urls) \in Nat
    BY <1>1 DEF S!Index
  <1>3. IsFiniteSet(S!Index)
    BY <1>2, FS_Interval
  <1> QED
    BY <1>3, FS_Subset DEF S!Started

\* One field of a goroutine, or of a watcher, changes.
LEMMA GMoves ==
    ASSUME g \in [S!Started -> GState], NEW i \in S!Started, NEW pc \in GStep,
           NEW e \in BOOLEAN, NEW h \in BOOLEAN,
           g' = [g EXCEPT ![i].pc = pc, ![i].eosed = e, ![i].hasAuthed = h]
    PROVE  /\ g' \in [S!Started -> GState]
           /\ g'[i].pc = pc /\ g'[i].eosed = e
           /\ \A j \in S!Started : j # i => g'[j] = g[j]
  <1> DEFINE old == g[i]
             new == [old EXCEPT !.pc = pc, !.eosed = e, !.hasAuthed = h]
  <1>1. new \in GState /\ new.pc = pc /\ new.eosed = e
    BY DEF GState
  <1>2. g' = [g EXCEPT ![i] = new]
    OBVIOUS
  <1>3. PICK w : w = new
    OBVIOUS
  <1>4. w \in GState /\ w.pc = pc /\ w.eosed = e /\ g' = [g EXCEPT ![i] = w]
    BY <1>1, <1>2, <1>3
  <1>5. /\ g' \in [S!Started -> GState] /\ g'[i] = w
        /\ \A j \in S!Started : j # i => g'[j] = g[j]
    BY ONLY g \in [S!Started -> GState], i \in S!Started, <1>4, OneChange
  <1> QED
    BY ONLY <1>4, <1>5

\* A goroutine goes on, and stays on the WaitGroup or off it.
LEMMA GotoMoves ==
    ASSUME g \in [S!Started -> GState], NEW i \in S!Started, NEW l \in GStep, NEW h \in BOOLEAN,
           g' = [g EXCEPT ![i].pc = l, ![i].hasAuthed = h]
    PROVE  /\ g' \in [S!Started -> GState]
           /\ g'[i].pc = l /\ g'[i].eosed = g[i].eosed
           /\ \A j \in S!Started : j # i => g'[j] = g[j]
  <1> DEFINE old == g[i]
             new == [old EXCEPT !.pc = l, !.hasAuthed = h]
  <1>1. new \in GState /\ new.pc = l /\ new.eosed = g[i].eosed
    BY DEF GState
  <1>2. g' = [g EXCEPT ![i] = new]
    OBVIOUS
  <1> HIDE DEF new
  <1> QED
    BY <1>1, <1>2

\* A goroutine is woken or waits; the others are left alone.
LEMMA WatcherMoves ==
    ASSUME watchers \in [S!Started -> Watcher], NEW i \in S!Started,
           NEW wa \in BOOLEAN, NEW wo \in BOOLEAN,
           watchers' = [watchers EXCEPT ![i].waiting = wa, ![i].woken = wo]
    PROVE  /\ watchers' \in [S!Started -> Watcher]
           /\ watchers'[i].woken = wo
           /\ \A j \in S!Started : j # i => watchers'[j] = watchers[j]
  <1> DEFINE old == watchers[i]
             new == [old EXCEPT !.waiting = wa, !.woken = wo]
  <1>1. new \in Watcher /\ new.woken = wo
    BY DEF Watcher
  <1>2. watchers' = [watchers EXCEPT ![i] = new]
    OBVIOUS
  <1> HIDE DEF new
  <1> QED
    BY <1>1, <1>2

\* A step that takes no relay off the WaitGroup.
LEMMA SubKeeps ==
    ASSUME SubInv, UNCHANGED <<urls, eoseWg>>,
           g' \in [S!Started -> GState], watchers' \in [S!Started -> Watcher],
           eoseChan' = "closed" => eoseChan = "closed" \/ Owing = {},
           sawEose \subseteq sawEose',
           \A j \in S!Started : /\ g'[j].eosed = g[j].eosed
                                /\ g[j].pc = "ended" => g'[j].pc = "ended"
                                /\ watchers'[j].woken => watchers[j].woken \/ j \in sawEose'
    PROVE  SubInv'
  <1>1. S!Started' = S!Started
    BY DEF S!Started, S!Index, S!FirstOf
  <1>2. Owing' = Owing
    BY <1>1 DEF Owing
  <1> QED
    BY <1>1, <1>2 DEF SubInv

\* A goroutine goes on to another step, without a watcher that got an EOSE.
LEMMA GotoKeeps ==
    ASSUME SubInv, NEW i \in S!Started, NEW l \in GStep, g[i].pc # "ended",
           NEW h \in BOOLEAN, g' = [g EXCEPT ![i].pc = l, ![i].hasAuthed = h],
           UNCHANGED <<urls, eoseWg, eoseChan, sawEose>>,
           \/ UNCHANGED watchers
           \/ \E wa \in BOOLEAN : watchers' = [watchers EXCEPT ![i].waiting = wa]
    PROVE  SubInv'
  <1>2. /\ g' \in [S!Started -> GState] /\ g'[i].pc = l /\ g'[i].eosed = g[i].eosed
        /\ \A j \in S!Started : j # i => g'[j] = g[j]
    BY GotoMoves DEF SubInv
  <1>3. /\ watchers' \in [S!Started -> Watcher]
        /\ \A j \in S!Started : watchers'[j].woken = watchers[j].woken
    <2>1. CASE UNCHANGED watchers
      BY <2>1 DEF SubInv
    <2>2. ASSUME NEW wa \in BOOLEAN, watchers' = [watchers EXCEPT ![i].waiting = wa]
          PROVE  /\ watchers' \in [S!Started -> Watcher]
                 /\ \A j \in S!Started : watchers'[j].woken = watchers[j].woken
      <3>1. /\ watchers[i].woken \in BOOLEAN
            /\ watchers' = [watchers EXCEPT ![i].waiting = wa, ![i].woken = watchers[i].woken]
        BY <2>2 DEF SubInv, Watcher
      <3> QED
        BY <3>1, WatcherMoves DEF SubInv
    <2> QED
      BY <2>1, <2>2
  <1> QED
    BY <1>2, <1>3, SubKeeps

\* Taking a relay off the WaitGroup, once, when it is known to have sent EOSE
\* or its goroutine ends.
LEMMA DoneOnceKeeps ==
    ASSUME SubInv, NEW i \in S!Started, NEW gg, S!DoneOnce(i, gg),
           \/ gg = g /\ i \in sawEose
           \/ gg = [g EXCEPT ![i].pc = "ended"],
           UNCHANGED <<urls, eoseChan, sawEose>>,
           watchers' \in [S!Started -> Watcher],
           \A j \in S!Started : watchers'[j].woken => watchers[j].woken
    PROVE  SubInv'
  <1>1. /\ g \in [S!Started -> GState] /\ g[i] \in GState
        /\ g[i].pc \in GStep /\ g[i].eosed \in BOOLEAN /\ g[i].hasAuthed \in BOOLEAN
        /\ "ended" \in GStep
    BY DEF SubInv, GState, GStep
  <1>2. PICK pc \in GStep : /\ gg = [g EXCEPT ![i].pc = pc]
                            /\ pc = "ended" \/ (pc = g[i].pc /\ i \in sawEose)
    <2>1. g = [g EXCEPT ![i].pc = g[i].pc]
      BY <1>1 DEF GState
    <2> QED
      BY <1>1, <2>1
  <1>3. S!Started' = S!Started
    BY DEF S!Started, S!Index, S!FirstOf
  <1>4. CASE g[i].eosed
    <2>1. g' = gg /\ UNCHANGED eoseWg
      BY <1>4 DEF S!DoneOnce
    <2>2. g' = [g EXCEPT ![i].pc = pc, ![i].eosed = g[i].eosed, ![i].hasAuthed = g[i].hasAuthed]
      BY <2>1, <1>1, <1>2 DEF GState
    <2>3. /\ g' \in [S!Started -> GState] /\ g'[i].pc = pc /\ g'[i].eosed = g[i].eosed
          /\ \A j \in S!Started : j # i => g'[j] = g[j]
      BY <2>2, <1>1, GMoves
    <2> QED
      BY <2>1, <2>3, <1>2, SubKeeps
  <1>5. CASE ~g[i].eosed
    <2>1. g' = [gg EXCEPT ![i].eosed = TRUE] /\ eoseWg' = eoseWg - 1
      BY <1>5 DEF S!DoneOnce
    <2>2. g' = [g EXCEPT ![i].pc = pc, ![i].eosed = TRUE, ![i].hasAuthed = g[i].hasAuthed]
      BY <2>1, <1>1, <1>2 DEF GState
    <2>3. /\ g' \in [S!Started -> GState] /\ g'[i].pc = pc /\ g'[i].eosed = TRUE
          /\ \A j \in S!Started : j # i => g'[j] = g[j]
      BY <2>2, <1>1, GMoves
    <2>4. Owing' = Owing \ {i} /\ i \in Owing
      BY <2>3, <1>3, <1>5 DEF Owing
    <2>5. IsFiniteSet(Owing)
      BY StartedFinite, FS_Subset DEF SubInv, Owing
    <2>6. Cardinality(Owing') = Cardinality(Owing) - 1
      BY <2>4, <2>5, FS_RemoveElement
    <2>7. eoseChan # "closed"
      BY <2>4 DEF SubInv
    <2> QED
      BY <2>1, <2>3, <2>4, <2>6, <2>7, <1>2, <1>3 DEF SubInv
  <1> QED
    BY <1>4, <1>5

\* Every step of the subscription's goroutines keeps the invariant.
LEMMA SubStep ==
    ASSUME SubInv, [S!Next]_(S!vars)
    PROVE  SubInv'
  <1>1. CASE UNCHANGED S!vars
    BY <1>1, SubKeeps DEF S!vars, SubInv
  <1>2. CASE S!CancelContext
    BY <1>2, SubKeeps DEF S!CancelContext, SubInv
  <1>3. CASE S!CloseEoseChan
    <2>1. Owing = {}
      <3>1. IsFiniteSet(Owing)
        BY StartedFinite, FS_Subset DEF SubInv, Owing
      <3> QED
        BY <3>1, <1>3, FS_EmptySet DEF SubInv, S!CloseEoseChan
    <2> QED
      BY <2>1, <1>3, SubKeeps DEF S!CloseEoseChan, SubInv
  <1>4. ASSUME NEW i \in S!Started, NEW l \in GStep, S!Goto(i, l)
        PROVE  /\ g[i].hasAuthed \in BOOLEAN
               /\ g' = [g EXCEPT ![i].pc = l, ![i].hasAuthed = g[i].hasAuthed]
    BY <1>4 DEF S!Goto, SubInv, GState
  <1>5. ASSUME NEW i \in S!Started,
               S!Top(i) \/ S!Reconnect(i) \/ S!Subscribe(i) \/ S!ReceiveEvent(i) \/ S!Deliver(i)
                   \/ S!Leave(i) \/ S!DecPending(i) \/ S!CloseEvents(i)
        PROVE  SubInv'
    <2>1. /\ UNCHANGED <<urls, eoseWg, eoseChan, sawEose>>
          /\ g[i].pc # "ended"
          /\ UNCHANGED watchers \/ \E wa \in BOOLEAN : watchers' = [watchers EXCEPT ![i].waiting = wa]
          /\ \E l \in GStep : S!Goto(i, l)
      BY <1>5 DEF S!Top, S!Reconnect, S!Subscribe, S!ReceiveEvent, S!Deliver, S!Leave, S!DecPending,
                  S!CloseEvents, S!At, GStep
    <2> QED
      BY <2>1, <1>4, GotoKeeps
  <1>6. ASSUME NEW i \in S!Started, S!EnsureRelay(i) \/ S!Authenticate(i)
        PROVE  SubInv'
    <2>1. /\ UNCHANGED <<urls, eoseWg, eoseChan, sawEose>>
          /\ g[i].pc # "ended" /\ "subscribe" \in GStep
          /\ UNCHANGED watchers \/ \E wa \in BOOLEAN : watchers' = [watchers EXCEPT ![i].waiting = wa]
          /\ \E h \in BOOLEAN : g' = [g EXCEPT ![i].pc = "subscribe", ![i].hasAuthed = h]
      BY <1>6 DEF S!EnsureRelay, S!Authenticate, S!At, GStep
    <2> QED
      BY <2>1, GotoKeeps
  <1>7. ASSUME NEW i \in S!Started, S!RelaySendsEose(i)
        PROVE  SubInv'
    <2>1. /\ watchers' = [watchers EXCEPT ![i] = [waiting |-> FALSE, woken |-> TRUE]]
          /\ sawEose' = sawEose \cup {i} /\ UNCHANGED <<urls, eoseWg, eoseChan, g>>
      BY <1>7 DEF S!RelaySendsEose
    <2>2. [waiting |-> FALSE, woken |-> TRUE] \in Watcher
      BY DEF Watcher
    <2> DEFINE new == [waiting |-> FALSE, woken |-> TRUE]
    <2> HIDE DEF new
    <2>3. /\ watchers' \in [S!Started -> Watcher]
          /\ \A j \in S!Started : j # i => watchers'[j] = watchers[j]
      BY <2>1, <2>2 DEF SubInv
    <2> QED
      BY <2>1, <2>3, SubKeeps DEF SubInv
  <1>8. ASSUME NEW i \in S!Started, S!WatcherDone(i)
        PROVE  SubInv'
    <2>1. /\ watchers[i].woken /\ watchers[i].waiting \in BOOLEAN
          /\ watchers' = [watchers EXCEPT ![i].waiting = watchers[i].waiting, ![i].woken = FALSE]
          /\ S!DoneOnce(i, g) /\ UNCHANGED <<urls, eoseChan, sawEose>>
      BY <1>8 DEF S!WatcherDone, SubInv, Watcher
    <2>2. i \in sawEose
      BY <2>1 DEF SubInv
    <2>3. /\ watchers' \in [S!Started -> Watcher] /\ watchers'[i].woken = FALSE
          /\ \A j \in S!Started : j # i => watchers'[j] = watchers[j]
      BY <2>1, WatcherMoves DEF SubInv
    <2> QED
      BY <2>1, <2>2, <2>3, DoneOnceKeeps
  <1>9. ASSUME NEW i \in S!Started, S!EndGoroutine(i)
        PROVE  SubInv'
    BY <1>9, DoneOnceKeeps DEF S!EndGoroutine, SubInv
  <1> QED
    BY <1>1, <1>2, <1>3, <1>5, <1>6, <1>7, <1>8, <1>9 DEF S!Next

\* The channel that SubscribeManyNotifyEOSE closes is closed only when every
\* relay of the list has sent EOSE or has been given up, however often it was
\* subscribed to anew (pool.go: subMany), for every list and any failures.
THEOREM EoseAlwaysAll == Spec => []EoseIsAll
  <1>1. Init => SubInv
    <2> SUFFICES ASSUME S!Fresh PROVE SubInv
      BY DEF Init, NoSubscription, S!Init
    <2>1. g \in [S!Started -> GState] /\ watchers \in [S!Started -> Watcher]
      BY DEF S!Fresh, GState, GStep, Watcher
    <2>2. \A i \in S!Started : ~g[i].eosed /\ ~watchers[i].woken
      BY DEF S!Fresh
    <2>3. Owing = S!Started
      BY <2>2 DEF Owing
    <2>4. urls \in Lists /\ eoseWg = Cardinality(S!Started) /\ eoseChan # "closed"
      BY DEF S!Fresh, S!Cardinality, Cardinality
    <2> QED
      BY <2>1, <2>2, <2>3, <2>4 DEF SubInv
  <1>2. SubInv /\ [Next]_vars => SubInv'
    <2>1. [Next]_vars => [S!Next]_(S!vars)
      BY DEF Next, vars, subscribeVars, S!vars
    <2> QED
      BY <2>1, SubStep
  <1>3. SubInv => EoseIsAll
    BY DEF SubInv, Owing, EoseIsAll, S!EoseIsAll, S!At
  <1> QED
    BY <1>1, <1>2, <1>3, PTL DEF Spec

-----------------------------------------------------------------------------
(* A fetch from all relays, with every event once *)

FetchStep == {"start", "loop", "send", "eose", "left"}
FetchState == [pc : FetchStep, holds : SUBSET F!Copy]

FetchTypes ==
    /\ seen \subseteq F!Id
    /\ received \in [F!Id -> Nat]
    /\ toRead \in [Relay -> Seq(F!Copy)]
    /\ dispatched \in [Relay -> SUBSET F!Copy]
    /\ goroutine \in [Relay -> FetchState]

\* Copy e is on its way to the caller, in the subscription of relay u.
Carries(u, e) == e \in dispatched[u] \/ e \in goroutine[u].holds
OnItsWay(i) == \E u \in Relay : \E e \in F!Copy : Carries(u, e) /\ e.id = i

\* An event is on its way once, from when it is marked as seen until it is
\* received or wasted.
Travels ==
    /\ \A u \in Relay : goroutine[u].pc = "send" \/ goroutine[u].holds = {}
    /\ \A u \in Relay : goroutine[u].pc \in {"start", "eose", "left"} => dispatched[u] = {}
    /\ \A u, v \in Relay : \A e, f \in F!Copy :
        Carries(u, e) /\ Carries(v, f) /\ e.id = f.id => u = v /\ e = f
    /\ \A u \in Relay : dispatched[u] \cap goroutine[u].holds = {}
    /\ \A u \in Relay : \A e \in F!Copy : Carries(u, e) => e.id \in seen /\ received[e.id] = 0
    /\ \A i \in F!Id : received[i] <= 1 /\ (i \notin seen => received[i] = 0)
    /\ \A i \in seen : received[i] = 1 \/ i \in wasted \/ OnItsWay(i)

\* What a relay has stored is marked as seen, or it has yet to send it, which
\* it has not once it has sent EOSE.
Reads ==
    /\ \A u \in Relay : \A n \in DOMAIN Stored[u] :
        \/ Stored[u][n].id \in seen
        \/ u \notin eose /\ \E k \in DOMAIN toRead[u] : toRead[u][k] = Stored[u][n]
    /\ \A u \in Relay : goroutine[u].pc = "eose" => u \in eose
    /\ ctx = "over" => \A u \in Relay : goroutine[u].pc \in {"eose", "left"}

FetchInv == FetchTypes /\ Travels /\ Reads

\* Every copy has an id.
LEMMA IdsOfCopies == ASSUME NEW e \in F!Copy PROVE e.id \in F!Id
  BY DEF F!Id

\* A goroutine that ends its subscription wastes what is on its way in it.
LEMMA LeavingKeeps ==
    ASSUME FetchTypes, Travels, NEW u \in Relay, NEW l \in {"start", "eose", "left"},
           goroutine' = [goroutine EXCEPT ![u] = [pc |-> l, holds |-> {}]],
           dispatched' = [dispatched EXCEPT ![u] = {}],
           UNCHANGED <<seen, received>>, wasted \subseteq wasted',
           \A e \in F!Copy : Carries(u, e) => e.id \in wasted'
    PROVE  /\ dispatched' \in [Relay -> SUBSET F!Copy]
           /\ goroutine' \in [Relay -> FetchState]
           /\ Travels'
  <1> DEFINE new == [pc |-> l, holds |-> {}]
  <1>1. new \in FetchState /\ new.pc = l /\ new.holds = {}
    BY DEF FetchState, FetchStep
  <1>2. goroutine' = [goroutine EXCEPT ![u] = new]
    OBVIOUS
  <1> HIDE DEF new
  <1>3. /\ goroutine' \in [Relay -> FetchState] /\ dispatched' \in [Relay -> SUBSET F!Copy]
        /\ goroutine'[u].pc = l /\ goroutine'[u].holds = {} /\ dispatched'[u] = {}
        /\ \A v \in Relay : v # u => goroutine'[v] = goroutine[v] /\ dispatched'[v] = dispatched[v]
    BY <1>1, <1>2 DEF FetchTypes
  <1>4. \A v \in Relay : \A e : Carries(v, e)' <=> Carries(v, e) /\ v # u
    BY <1>3 DEF Carries
  <1>5. ASSUME NEW i \in seen, received[i] # 1, i \notin wasted'
        PROVE  OnItsWay(i)'
    <2>1. PICK v \in Relay, e \in F!Copy : Carries(v, e) /\ e.id = i
      BY <1>5 DEF Travels, OnItsWay
    <2>2. v # u
      BY <2>1, <1>5
    <2> QED
      BY <2>1, <2>2, <1>4 DEF OnItsWay
  <1>6. \A i \in seen' : received'[i] = 1 \/ i \in wasted' \/ OnItsWay(i)'
    BY <1>5
  <1> QED
    BY <1>3, <1>4, <1>6 DEF Travels

\* A subscription, in which nothing is on its way, starts.
LEMMA StartingKeeps ==
    ASSUME FetchTypes, Travels, NEW u \in Relay, goroutine[u].pc = "start",
           goroutine' = [goroutine EXCEPT ![u] = [pc |-> "loop", holds |-> {}]],
           UNCHANGED <<seen, received, dispatched, wasted>>
    PROVE  goroutine' \in [Relay -> FetchState] /\ Travels'
  <1> DEFINE new == [pc |-> "loop", holds |-> {}]
  <1>1. new \in FetchState /\ new.pc = "loop" /\ new.holds = {}
    BY DEF FetchState, FetchStep
  <1>2. goroutine' = [goroutine EXCEPT ![u] = new]
    OBVIOUS
  <1> HIDE DEF new
  <1>3. /\ goroutine' \in [Relay -> FetchState]
        /\ goroutine'[u].pc = "loop" /\ goroutine'[u].holds = {}
        /\ \A v \in Relay : v # u => goroutine'[v] = goroutine[v]
    BY <1>1, <1>2 DEF FetchTypes
  <1>4. goroutine[u].holds = {}
    BY DEF Travels
  <1>5. \A v \in Relay : \A e : Carries(v, e)' <=> Carries(v, e)
    BY <1>3, <1>4 DEF Carries
  <1>6. \A i : OnItsWay(i) => OnItsWay(i)'
    BY <1>5 DEF OnItsWay
  <1> QED
    BY <1>3, <1>4, <1>5, <1>6 DEF Travels

\* A reader passes on the first copy of an event, or wastes it, or drops one
\* of an event that is marked already.
LEMMA ReadingKeeps ==
    ASSUME FetchTypes, Travels, NEW u \in Relay, NEW e \in F!Copy,
           seen' = seen \cup {e.id}, UNCHANGED <<goroutine, received>>,
           \/ e.id \in seen /\ UNCHANGED <<dispatched, wasted>>
           \/ /\ e.id \notin seen /\ goroutine[u].pc \in {"loop", "send"}
              /\ dispatched' = [dispatched EXCEPT ![u] = @ \cup {e}] /\ UNCHANGED wasted
           \/ e.id \notin seen /\ UNCHANGED dispatched /\ wasted' = wasted \cup {e.id}
    PROVE  /\ seen' \subseteq F!Id /\ dispatched' \in [Relay -> SUBSET F!Copy]
           /\ Travels'
  <1>1. seen' \subseteq F!Id /\ e.id \in F!Id
    BY IdsOfCopies DEF FetchTypes
  <1>2. CASE e.id \in seen /\ UNCHANGED <<dispatched, wasted>>
    <2>1. seen' = seen
      BY <1>2
    <2>2. \A v \in Relay : \A f : Carries(v, f)' <=> Carries(v, f)
      BY <1>2 DEF Carries
    <2>3. \A i : OnItsWay(i) => OnItsWay(i)'
      BY <2>2 DEF OnItsWay
    <2> QED
      BY <1>1, <1>2, <2>1, <2>2, <2>3 DEF Travels, FetchTypes
  <1>3. CASE e.id \notin seen /\ UNCHANGED dispatched /\ wasted' = wasted \cup {e.id}
    <2>1. \A v \in Relay : \A f : Carries(v, f)' <=> Carries(v, f)
      BY <1>3 DEF Carries
    <2>2. \A i : OnItsWay(i) => OnItsWay(i)'
      BY <2>1 DEF OnItsWay
    <2> QED
      BY <1>1, <1>3, <2>1, <2>2 DEF Travels, FetchTypes
  <1>4. CASE /\ e.id \notin seen /\ goroutine[u].pc \in {"loop", "send"}
             /\ dispatched' = [dispatched EXCEPT ![u] = @ \cup {e}] /\ UNCHANGED wasted
    <2>1. /\ dispatched' \in [Relay -> SUBSET F!Copy]
          /\ dispatched'[u] = dispatched[u] \cup {e}
          /\ \A v \in Relay : v # u => dispatched'[v] = dispatched[v]
      BY <1>4 DEF FetchTypes
    <2>2. \A v \in Relay : \A f : Carries(v, f)' <=> Carries(v, f) \/ (v = u /\ f = e)
      BY <2>1 DEF Carries
    <2>3. ASSUME NEW v \in Relay, NEW f \in F!Copy, Carries(v, f) PROVE f.id # e.id
      BY <2>3, <1>4 DEF Travels
    <2>4. \A v, w \in Relay : \A f, h \in F!Copy :
            Carries(v, f)' /\ Carries(w, h)' /\ f.id = h.id => v = w /\ f = h
      BY <2>2, <2>3 DEF Travels
    <2>5. ~Carries(u, e)
      BY <2>3
    <2>6. \A v \in Relay : dispatched'[v] \cap goroutine'[v].holds = {}
      BY <2>1, <2>5 DEF Travels, Carries
    <2>7. \A v \in Relay : \A f \in F!Copy : Carries(v, f)' => f.id \in seen' /\ received'[f.id] = 0
      BY <2>2, <1>1, <1>4 DEF Travels
    <2>8. \A i : i = e.id \/ OnItsWay(i) => OnItsWay(i)'
      BY <2>2 DEF OnItsWay
    <2>9. \A v \in Relay : goroutine'[v].pc \in {"start", "eose", "left"} => dispatched'[v] = {}
      BY <2>1, <1>4 DEF Travels
    <2>10. \A i \in seen' : received'[i] = 1 \/ i \in wasted' \/ OnItsWay(i)'
      BY <2>8, <1>4 DEF Travels
    <2> QED
      BY <1>1, <2>1, <2>4, <2>6, <2>7, <2>9, <2>10 DEF Travels
  <1> QED
    BY <1>2, <1>3, <1>4

\* A subscription's goroutine takes a copy that waits for it.
LEMMA TakingKeeps ==
    ASSUME FetchTypes, Travels, NEW u \in Relay, NEW e \in dispatched[u], goroutine[u].pc = "loop",
           dispatched' = [dispatched EXCEPT ![u] = @ \ {e}],
           goroutine' = [goroutine EXCEPT ![u] = [pc |-> "send", holds |-> {e}]],
           UNCHANGED <<seen, received, wasted>>
    PROVE  /\ dispatched' \in [Relay -> SUBSET F!Copy]
           /\ goroutine' \in [Relay -> FetchState]
           /\ Travels'
  <1> DEFINE new == [pc |-> "send", holds |-> {e}]
  <1>0. e \in F!Copy
    BY DEF FetchTypes
  <1>1. new \in FetchState /\ new.pc = "send" /\ new.holds = {e}
    BY <1>0 DEF FetchState, FetchStep
  <1>2. goroutine' = [goroutine EXCEPT ![u] = new]
    OBVIOUS
  <1> HIDE DEF new
  <1>3. /\ goroutine' \in [Relay -> FetchState] /\ dispatched' \in [Relay -> SUBSET F!Copy]
        /\ goroutine'[u].pc = "send" /\ goroutine'[u].holds = {e}
        /\ dispatched'[u] = dispatched[u] \ {e}
        /\ \A v \in Relay : v # u => goroutine'[v] = goroutine[v] /\ dispatched'[v] = dispatched[v]
    BY <1>1, <1>2 DEF FetchTypes
  <1>4. goroutine[u].holds = {}
    BY DEF Travels
  <1>5. \A v \in Relay : \A f : Carries(v, f)' <=> Carries(v, f)
    BY <1>3, <1>4 DEF Carries
  <1>6. \A i : OnItsWay(i) => OnItsWay(i)'
    BY <1>5 DEF OnItsWay
  <1>7. \A v \in Relay : dispatched'[v] \cap goroutine'[v].holds = {}
    BY <1>3 DEF Travels
  <1> QED
    BY <1>3, <1>5, <1>6, <1>7 DEF Travels

\* The caller receives what a goroutine holds.
LEMMA SendingKeeps ==
    ASSUME FetchTypes, Travels, NEW u \in Relay, goroutine[u].pc = "send",
           received' = [i \in F!Id |-> received[i] + Cardinality({e \in goroutine[u].holds : e.id = i})],
           goroutine' = [goroutine EXCEPT ![u] = [pc |-> "loop", holds |-> {}]],
           UNCHANGED <<seen, dispatched, wasted>>
    PROVE  /\ received' \in [F!Id -> Nat]
           /\ goroutine' \in [Relay -> FetchState]
           /\ Travels'
  <1> DEFINE new == [pc |-> "loop", holds |-> {}]
             Held(i) == \E e \in goroutine[u].holds : e.id = i
  <1>1. new \in FetchState /\ new.pc = "loop" /\ new.holds = {}
    BY DEF FetchState, FetchStep
  <1>2. goroutine' = [goroutine EXCEPT ![u] = new]
    OBVIOUS
  <1> HIDE DEF new
  <1>3. /\ goroutine' \in [Relay -> FetchState]
        /\ goroutine'[u].pc = "loop" /\ goroutine'[u].holds = {}
        /\ \A v \in Relay : v # u => goroutine'[v] = goroutine[v]
    BY <1>1, <1>2 DEF FetchTypes
  <1>4. goroutine[u].holds \subseteq F!Copy
    BY DEF FetchTypes, FetchState
  <1>5. ASSUME NEW i \in F!Id
        PROVE  received'[i] = (IF Held(i) THEN 1 ELSE received[i]) /\ received'[i] \in Nat
    <2>1. CASE ~Held(i)
      <3>1. {e \in goroutine[u].holds : e.id = i} = {}
        BY <2>1
      <3>2. received[i] \in Nat
        BY DEF FetchTypes
      <3>3. received'[i] = received[i] + 0
        BY <3>1, FS_EmptySet
      <3> QED
        BY <3>2, <3>3, <2>1
    <2>2. CASE Held(i)
      <3>1. PICK e \in goroutine[u].holds : e.id = i
        BY <2>2
      <3>2. {f \in goroutine[u].holds : f.id = i} = {e}
        BY <3>1, <1>4 DEF Travels, Carries
      <3>3. received[i] = 0
        BY <3>1, <1>4 DEF Travels, Carries
      <3>4. received'[i] = received[i] + 1
        BY <3>2, FS_Singleton
      <3> QED
        BY <3>3, <3>4, <2>2
    <2> QED
      BY <2>1, <2>2
  <1>6. received' \in [F!Id -> Nat]
    <2>1. \A i \in F!Id : received'[i] \in Nat
      BY <1>5
    <2> QED
      BY <2>1
  <1>7. \A v \in Relay : \A e : Carries(v, e)' <=> e \in dispatched[v] \/ (v # u /\ e \in goroutine[v].holds)
    BY <1>3 DEF Carries
  <1>8. \A v \in Relay : \A e \in F!Copy : Carries(v, e)' => Carries(v, e) /\ ~Held(e.id)
    BY <1>7, <1>4 DEF Travels, Carries
  <1>9. \A v \in Relay : \A e \in F!Copy : Carries(v, e)' => e.id \in seen' /\ received'[e.id] = 0
    BY <1>8, <1>5, IdsOfCopies DEF Travels
  <1>10. \A i \in F!Id : Held(i) => i \in seen
    BY <1>4 DEF Travels, Carries
  <1>11. ASSUME NEW i \in seen', received'[i] # 1, i \notin wasted'
         PROVE  OnItsWay(i)'
    <2>1. i \in F!Id /\ ~Held(i) /\ received[i] # 1
      BY <1>11, <1>5 DEF FetchTypes
    <2>2. PICK v \in Relay, e \in F!Copy : Carries(v, e) /\ e.id = i
      BY <2>1, <1>11 DEF Travels, OnItsWay
    <2>3. Carries(v, e)'
      BY <2>1, <2>2, <1>7 DEF Carries
    <2> QED
      BY <2>2, <2>3 DEF OnItsWay
  <1>12. \A i \in F!Id : received'[i] <= 1 /\ (i \notin seen' => received'[i] = 0)
    BY <1>5, <1>10 DEF Travels
  <1>13. \A i \in seen' : received'[i] = 1 \/ i \in wasted' \/ OnItsWay(i)'
    BY <1>11
  <1>14. \A v \in Relay : dispatched'[v] \cap goroutine'[v].holds = {}
    BY <1>3 DEF Travels
  <1>15. /\ \A v \in Relay : goroutine'[v].pc = "send" \/ goroutine'[v].holds = {}
         /\ \A v \in Relay : goroutine'[v].pc \in {"start", "eose", "left"} => dispatched'[v] = {}
    BY <1>3 DEF Travels
  <1>16. \A v, w \in Relay : \A e, f \in F!Copy :
            Carries(v, e)' /\ Carries(w, f)' /\ e.id = f.id => v = w /\ e = f
    BY <1>8 DEF Travels
  <1> QED
    BY <1>3, <1>6, <1>9, <1>12, <1>13, <1>14, <1>15, <1>16 DEF Travels

\* Marking what a reader takes from its relay keeps the account of what is read.
LEMMA ReadsOn ==
    ASSUME FetchTypes, Reads, NEW u \in Relay, toRead[u] # <<>>,
           toRead' = [toRead EXCEPT ![u] = Tail(@)],
           seen' = seen \cup {Head(toRead[u]).id},
           UNCHANGED <<ctx, eose, goroutine>>
    PROVE  toRead' \in [Relay -> Seq(F!Copy)] /\ Reads'
  <1> DEFINE s == toRead[u]
  <1>1. s \in Seq(F!Copy) /\ s # <<>>
    BY DEF FetchTypes
  <1>2. /\ Tail(s) \in Seq(F!Copy) /\ Len(Tail(s)) = Len(s) - 1 /\ Len(s) \in Nat
        /\ \A k \in 1..Len(Tail(s)) : Tail(s)[k] = s[k + 1]
        /\ DOMAIN s = 1..Len(s) /\ DOMAIN Tail(s) = 1..Len(Tail(s)) /\ Head(s) = s[1]
    BY <1>1
  <1>3. /\ toRead' \in [Relay -> Seq(F!Copy)] /\ toRead'[u] = Tail(s)
        /\ \A v \in Relay : v # u => toRead'[v] = toRead[v]
    BY <1>2 DEF FetchTypes
  <1>4. ASSUME NEW v \in Relay, NEW n \in DOMAIN Stored[v], Stored[v][n].id \notin seen'
        PROVE  v \notin eose' /\ \E k \in DOMAIN toRead'[v] : toRead'[v][k] = Stored[v][n]
    <2>1. v \notin eose /\ Stored[v][n].id # Head(s).id
      BY <1>4 DEF Reads
    <2>2. PICK k \in DOMAIN toRead[v] : toRead[v][k] = Stored[v][n]
      BY <1>4 DEF Reads
    <2>3. CASE v # u
      BY <2>1, <2>2, <2>3, <1>3
    <2>4. CASE v = u
      <3>1. k # 1 /\ k \in 1..Len(s)
        BY <2>1, <2>2, <2>4, <1>2
      <3>2. k - 1 \in 1..Len(Tail(s)) /\ Tail(s)[k - 1] = s[k]
        BY <3>1, <1>2
      <3> QED
        BY <3>2, <2>1, <2>2, <2>4, <1>2, <1>3
    <2> QED
      BY <2>3, <2>4
  <1> QED
    BY <1>3, <1>4 DEF Reads

\* A goroutine goes on, and not to "eose" before its relay has sent it.
LEMMA ReadsStay ==
    ASSUME FetchTypes, Reads, NEW u \in Relay, NEW l \in FetchStep, NEW h,
           l = "eose" => u \in eose, goroutine[u].pc \notin {"eose", "left"},
           goroutine' = [goroutine EXCEPT ![u] = [pc |-> l, holds |-> h]],
           UNCHANGED <<ctx, eose, toRead, seen>>
    PROVE  Reads'
  <1> DEFINE new == [pc |-> l, holds |-> h]
  <1>1. new.pc = l /\ goroutine' = [goroutine EXCEPT ![u] = new]
    OBVIOUS
  <1> HIDE DEF new
  <1>2. /\ goroutine'[u].pc = l
        /\ \A v \in Relay : v # u => goroutine'[v] = goroutine[v]
    BY <1>1 DEF FetchTypes
  <1>3. ctx # "over"
    BY DEF Reads
  <1> QED
    BY <1>2, <1>3 DEF Reads

\* Every step of a fetch keeps the invariant.
LEMMA FetchInvStep ==
    ASSUME FetchInv, mode = "ids", [F!Next]_(F!vars)
    PROVE  FetchInv' /\ mode' = "ids"
  <1> USE DEF FetchInv
  <1>0. \A u \in Relay : /\ goroutine[u].pc \in FetchStep
                         /\ dispatched[u] \subseteq F!Copy /\ goroutine[u].holds \subseteq F!Copy
    BY DEF FetchTypes, FetchState
  <1>1. CASE UNCHANGED F!vars
    BY <1>1 DEF F!vars, FetchTypes, Travels, Reads, OnItsWay, Carries
  <1>2. CASE F!CancelContext
    BY <1>2 DEF F!CancelContext, FetchTypes, Travels, Reads, OnItsWay, Carries
  <1>3. CASE F!FetchEnds
    BY <1>3 DEF F!FetchEnds, F!Left, F!At, FetchTypes, Travels, Reads, OnItsWay, Carries
  <1>4. ASSUME NEW u \in Relay, F!Subscribe(u)
        PROVE  FetchInv' /\ mode' = "ids"
    <2>1. Reads'
      BY <1>4, ReadsStay DEF F!Subscribe, F!At, F!Goto, FetchStep
    <2> QED
      BY <1>4, <2>1, StartingKeeps DEF F!Subscribe, F!At, F!Goto, FetchTypes
  <1>5. ASSUME NEW u \in Relay, F!SubscribeFails(u)
        PROVE  FetchInv' /\ mode' = "ids"
    <2>1. Reads'
      BY <1>5, ReadsStay DEF F!SubscribeFails, F!At, F!Goto, FetchStep
    <2>2. dispatched[u] = {} /\ goroutine[u].holds = {}
      BY <1>5 DEF F!SubscribeFails, F!At, Travels
    <2>3. dispatched' = [dispatched EXCEPT ![u] = {}] /\ \A e \in F!Copy : ~Carries(u, e)
      BY <1>5, <2>2 DEF F!SubscribeFails, FetchTypes, Carries
    <2> QED
      BY <1>5, <2>1, <2>3, LeavingKeeps DEF F!SubscribeFails, F!At, F!Goto, FetchTypes
  <1>6. ASSUME NEW u \in Relay, F!ReadCopy(u)
        PROVE  FetchInv' /\ mode' = "ids"
    <2> DEFINE e == Head(toRead[u])
    <2>1. toRead[u] # <<>> /\ toRead[u] \in Seq(F!Copy)
      BY <1>6 DEF F!ReadCopy, FetchTypes
    <2>2. e \in F!Copy
      BY <2>1
    <2>3. /\ toRead' = [toRead EXCEPT ![u] = Tail(@)] /\ seen' = seen \cup {e.id}
          /\ UNCHANGED <<mode, ctx, eose, goroutine, received>>
      BY <1>6 DEF F!ReadCopy, F!Mark
    <2>4. toRead' \in [Relay -> Seq(F!Copy)] /\ Reads'
      BY <2>1, <2>3, ReadsOn
    <2>5. \/ e.id \in seen /\ UNCHANGED <<dispatched, wasted>>
          \/ /\ e.id \notin seen /\ goroutine[u].pc \in {"loop", "send"}
             /\ dispatched' = [dispatched EXCEPT ![u] = @ \cup {e}] /\ UNCHANGED wasted
          \/ e.id \notin seen /\ UNCHANGED dispatched /\ wasted' = wasted \cup {e.id}
      <3>1. CASE e.id \in seen
        BY <1>6, <3>1 DEF F!ReadCopy, F!Drops
      <3>2. CASE e.id \notin seen /\ e.good /\ ~F!Left(u)
        BY <1>6, <1>0, <3>2 DEF F!ReadCopy, F!Drops, F!Left, F!Subscribed, F!At, FetchStep
      <3>3. CASE e.id \notin seen /\ ~(e.good /\ ~F!Left(u))
        BY <1>6, <3>3 DEF F!ReadCopy, F!Drops
      <3> QED
        BY <3>1, <3>2, <3>3
    <2> HIDE DEF e
    <2>6. seen' \subseteq F!Id /\ dispatched' \in [Relay -> SUBSET F!Copy] /\ Travels'
      BY <2>2, <2>3, <2>5, ReadingKeeps
    <2> QED
      BY <2>3, <2>4, <2>6 DEF FetchTypes
  <1>7. ASSUME NEW u \in Relay, F!ReadEose(u)
        PROVE  FetchInv' /\ mode' = "ids"
    <2>1. /\ toRead[u] = <<>> /\ eose' = eose \cup {u}
          /\ toRead' = [toRead EXCEPT ![u] = Live[u]]
          /\ UNCHANGED <<mode, ctx, seen, dispatched, goroutine, received, wasted>>
      BY <1>7 DEF F!ReadEose
    <2>2. Live[u] \in Seq(F!Copy)
      BY InstancesAssumption DEF F!CopyAssumption
    <2>3. FetchTypes'
      BY <2>1, <2>2 DEF FetchTypes
    <2>4. \A n \in DOMAIN Stored[u] : Stored[u][n].id \in seen
      BY <2>1 DEF Reads
    <2>5. Reads'
      BY <2>1, <2>4 DEF Reads, FetchTypes
    <2>6. Travels'
      BY <2>1 DEF Travels, OnItsWay, Carries
    <2> QED
      BY <2>1, <2>3, <2>5, <2>6
  <1>8. ASSUME NEW u \in Relay, F!LeaveAtEose(u)
        PROVE  FetchInv' /\ mode' = "ids"
    <2>1. Reads'
      BY <1>8, ReadsStay DEF F!LeaveAtEose, F!At, F!Goto, FetchStep
    <2>2. wasted' = wasted \cup F!Ids(dispatched[u]) /\ goroutine[u].holds = {}
      BY <1>8 DEF F!LeaveAtEose, F!At, Travels
    <2>3. \A e \in F!Copy : Carries(u, e) => e.id \in wasted'
      BY <2>2 DEF Carries, F!Ids
    <2> QED
      BY <1>8, <2>1, <2>2, <2>3, LeavingKeeps DEF F!LeaveAtEose, F!At, F!Goto, FetchTypes
  <1>9. ASSUME NEW u \in Relay, F!Leave(u)
        PROVE  FetchInv' /\ mode' = "ids"
    <2>1. Reads'
      BY <1>9, ReadsStay DEF F!Leave, F!At, F!Goto, FetchStep
    <2>2. wasted' = wasted \cup F!Ids(dispatched[u] \cup goroutine[u].holds)
      BY <1>9 DEF F!Leave
    <2>3. \A e \in F!Copy : Carries(u, e) => e.id \in wasted'
      BY <2>2 DEF Carries, F!Ids
    <2> QED
      BY <1>9, <2>1, <2>2, <2>3, LeavingKeeps DEF F!Leave, F!At, F!Goto, FetchTypes
  <1>10. ASSUME NEW u \in Relay, F!Authenticate(u)
         PROVE  FetchInv' /\ mode' = "ids"
    <2>1. /\ goroutine[u].pc = "loop"
          /\ toRead' = [toRead EXCEPT ![u] = Stored[u]] /\ eose' = eose \ {u}
          /\ goroutine' = [goroutine EXCEPT ![u] = [pc |-> "start", holds |-> {}]]
          /\ dispatched' = [dispatched EXCEPT ![u] = {}]
          /\ wasted' = wasted \cup F!Ids(dispatched[u])
          /\ UNCHANGED <<mode, ctx, seen, received>>
      BY <1>10 DEF F!Authenticate, F!At, F!Goto
    <2>2. goroutine[u].holds = {}
      BY <2>1 DEF Travels
    <2>3. \A e \in F!Copy : Carries(u, e) => e.id \in wasted'
      BY <2>1, <2>2 DEF Carries, F!Ids
    <2>4. /\ dispatched' \in [Relay -> SUBSET F!Copy] /\ goroutine' \in [Relay -> FetchState]
          /\ Travels'
      BY <2>1, <2>3, LeavingKeeps
    <2>5. Stored[u] \in Seq(F!Copy)
      BY InstancesAssumption DEF F!CopyAssumption
    <2>6. FetchTypes'
      BY <2>1, <2>4, <2>5 DEF FetchTypes
    <2>7. /\ goroutine'[u].pc = "start" /\ toRead'[u] = Stored[u]
          /\ \A v \in Relay : v # u => goroutine'[v] = goroutine[v] /\ toRead'[v] = toRead[v]
      BY <2>1 DEF FetchTypes
    <2>8. ctx # "over"
      BY <2>1 DEF Reads
    <2>9. Reads'
      BY <2>1, <2>7, <2>8 DEF Reads
    <2> QED
      BY <2>1, <2>4, <2>6, <2>9
  <1>11. ASSUME NEW u \in Relay, F!TakeEvent(u)
         PROVE  FetchInv' /\ mode' = "ids"
    <2>1. PICK e \in dispatched[u] :
              /\ dispatched' = [dispatched EXCEPT ![u] = @ \ {e}]
              /\ goroutine' = [goroutine EXCEPT ![u] = [pc |-> "send", holds |-> {e}]]
      BY <1>11 DEF F!TakeEvent
    <2>2. Reads'
      BY <1>11, <2>1, ReadsStay DEF F!TakeEvent, F!At, FetchStep
    <2> QED
      BY <1>11, <2>1, <2>2, TakingKeeps DEF F!TakeEvent, F!At, FetchTypes
  <1>12. ASSUME NEW u \in Relay, F!SendEvent(u)
         PROVE  FetchInv' /\ mode' = "ids"
    <2>1. Reads'
      BY <1>12, ReadsStay DEF F!SendEvent, F!At, F!Goto, FetchStep
    <2>2. received' = [i \in F!Id |-> received[i] + Cardinality({e \in goroutine[u].holds : e.id = i})]
      BY <1>12 DEF F!SendEvent, F!Cardinality, Cardinality
    <2> QED
      BY <1>12, <2>1, <2>2, SendingKeeps DEF F!SendEvent, F!At, F!Goto, FetchTypes
  <1> QED
    BY <1>1, <1>2, <1>3, <1>4, <1>5, <1>6, <1>7, <1>8, <1>9, <1>10, <1>11, <1>12 DEF F!Next

\* FetchMany gives its caller every event that a relay has stored, once: the
\* map shared by the relays' readers lets one copy of it through, and it is
\* received unless that copy is wasted (pool.go: subManyEose, with seenAlready).
THEOREM FetchAlwaysUnion == Spec => []FetchIsUnion
  <1> DEFINE Inv == mode = "ids" => FetchInv
  <1>1. Init => Inv
    <2> SUFFICES ASSUME F!Init PROVE FetchInv
      BY DEF Init
    <2>1. /\ \A u \in Relay : /\ goroutine[u].pc = "start" /\ goroutine[u].holds = {}
                              /\ goroutine[u] \in FetchState
                              /\ dispatched[u] = {} /\ toRead[u] = Stored[u]
          /\ goroutine \in [Relay -> FetchState]
          /\ seen = {} /\ eose = {} /\ ctx = "live"
          /\ received \in [F!Id -> Nat] /\ \A i \in F!Id : received[i] = 0
      BY DEF F!Init, FetchState, FetchStep
    <2>2. toRead \in [Relay -> Seq(F!Copy)] /\ dispatched \in [Relay -> SUBSET F!Copy]
      BY InstancesAssumption DEF F!Init, F!CopyAssumption
    <2> QED
      BY <2>1, <2>2 DEF FetchInv, FetchTypes, Travels, Reads, OnItsWay, Carries
  <1>2. Inv /\ [Next]_vars => Inv'
    <2> SUFFICES ASSUME Inv, [Next]_vars PROVE Inv'
      OBVIOUS
    <2>1. [F!Next]_(F!vars)
      BY DEF Next, vars, fetchVars, F!vars
    <2>2. mode' = mode
      BY <2>1 DEF F!Next, F!vars, F!CancelContext, F!FetchEnds, F!Subscribe, F!SubscribeFails,
                  F!ReadCopy, F!ReadEose, F!LeaveAtEose, F!Leave, F!Authenticate, F!TakeEvent, F!SendEvent
    <2> QED
      BY <2>1, <2>2, FetchInvStep
  <1>3. Inv => FetchIsUnion
    <2> SUFFICES ASSUME FetchInv, mode = "ids"
                 PROVE  /\ \A i \in F!Id : received[i] <= 1
                        /\ \A u \in Relay : \A n \in DOMAIN Stored[u] :
                            ctx = "over" /\ F!At(u, "eose") =>
                                LET i == Stored[u][n].id IN received[i] = 1 \/ i \in wasted
      BY DEF FetchIsUnion, F!FetchIsUnion
    <2>1. \A i \in F!Id : received[i] <= 1
      BY DEF FetchInv, Travels
    <2>2. ASSUME NEW u \in Relay, NEW n \in DOMAIN Stored[u], ctx = "over", F!At(u, "eose")
          PROVE  received[Stored[u][n].id] = 1 \/ Stored[u][n].id \in wasted
      <3> DEFINE i == Stored[u][n].id
      <3>1. i \in seen
        BY <2>2 DEF FetchInv, Reads, F!At
      <3>2. \A v \in Relay : dispatched[v] = {} /\ goroutine[v].holds = {}
        BY <2>2 DEF FetchInv, Reads, Travels
      <3>3. ~OnItsWay(i)
        BY <3>2 DEF OnItsWay, Carries
      <3> QED
        BY <3>1, <3>3 DEF FetchInv, Travels
    <2> QED
      BY <2>1, <2>2
  <1> QED
    BY <1>1, <1>2, <1>3, PTL DEF Spec

-----------------------------------------------------------------------------
(* The relay's end of a connection *)

\* No goroutine that writes is called as the loops are.
LEMMA WriterNames == Writer \cap {"reader", "pinger", "nobody"} = {}
  BY InstancesAssumption DEF K!WriterAssumption

\* p has run the OnDisconnect hooks.
Hooked(p) == process[p] \in {"cancel", "close", "remove", "ended"}

One(b) == IF b THEN 1 ELSE 0

\* The steps of kill come in order, on either goroutine.
KillOrder ==
    \A p \in K!Loop :
        /\ process[p] \in {"close", "remove", "ended"} => socketDone
        /\ process[p] \in {"remove", "ended"} => socket = "closed"
        /\ process[p] = "ended" => ~registered

\* What the metrics have counted.
Counted ==
    /\ metrics.opens = One(process["reader"] # "start")
    /\ metrics.closes = One(Hooked("reader")) + One(Hooked("pinger"))
    /\ metrics.connections = metrics.opens - metrics.closes
    /\ metrics.durations + One(metrics.started) = metrics.opens
    /\ Hooked("reader") => ~metrics.started

KillInv == K!TypeOK /\ K!OneWriter /\ KillOrder /\ Counted

\* The program counter of a process other than the one that moves is kept.
LEMMA CounterMoves ==
    ASSUME K!TypeOK, NEW p \in K!Process, NEW l, K!Goto(p, l)
    PROVE  /\ process'[p] = l
           /\ \A q \in K!Process : q # p => process'[q] = process[q]
           /\ process' = [process EXCEPT ![p] = l]
  BY DEF K!TypeOK, K!Goto

\* HandleWebsocket starts with nothing counted and nobody writing.
LEMMA KillBegins == K!Init => KillInv
  <1> SUFFICES ASSUME K!Init PROVE KillInv
    OBVIOUS
  <1>1. /\ "reader" \in K!Process /\ "pinger" \in K!Process
        /\ process["reader"] = "start" /\ process["pinger"] = "loop"
        /\ \A w \in Writer : w \in K!Process /\ process[w] = "idle"
        /\ process \in [K!Process -> {"start", "loop", "idle"}]
    <2>1. /\ "reader" \in K!Process /\ "pinger" \in K!Process
          /\ \A w \in Writer : w \in K!Process /\ w # "reader" /\ w # "pinger"
      BY WriterNames DEF K!Process, K!Loop
    <2>2. \A p \in K!Process : process[p] = IF p = "reader" THEN "start"
                                    ELSE IF p = "pinger" THEN "loop" ELSE "idle"
      BY DEF K!Init
    <2>3. process = [p \in K!Process |-> process[p]]
      BY DEF K!Init
    <2>4. process \in [K!Process -> {"start", "loop", "idle"}]
      BY <2>2, <2>3
    <2> QED
      BY <2>1, <2>2, <2>4
  <1>2. K!TypeOK
    <2>1. /\ peer = "reading" /\ socket = "open" /\ socketDone = FALSE /\ registered = TRUE
          /\ writeMutex = K!Nobody
          /\ metrics = [started |-> FALSE, connections |-> 0, opens |-> 0,
                        closes |-> 0, durations |-> 0]
      BY DEF K!Init
    <2>2. metrics \in [started : BOOLEAN, connections : -1..1, opens : 0..1,
                       closes : 0..2, durations : 0..1]
      BY <2>1
    <2>3. process \in [K!Process -> {"start", "idle", "loop", "lock", "write", "done",
                             "kill", "cancel", "close", "remove", "ended"}]
      BY <1>1
    <2> QED
      BY <1>1, <2>1, <2>2, <2>3 DEF K!TypeOK
  <1>3. K!OneWriter
    BY <1>1, WriterNames DEF K!Init, K!OneWriter, K!Nobody
  <1>4. KillOrder
    BY <1>1 DEF KillOrder, K!Loop
  <1>5. Counted
    BY <1>1 DEF K!Init, Counted, Hooked, One
  <1> QED
    BY <1>2, <1>3, <1>4, <1>5 DEF KillInv

\* A connection that has ended has run all of both kills.
LEMMA ConnectionOver == NoConnection => KillInv
  <1> SUFFICES ASSUME NoConnection PROVE KillInv
    OBVIOUS
  <1>1. /\ "reader" \in K!Process /\ "pinger" \in K!Process
        /\ process["reader"] = "ended" /\ process["pinger"] = "ended"
        /\ \A w \in Writer : process[w] = "done" /\ w # K!Nobody /\ w # "pinger"
        /\ process \in [K!Process -> {"ended", "done"}]
    BY WriterNames DEF NoConnection, K!Process, K!Loop, K!Nobody
  <1>2. metrics = [started |-> FALSE, connections |-> -1, opens |-> 1, closes |-> 2, durations |-> 1]
    BY DEF NoConnection
  <1>3. metrics \in [started : BOOLEAN, connections : -1..1, opens : 0..1,
                     closes : 0..2, durations : 0..1]
    BY <1>2
  <1>4. K!TypeOK
    BY <1>1, <1>3 DEF NoConnection, K!TypeOK
  <1>5. K!OneWriter
    BY <1>1 DEF NoConnection, K!OneWriter, K!Nobody
  <1>6. KillOrder
    BY DEF NoConnection, KillOrder
  <1>7. Counted
    BY <1>1, <1>2 DEF Counted, Hooked, One
  <1> QED
    BY <1>4, <1>5, <1>6, <1>7 DEF KillInv

\* The peer's coming and going changes nothing the invariant speaks of.
LEMMA PeerKeeps ==
    ASSUME KillInv, K!PeerStalls \/ K!PeerResumes \/ K!PeerGoes
    PROVE  KillInv'
  <1>1. /\ peer' \in {"reading", "deaf", "stalled", "gone"}
        /\ UNCHANGED <<socket, socketDone, registered, process, writeMutex, metrics>>
    BY DEF K!PeerStalls, K!PeerResumes, K!PeerGoes
  <1>2. K!TypeOK'
    BY <1>1 DEF KillInv, K!TypeOK
  <1> QED
    BY <1>1, <1>2 DEF KillInv, K!OneWriter, KillOrder, Counted, Hooked

\* The reader: OnConnect counts the connection, a failing read leads to kill.
LEMMA ReaderKeeps ==
    ASSUME KillInv, K!OnConnect \/ K!ReadFails \/ K!ReadRefuses
    PROVE  KillInv'
  <1>1. /\ "reader" \in K!Process /\ "pinger" \in K!Process /\ "reader" # "pinger"
        /\ \A w \in Writer : w \in K!Process /\ w # "reader"
    BY WriterNames DEF K!Process, K!Loop
  <1>2. PICK l \in {"loop", "kill"} : K!Goto("reader", l)
    BY DEF K!OnConnect, K!ReadFails, K!ReadRefuses
  <1>3. /\ process'["reader"] = l
        /\ \A q \in K!Process : q # "reader" => process'[q] = process[q]
        /\ process' = [process EXCEPT !["reader"] = l]
    BY <1>1, <1>2, CounterMoves DEF KillInv
  <1>4. UNCHANGED <<peer, socket, socketDone, registered, writeMutex>>
    BY DEF K!OnConnect, K!ReadFails, K!ReadRefuses
  <1>5. /\ process["reader"] \in {"start", "loop"}
        /\ K!OnConnect => /\ process["reader"] = "start"
                        /\ metrics' = [metrics EXCEPT !.started = TRUE,
                                          !.connections = @ + 1, !.opens = @ + 1]
        /\ ~K!OnConnect => process["reader"] = "loop" /\ UNCHANGED metrics
    BY DEF K!OnConnect, K!ReadFails, K!ReadRefuses
  <1>6. Counted' /\ metrics' \in [started : BOOLEAN, connections : -1..1, opens : 0..1,
                                  closes : 0..2, durations : 0..1]
    <2>1. CASE K!OnConnect
      <3>1. /\ metrics.opens = 0 /\ metrics.closes \in 0..1 /\ metrics.durations = 0
            /\ metrics.started = FALSE
            /\ metrics.connections = 0 - metrics.closes
            /\ metrics \in [started : BOOLEAN, connections : -1..1, opens : 0..1,
                            closes : 0..2, durations : 0..1]
            /\ metrics.closes = One(Hooked("pinger"))
        <4>1. /\ metrics \in [started : BOOLEAN, connections : -1..1, opens : 0..1,
                              closes : 0..2, durations : 0..1]
              /\ process["reader"] = "start" /\ ~Hooked("reader")
          BY <1>5, <2>1 DEF KillInv, K!TypeOK, Hooked
        <4>2. metrics.opens = 0 /\ metrics.closes = One(Hooked("pinger"))
          BY <4>1 DEF KillInv, Counted, One
        <4>3. metrics.durations = 0 /\ metrics.started = FALSE
          BY <4>1, <4>2 DEF KillInv, Counted, One
        <4>4. metrics.connections = 0 - metrics.closes
          BY <4>1, <4>2 DEF KillInv, Counted
        <4> QED
          BY <4>1, <4>2, <4>3, <4>4 DEF One
      <3>2. /\ metrics'.opens = 1 /\ metrics'.closes = metrics.closes /\ metrics'.durations = 0
            /\ metrics'.started = TRUE /\ metrics'.connections = 1 - metrics.closes
            /\ metrics' \in [started : BOOLEAN, connections : -1..1, opens : 0..1,
                             closes : 0..2, durations : 0..1]
        <4>1. metrics' = [started |-> TRUE, connections |-> metrics.connections + 1,
                          opens |-> metrics.opens + 1, closes |-> metrics.closes,
                          durations |-> metrics.durations]
          BY <1>5, <2>1, <3>1
        <4> QED
          BY <4>1, <3>1
      <3>3. process'["reader"] = "loop" /\ process'["pinger"] = process["pinger"]
        <4>1. K!Goto("reader", "loop") /\ "pinger" # "reader"
          BY <2>1 DEF K!OnConnect
        <4> QED
          BY <1>1, <4>1, CounterMoves DEF KillInv
      <3>4. /\ process'["reader"] # "start" /\ ~Hooked("reader")'
            /\ (Hooked("pinger") <=> Hooked("pinger")')
        BY <3>3 DEF Hooked
      <3> QED
        BY <3>1, <3>2, <3>4 DEF Counted, One
    <2>2. CASE ~K!OnConnect
      <3>1. /\ UNCHANGED metrics
            /\ process["reader"] # "start" /\ process'["reader"] # "start"
            /\ (Hooked("reader") <=> Hooked("reader")') /\ (Hooked("pinger") <=> Hooked("pinger")')
        BY <1>1, <1>3, <1>5, <2>2 DEF Hooked, K!OnConnect, K!ReadFails, K!ReadRefuses, K!Goto
      <3> QED
        BY <3>1 DEF KillInv, Counted, One, K!TypeOK
    <2> QED
      BY <2>1, <2>2
  <1>7. K!TypeOK'
    BY <1>1, <1>3, <1>4, <1>6 DEF KillInv, K!TypeOK
  <1>8. K!OneWriter'
    BY <1>1, <1>3, <1>4 DEF KillInv, K!OneWriter
  <1>9. KillOrder'
    BY <1>1, <1>3, <1>4 DEF KillInv, KillOrder, K!Loop
  <1> QED
    BY <1>6, <1>7, <1>8, <1>9 DEF KillInv

\* A step outside OnConnect and OnDisconnect counts nothing.
LEMMA NothingCounted ==
    ASSUME KillInv, NEW p \in K!Process, NEW l, K!Goto(p, l), UNCHANGED metrics,
           process[p] # "start" /\ l # "start",
           Hooked(p) <=> l \in {"cancel", "close", "remove", "ended"}
    PROVE  Counted'
  <1>1. "reader" \in K!Process /\ "pinger" \in K!Process
    BY DEF K!Process, K!Loop
  <1>2. /\ process'[p] = l
        /\ \A q \in K!Process : q # p => process'[q] = process[q]
    BY CounterMoves DEF KillInv
  <1>3. /\ process["reader"] # "start" <=> process'["reader"] # "start"
        /\ Hooked("reader") <=> Hooked("reader")'
        /\ Hooked("pinger") <=> Hooked("pinger")'
    BY <1>1, <1>2 DEF Hooked
  <1> QED
    BY <1>3 DEF KillInv, Counted, One

\* Waiting, the ticker, and the pinger's end take no lock and touch nothing.
LEMMA WaitKeeps ==
    ASSUME KillInv, (\E w \in Writer : K!WantWrite(w)) \/ K!Tick \/ K!PingerStops
    PROVE  KillInv'
  <1>1. PICK p \in Writer \cup {"pinger"}, l \in {"lock", "kill"} :
            /\ K!Goto(p, l)
            /\ process[p] = IF p = "pinger" THEN "loop" ELSE "idle"
            /\ l = "kill" => p = "pinger"
    BY WriterNames DEF K!WantWrite, K!Tick, K!PingerStops
  <1>2. /\ p \in K!Process /\ "reader" \in K!Process /\ p # "reader"
        /\ \A w \in Writer : w \in K!Process /\ w # "pinger"
    BY WriterNames DEF K!Process, K!Loop
  <1>3. /\ process'[p] = l
        /\ \A q \in K!Process : q # p => process'[q] = process[q]
        /\ process' = [process EXCEPT ![p] = l]
    BY <1>1, <1>2, CounterMoves DEF KillInv
  <1>4. UNCHANGED <<peer, socket, socketDone, registered, writeMutex, metrics>>
    BY DEF K!WantWrite, K!Tick, K!PingerStops
  <1>5. K!TypeOK'
    BY <1>1, <1>2, <1>3, <1>4 DEF KillInv, K!TypeOK, K!Process, K!Loop
  <1>6. K!OneWriter'
    BY <1>1, <1>2, <1>3, <1>4 DEF KillInv, K!OneWriter, K!Process
  <1>7. KillOrder'
    BY <1>1, <1>2, <1>3, <1>4 DEF KillInv, KillOrder, K!Loop
  <1>8. Counted'
    BY <1>1, <1>2, <1>4, NothingCounted DEF Hooked
  <1> QED
    BY <1>5, <1>6, <1>7, <1>8 DEF KillInv

\* ws.mutex is taken when it is free and released when the write returns.
LEMMA WriteKeeps ==
    ASSUME KillInv, NEW p \in Writer \cup {"pinger"},
           K!Lock(p) \/ K!WriteSucceeds(p) \/ K!WriteBuffered(p) \/ K!WriteFails(p)
    PROVE  KillInv'
  <1>1. PICK l \in {"write", "loop", "done", "kill"} :
            /\ K!Goto(p, l)
            /\ \/ l = "write" /\ process[p] = "lock" /\ writeMutex = K!Nobody /\ writeMutex' = p
               \/ l # "write" /\ process[p] = "write" /\ writeMutex' = K!Nobody
            /\ l \in {"loop", "kill"} => p = "pinger"
            /\ l = "done" => p # "pinger"
    BY DEF K!Lock, K!WriteSucceeds, K!WriteBuffered, K!WriteFails, K!Written
  <1>2. /\ p \in K!Process /\ "reader" \in K!Process /\ p # "reader" /\ p # K!Nobody
        /\ \A q \in Writer \cup {"pinger"} : q \in K!Process /\ q # "reader" /\ q # K!Nobody
        /\ \A w \in Writer : w # "pinger"
    BY WriterNames DEF K!Process, K!Loop, K!Nobody
  <1>3. /\ process'[p] = l
        /\ \A q \in K!Process : q # p => process'[q] = process[q]
        /\ process' = [process EXCEPT ![p] = l]
    BY <1>1, <1>2, CounterMoves DEF KillInv
  <1>4. UNCHANGED <<peer, socket, socketDone, registered, metrics>>
    BY DEF K!Lock, K!WriteSucceeds, K!WriteBuffered, K!WriteFails
  <1>5. K!TypeOK'
    <2>1. process' \in [K!Process -> {"start", "idle", "loop", "lock", "write", "done",
                              "kill", "cancel", "close", "remove", "ended"}]
      BY <1>1, <1>2, <1>3 DEF KillInv, K!TypeOK
    <2>2. /\ process'["reader"] = process["reader"]
          /\ process'["pinger"] \in {"loop", "lock", "write", "kill", "cancel", "close",
                               "remove", "ended"}
          /\ \A w \in Writer : process'[w] \in {"idle", "lock", "write", "done"}
      BY <1>1, <1>2, <1>3 DEF KillInv, K!TypeOK
    <2>3. writeMutex' \in {K!Nobody, "pinger"} \cup Writer
      BY <1>1
    <2> QED
      BY <1>4, <2>1, <2>2, <2>3 DEF KillInv, K!TypeOK
  <1>6. K!OneWriter'
    <2> SUFFICES ASSUME NEW q \in Writer \cup {"pinger"}
                 PROVE  process'[q] = "write" <=> writeMutex' = q
      BY DEF K!OneWriter
    <2>1. (process[q] = "write" <=> writeMutex = q) /\ (process[p] = "write" <=> writeMutex = p)
      BY DEF KillInv, K!OneWriter
    <2> QED
      BY <1>1, <1>2, <1>3, <2>1
  <1>7. KillOrder'
    BY <1>1, <1>2, <1>3, <1>4 DEF KillInv, KillOrder, K!Loop
  <1>8. Counted'
    BY <1>1, <1>2, <1>4, NothingCounted DEF Hooked
  <1> QED
    BY <1>5, <1>6, <1>7, <1>8 DEF KillInv

\* The OnDisconnect hooks count a close, and the duration if it was started.
LEMMA OnDisconnectKeeps ==
    ASSUME KillInv, NEW p \in K!Loop, K!OnDisconnect(p)
    PROVE  KillInv'
  <1>1. /\ p \in K!Process /\ "reader" \in K!Process /\ "pinger" \in K!Process
        /\ p \in {"reader", "pinger"}
        /\ \A w \in Writer : w \in K!Process /\ w # "pinger" /\ w # "reader"
    BY WriterNames DEF K!Process, K!Loop
  <1>2. K!Goto(p, "cancel") /\ process[p] = "kill"
    BY DEF K!OnDisconnect
  <1>3. /\ process'[p] = "cancel"
        /\ \A q \in K!Process : q # p => process'[q] = process[q]
        /\ process' = [process EXCEPT ![p] = "cancel"]
    BY <1>1, <1>2, CounterMoves DEF KillInv
  <1>4. UNCHANGED <<peer, socket, socketDone, registered, writeMutex>>
    BY DEF K!OnDisconnect
  <1>5. metrics \in [started : BOOLEAN, connections : -1..1, opens : 0..1,
                     closes : 0..2, durations : 0..1]
    BY DEF KillInv, K!TypeOK
  <1>6. metrics' = [started |-> FALSE, connections |-> metrics.connections - 1,
                    opens |-> metrics.opens, closes |-> metrics.closes + 1,
                    durations |-> IF metrics.started THEN metrics.durations + 1
                                  ELSE metrics.durations]
    BY <1>5 DEF K!OnDisconnect
  <1>7. /\ ~Hooked(p) /\ Hooked(p)'
        /\ \A q \in {"reader", "pinger"} : q # p => (Hooked(q) <=> Hooked(q)')
        /\ process["reader"] # "start" <=> process'["reader"] # "start"
    BY <1>1, <1>2, <1>3 DEF Hooked
  <1>8. metrics.closes + 1 = One(Hooked("reader")') + One(Hooked("pinger")')
    <2>1. metrics.closes = One(Hooked("reader")) + One(Hooked("pinger"))
      BY DEF KillInv, Counted
    <2>2. CASE p = "reader"
      BY <1>7, <2>1, <2>2 DEF One
    <2>3. CASE p = "pinger"
      BY <1>7, <2>1, <2>3 DEF One
    <2> QED
      BY <1>1, <2>2, <2>3
  <1>9. Counted'
    <2>1. /\ metrics.opens = One(process'["reader"] # "start")
          /\ metrics.connections = metrics.opens - metrics.closes
          /\ metrics.durations + One(metrics.started) = metrics.opens
      BY <1>7 DEF KillInv, Counted, One
    <2>2. /\ metrics'.opens = metrics.opens /\ metrics'.closes = metrics.closes + 1
          /\ metrics'.connections = metrics.connections - 1 /\ metrics'.started = FALSE
          /\ metrics'.durations = metrics.durations + One(metrics.started)
      BY <1>5, <1>6 DEF One
    <2>3. metrics'.opens = One(process'["reader"] # "start")
      BY <2>1, <2>2
    <2>4. metrics'.closes = One(Hooked("reader")') + One(Hooked("pinger")')
      BY <1>8, <2>2
    <2>5. metrics'.connections = metrics'.opens - metrics'.closes
      BY <1>5, <2>1, <2>2
    <2>6. metrics'.durations + One(metrics'.started) = metrics'.opens
      BY <1>5, <2>1, <2>2 DEF One
    <2> QED
      BY <2>2, <2>3, <2>4, <2>5, <2>6 DEF Counted
  <1>10. metrics' \in [started : BOOLEAN, connections : -1..1, opens : 0..1,
                       closes : 0..2, durations : 0..1]
    <2>1. /\ metrics.closes \in 0..1
          /\ metrics.opens = 0 => metrics.closes = 0 \/ process["reader"] = "start"
      BY <1>1, <1>5, <1>7, <1>8 DEF KillInv, Counted, One
    <2>2. metrics.opens = 0 => metrics.closes = 0
      <3>1. metrics.opens = 0 => process["reader"] = "start"
        BY DEF KillInv, Counted, One
      <3>2. process["reader"] = "start" => ~Hooked("reader") /\ p = "pinger"
        BY <1>1, <1>2 DEF Hooked
      <3> QED
        BY <1>7, <3>1, <3>2 DEF KillInv, Counted, One
    <2>3. metrics.connections = metrics.opens - metrics.closes
      BY DEF KillInv, Counted
    <2>4. metrics.started => metrics.durations = 0
      BY <1>5 DEF KillInv, Counted, One
    <2> QED
      BY <1>5, <1>6, <2>1, <2>2, <2>3, <2>4
  <1>11. K!TypeOK'
    BY <1>1, <1>3, <1>4, <1>10 DEF KillInv, K!TypeOK
  <1>12. K!OneWriter'
    BY <1>1, <1>2, <1>3, <1>4 DEF KillInv, K!OneWriter
  <1>13. KillOrder'
    BY <1>1, <1>3, <1>4 DEF KillInv, KillOrder, K!Loop
  <1> QED
    BY <1>9, <1>11, <1>12, <1>13 DEF KillInv

\* The other steps of kill leave the metrics alone and only ever tear down.
LEMMA TearDownKeeps ==
    ASSUME KillInv, NEW p \in K!Loop, K!CancelContexts(p) \/ K!CloseConn(p) \/ K!RemoveClient(p)
    PROVE  KillInv'
  <1>1. /\ p \in K!Process /\ "reader" \in K!Process /\ "pinger" \in K!Process
        /\ p \in {"reader", "pinger"}
        /\ \A w \in Writer : w \in K!Process /\ w # "pinger" /\ w # "reader"
    BY WriterNames DEF K!Process, K!Loop
  <1>2. PICK l \in {"close", "remove", "ended"} :
            /\ K!Goto(p, l)
            /\ l = "close" => process[p] = "cancel" /\ socketDone'
            /\ l = "remove" => process[p] = "close" /\ socket' = "closed"
            /\ l = "ended" => process[p] = "remove" /\ ~registered'
    BY DEF K!CancelContexts, K!CloseConn, K!RemoveClient
  <1>3. /\ process'[p] = l
        /\ \A q \in K!Process : q # p => process'[q] = process[q]
        /\ process' = [process EXCEPT ![p] = l]
    BY <1>1, <1>2, CounterMoves DEF KillInv
  <1>4. /\ UNCHANGED <<peer, writeMutex, metrics>>
        /\ socketDone' = TRUE \/ socketDone' = socketDone
        /\ socket' = "closed" \/ socket' = socket
        /\ registered' = FALSE \/ registered' = registered
    BY DEF K!CancelContexts, K!CloseConn, K!RemoveClient
  <1>5. K!TypeOK'
    <2>1. /\ socketDone' \in BOOLEAN /\ registered' \in BOOLEAN
          /\ socket' \in {"open", "closed"}
      BY <1>4 DEF KillInv, K!TypeOK
    <2> QED
      BY <1>1, <1>3, <1>4, <2>1 DEF KillInv, K!TypeOK
  <1>6. K!OneWriter'
    BY <1>1, <1>2, <1>3, <1>4 DEF KillInv, K!OneWriter
  <1>7. KillOrder'
    BY <1>1, <1>2, <1>3, <1>4 DEF KillInv, KillOrder, K!Loop
  <1>8. Counted'
    BY <1>1, <1>2, <1>4, NothingCounted DEF Hooked
  <1> QED
    BY <1>5, <1>6, <1>7, <1>8 DEF KillInv

\* Every step keeps the invariant.
LEMMA KillStays == KillInv /\ [K!Next]_(K!vars) => KillInv'
  <1> SUFFICES ASSUME KillInv, [K!Next]_(K!vars) PROVE KillInv'
    OBVIOUS
  <1>1. CASE K!PeerStalls \/ K!PeerResumes \/ K!PeerGoes
    BY <1>1, PeerKeeps
  <1>2. CASE K!OnConnect \/ K!ReadFails \/ K!ReadRefuses
    BY <1>2, ReaderKeeps
  <1>3. CASE K!Tick \/ K!PingerStops \/ \E w \in Writer : K!WantWrite(w)
    BY <1>3, WaitKeeps
  <1>4. CASE \E p \in Writer \cup {"pinger"} :
                K!Lock(p) \/ K!WriteSucceeds(p) \/ K!WriteBuffered(p) \/ K!WriteFails(p)
    BY <1>4, WriteKeeps
  <1>5. CASE \E p \in K!Loop : K!KillStep(p)
    BY <1>5, OnDisconnectKeeps, TearDownKeeps DEF K!KillStep
  <1>6. CASE UNCHANGED K!vars
    BY <1>6 DEF K!vars, KillInv, K!TypeOK, K!OneWriter, KillOrder, Counted, Hooked
  <1> QED
    BY <1>1, <1>2, <1>3, <1>4, <1>5, <1>6 DEF K!Next

\* However many goroutines write, the invariant holds at all times.
LEMMA KillHolds == Spec => []KillInv
  <1>1. Init => KillInv
    <2>1. K!Init => KillInv
      BY KillBegins
    <2>2. NoConnection => KillInv
      BY ConnectionOver
    <2> QED
      BY <2>1, <2>2 DEF Init
  <1>2. KillInv /\ [Next]_vars => KillInv'
    <2>1. [Next]_vars => [K!Next]_(K!vars)
      BY DEF Next, vars, connVars, K!vars
    <2> QED
      BY <2>1, KillStays
  <1> QED
    BY <1>1, <1>2, PTL DEF Spec

\* The program counters of a connection keep their ranges, and the gauge of connections
\* stays between -1 and 1 for one connection (telemetry.go:581-595).
THEOREM ConnectionTyped == Spec => []K!TypeOK
  BY KillHolds, PTL DEF KillInv

\* ws.mutex keeps any number of writers apart (websocket.go:34-46).
THEOREM AlwaysOneWriter == Spec => []K!OneWriter
  BY KillHolds, PTL DEF KillInv

\* Both kills done, the connection is closed, its contexts are cancelled, the
\* client is out of the registry, and exactly one duration has been recorded
\* (handlers.go:94-105, telemetry.go:581-592).
THEOREM EndsClean == Spec => []EndedIsClean
  <1>1. KillInv => EndedIsClean
    <2> SUFFICES ASSUME KillInv, K!Ended PROVE K!EndedIsClean
      BY DEF EndedIsClean, K!EndedIsClean
    <2>1. socket = "closed" /\ socketDone /\ ~registered
      BY DEF KillInv, KillOrder, K!Ended, K!Loop
    <2>2. ~metrics.started /\ metrics.opens = 1
      BY DEF KillInv, Counted, K!Ended, Hooked, One
    <2>3. metrics.durations = 1
      BY <2>2 DEF KillInv, Counted, K!TypeOK, One
    <2> QED
      BY <2>1, <2>2, <2>3 DEF K!EndedIsClean
  <1> QED
    BY <1>1, KillHolds, PTL

\* The gauge is not what README.md:136 says: it ends at -1 for every connection.
THEOREM GaugeEndsBelowZero == Spec => [](K!Ended => metrics.connections = -1)
  <1>1. KillInv => (K!Ended => metrics.connections = -1)
    BY DEF KillInv, Counted, K!Ended, Hooked, One
  <1> QED
    BY <1>1, KillHolds, PTL

=============================================================================
