--------------------------- MODULE ServicesProofs ---------------------------
(***************************************************************************)
(* Safety of the parts of module Services, each for every instance.  The   *)
(* parts do not meet; every section has its own inductive invariant, which *)
(* holds in the part's own behaviours and so in those of Services.         *)
(***************************************************************************)
EXTENDS Services, FiniteSetTheorems, SequenceTheorems, TLAPS

-----------------------------------------------------------------------------
(* Negentropy sessions *)

\* The messages that have loaded a session, and may touch it.
Using == {"reset", "reconcile", "postpone"}

\* A session is known by others only when its OPEN is done.
SessTypes ==
    /\ at \in [N!Handler -> {"sent", "arm", "store", "done"} \cup Using]
    /\ session \in Open \cup {N!None}
    /\ uses \in [Msg -> Open \cup {N!None}]
    /\ armed \in [Open -> BOOLEAN]
    /\ deltas \in [Open -> N!Handler \cup {N!None}]
    /\ reply \in [N!Handler -> {"none", "error", "whole", "CLOSED", "garbled"}]
    /\ overlap \in SUBSET Msg

Published ==
    /\ session \in Open => at[session] = "done"
    /\ \A h \in Msg : uses[h] \in Open => at[uses[h]] = "done"
    /\ \A h \in Msg : at[h] \in Using => uses[h] \in Open

\* MSGs that reconcile at once are in overlap; one alone meets its own timestamps.
Disturbed ==
    /\ \A h \in Msg : at[h] = "reconcile" => deltas[uses[h]] = h \/ h \in overlap
    /\ \A g, h \in Msg :
           at[g] = "reconcile" /\ at[h] = "reconcile" /\ uses[g] = uses[h] /\ g # h
           => g \in overlap /\ h \in overlap

SessInv == SessTypes /\ Published /\ Disturbed /\ N!RepliesAreWhole

\* The timer of a session that is stored runs.
Timed ==
    /\ \A s \in Open : at[s] = "store" => armed[s]
    /\ N!SessionsExpire

\* The handler of one message is taken a step further.
LEMMA GotoIs ==
    ASSUME SessTypes, NEW h \in N!Handler, NEW l, N!Goto(h, l)
    PROVE  /\ at'[h] = l
           /\ \A k \in N!Handler : k # h => at'[k] = at[k]
           /\ l \in {"sent", "arm", "store", "done"} \cup Using
                  => at' \in [N!Handler -> {"sent", "arm", "store", "done"} \cup Using]
  BY DEF SessTypes, N!Goto

SessAssumptions == N!SessionAssumption /\ N!NoneAssumption

\* The steps of NEG-OPEN.
LEMMA OpenSteps ==
    ASSUME SessAssumptions, SessInv, NEW h \in N!Handler,
           N!OpenFails(h) \/ N!OpenReplies(h) \/ N!OpenArms(h) \/ N!OpenStores(h)
    PROVE  SessInv'
  <1> USE DEF SessAssumptions, N!SessionAssumption, N!NoneAssumption, N!Handler,
              N!OpenFails, N!OpenReplies, N!OpenArms, N!OpenStores
  <1>1. /\ h \in Open /\ h \notin Msg
        /\ at[h] \in {"sent", "arm", "store"}
        /\ UNCHANGED <<uses, overlap>>
    OBVIOUS
  <1>2. \/ at' = [at EXCEPT ![h] = "arm"] /\ session' = session
        \/ at' = [at EXCEPT ![h] = "store"] /\ session' = session
        \/ at' = [at EXCEPT ![h] = "done"] /\ (session' = session \/ session' = h)
    BY DEF N!Goto
  <1>3. /\ at' \in [N!Handler -> {"sent", "arm", "store", "done"} \cup Using]
        /\ at'[h] \in {"arm", "store", "done"}
        /\ session' = session \/ (session' = h /\ at'[h] = "done")
        /\ \A k \in N!Handler : k # h => at'[k] = at[k]
    <2>1. at \in [N!Handler -> {"sent", "arm", "store", "done"} \cup Using]
      BY DEF SessInv, SessTypes
    <2>2. h \in N!Handler
      OBVIOUS
    <2>3. CASE at' = [at EXCEPT ![h] = "arm"] /\ session' = session
      BY ONLY <2>1, <2>2, <2>3
    <2>4. CASE at' = [at EXCEPT ![h] = "store"] /\ session' = session
      BY ONLY <2>1, <2>2, <2>4
    <2>5. CASE at' = [at EXCEPT ![h] = "done"] /\ (session' = session \/ session' = h)
      BY ONLY <2>1, <2>2, <2>5
    <2> QED
      BY ONLY <1>2, <2>3, <2>4, <2>5
  <1>4. SessTypes'
    <2>1. /\ deltas' = deltas \/ deltas' = [deltas EXCEPT ![h] = h]
          /\ armed' = armed \/ armed' = [armed EXCEPT ![h] = TRUE]
      OBVIOUS
    <2>2. deltas' \in [Open -> N!Handler \cup {N!None}] /\ armed' \in [Open -> BOOLEAN]
      BY <1>1, <2>1 DEF SessInv, SessTypes
    <2>3. reply' \in [N!Handler -> {"none", "error", "whole", "CLOSED", "garbled"}]
      BY DEF SessInv, SessTypes, N!Answer
    <2> QED
      BY <1>1, <1>3, <2>2, <2>3 DEF SessInv, SessTypes
  <1>5. Published'
    BY <1>1, <1>2, <1>3 DEF SessInv, SessTypes, Published, Using
  <1>6. \A g \in Msg : at[g] \in Using => deltas'[uses[g]] = deltas[uses[g]]
    BY <1>1, <1>2, <1>3 DEF SessInv, SessTypes, Published
  <1>7. Disturbed'
    BY <1>1, <1>2, <1>3, <1>6 DEF SessInv, Disturbed, Using
  <1>8. N!RepliesAreWhole'
    BY <1>1, <1>2, <1>3 DEF SessInv, SessTypes, N!RepliesAreWhole, N!Answer
  <1> QED
    BY <1>4, <1>5, <1>7, <1>8 DEF SessInv

\* The steps of NEG-MSG.
LEMMA MsgSteps ==
    ASSUME SessAssumptions, SessInv, NEW h \in Msg,
           N!MsgLoads(h) \/ N!MsgResets(h) \/ N!MsgReplies(h) \/ N!MsgFails(h) \/ N!MsgPostpones(h)
    PROVE  SessInv'
  <1> USE DEF SessAssumptions, N!SessionAssumption, N!NoneAssumption, N!Handler
  <1>1. CASE N!MsgLoads(h)
    <2>1. /\ uses' = [uses EXCEPT ![h] = session]
          /\ at[h] = "sent"
          /\ \/ session = N!None /\ N!Goto(h, "done") /\ N!Answer(h, "CLOSED")
             \/ session \in Open /\ N!Goto(h, "reset") /\ UNCHANGED reply
          /\ UNCHANGED <<session, armed, deltas, overlap>>
      BY <1>1 DEF N!MsgLoads, SessInv, SessTypes
    <2>2. /\ at' \in [N!Handler -> {"sent", "arm", "store", "done"} \cup Using]
          /\ at'[h] \in {"done", "reset"}
          /\ at'[h] = "reset" => session \in Open
          /\ \A k \in N!Handler : k # h => at'[k] = at[k]
      BY <2>1, GotoIs DEF SessInv, Using
    <2>3. SessTypes'
      BY <2>1, <2>2 DEF SessInv, SessTypes, N!Answer
    <2>4. Published'
      BY <2>1, <2>2 DEF SessInv, SessTypes, Published, Using
    <2>5. Disturbed'
      BY <2>1, <2>2 DEF SessInv, SessTypes, Disturbed
    <2>6. N!RepliesAreWhole'
      BY <2>1 DEF SessInv, SessTypes, N!RepliesAreWhole, N!Answer
    <2> QED
      BY <2>3, <2>4, <2>5, <2>6 DEF SessInv
  <1>2. CASE N!MsgResets(h)
    <2>1. /\ at[h] = "reset" /\ N!Goto(h, "reconcile")
          /\ deltas' = [deltas EXCEPT ![uses[h]] = h]
          /\ N!Together(h)
          /\ UNCHANGED <<session, uses, armed, reply>>
      BY <1>2 DEF N!MsgResets
    <2>2. /\ at' \in [N!Handler -> {"sent", "arm", "store", "done"} \cup Using]
          /\ at'[h] = "reconcile" /\ uses[h] \in Open
          /\ \A k \in N!Handler : k # h => at'[k] = at[k]
      BY <2>1, GotoIs DEF SessInv, Using, Published
    <2>3. /\ overlap \subseteq overlap' /\ overlap' \subseteq Msg
          /\ \A g \in Msg : g # h /\ uses[g] = uses[h] /\ at[g] = "reconcile"
                            => g \in overlap' /\ h \in overlap'
      BY <2>1 DEF N!Together, N!Reconciling, SessInv, SessTypes
    <2>4. /\ deltas' \in [Open -> N!Handler \cup {N!None}]
          /\ deltas'[uses[h]] = h
          /\ \A s \in Open : s # uses[h] => deltas'[s] = deltas[s]
      BY <2>1, <2>2 DEF SessInv, SessTypes
    <2>5. SessTypes'
      BY <2>1, <2>2, <2>3, <2>4 DEF SessInv, SessTypes
    <2>6. Published'
      BY <2>1, <2>2 DEF SessInv, SessTypes, Published, Using
    <2>7. Disturbed'
      BY <2>1, <2>2, <2>3, <2>4 DEF SessInv, SessTypes, Disturbed, Published, Using
    <2>8. N!RepliesAreWhole'
      BY <2>1, <2>3 DEF SessInv, N!RepliesAreWhole
    <2> QED
      BY <2>5, <2>6, <2>7, <2>8 DEF SessInv
  <1>3. CASE N!MsgReplies(h)
    <2>1. /\ at[h] = "reconcile" /\ N!Goto(h, "postpone")
          /\ N!Answer(h, IF deltas[uses[h]] = h THEN "whole" ELSE "garbled")
          /\ deltas' = [deltas EXCEPT ![uses[h]] = h]
          /\ UNCHANGED <<session, uses, armed, overlap>>
      BY <1>3 DEF N!MsgReplies
    <2>2. /\ at' \in [N!Handler -> {"sent", "arm", "store", "done"} \cup Using]
          /\ at'[h] = "postpone" /\ uses[h] \in Open
          /\ \A k \in N!Handler : k # h => at'[k] = at[k]
      BY <2>1, GotoIs DEF SessInv, Using, Published
    <2>3. /\ deltas' \in [Open -> N!Handler \cup {N!None}]
          /\ \A s \in Open : s # uses[h] => deltas'[s] = deltas[s]
      BY <2>1, <2>2 DEF SessInv, SessTypes
    <2>4. SessTypes'
      BY <2>1, <2>2, <2>3 DEF SessInv, SessTypes, N!Answer
    <2>5. Published'
      BY <2>1, <2>2 DEF SessInv, SessTypes, Published, Using
    <2>6. Disturbed'
      BY <2>1, <2>2, <2>3 DEF SessInv, SessTypes, Disturbed, Published, Using
    <2>7. N!RepliesAreWhole'
      BY <2>1 DEF SessInv, SessTypes, N!RepliesAreWhole, N!Answer, Disturbed
    <2> QED
      BY <2>4, <2>5, <2>6, <2>7 DEF SessInv
  <1>4. CASE N!MsgFails(h) \/ N!MsgPostpones(h)
    <2>1. /\ at[h] \in Using /\ N!Goto(h, "done")
          /\ UNCHANGED <<uses, deltas, overlap>>
          /\ session' \in {session, N!None}
          /\ UNCHANGED reply \/ N!Answer(h, "error")
          /\ UNCHANGED armed \/ armed' = [armed EXCEPT ![uses[h]] = TRUE]
      BY <1>4 DEF N!MsgFails, N!MsgPostpones, Using
    <2>2. /\ at' \in [N!Handler -> {"sent", "arm", "store", "done"} \cup Using]
          /\ at'[h] = "done" /\ uses[h] \in Open
          /\ \A k \in N!Handler : k # h => at'[k] = at[k]
      BY <2>1, GotoIs DEF SessInv, Published
    <2>3. SessTypes'
      BY <2>1, <2>2 DEF SessInv, SessTypes, N!Answer
    <2>4. Published'
      BY <2>1, <2>2 DEF SessInv, SessTypes, Published, Using
    <2>5. Disturbed'
      BY <2>1, <2>2 DEF SessInv, Disturbed
    <2>6. N!RepliesAreWhole'
      BY <2>1 DEF SessInv, SessTypes, N!RepliesAreWhole, N!Answer
    <2> QED
      BY <2>3, <2>4, <2>5, <2>6 DEF SessInv
  <1> QED
    BY <1>1, <1>2, <1>3, <1>4

\* The steps of NEG-CLOSE and of the timers.
LEMMA OtherSteps ==
    ASSUME SessAssumptions, SessInv,
           \/ \E h \in Close : N!CloseDeletes(h)
           \/ \E s \in Open : N!TimerFires(s)
           \/ UNCHANGED N!sessVars
    PROVE  SessInv'
  <1> USE DEF SessAssumptions, N!SessionAssumption, N!NoneAssumption, N!Handler
  <1>1. ASSUME NEW h \in Close, N!CloseDeletes(h)
        PROVE  SessInv'
    <2>1. /\ at' \in [N!Handler -> {"sent", "arm", "store", "done"} \cup Using]
          /\ \A k \in Open \cup Msg : at'[k] = at[k]
      BY <1>1, GotoIs DEF N!CloseDeletes, SessInv
    <2> QED
      BY <1>1, <2>1 DEF N!CloseDeletes, SessInv, SessTypes, Published, Disturbed,
                        N!RepliesAreWhole
  <1>2. ASSUME NEW s \in Open, N!TimerFires(s)
        PROVE  SessInv'
    BY <1>2 DEF N!TimerFires, SessInv, SessTypes, Published, Disturbed, N!RepliesAreWhole
  <1>3. CASE UNCHANGED N!sessVars
    BY <1>3 DEF N!sessVars, SessInv, SessTypes, Published, Disturbed, N!RepliesAreWhole
  <1> QED
    BY <1>1, <1>2, <1>3

\* The invariant of the sessions holds of every state.
LEMMA SessAlways == SessAssumptions => (N!SessSpec => []SessInv)
  <1> SUFFICES ASSUME SessAssumptions PROVE N!SessSpec => []SessInv
    OBVIOUS
  <1>1. N!SessInit => SessInv
    BY DEF SessAssumptions, N!SessionAssumption, N!NoneAssumption, N!Handler, N!SessInit, SessInv,
           SessTypes, Published, Disturbed, Using, N!RepliesAreWhole
  <1>2. SessInv /\ [N!SessNext]_N!sessVars => SessInv'
    <2> SUFFICES ASSUME SessInv, N!SessNext PROVE SessInv'
      BY OtherSteps
    <2>1. ASSUME NEW h \in N!Handler,
                 N!OpenFails(h) \/ N!OpenReplies(h) \/ N!OpenArms(h) \/ N!OpenStores(h)
          PROVE  SessInv'
      BY <2>1, OpenSteps
    <2>2. ASSUME NEW h \in N!Handler,
                 \/ N!MsgLoads(h) \/ N!MsgResets(h) \/ N!MsgReplies(h)
                 \/ N!MsgFails(h) \/ N!MsgPostpones(h)
          PROVE  SessInv'
      <3>1. h \in Msg
        BY <2>2 DEF N!MsgLoads, N!MsgResets, N!MsgReplies, N!MsgFails, N!MsgPostpones
      <3> QED
        BY <2>2, <3>1, MsgSteps
    <2>3. \A h \in N!Handler : N!CloseDeletes(h) => h \in Close
      BY DEF N!CloseDeletes
    <2> QED
      BY <2>1, <2>2, <2>3, OtherSteps DEF N!SessNext
  <1> QED
    BY <1>1, <1>2, PTL DEF N!SessSpec

\* The invariant says what a lone MSG is answered.
LEMMA SessionRepliesWhole ==
    ASSUME N!SessionAssumption, N!NoneAssumption
    PROVE  N!SessSpec => []N!RepliesAreWhole
  <1>1. SessInv => N!RepliesAreWhole
    BY DEF SessInv
  <1> QED
    BY <1>1, SessAlways, PTL DEF SessAssumptions

\* Every step keeps the timers, if none fires inside an OPEN's last two statements.
LEMMA TimedStep ==
    ASSUME SessAssumptions, Prompt, SessInv, Timed, N!SessNext \/ UNCHANGED N!sessVars
    PROVE  Timed'
  <1> USE DEF SessAssumptions, N!SessionAssumption, N!NoneAssumption, N!Handler
  <1>1. armed \in [Open -> BOOLEAN] /\ session \in Open \cup {N!None}
    BY DEF SessInv, SessTypes
  <1>2. ASSUME NEW h \in N!Handler, NEW l, N!Goto(h, l), l # "store", UNCHANGED session,
               armed' = armed \/ \E s \in Open : armed' = [armed EXCEPT ![s] = TRUE]
        PROVE  Timed'
    <2>1. \A s \in Open : at'[s] = "store" => at[s] = "store"
      BY <1>2, GotoIs DEF SessInv
    <2>2. \A s \in Open : armed[s] => armed'[s]
      BY <1>1, <1>2
    <2> QED
      BY <1>1, <1>2, <2>1, <2>2 DEF Timed, N!SessionsExpire
  <1>3. ASSUME NEW h \in N!Handler, N!OpenArms(h)
        PROVE  Timed'
    <2>1. armed'[h] /\ \A s \in Open : armed[s] => armed'[s]
      BY <1>1, <1>3 DEF N!OpenArms
    <2>2. \A s \in Open : s # h => at'[s] = at[s]
      BY <1>3, GotoIs DEF N!OpenArms, SessInv
    <2> QED
      BY <1>1, <1>3, <2>1, <2>2 DEF Timed, N!SessionsExpire, N!OpenArms
  <1>4. ASSUME NEW h \in N!Handler, N!OpenStores(h)
        PROVE  Timed'
    <2>1. \A s \in Open : at'[s] = "store" => at[s] = "store"
      BY <1>4, GotoIs DEF N!OpenStores, SessInv
    <2> QED
      BY <1>1, <1>4, <2>1 DEF Timed, N!SessionsExpire, N!OpenStores
  <1>5. ASSUME NEW h \in N!Handler, N!MsgFails(h) \/ N!CloseDeletes(h)
        PROVE  Timed'
    <2>1. \A s \in Open : at'[s] = "store" => at[s] = "store"
      BY <1>5, GotoIs DEF N!MsgFails, N!CloseDeletes, SessInv
    <2> QED
      BY <1>1, <1>5, <2>1 DEF Timed, N!SessionsExpire, N!MsgFails, N!CloseDeletes
  <1>6. ASSUME NEW s \in Open, N!TimerFires(s)
        PROVE  Timed'
    BY <1>1, <1>6 DEF Timed, N!SessionsExpire, N!TimerFires
  <1>7. ASSUME NEW h \in N!Handler, N!MsgPostpones(h)
        PROVE  Timed'
    <2>1. uses[h] \in Open
      BY <1>7 DEF N!MsgPostpones, SessInv, Published, Using
    <2> QED
      BY <1>2, <1>7, <2>1 DEF N!MsgPostpones
  <1>8. ASSUME NEW h \in N!Handler,
               N!OpenFails(h) \/ N!OpenReplies(h) \/ N!MsgLoads(h) \/ N!MsgResets(h) \/ N!MsgReplies(h)
        PROVE  Timed'
    BY <1>2, <1>8 DEF N!OpenFails, N!OpenReplies, N!MsgLoads, N!MsgResets, N!MsgReplies
  <1>9. CASE UNCHANGED N!sessVars
    BY <1>9 DEF N!sessVars, Timed, N!SessionsExpire
  <1> QED
    BY <1>3, <1>4, <1>5, <1>6, <1>7, <1>8, <1>9 DEF N!SessNext

\* The timers hold along the invariant.
LEMMA SessionTimersHold ==
    ASSUME N!SessionAssumption, N!NoneAssumption, Prompt
    PROVE  N!SessSpec => []N!SessionsExpire
  <1>1. N!SessInit => Timed
    BY DEF N!SessInit, Timed, N!SessionsExpire, N!Handler
  <1>2. SessInv /\ Timed /\ [N!SessNext]_N!sessVars => Timed'
    BY TimedStep DEF SessAssumptions
  <1>3. Timed => N!SessionsExpire
    BY DEF Timed
  <1> QED
    BY <1>1, <1>2, <1>3, SessAlways, PTL DEF N!SessSpec, SessAssumptions

\* In a behaviour of Services the sessions behave as NegSessions says.
LEMMA SessionsRun == Spec => N!SessSpec
  <1>1. Init => N!SessInit
    BY DEF Init
  <1>2. [Next]_vars => [N!SessNext]_(N!sessVars)
    BY DEF Next, vars, sessVars, N!sessVars
  <1> QED
    BY <1>1, <1>2, PTL DEF Spec, N!SessSpec

\* A MSG that reconciles alone is answered with what was meant, whatever came
\* before and whichever session has the id (handlers.go:447-475); the
\* timestamps of a session are reset by every message.
THEOREM RepliesAlwaysWhole == Spec => []RepliesAreWhole
  <1>1. N!SessSpec => []N!RepliesAreWhole
    BY SessionRepliesWhole, InstancesAssumption
  <1> QED
    BY <1>1, SessionsRun, PTL DEF RepliesAreWhole

\* No session stays without a timer, through replacements, deletions and the
\* timers of older sessions (handlers.go:407-475), if no timer fires between
\* the two statements that start it and store its session.
THEOREM SessionsAlwaysExpire ==
    ASSUME Prompt
    PROVE  Spec => []SessionsExpire
  <1>1. N!SessSpec => []N!SessionsExpire
    BY SessionTimersHold, InstancesAssumption
  <1> QED
    BY <1>1, SessionsRun, PTL DEF SessionsExpire

-----------------------------------------------------------------------------
(* The monitor *)

Unwell == M!Statuses \ {"healthy"}
Checks == [attempts : Int, status : M!Statuses \cup {""}, at : Int]

MonitorTypes ==
    /\ clock \in Int /\ next \in Int
    /\ lastAlert \in Int /\ since \in Int /\ began \in Int
    /\ check \in Checks
    /\ previous \in M!Statuses \cup {""}
    /\ told.at \in Int
    /\ recoveredPending \in BOOLEAN

\* What Run's flags say of the last alert: an incident has been told of, or its
\* alert waits; its recovery has been, or waits; the interval runs from it.
Remembered ==
    /\ previous \in Unwell => recoveredPending
    /\ previous \in Unwell /\ pending = "" => told.cause = previous /\ told.since = began
    /\ recoveredPending => since = began
    /\ ~recoveredPending =>
          told.kind = "" \/ (told.kind = "recovery" /\ told.since = began)
    /\ lastAlert # M!None => told.at = lastAlert

MonitorInv == MonitorTypes /\ Remembered /\ M!ToldIsCurrent

\* A probe ends in one of the statuses.
LEMMA OutcomesAreStatuses == M!Outcomes \subseteq M!Statuses
  <1> SUFFICES ASSUME NEW frames PROVE M!Probe(frames) \subseteq M!Statuses
    BY DEF M!Outcomes
  <1> DEFINE Ends(i) == frames[i].type \in {"AUTH", "CLOSED", "EOSE"} \/ M!Bad(frames[i])
             Last == {i \in DOMAIN frames : Ends(i) /\ \A j \in 1 .. i - 1 : ~Ends(j)}
             Ages == {frames[j].age : j \in {k \in DOMAIN frames : M!Fresh(frames[k])}}
             end == frames[CHOOSE i \in Last : TRUE]
             young == \E age \in Ages : age <= MaxAge
  <1>1. M!Probe(frames) = IF Last = {} THEN {"connect_error", "timeout"}
                          ELSE IF M!Bad(end) THEN {"protocol_error"}
                          ELSE IF end.type # "EOSE" THEN {"rejected"}
                          ELSE IF Ages = {} THEN {"empty"}
                          ELSE IF young THEN {"healthy"} ELSE {"stale"}
    BY DEF M!Probe
  <1> HIDE DEF Last, Ages, end, young
  <1> QED
    BY <1>1 DEF M!Statuses, M!Failures

\* A check that begins, and one that is over.
LEMMA Begun ==
    ASSUME NEW now \in Int, NEW Any, NEW none \in Any
    PROVE  /\ [attempts |-> 1, status |-> none, at |-> now]
                  \in [attempts : Int, status : Any, at : Int]
           /\ [attempts |-> 1, status |-> none, at |-> now].attempts # 0
  OBVIOUS

\* A check that is over is a check.
LEMMA Over == M!Idle \in Checks
  BY DEF Checks, M!Idle, M!Statuses, M!Failures

\* The next slot is a time.
LEMMA SlotIsTime ==
    ASSUME M!MonitorAssumption, NEW slot \in Int, NEW now \in Int
    PROVE  M!skipMissedSlots(slot, now) \in Int
  <1>1. Interval \in Int /\ Interval > 0
    BY DEF M!MonitorAssumption
  <1>2. (now - slot) \div Interval \in Int
    BY <1>1
  <1> QED
    BY <1>1, <1>2 DEF M!skipMissedSlots

\* The end of a round keeps the types of what it sets.
LEMMA FinishTypes ==
    ASSUME M!MonitorAssumption, MonitorTypes, M!Finish
    PROVE  /\ clock' \in Int /\ next' \in Int /\ clock' <= clock + MaxDelay
           /\ check' = M!Idle /\ previous' = check.status
           /\ check' \in Checks
           /\ previous' \in M!Statuses \cup {""}
  <1>0. clock \in Int /\ next \in Int /\ MaxDelay \in Nat /\ Interval \in Nat
    BY DEF M!MonitorAssumption, MonitorTypes
  <1>1. PICK d \in 0 .. MaxDelay : clock' = clock + d
    BY DEF M!Finish
  <1>2. clock' \in Int /\ clock' <= clock + MaxDelay
    BY <1>0, <1>1
  <1>3. next + Interval \in Int
    BY <1>0
  <1>4. next' \in Int
    BY <1>2, <1>3, SlotIsTime DEF M!Finish
  <1>5. check' = M!Idle /\ previous' = check.status
    BY DEF M!Finish
  <1>7. check.status \in M!Statuses \cup {""}
    BY DEF MonitorTypes, Checks
  <1> QED
    BY <1>2, <1>4, <1>5, <1>7, Over

\* What an unhealthy check has to say.
LEMMA AlertKinds ==
    ASSUME M!MonitorAssumption, MonitorTypes, NEW status \in Unwell, NEW now \in Int
    PROVE  LET kind == M!AlertKind(status, now)
           IN  /\ kind \in {"abnormal", "cause_changed", "reminder", "", pending}
               /\ kind = "" =>
                      /\ previous = status /\ pending = "" /\ lastAlert # M!None
                      /\ now - lastAlert < RemindInterval
               /\ kind = "reminder" => (previous = status /\ pending = "") \/ pending = "reminder"
  <1>1. lastAlert \in Int /\ RemindInterval \in Nat
    BY DEF M!MonitorAssumption, MonitorTypes
  <1>2. status \notin {"healthy", ""}
    BY DEF Unwell, M!Statuses, M!Failures
  <1> DEFINE kind == M!AlertKind(status, now)
  <1>3. kind = IF previous \in {"healthy", ""} THEN "abnormal"
               ELSE IF status # previous THEN "cause_changed"
               ELSE IF pending # "" THEN pending
               ELSE IF lastAlert = M!None \/ now - lastAlert >= RemindInterval THEN "reminder"
               ELSE ""
    BY DEF M!AlertKind
  <1> HIDE DEF kind
  <1>4. kind \in {"abnormal", "cause_changed", "reminder", "", pending}
    BY <1>3
  <1>5. ASSUME kind = "" PROVE /\ previous = status /\ pending = "" /\ lastAlert # M!None
                               /\ now - lastAlert < RemindInterval
    <2> DEFINE due == lastAlert = M!None \/ now - lastAlert >= RemindInterval
    <2>1. kind = IF previous \in {"healthy", ""} THEN "abnormal"
                 ELSE IF status # previous THEN "cause_changed"
                 ELSE IF pending # "" THEN pending
                 ELSE IF due THEN "reminder" ELSE ""
      BY <1>3
    <2> HIDE DEF due
    <2>2. previous = status /\ pending = "" /\ ~due
      BY <2>1, <1>5
    <2>3. lastAlert # M!None /\ ~(now - lastAlert >= RemindInterval)
      BY <2>2 DEF due
    <2>4. now - lastAlert < RemindInterval
      BY <1>1, <2>3
    <2> QED
      BY <2>2, <2>3, <2>4
  <1>6. ASSUME kind = "reminder"
        PROVE  (previous = status /\ pending = "") \/ pending = "reminder"
    BY <1>3, <1>6
  <1> QED
    BY <1>4, <1>5, <1>6 DEF kind

\* What was told within the interval before a round's end is in time after it.
LEMMA InTime ==
    ASSUME NEW now \in Int, NEW end \in Int, NEW sentAt \in Int, NEW delay \in Nat,
           NEW limit \in Nat, end <= now + delay, now - sentAt < limit
    PROVE  end - sentAt < limit + delay
  OBVIOUS

\* A round that ends unhealthy: an alert is told, waits, or is not yet due.
LEMMA UnhealthyStep ==
    ASSUME M!MonitorAssumption, MonitorInv, NEW sent \in BOOLEAN, M!Unhealthy(sent)
    PROVE  MonitorInv'
  <1> DEFINE status == check.status
             begins == previous \in {"healthy", ""}
             kind == M!AlertKind(status, clock)
             start == IF begins THEN check.at ELSE since
  <1>1. /\ clock' \in Int /\ next' \in Int /\ clock' <= clock + MaxDelay
        /\ check' = M!Idle /\ previous' = status
        /\ check' \in Checks
        /\ previous' \in M!Statuses \cup {""}
    BY FinishTypes DEF MonitorInv, M!Unhealthy
  <1>2. clock \in Int /\ status \in Unwell /\ check.at \in Int /\ since \in Int /\ began \in Int
    BY DEF MonitorInv, MonitorTypes, M!Unhealthy, Checks, Unwell
  <1>3. /\ kind \in {"abnormal", "cause_changed", "reminder", "", pending}
        /\ kind = "" => /\ previous = status /\ pending = "" /\ lastAlert # M!None
                        /\ clock - lastAlert < RemindInterval
        /\ kind = "reminder" => (previous = status /\ pending = "") \/ pending = "reminder"
    BY <1>2, AlertKinds DEF MonitorInv
  <1>4. /\ since' = start /\ began' = IF begins THEN check.at ELSE began
        /\ recoveredPending' = TRUE
    BY DEF M!Unhealthy
  <1>5. \/ kind = "" /\ failed' = FALSE /\ UNCHANGED <<pending, lastAlert, told>>
        \/ /\ kind # "" /\ M!Deliver(kind, status, start)
           /\ lastAlert' = clock /\ pending' = "" /\ failed' = FALSE
        \/ /\ kind # "" /\ failed' = TRUE /\ UNCHANGED <<lastAlert, told>>
           /\ pending' = IF kind = "reminder" THEN pending ELSE kind
    BY DEF M!Unhealthy
  <1>6. ~begins => since = began
    BY DEF MonitorInv, Remembered, MonitorTypes, Unwell
  <1>7. since' \in Int /\ began' \in Int /\ since' = began'
    BY <1>2, <1>4, <1>6
  <1>8. RemindInterval \in Nat /\ RemindInterval > 0 /\ MaxDelay \in Nat
    BY DEF M!MonitorAssumption
  <1>9. previous' = status /\ status \in Unwell
    BY <1>1, <1>2
  <1>10. previous' # "healthy"
    BY <1>9 DEF Unwell
  <1> HIDE DEF status, begins, kind, start
  <1>11. CASE kind = "" /\ failed' = FALSE /\ UNCHANGED <<pending, lastAlert, told>>
    <2>1. previous = status /\ pending = "" /\ ~begins
      BY <1>3, <1>9, <1>11 DEF begins, Unwell, M!Statuses, M!Failures
    <2>2. told.cause = status /\ told.since = began /\ began' = began
      BY <1>4, <1>9, <2>1 DEF MonitorInv, Remembered
    <2>3. told.at = lastAlert /\ lastAlert \in Int /\ clock - lastAlert < RemindInterval
      BY <1>3, <1>11 DEF MonitorInv, Remembered, MonitorTypes
    <2>4. clock' - told'.at < RemindInterval + MaxDelay
      <3>1. clock' - lastAlert < RemindInterval + MaxDelay
        BY <1>1, <1>2, <1>8, <2>3, InTime
      <3> QED
        BY <1>11, <2>3, <3>1
    <2>5. MonitorTypes'
      BY <1>1, <1>4, <1>7, <1>11 DEF MonitorInv, MonitorTypes
    <2>6. Remembered'
      BY <1>4, <1>7, <1>9, <1>11, <2>2, <2>3 DEF Remembered
    <2> QED
      BY <1>9, <1>10, <1>11, <2>2, <2>4, <2>5, <2>6 DEF MonitorInv, M!ToldIsCurrent
  <1>12. CASE /\ kind # "" /\ M!Deliver(kind, status, start)
              /\ lastAlert' = clock /\ pending' = "" /\ failed' = FALSE
    <2>1. told' = [kind |-> kind, cause |-> status, since |-> start, at |-> clock]
      BY <1>12 DEF M!Deliver
    <2>2. told'.cause = status /\ told'.since = began' /\ told'.at = clock
      BY <1>4, <1>7, <2>1
    <2>3. clock' - told'.at < RemindInterval + MaxDelay
      <3>1. clock - clock < RemindInterval
        BY <1>2, <1>8
      <3>2. clock' - clock < RemindInterval + MaxDelay
        BY <1>1, <1>2, <1>8, <3>1, InTime
      <3> QED
        BY <2>2, <3>2
    <2>6. MonitorTypes'
      BY <1>1, <1>2, <1>4, <1>7, <1>12, <2>2 DEF MonitorInv, MonitorTypes
    <2>7. Remembered'
      BY <1>4, <1>7, <1>9, <1>12, <2>2 DEF Remembered
    <2> QED
      BY <1>9, <1>10, <2>2, <2>3, <2>6, <2>7 DEF MonitorInv, M!ToldIsCurrent
  <1>13. CASE /\ kind # "" /\ failed' = TRUE /\ UNCHANGED <<lastAlert, told>>
              /\ pending' = IF kind = "reminder" THEN pending ELSE kind
    <2>1. ASSUME pending' = "" PROVE previous = status /\ pending = "" /\ ~begins
      BY <1>3, <1>9, <1>13, <2>1 DEF begins, Unwell, M!Statuses, M!Failures
    <2>2. ASSUME pending' = "" PROVE told'.cause = status /\ told'.since = began'
      BY <1>4, <1>9, <1>13, <2>1, <2>2 DEF MonitorInv, Remembered
    <2>3. MonitorTypes'
      BY <1>1, <1>4, <1>7, <1>13 DEF MonitorInv, MonitorTypes
    <2>4. Remembered'
      BY <1>4, <1>7, <1>9, <1>13, <2>2 DEF MonitorInv, Remembered
    <2> QED
      BY <1>9, <1>10, <1>13, <2>2, <2>3, <2>4 DEF MonitorInv, M!ToldIsCurrent
  <1> QED
    BY <1>5, <1>11, <1>12, <1>13

\* A round that ends healthy: there is nothing to tell, the recovery is told, or waits.
LEMMA HealthyStep ==
    ASSUME M!MonitorAssumption, MonitorInv, NEW sent \in BOOLEAN, M!Healthy(sent)
    PROVE  MonitorInv'
  <1>1. /\ clock' \in Int /\ next' \in Int /\ clock' <= clock + MaxDelay
        /\ check' = M!Idle /\ previous' = check.status
        /\ check' \in Checks
        /\ previous' \in M!Statuses \cup {""}
    BY FinishTypes DEF MonitorInv, M!Healthy
  <1>2. previous' = "healthy" /\ began' = began
    BY <1>1 DEF M!Healthy
  <1>3. \/ recoveredPending = FALSE /\ sent /\ UNCHANGED <<recoveredPending, told>>
        \/ /\ recoveredPending = TRUE /\ sent /\ recoveredPending' = FALSE
           /\ M!Deliver("recovery", "healthy", since)
        \/ recoveredPending = TRUE /\ ~sent /\ UNCHANGED <<recoveredPending, told>>
    BY DEF M!Healthy, MonitorInv, MonitorTypes
  <1>4. IF sent THEN since' = M!None /\ lastAlert' = M!None /\ pending' = ""
        ELSE UNCHANGED <<since, lastAlert, pending>>
    BY DEF M!Healthy
  <1>13. M!None \in Int
    BY DEF M!None
  <1>0. M!None \in Int /\ since \in Int /\ lastAlert \in Int /\ clock \in Int /\ told.at \in Int
    BY <1>13 DEF MonitorInv, MonitorTypes
  <1>5. since' \in Int /\ lastAlert' \in Int
    <2>1. CASE sent
      BY <1>0, <1>4, <2>1
    <2>2. CASE ~sent
      BY <1>0, <1>4, <2>2
    <2> QED
      BY <2>1, <2>2
  <1>6. /\ told'.at \in Int
        /\ recoveredPending = TRUE /\ recoveredPending' = FALSE =>
               told'.kind = "recovery" /\ told'.since = since
        /\ ~(recoveredPending = TRUE /\ recoveredPending' = FALSE) => told' = told
    BY <1>0, <1>3 DEF M!Deliver
  <1>7. MonitorTypes'
    BY <1>1, <1>2, <1>3, <1>5, <1>6 DEF MonitorInv, MonitorTypes
  <1>8. previous' \notin Unwell
    BY <1>2 DEF Unwell
  <1>9. Remembered'
    <2>1. lastAlert' # M!None => told'.at = lastAlert'
      BY <1>3, <1>4 DEF MonitorInv, Remembered
    <2>2. recoveredPending' => since' = began'
      BY <1>2, <1>3, <1>4 DEF MonitorInv, Remembered
    <2>3. ~recoveredPending' =>
              told'.kind = "" \/ (told'.kind = "recovery" /\ told'.since = began')
      BY <1>2, <1>3, <1>6 DEF MonitorInv, Remembered
    <2> QED
      BY <1>8, <2>1, <2>2, <2>3 DEF Remembered
  <1>10. M!ToldIsCurrent'
    BY <1>2, <1>9 DEF M!ToldIsCurrent, Remembered
  <1> QED
    BY <1>7, <1>9, <1>10 DEF MonitorInv

\* Every step of the loop keeps what its flags say.
LEMMA MonitorStep ==
    ASSUME M!MonitorAssumption, MonitorInv, [M!Run]_(M!monitorVars)
    PROVE  MonitorInv'
  <1>1. CASE UNCHANGED M!monitorVars
    BY <1>1 DEF M!monitorVars, MonitorInv, MonitorTypes, Remembered, M!ToldIsCurrent
  <1>2. ASSUME UNCHANGED M!loopVars, clock' \in Int, check'.attempts # 0,
               check' \in Checks
        PROVE  MonitorInv'
    BY <1>2 DEF M!loopVars, MonitorInv, MonitorTypes, Remembered, M!ToldIsCurrent
  <1>3. CASE M!Wake
    <2>1. clock' \in Int
      BY <1>3 DEF M!Wake, MonitorInv, MonitorTypes
    <2>2. check' = [attempts |-> 1, status |-> "", at |-> clock']
      BY <1>3 DEF M!Wake
    <2>3. check' \in Checks /\ check'.attempts # 0
      <3> DEFINE none == ""
                 Any == M!Statuses \cup {""}
      <3>1. /\ none \in Any /\ Checks = [attempts : Int, status : Any, at : Int]
            /\ check' = [attempts |-> 1, status |-> none, at |-> clock']
        BY <2>2 DEF Checks
      <3> HIDE DEF none, Any
      <3> QED
        BY <2>1, <3>1, Begun
    <2> QED
      BY <1>2, <1>3, <2>1, <2>3 DEF M!Wake
  <1>4. CASE M!Attempt
    <2>1. PICK d \in 0 .. MaxDelay : clock' = clock + d
      BY <1>4 DEF M!Attempt
    <2>2. clock \in Int /\ MaxDelay \in Nat
      BY DEF M!MonitorAssumption, MonitorInv, MonitorTypes
    <2>3. PICK status \in M!Outcomes : check' = [check EXCEPT !.status = status]
      BY <1>4 DEF M!Attempt
    <2>4. status \in M!Statuses
      BY OutcomesAreStatuses
    <2>5. check \in Checks /\ check.attempts > 0
      BY <1>4 DEF M!Attempt, MonitorInv, MonitorTypes
    <2>6. check' \in Checks /\ check'.attempts = check.attempts
      BY <2>3, <2>4, <2>5 DEF Checks
    <2>9. check.attempts \in Int /\ check.attempts > 0
      BY <2>5 DEF Checks
    <2>7. check'.attempts # 0
      BY <2>6, <2>9
    <2>8. clock' \in Int
      BY <2>1, <2>2
    <2> QED
      BY <1>2, <1>4, <2>6, <2>7, <2>8 DEF M!Attempt
  <1>5. CASE M!Retry
    <2>1. check \in Checks /\ check.attempts > 0
      BY <1>5 DEF M!Retry, MonitorInv, MonitorTypes
    <2>2. check' = [check EXCEPT !.attempts = check.attempts + 1, !.status = ""]
      BY <1>5 DEF M!Retry
    <2>5. check.attempts \in Int /\ check.attempts > 0
      BY <2>1 DEF Checks
    <2>3. check.attempts + 1 \in Int /\ check.attempts + 1 # 0
      BY <2>5
    <2>4. check' \in Checks /\ check'.attempts = check.attempts + 1
      BY <2>1, <2>2, <2>3 DEF Checks
    <2> QED
      BY <1>2, <1>5, <2>3, <2>4 DEF M!Retry, MonitorInv, MonitorTypes
  <1> QED
    BY <1>1, <1>3, <1>4, <1>5, UnhealthyStep, HealthyStep DEF M!Run

\* In a behaviour of Services the monitor behaves as Monitor says.
LEMMA MonitorRuns == Spec => M!MonitorSpec
  <1>1. Init => M!MonitorInit
    BY DEF Init
  <1>2. [Next]_vars => [M!Run]_(M!monitorVars)
    BY DEF Next, vars, monitorVars, M!monitorVars
  <1> QED
    BY <1>1, <1>2, PTL DEF Spec, M!MonitorSpec

\* When a round of the monitor is over the operator has been told how the relay
\* is, or an alert waits for the next round: through failing alerts, causes that
\* change back and recoveries that were not sent (monitor.go, Run), for every
\* schedule, number of retries and duration of a probe.
THEOREM ToldAlwaysCurrent == Spec => []ToldIsCurrent
  <1>1. M!MonitorInit => MonitorInv
    <2> SUFFICES ASSUME M!MonitorInit PROVE MonitorInv
      OBVIOUS
    <2>1. M!None \in Int
      BY DEF M!None
    <2>2. check \in Checks
      BY Over DEF M!MonitorInit
    <2>3. previous = "" /\ previous \notin Unwell /\ previous \notin M!Statuses
      BY DEF M!MonitorInit, Unwell, M!Statuses, M!Failures
    <2>6. told = [kind |-> "", cause |-> "", since |-> M!None, at |-> M!None]
      BY DEF M!MonitorInit
    <2>7. told.at \in Int
      BY <2>1, <2>6
    <2>8. clock = 0 /\ next = 0 /\ lastAlert = M!None /\ since = M!None /\ began = M!None
      BY DEF M!MonitorInit
    <2>9. recoveredPending = FALSE
      BY DEF M!MonitorInit
    <2>4. MonitorTypes
      <3>1. clock \in Int /\ next \in Int /\ lastAlert \in Int /\ since \in Int /\ began \in Int
        BY <2>1, <2>8
      <3>2. previous \in M!Statuses \cup {""}
        BY <2>3
      <3> QED
        BY <2>2, <2>7, <2>9, <3>1, <3>2 DEF MonitorTypes
    <2>5. Remembered
      BY <2>3 DEF M!MonitorInit, Remembered
    <2> QED
      BY <2>3, <2>4, <2>5 DEF MonitorInv, M!ToldIsCurrent
  <1>2. MonitorInv /\ [M!Run]_(M!monitorVars) => MonitorInv'
    BY MonitorStep, InstancesAssumption
  <1>3. MonitorInv => M!ToldIsCurrent
    BY DEF MonitorInv
  <1>4. M!MonitorSpec => []M!ToldIsCurrent
    BY <1>1, <1>2, <1>3, PTL DEF M!MonitorSpec
  <1> QED
    BY <1>4, MonitorRuns, PTL DEF ToldIsCurrent

-----------------------------------------------------------------------------
(* The paginator *)

PageTypes ==
    /\ stamps \in [PageEvent -> 1 .. MaxTime]
    /\ nextUntil \in 1 .. MaxTime
    /\ wanted \subseteq PageEvent
    /\ page \subseteq PageEvent
    /\ repeatedCache \in Seq(PageEvent) /\ nextRepeatedCache \in Seq(PageEvent)
    /\ keepGoing \in BOOLEAN

\* What is remembered to be skipped was delivered, and is not below the next page.
Skipped ==
    /\ P!Elements(repeatedCache) \cup P!Elements(nextRepeatedCache) \subseteq globalCh
    /\ pager = "asks" => page = {} /\ nextRepeatedCache = <<>>
    /\ pager = "asks" \/ (pager = "reads" /\ ~keepGoing)
           => \A e \in P!Elements(repeatedCache) : stamps[e] >= nextUntil
    /\ pager = "reads" => \A e \in P!Elements(nextRepeatedCache) : stamps[e] >= nextUntil

\* What is newer than the next page, or than an event of the answer, is in the
\* rest of the answer if it was neither delivered nor cut off.
Covered ==
    pager # "full" =>
        /\ \A f \in wanted : stamps[f] > nextUntil => f \in page \cup globalCh \cup lost
        /\ \A e \in page, f \in wanted :
                stamps[f] > stamps[e] => f \in page \cup globalCh \cup lost

\* A whole answer of which nothing is new so far ends the relay's events, or is full
\* and what was read of it of one second.
Repeats ==
    pager \in {"reads", "ended"} /\ ~keepGoing /\ ~cut =>
        \/ P!UpTo(nextUntil) \subseteq page \cup globalCh
        \/ \E p \in SUBSET PageEvent :
               /\ Cardinality(p) = P!Size /\ page \subseteq p
               /\ \A e \in p : stamps[e] <= nextUntil
               /\ \A e \in p \ page : stamps[e] = nextUntil

Ended == pager = "ended" => page = {} /\ ~keepGoing

PagesInv == PageTypes /\ Skipped /\ Covered /\ Repeats /\ Ended

\* What a cache holds.
LEMMA ElementsAppend ==
    ASSUME NEW T, NEW s \in Seq(T), NEW e \in T
    PROVE  P!Elements(Append(s, e)) = P!Elements(s) \cup {e}
  <1> DEFINE new == Append(s, e)
  <1>1. /\ DOMAIN new = 1 .. Len(s) + 1 /\ DOMAIN s = 1 .. Len(s) /\ Len(s) \in Nat
        /\ \A i \in 1 .. Len(s) : new[i] = s[i]
        /\ new[Len(s) + 1] = e
    OBVIOUS
  <1> HIDE DEF new
  <1>2. \A i \in DOMAIN new : new[i] \in P!Elements(s) \cup {e}
    BY <1>1 DEF P!Elements
  <1>3. \A i \in DOMAIN s : s[i] \in {new[j] : j \in DOMAIN new}
    BY <1>1
  <1>4. e \in {new[j] : j \in DOMAIN new}
    BY <1>1
  <1> QED
    BY <1>2, <1>3, <1>4 DEF P!Elements, new

\* An empty page has no events.
LEMMA ElementsOfNone == P!Elements(<<>>) = {}
  BY DEF P!Elements

\* The relay's answer: all there is, or the newest that fit; or a part of it.
LEMMA FetchStep ==
    ASSUME P!PagesAssumption, PagesInv, P!Fetch
    PROVE  PagesInv'
  <1>1. /\ pager = "asks" /\ pager' = "reads" /\ keepGoing' = FALSE
        /\ UNCHANGED <<stamps, wanted, nextUntil, repeatedCache, nextRepeatedCache, globalCh, atMost>>
    BY DEF P!Fetch
  <1>2. PICK answer \in P!Answers(nextUntil) :
            page' \subseteq answer /\ cut' = (page' # answer) /\ lost' = lost \cup (answer \ page')
    BY DEF P!Fetch
  <1>3. /\ answer \subseteq P!UpTo(nextUntil)
        /\ Cardinality(answer) = P!Size \/ answer = P!UpTo(nextUntil)
        /\ \A e \in answer, f \in P!UpTo(nextUntil) \ answer : stamps[e] >= stamps[f]
    BY DEF P!Answers, P!Cardinality, Cardinality
  <1>9. answer \subseteq PageEvent /\ \A e \in answer : stamps[e] <= nextUntil
    BY <1>3 DEF P!UpTo
  <1>4. PageTypes'
    BY <1>1, <1>2, <1>9 DEF PagesInv, PageTypes
  <1>5. P!Elements(<<>>) = {}
    BY ElementsOfNone
  <1>6. Skipped'
    BY <1>1, <1>5 DEF PagesInv, Skipped, P!Elements
  <1>7. Covered'
    <2>1. page = {}
      BY <1>1 DEF PagesInv, Skipped
    <2>2. \A f \in wanted : stamps[f] > nextUntil => f \in globalCh \cup lost
      BY <1>1, <2>1 DEF PagesInv, Covered
    <2>3. ASSUME NEW e \in page', NEW f \in wanted, stamps[f] > stamps[e]
          PROVE  f \in page' \cup globalCh \cup lost'
      <3>1. stamps[f] \in Nat /\ stamps[e] \in Nat /\ nextUntil \in Nat
        BY <1>2, <1>9 DEF PagesInv, PageTypes
      <3>2. CASE stamps[f] > nextUntil
        BY <1>2, <2>2, <3>2
      <3>3. CASE stamps[f] <= nextUntil
        <4>1. f \in P!UpTo(nextUntil)
          BY <3>3 DEF PagesInv, PageTypes, P!UpTo
        <4>2. ~(stamps[e] >= stamps[f])
          BY <2>3, <3>1
        <4> QED
          BY <1>2, <1>3, <4>1, <4>2
      <3> QED
        BY <3>1, <3>2, <3>3
    <2> QED
      BY <1>1, <1>2, <2>2, <2>3 DEF Covered
  <1>8. Repeats'
    <2>1. P!Size' = P!Size /\ P!UpTo(nextUntil)' = P!UpTo(nextUntil)
      BY <1>1 DEF P!Size, P!UpTo
    <2> SUFFICES ASSUME ~cut' PROVE Repeats'
      BY DEF Repeats
    <2>2. page' = answer
      BY <1>2
    <2>3. CASE answer = P!UpTo(nextUntil)
      BY <2>1, <2>2, <2>3 DEF Repeats
    <2>4. CASE Cardinality(answer) = P!Size
      <3>1. \A e \in answer \ page' : stamps[e] = nextUntil
        BY <2>2
      <3> QED
        BY <1>1, <1>9, <2>1, <2>2, <2>4, <3>1 DEF Repeats
    <2> QED
      BY <1>3, <2>3, <2>4
  <1> QED
    BY <1>1, <1>4, <1>6, <1>7, <1>8 DEF PagesInv, Ended

\* An event of the previous page is skipped: it was delivered.
LEMMA SkipStep ==
    ASSUME P!PagesAssumption, PagesInv, pager = "reads", UNCHANGED <<stamps, wanted, atMost, cut, lost>>,
           NEW e \in page, page' = page \ {e}, P!SkipRepeated(e)
    PROVE  PagesInv'
  <1>1. /\ e \in P!Elements(repeatedCache)
        /\ UNCHANGED <<nextUntil, repeatedCache, nextRepeatedCache, keepGoing, globalCh, pager>>
    BY DEF P!SkipRepeated
  <1>2. e \in globalCh
    BY <1>1 DEF PagesInv, Skipped
  <1>3. PageTypes'
    BY <1>1 DEF PagesInv, PageTypes
  <1>4. Skipped'
    BY <1>1 DEF PagesInv, Skipped, P!Elements
  <1>5. Covered'
    BY <1>1, <1>2 DEF PagesInv, Covered
  <1>6. Repeats'
    <2> SUFFICES ASSUME ~keepGoing, ~cut PROVE Repeats'
      BY <1>1 DEF Repeats
    <2>1. P!Size' = P!Size /\ P!UpTo(nextUntil)' = P!UpTo(nextUntil)
      BY <1>1 DEF P!Size, P!UpTo
    <2>2. CASE P!UpTo(nextUntil) \subseteq page \cup globalCh
      BY <1>1, <1>2, <2>1, <2>2 DEF Repeats
    <2>3. ASSUME NEW p \in SUBSET PageEvent,
                 Cardinality(p) = P!Size, page \subseteq p,
                 \A f \in p : stamps[f] <= nextUntil,
                 \A f \in p \ page : stamps[f] = nextUntil
          PROVE  Repeats'
      <3>1. stamps[e] >= nextUntil /\ stamps[e] <= nextUntil
        BY <1>1, <2>3 DEF PagesInv, Skipped
      <3>2. stamps[e] = nextUntil
        <4>1. stamps[e] \in Nat /\ nextUntil \in Nat
          BY DEF PagesInv, PageTypes
        <4> QED
          BY <3>1, <4>1
      <3>3. \A f \in p \ page' : stamps[f] = nextUntil
        BY <2>3, <3>2
      <3>4. page' \subseteq p
        BY <2>3
      <3> QED
        BY <1>1, <2>1, <2>3, <3>3, <3>4 DEF Repeats
    <2> QED
      BY <2>2, <2>3 DEF PagesInv, Repeats
  <1> QED
    BY <1>1, <1>3, <1>4, <1>5, <1>6 DEF PagesInv, Ended

\* An event is delivered, and the next page begins no newer than it.
LEMMA DeliverStep ==
    ASSUME P!PagesAssumption, PagesInv, pager = "reads", UNCHANGED <<stamps, wanted, atMost, cut, lost>>,
           NEW e \in page, page' = page \ {e}, P!DeliverEvent(e)
    PROVE  PagesInv'
  <1>1. /\ keepGoing' = TRUE /\ globalCh' = globalCh \cup {e}
        /\ nextRepeatedCache' = Append(nextRepeatedCache, e)
        /\ repeatedCache' = [i \in DOMAIN repeatedCache |->
                                IF i = Len(nextRepeatedCache) + 1 THEN e ELSE repeatedCache[i]]
        /\ \/ pager' = "full" /\ nextUntil' = nextUntil
           \/ pager' = "reads" /\ nextUntil' = P!Lower(e)
    BY DEF P!DeliverEvent
  <1>2. e \in PageEvent /\ stamps[e] \in 1 .. MaxTime /\ nextUntil \in 1 .. MaxTime /\ MaxTime \in Nat
    BY DEF PagesInv, PageTypes, P!PagesAssumption
  <1>3. /\ P!Lower(e) \in 1 .. MaxTime /\ P!Lower(e) <= stamps[e] /\ P!Lower(e) <= nextUntil
        /\ P!Lower(e) = stamps[e] \/ P!Lower(e) = nextUntil
    BY <1>2 DEF P!Lower
  <1>4. /\ repeatedCache' \in Seq(PageEvent)
        /\ P!Elements(repeatedCache') \subseteq P!Elements(repeatedCache) \cup {e}
    <2>1. PICK old, now : old = repeatedCache /\ now = repeatedCache'
      OBVIOUS
    <2>2. PICK k : k = Len(nextRepeatedCache) + 1
      OBVIOUS
    <2>3. old \in Seq(PageEvent)
      BY <2>1 DEF PagesInv, PageTypes
    <2>4. now = [i \in DOMAIN old |-> IF i = k THEN e ELSE old[i]]
      BY ONLY <1>1, <2>1, <2>2
    <2>5. now \in Seq(PageEvent) /\ P!Elements(now) \subseteq P!Elements(old) \cup {e}
      <3>1. e \in PageEvent
        BY <1>2
      <3> QED
        BY ONLY <3>1, <2>3, <2>4 DEF P!Elements
    <2> QED
      BY <2>1, <2>5
  <1>5. /\ nextRepeatedCache' \in Seq(PageEvent)
        /\ P!Elements(nextRepeatedCache') = P!Elements(nextRepeatedCache) \cup {e}
    BY <1>1, <1>2, ElementsAppend DEF PagesInv, PageTypes
  <1>6. PageTypes'
    BY <1>1, <1>2, <1>3, <1>4, <1>5 DEF PagesInv, PageTypes
  <1>7. Skipped'
    <2>1. P!Elements(repeatedCache') \cup P!Elements(nextRepeatedCache') \subseteq globalCh'
      BY <1>1, <1>4, <1>5 DEF PagesInv, Skipped
    <2>2. ASSUME pager' = "reads", NEW f \in P!Elements(nextRepeatedCache')
          PROVE  stamps[f] >= nextUntil'
      <3>1. nextUntil' = P!Lower(e)
        BY <1>1, <2>2
      <3>2. CASE f = e
        BY <1>2, <1>3, <3>1, <3>2
      <3>3. CASE f # e
        <4>1. f \in P!Elements(nextRepeatedCache) /\ stamps[f] >= nextUntil
          BY <1>5, <2>2, <3>3 DEF PagesInv, Skipped
        <4>2. stamps[f] \in Nat
          BY <4>1 DEF PagesInv, PageTypes, P!Elements
        <4> QED
          BY <1>2, <1>3, <3>1, <4>1, <4>2
      <3> QED
        BY <3>2, <3>3
    <2>3. P!Elements(repeatedCache)' = P!Elements(repeatedCache') /\
          P!Elements(nextRepeatedCache)' = P!Elements(nextRepeatedCache')
      BY DEF P!Elements
    <2>4. pager' # "asks"
      BY <1>1
    <2> QED
      BY <1>1, <2>1, <2>2, <2>3, <2>4 DEF Skipped
  <1>8. Covered'
    <2> SUFFICES ASSUME pager' = "reads" PROVE Covered'
      BY <1>1 DEF Covered
    <2>1. page \cup globalCh \cup lost = page' \cup globalCh' \cup lost'
      BY <1>1
    <2>2. ASSUME NEW f \in wanted, stamps[f] > nextUntil'
          PROVE  f \in page \cup globalCh \cup lost
      <3>1. CASE nextUntil' = nextUntil
        BY <2>2, <3>1 DEF PagesInv, Covered
      <3>2. CASE nextUntil' = stamps[e]
        BY <2>2, <3>2 DEF PagesInv, Covered
      <3> QED
        BY <1>1, <1>3, <3>1, <3>2
    <2> QED
      BY <2>1, <2>2 DEF PagesInv, Covered
  <1> QED
    BY <1>1, <1>6, <1>7, <1>8 DEF PagesInv, Ended, Repeats

\* A page is over.
LEMMA EndPageStep ==
    ASSUME PagesInv, P!EndPage
    PROVE  PagesInv'
  <1>1. /\ pager = "reads" /\ page = {}
        /\ UNCHANGED <<stamps, wanted, atMost, nextUntil, page, cut, lost, keepGoing, globalCh>>
    BY DEF P!EndPage
  <1>2. P!Elements(<<>>) = {}
    BY ElementsOfNone
  <1>3. CASE keepGoing
    <2>1. pager' = "asks" /\ repeatedCache' = nextRepeatedCache /\ nextRepeatedCache' = <<>>
      BY <1>3 DEF P!EndPage
    <2>2. PageTypes'
      BY <1>1, <2>1 DEF PagesInv, PageTypes
    <2>3. P!Elements(repeatedCache)' = P!Elements(nextRepeatedCache)
      BY <2>1 DEF P!Elements
    <2>4. P!Elements(nextRepeatedCache)' = {}
      BY <2>1, <1>2 DEF P!Elements
    <2>5. Skipped'
      BY <1>1, <2>1, <2>3, <2>4 DEF PagesInv, Skipped
    <2> QED
      BY <1>1, <2>1, <2>2, <2>5 DEF PagesInv, Covered, Repeats, Ended
  <1>4. CASE ~keepGoing
    <2>1. pager' = "ended" /\ UNCHANGED <<repeatedCache, nextRepeatedCache>>
      BY <1>4 DEF P!EndPage
    <2>2. PageTypes'
      BY <1>1, <2>1 DEF PagesInv, PageTypes
    <2>3. Skipped'
      BY <1>1, <2>1 DEF PagesInv, Skipped, P!Elements
    <2>4. Repeats'
      BY <1>1, <1>4, <2>1 DEF PagesInv, Repeats, P!UpTo, P!Size
    <2> QED
      BY <1>1, <1>4, <2>1, <2>2, <2>3, <2>4 DEF PagesInv, Covered, Ended
  <1> QED
    BY <1>3, <1>4

\* Every step of the paginator keeps the invariant.
LEMMA PagesStep ==
    ASSUME P!PagesAssumption, PagesInv, [P!PagesNext]_(P!pageVars)
    PROVE  PagesInv'
  <1>1. CASE UNCHANGED P!pageVars
    BY <1>1 DEF P!pageVars, PagesInv, PageTypes, Skipped, Covered, Repeats, Ended, P!UpTo, P!Size,
                P!Elements
  <1>2. CASE P!Read
    <2>1. pager = "reads" /\ UNCHANGED <<stamps, wanted, atMost, cut, lost>>
      BY <1>2 DEF P!Read
    <2>2. PICK e \in page : page' = page \ {e} /\ (P!SkipRepeated(e) \/ P!DeliverEvent(e))
      BY <1>2 DEF P!Read
    <2> QED
      BY <2>1, <2>2, SkipStep, DeliverStep
  <1> QED
    BY <1>1, <1>2, FetchStep, EndPageStep DEF P!PagesNext

\* A full answer of one second is what the property calls crowded.
LEMMA PagesComplete ==
    ASSUME P!PagesAssumption, PagesInv
    PROVE  P!PagesAreComplete
  <1>1. ASSUME pager = "asks" PROVE {e \in wanted : stamps[e] > nextUntil} \subseteq globalCh \cup lost
    BY <1>1 DEF PagesInv, Covered, Skipped
  <1>2. ASSUME pager = "ended", ~cut, ~P!Crowded PROVE wanted \subseteq globalCh \cup lost
    <2>1. page = {} /\ ~keepGoing
      BY <1>2 DEF PagesInv, Ended
    <2>2. CASE P!UpTo(nextUntil) \subseteq globalCh
      <3> SUFFICES ASSUME NEW f \in wanted PROVE f \in globalCh \cup lost
        OBVIOUS
      <3>1. f \in PageEvent /\ stamps[f] \in Nat /\ nextUntil \in Nat
        BY DEF PagesInv, PageTypes
      <3>2. CASE stamps[f] > nextUntil
        BY <1>2, <2>1, <3>2 DEF PagesInv, Covered
      <3>3. CASE stamps[f] <= nextUntil
        BY <2>2, <3>1, <3>3 DEF P!UpTo
      <3> QED
        BY <3>1, <3>2, <3>3
    <2>3. ASSUME NEW p \in SUBSET PageEvent,
                 Cardinality(p) = P!Size, \A e \in p : stamps[e] = nextUntil
          PROVE  FALSE
      <3> DEFINE q == {e \in PageEvent : stamps[e] = nextUntil}
      <3>1. p \subseteq q /\ q \subseteq PageEvent
        BY <2>3
      <3>2. IsFiniteSet(PageEvent)
        BY DEF P!PagesAssumption, P!IsFiniteSet, IsFiniteSet
      <3>3. IsFiniteSet(q)
        BY <3>1, <3>2, FS_Subset
      <3>4. Cardinality(p) <= Cardinality(q)
        BY <3>1, <3>3, FS_Subset
      <3>5. Cardinality(p) \in Nat /\ Cardinality(q) \in Nat
        BY <3>1, <3>3, FS_Subset, FS_CardinalityType
      <3>6. Cardinality(q) >= P!Size
        BY <2>3, <3>4, <3>5
      <3>7. nextUntil \in 1 .. MaxTime
        BY DEF PagesInv, PageTypes
      <3>8. P!Crowded
        BY <3>6, <3>7 DEF P!Crowded, P!Cardinality, Cardinality
      <3> QED
        BY <1>2, <3>8
    <2> QED
      BY <1>2, <2>1, <2>2, <2>3 DEF PagesInv, Repeats
  <1> QED
    BY <1>1, <1>2 DEF P!PagesAreComplete

\* In a behaviour of Services the part of the pages behaves as Paginator says,
\* and the others do not ask.
PagesRun ==
    \/ part = "pages" /\ PagesInv
    \/ part # "pages" /\ pager = "full"

\* Nothing is lost between two pages but what a page that was cut off did not
\* bring, nor when a whole page ends the paginator; in whatever order the events
\* of an answer are dispatched, and although the two caches share one array
\* (nostr/paginator.go): for every relay, page size, limit and until.
THEOREM PagesAlwaysComplete == Spec => []PagesAreComplete
  <1>1. Init => PagesRun
    <2> SUFFICES ASSUME Init PROVE PagesRun
      OBVIOUS
    <2>1. CASE part # "pages"
      BY <2>1 DEF Init, NoPages, PagesRun
    <2>2. CASE part = "pages"
      <3>1. P!PagesInit
        BY <2>2 DEF Init
      <3>2. P!Elements(<<>>) = {}
        BY ElementsOfNone
      <3>6. /\ stamps \in [PageEvent -> 1 .. MaxTime] /\ nextUntil \in 1 .. MaxTime
            /\ wanted = P!UpTo(nextUntil) /\ page = {} /\ keepGoing = FALSE /\ pager = "asks"
            /\ repeatedCache = <<>> /\ nextRepeatedCache = <<>>
        BY <3>1, InstancesAssumption DEF P!PagesInit, P!PagesAssumption
      <3>7. <<>> \in Seq(PageEvent) /\ wanted \subseteq PageEvent
        BY <3>6 DEF P!UpTo
      <3>3. PageTypes
        BY <3>6, <3>7 DEF PageTypes
      <3>4. Skipped
        BY <3>1, <3>2 DEF P!PagesInit, Skipped
      <3>5. Covered
        <4>1. \A f \in wanted : ~(stamps[f] > nextUntil)
          BY <3>1, <3>3 DEF P!PagesInit, P!UpTo, PageTypes
        <4> QED
          BY <3>1, <4>1 DEF P!PagesInit, Covered
      <3> QED
        BY <2>2, <3>3, <3>4, <3>5, <3>6 DEF PagesInv, Repeats, Ended, PagesRun
    <2> QED
      BY <2>1, <2>2
  <1>2. PagesRun /\ [Next]_vars => PagesRun'
    <2> SUFFICES ASSUME PagesRun, [Next]_vars PROVE PagesRun'
      OBVIOUS
    <2>1. part' = part
      BY DEF Next, vars
    <2>2. CASE part = "pages"
      <3>1. [P!PagesNext]_(P!pageVars)
        BY <2>2 DEF Next, vars, pageVars, P!pageVars
      <3>2. PagesInv
        BY <2>2 DEF PagesRun
      <3>3. P!PagesAssumption
        BY InstancesAssumption
      <3>4. PagesInv'
        BY <3>1, <3>2, <3>3, PagesStep
      <3> QED
        BY <2>1, <2>2, <3>4 DEF PagesRun
    <2>3. CASE part # "pages"
      <3>1. UNCHANGED pageVars
        BY <2>3 DEF Next, vars
      <3> QED
        BY <2>1, <2>3, <3>1 DEF pageVars, PagesRun
    <2> QED
      BY <2>2, <2>3
  <1>3. PagesRun => PagesAreComplete
    BY PagesComplete, InstancesAssumption DEF PagesRun, PagesAreComplete, P!PagesAreComplete
  <1> QED
    BY <1>1, <1>2, <1>3, PTL DEF Spec

-----------------------------------------------------------------------------
(* Filters *)

\* What comes before an event in the order of the query.
Before(A, d) == {c \in A : S!Sooner(c, d)}

\* Times and ids are numbers: the order of the query is one.
Ordered(A) == \A d \in A : d.time \in Int /\ d.id \in Int

\* Sooner is a strict order of events whose times and ids are ordered.
LEMMA SoonerOrders ==
    ASSUME NEW A, Ordered(A)
    PROVE  /\ \A d \in A : ~S!Sooner(d, d)
           /\ \A b, c, d \in A : S!Sooner(b, c) /\ S!Sooner(c, d) => S!Sooner(b, d)
  BY DEF Ordered, S!Sooner

\* Of the events before an event that is cut off there are as many as the limit
\* among those that are not: the first that is cut off has all of its own there.
LEMMA CutOffByLimit ==
    ASSUME NEW A, IsFiniteSet(A), Ordered(A), NEW n \in Int, NEW e \in A,
           Cardinality(Before(A, e)) >= n
    PROVE  Cardinality({d \in A : Cardinality(Before(A, d)) < n /\ S!Sooner(d, e)}) >= n
  <1> DEFINE top == {d \in A : Cardinality(Before(A, d)) < n}
             T == {d \in A : Cardinality(Before(A, d)) >= n /\ (d = e \/ S!Sooner(d, e))}
             PT == {Before(A, d) : d \in T}
  <1>1. \A d \in A : Before(A, d) \in SUBSET A
    BY DEF Before
  <1>2. \A d \in A : IsFiniteSet(Before(A, d)) /\ Cardinality(Before(A, d)) \in Nat
    BY <1>1, FS_Subset, FS_CardinalityType
  <1>3. PT \subseteq FiniteSubsetsOf(A) /\ PT # {}
    BY <1>1, <1>2 DEF FiniteSubsetsOf
  <1>4. PICK x \in PT : \A y \in PT : ~(<<y, x>> \in StrictSubsetOrdering(A))
    BY <1>3, FS_StrictSubsetOrderingWellFounded, WFMin
  <1>5. PICK d \in T : x = Before(A, d)
    OBVIOUS
  <1>6. ASSUME NEW c \in Before(A, d) PROVE c \in top /\ S!Sooner(c, e)
    <2>1. c \in A /\ d \in A /\ S!Sooner(c, d)
      BY DEF Before
    <2>2. S!Sooner(c, e)
      BY <2>1, SoonerOrders
    <2>3. Before(A, c) \subseteq Before(A, d) /\ c \notin Before(A, c)
      BY <2>1, SoonerOrders DEF Before
    <2>4. Before(A, c) \subseteq x /\ Before(A, c) # x
      BY <1>5, <1>6, <2>3
    <2>5. <<Before(A, c), x>> \in StrictSubsetOrdering(A)
      BY <1>1, <1>5, <2>1, <2>4 DEF StrictSubsetOrdering
    <2>6. ~(c \in T)
      BY <1>4, <2>5
    <2>7. ~(Cardinality(Before(A, c)) >= n)
      BY <2>1, <2>2, <2>6
    <2> QED
      BY <1>2, <2>1, <2>2, <2>7
  <1>7. DEFINE Among == {c \in A : Cardinality(Before(A, c)) < n /\ S!Sooner(c, e)}
  <1>8. Before(A, d) \subseteq Among /\ Among \in SUBSET A
    BY <1>1, <1>6
  <1>9. IsFiniteSet(Among)
    BY <1>8, FS_Subset
  <1>10. Cardinality(Before(A, d)) <= Cardinality(Among) /\ Cardinality(Among) \in Nat
    BY <1>8, <1>9, FS_Subset, FS_CardinalityType
  <1>11. Cardinality(Before(A, d)) >= n /\ Cardinality(Before(A, d)) \in Nat
    BY <1>2
  <1> HIDE DEF Among
  <1>12. Cardinality(Among) >= n
    BY <1>10, <1>11
  <1> QED
    BY <1>12 DEF Among

FilterTypes ==
    /\ filter \in Filter
    /\ table \subseteq Event /\ got \subseteq Event /\ early \subseteq Event /\ late \subseteq Event

\* Nothing is sent before the query, and nothing live before the listener is there.
Unanswered == req = "sent" => got = {} /\ late = {}

FilterInv == FilterTypes /\ Unanswered /\ S!MatchesAreSent

\* What Matches finds, and the search if there is one, the query's condition does,
\* if its tags have keys of one letter.
LEMMA SelectedIfMatches ==
    ASSUME NEW f, NEW e, S!Matches(f, e), S!Found(f, e), DOMAIN f.tags \subseteq Letter
    PROVE  S!Where(f, e)
  <1>1. \A field \in S!Fields : S!InColumn(f[field], e[field])
    BY DEF S!Matches, S!MatchesIgnoringTimestampConstraints, S!InList, S!InColumn
  <1>2. ASSUME NEW key \in DOMAIN f.tags PROVE S!tagvalues(e) \cap f.tags[key] # {}
    <2>1. PICK tag \in e.tags : tag.key = key /\ tag.value \in f.tags[key]
      BY DEF S!Matches, S!MatchesIgnoringTimestampConstraints, S!ContainsAny
    <2> QED
      BY <2>1 DEF S!tagvalues
  <1> QED
    BY <1>1, <1>2 DEF S!Matches, S!Where

\* What the query selects or Matches finds, matches but for keys and empty lists.
LEMMA LooselyIfSelected ==
    ASSUME S!FilterAssumption, NEW f \in Filter, NEW e \in Event,
           S!Where(f, e) \/ S!Matches(f, e)
    PROVE  S!MatchesLoosely(f, e)
  <1>1. f.since \in Int /\ f.until \in Int /\ e.time \in Int
    BY DEF S!FilterAssumption
  <1>2. \A field \in S!Fields : f[field] = Nil \/ f[field] = {} \/ e[field] \in f[field]
    BY DEF S!Where, S!Matches, S!MatchesIgnoringTimestampConstraints, S!InColumn, S!InList
  <1>3. ASSUME NEW key \in DOMAIN f.tags PROVE \E tag \in e.tags : tag.value \in f.tags[key]
    BY DEF S!Where, S!Matches, S!MatchesIgnoringTimestampConstraints, S!tagvalues, S!ContainsAny
  <1>4. f.since = S!None \/ e.time >= f.since
    BY DEF S!Where, S!Matches
  <1>5. f.until = S!None \/ e.time <= f.until
    BY DEF S!Where, S!Matches
  <1>6. f.since = S!None \/ f.since <= e.time
    BY <1>1, <1>4
  <1> QED
    BY <1>2, <1>3, <1>5, <1>6 DEF S!MatchesLoosely

\* More that is sent leaves what is sent before an event.
LEMMA MoreSent ==
    ASSUME NEW g, NEW h, IsFiniteSet(h), g \subseteq h, NEW e, NEW n \in Int,
           Cardinality({d \in g : S!Sooner(d, e)}) >= n
    PROVE  Cardinality({d \in h : S!Sooner(d, e)}) >= n
  <1> DEFINE G == {d \in g : S!Sooner(d, e)}
             H == {d \in h : S!Sooner(d, e)}
  <1>1. H \in SUBSET h /\ G \in SUBSET H
    OBVIOUS
  <1>2. IsFiniteSet(H)
    BY <1>1, FS_Subset
  <1>3. /\ Cardinality(G) <= Cardinality(H)
        /\ Cardinality(G) \in Nat /\ Cardinality(H) \in Nat
    BY <1>1, <1>2, FS_Subset, FS_CardinalityType
  <1>4. Cardinality(G) >= n
    OBVIOUS
  <1> HIDE DEF G, H
  <1>5. Cardinality(H) >= n
    BY <1>3, <1>4
  <1> QED
    BY <1>5 DEF H

\* The limit of a filter is a number.
LEMMA LimitIsNumber ==
    ASSUME S!FilterAssumption, NEW f \in Filter
    PROVE  S!Limit(f) \in Int
  BY DEF S!FilterAssumption, S!Limit

\* The stored events: what is cut off is older than as many as the limit.
LEMMA QueryStep ==
    ASSUME S!FilterAssumption, FilterInv, S!QueryStored
    PROVE  FilterInv'
  <1>1. /\ req = "sent" /\ req' \in {"queried", "closed"} /\ early' = table
        /\ UNCHANGED <<filter, table, late>>
    BY DEF S!QueryStored
  <1>2. got = {} /\ late = {} /\ filter \in Filter /\ table \subseteq Event
    BY <1>1 DEF FilterInv, Unanswered, FilterTypes
  <1>3. got' \subseteq S!Rows(filter, table)
    BY <1>2 DEF S!QueryStored
  <1>4. req' = "queried" /\ ~filter.limitZero /\ ~S!Refused(filter)
            => got' = S!Rows(filter, table)
    BY <1>1 DEF S!QueryStored
  <1>5. \A e \in got' : e \in table /\ S!Where(filter, e)
    BY <1>3 DEF S!Rows, S!Selected
  <1>6. FilterTypes'
    BY <1>1, <1>2, <1>5 DEF FilterTypes, FilterInv
  <1>7. ASSUME req' \in {"queried", "live"}, ~filter.limitZero, ~S!Refused(filter),
               DOMAIN filter.tags \subseteq Letter,
               NEW e \in table, S!Matches(filter, e), S!Found(filter, e), e \notin got'
        PROVE  Cardinality({d \in got' : S!Sooner(d, e)}) >= S!Limit(filter)
    <2> DEFINE A == S!Selected(filter, table)
               n == S!Limit(filter)
    <2>1. e \in A
      BY <1>7, SelectedIfMatches DEF S!Selected
    <2>2. A \in SUBSET Event /\ IsFiniteSet(Event)
      BY <1>2 DEF S!Selected, S!FilterAssumption, S!IsFiniteSet, IsFiniteSet
    <2>3. IsFiniteSet(A)
      BY <2>2, FS_Subset
    <2>4. Ordered(A)
      BY <2>2 DEF Ordered, S!FilterAssumption
    <2>5. n \in Int
      BY <1>2, LimitIsNumber
    <2>6. got' = {d \in A : Cardinality(Before(A, d)) < n}
      BY <1>1, <1>4, <1>7 DEF S!Rows, Before, S!Cardinality, Cardinality
    <2>7. Before(A, e) \in SUBSET A
      BY DEF Before
    <2>8. IsFiniteSet(Before(A, e)) /\ Cardinality(Before(A, e)) \in Nat
      BY <2>3, <2>7, FS_Subset, FS_CardinalityType
    <2> HIDE DEF A, n
    <2>9. Cardinality(Before(A, e)) >= n
      BY <1>7, <2>1, <2>5, <2>6, <2>8
    <2>10. Cardinality({d \in A : Cardinality(Before(A, d)) < n /\ S!Sooner(d, e)}) >= n
      BY <2>1, <2>3, <2>4, <2>5, <2>9, CutOffByLimit
    <2>11. {d \in A : Cardinality(Before(A, d)) < n /\ S!Sooner(d, e)}
               = {d \in got' : S!Sooner(d, e)}
      BY <2>6
    <2> QED
      BY <2>10, <2>11 DEF n
  <1>8. \A e \in got' : S!MatchesLoosely(filter, e)
    BY <1>2, <1>5, LooselyIfSelected
  <1>9. S!MatchesAreSent'
    <2>1. \A e \in got' : S!Found(filter, e)
      BY <1>5 DEF S!Where
    <2> QED
      BY <2>1, <1>1, <1>2, <1>5, <1>7, <1>8 DEF S!MatchesAreSent, S!Cardinality, Cardinality
  <1> QED
    BY <1>1, <1>6, <1>9 DEF FilterInv, Unanswered

\* A live event: it is sent if it matches.
LEMMA NotifyStep ==
    ASSUME S!FilterAssumption, FilterInv, NEW e \in Event, S!NotifyListeners(e)
    PROVE  FilterInv'
  <1>1. /\ UNCHANGED <<filter, req, table, early>>
        /\ got' = IF req = "live" /\ S!Matches(filter, e) THEN got \cup {e} ELSE got
        /\ late' = IF req = "live" THEN late \cup {e} ELSE late
    BY DEF S!NotifyListeners
  <1>2. got \subseteq got' /\ got' \subseteq got \cup {e} /\ late' \subseteq late \cup {e}
    BY <1>1
  <1>3. e \in got' \ got => S!Matches(filter, e)
    BY <1>1
  <1>4. /\ e \in late' \ late /\ S!Matches(filter, e) => e \in got'
        /\ got' \ late' \subseteq got \ late
    BY <1>1
  <1>5. FilterTypes'
    BY <1>1, <1>2 DEF FilterInv, FilterTypes
  <1>6. filter \in Filter /\ got' \in SUBSET Event
    BY <1>1, <1>5 DEF FilterTypes
  <1>7. IsFiniteSet(got')
    <2>1. IsFiniteSet(Event)
      BY DEF S!FilterAssumption, S!IsFiniteSet, IsFiniteSet
    <2>2. got' \subseteq Event
      BY ONLY <1>6
    <2> QED
      BY ONLY <2>1, <2>2, FS_Subset
  <1>8. \A d \in early :
            Cardinality({c \in got : S!Sooner(c, d)}) >= S!Limit(filter)
            => Cardinality({c \in got' : S!Sooner(c, d)}) >= S!Limit(filter)
    BY <1>2, <1>6, <1>7, MoreSent, LimitIsNumber
  <1>9. e \in got' \ got => S!MatchesLoosely(filter, e)
    BY <1>3, <1>6, LooselyIfSelected
  <1>10. S!MatchesAreSent'
    BY <1>1, <1>2, <1>3, <1>4, <1>8, <1>9
    DEF FilterInv, S!MatchesAreSent, S!Cardinality, Cardinality
  <1>11. Unanswered'
    BY <1>1 DEF FilterInv, Unanswered
  <1> QED
    BY <1>5, <1>10, <1>11 DEF FilterInv

\* Every step of a subscription keeps the invariant.
LEMMA FilterStep ==
    ASSUME S!FilterAssumption, FilterInv, [S!SubNext]_(S!subVars)
    PROVE  FilterInv'
  <1>1. CASE UNCHANGED S!subVars
    BY <1>1 DEF S!subVars, FilterInv, FilterTypes, Unanswered, S!MatchesAreSent
  <1>2. CASE S!AddListener
    BY <1>2 DEF S!AddListener, FilterInv, FilterTypes, Unanswered, S!MatchesAreSent
  <1>3. ASSUME NEW e \in Event, S!StoreEvent(e) PROVE FilterInv'
    BY <1>3 DEF S!StoreEvent, FilterInv, FilterTypes, Unanswered, S!MatchesAreSent
  <1> QED
    BY <1>1, <1>2, <1>3, QueryStep, NotifyStep DEF S!SubNext

\* A subscription in a behaviour of Services behaves as StoredAndLive says.
LEMMA FiltersRun == Spec => S!SubSpec
  <1>1. Init => S!SubInit
    BY DEF Init
  <1>2. [Next]_vars => [S!SubNext]_(S!subVars)
    BY DEF Next, vars, subVars, S!subVars
  <1> QED
    BY <1>1, <1>2, PTL DEF Spec, S!SubSpec

\* An event that matches, and is found by the search if it is stored, reaches the
\* subscriber, stored or live, or the limit is filled by newer ones; what is sent
\* matches, but for the keys of tags and the search (query.go:74-190,
\* filter.go:55-95): for every set of events and of filters.
THEOREM MatchesAlwaysSent == Spec => []MatchesAreSent
  <1>1. S!SubInit => FilterInv
    BY DEF S!SubInit, FilterInv, FilterTypes, Unanswered, S!MatchesAreSent
  <1>2. FilterInv /\ [S!SubNext]_(S!subVars) => FilterInv'
    BY FilterStep, InstancesAssumption
  <1>3. FilterInv => S!MatchesAreSent
    BY DEF FilterInv
  <1>4. S!SubSpec => []S!MatchesAreSent
    BY <1>1, <1>2, <1>3, PTL DEF S!SubSpec
  <1> QED
    BY <1>4, FiltersRun, PTL DEF MatchesAreSent

-----------------------------------------------------------------------------
(* Copying what two sides do not share *)

Loops == [pc : {"grab", "grabbing", "range", "done"}, list : Nat, length : Nat, read : Seq(Nat)]
Batches == [dir : C!Dir, list : Nat, length : Nat, pc : {"query", "giveback", "giving", "done"},
            read : Seq(Nat)]

CopyTypes ==
    /\ syncing \in Syncs
    /\ used \subseteq C!Dir
    /\ found \in [C!Dir -> Seq(Nat)]
    /\ chan \in [C!Dir -> Seq(Nat)]
    /\ loop \in [C!Dir -> Loops]
    /\ seen \in [C!Dir -> SUBSET Nat]
    /\ lists \in Seq(Seq(Nat))
    /\ batches \in Seq(Batches)
    /\ asked \in [C!Dir -> [C!Ids -> Nat]]

\* The lists that are lent, given back or in the pool exist, and those lent are
\* as long as their holders say.
Lent ==
    /\ pool \in Seq(DOMAIN lists)
    /\ \A d \in C!Dir :
        /\ loop[d].read \in Seq(DOMAIN lists)
        /\ loop[d].pc = "range" =>
              loop[d].list \in DOMAIN lists /\ loop[d].length <= Len(lists[loop[d].list])
    /\ \A b \in DOMAIN batches :
        /\ batches[b].read \in Seq(DOMAIN lists)
        /\ batches[b].pc # "done" =>
              batches[b].list \in DOMAIN lists /\ batches[b].length <= Len(lists[batches[b].list])

\* What was reported was seen, or waits in the channel, or is to be reported yet.
Reported ==
    \A d \in C!Dir : \A id :
        id \in C!Range(C!Found[d]) <=>
            id \in seen[d] \/ id \in C!Range(chan[d]) \/ id \in C!Range(found[d])

\* A direction is done when it has emptied its channel, and NegentropySync when
\* both are, with all their batches.
Emptied ==
    /\ source = "closed" => \A d \in C!Dir : found[d] = <<>>
    /\ \A d \in used : loop[d].pc = "done" => source = "closed" /\ chan[d] = <<>>
    /\ result = "nil" => /\ \A d \in C!Dir : loop[d].pc = "done"
                         /\ \A b \in DOMAIN batches : batches[b].pc = "done"

\* No list has two holders.
Exclusive ==
    /\ \A d, e \in C!Dir :
        loop[d].pc = "range" /\ loop[e].pc = "range" /\ loop[d].list = loop[e].list => d = e
    /\ \A d \in C!Dir : \A b \in DOMAIN batches :
        ~(loop[d].pc = "range" /\ batches[b].pc = "query" /\ loop[d].list = batches[b].list)
    /\ \A b, c \in DOMAIN batches :
        batches[b].pc = "query" /\ batches[c].pc = "query" /\ batches[b].list = batches[c].list
            => b = c

\* An id that has been seen is in the direction's list, in one of its batches, or
\* has been asked for once.
InUse(array, length) == {array[i] : i \in 1 .. length}
ListIds(list, length) == InUse(lists[list], length)
LoopIds(d) == IF loop[d].pc = "range" THEN ListIds(loop[d].list, loop[d].length) ELSE {}
BatchIds(b) == IF batches[b].pc = "query" THEN ListIds(batches[b].list, batches[b].length) ELSE {}
BatchesOf(d) == {b \in DOMAIN batches : batches[b].dir = d}
AskedIds(d) == {id \in C!Ids : asked[d][id] # 0}

Account(d) ==
    /\ \A id : id \in seen[d] <=> \/ id \in LoopIds(d) \/ id \in AskedIds(d)
                                  \/ \E b \in BatchesOf(d) : id \in BatchIds(b)
    /\ \A id \in C!Ids : asked[d][id] <= 1
    /\ \A id : ~(id \in LoopIds(d) /\ id \in AskedIds(d))
    /\ \A b \in BatchesOf(d) : \A id \in BatchIds(b) : id \notin LoopIds(d) /\ id \notin AskedIds(d)
    /\ \A b, c \in BatchesOf(d) : \A id \in BatchIds(b) : id \in BatchIds(c) => b = c

\* While no list was lent twice the accounts are right.
CopyInv ==
    /\ CopyTypes /\ Lent /\ Reported /\ Emptied
    /\ ~shared => Exclusive /\ \A d \in C!Dir : Account(d)

\* Channels and pools are sequences.
LEMMA RangeAppend ==
    ASSUME NEW T, NEW s \in Seq(T), NEW e \in T
    PROVE  C!Range(Append(s, e)) = C!Range(s) \cup {e} /\ Append(s, e) \in Seq(T)
  <1> DEFINE new == Append(s, e)
  <1>1. /\ DOMAIN new = 1 .. Len(s) + 1 /\ DOMAIN s = 1 .. Len(s) /\ Len(s) \in Nat
        /\ \A i \in 1 .. Len(s) : new[i] = s[i]
        /\ new[Len(s) + 1] = e
    OBVIOUS
  <1> HIDE DEF new
  <1>2. \A i \in DOMAIN new : new[i] \in C!Range(s) \cup {e}
    BY <1>1 DEF C!Range
  <1>3. \A i \in DOMAIN s : s[i] \in {new[j] : j \in DOMAIN new}
    BY <1>1
  <1>4. e \in {new[j] : j \in DOMAIN new}
    BY <1>1
  <1>5. C!Range(new) = C!Range(s) \cup {e}
    BY <1>2, <1>3, <1>4 DEF C!Range
  <1> QED
    BY <1>5 DEF new

\* The first of a sequence and the others.
LEMMA RangeTail ==
    ASSUME NEW T, NEW s \in Seq(T), s # <<>>
    PROVE  /\ Head(s) \in T /\ Tail(s) \in Seq(T)
           /\ C!Range(s) = {Head(s)} \cup C!Range(Tail(s))
  <1> DEFINE new == Tail(s)
  <1>1. /\ Head(s) \in T /\ new \in Seq(T)
        /\ Len(s) \in Nat \ {0} /\ DOMAIN s = 1 .. Len(s) /\ DOMAIN new = 1 .. Len(s) - 1
        /\ \A i \in 1 .. Len(s) - 1 : new[i] = s[i + 1]
        /\ Head(s) = s[1]
    OBVIOUS
  <1> HIDE DEF new
  <1>2. \A i \in DOMAIN s : s[i] \in {Head(s)} \cup {new[j] : j \in DOMAIN new}
    <2> SUFFICES ASSUME NEW i \in DOMAIN s, i # 1 PROVE s[i] \in {new[j] : j \in DOMAIN new}
      BY <1>1
    <2>1. i - 1 \in DOMAIN new /\ new[i - 1] = s[i]
      BY <1>1
    <2> QED
      BY <2>1
  <1>3. \A j \in DOMAIN new : new[j] \in C!Range(s)
    BY <1>1 DEF C!Range
  <1>4. Head(s) \in C!Range(s)
    BY <1>1 DEF C!Range
  <1>5. C!Range(s) = {Head(s)} \cup C!Range(new)
    BY <1>2, <1>3, <1>4 DEF C!Range
  <1> QED
    BY <1>1, <1>5 DEF new

\* The last of a sequence and the others.
LEMMA FrontLast ==
    ASSUME NEW T, NEW s \in Seq(T), s # <<>>
    PROVE  C!Front(s) \in Seq(T) /\ C!Last(s) \in T
  BY DEF C!Front, C!Last

\* Nothing is in an empty channel.
LEMMA RangeOfNone == C!Range(<<>>) = {}
  BY DEF C!Range

\* The state and the instance in which a step is taken.
CopyAssumed == C!SyncAssumption /\ CopyInv /\ result = "" /\ syncing' = syncing

\* Accounts are about lists, batches and what was asked, and nothing else.
LEMMA AccountKept ==
    ASSUME CopyAssumed,
           UNCHANGED <<loop, seen, lists, pool, batches, asked, shared>>
    PROVE  Lent' /\ (~shared' => Exclusive' /\ \A d \in C!Dir : Account(d)')
  <1>1. Lent'
    BY DEF CopyAssumed, CopyInv, Lent
  <1>2. ASSUME ~shared' PROVE Exclusive'
    BY <1>2 DEF CopyAssumed, CopyInv, Exclusive
  <1>3. ASSUME ~shared', NEW d \in C!Dir PROVE Account(d)'
    <2>1. Account(d)
      BY <1>3 DEF CopyAssumed, CopyInv
    <2>2. C!Ids' = C!Ids
      BY DEF CopyAssumed, C!Ids, C!Found
    <2> QED
      BY <2>1, <2>2 DEF Account, LoopIds, BatchIds, BatchesOf, AskedIds, ListIds
  <1> QED
    BY <1>1, <1>2, <1>3

\* Steps that pass ids on, or end something, without touching a list.
LEMMA QuietStep ==
    ASSUME CopyAssumed,
           \/ C!CloseChannels \/ C!ReaderFails \/ C!ReaderGone \/ C!AllDone
           \/ \E d \in C!Dir : C!Push(d) \/ C!Skip(d)
           \/ \E b \in DOMAIN batches : C!CopyFails(b)
    PROVE  CopyInv'
  <1>1. /\ UNCHANGED <<loop, seen, lists, pool, batches, asked, shared>> /\ used' = used
        /\ C!Ids' = C!Ids /\ C!Found' = C!Found
    BY DEF CopyAssumed, C!CloseChannels, C!ReaderFails, C!ReaderGone, C!AllDone, C!Push, C!Skip,
           C!CopyFails, C!Ids, C!Found
  <1>2. Lent' /\ (~shared' => Exclusive' /\ \A d \in C!Dir : Account(d)')
    BY <1>1, AccountKept
  <1>3. CopyTypes /\ Reported /\ Emptied
    BY DEF CopyAssumed, CopyInv
  <1>4. CASE UNCHANGED <<found, chan>>
    <2>1. CopyTypes' /\ Reported'
      BY <1>1, <1>3, <1>4 DEF CopyAssumed, CopyTypes, Reported
    <2>2. Emptied'
      <3>1. UNCHANGED <<loop, batches, used, found, chan>>
        BY <1>1, <1>4
      <3>2. CASE source' = source /\ result' = result
        BY <1>3, <3>1, <3>2 DEF Emptied
      <3>3. CASE C!CloseChannels
        BY <1>3, <3>1, <3>3 DEF C!CloseChannels, Emptied, CopyAssumed
      <3>4. CASE C!AllDone
        BY <1>3, <3>1, <3>4 DEF C!AllDone, Emptied
      <3>5. CASE C!ReaderFails \/ C!ReaderGone
        BY <1>3, <3>1, <3>5 DEF C!ReaderFails, C!ReaderGone, Emptied, CopyAssumed
      <3>6. CASE \E b \in DOMAIN batches : C!CopyFails(b)
        BY <1>3, <3>1, <3>6 DEF C!CopyFails, Emptied, CopyAssumed
      <3>7. CASE \E d \in C!Dir : C!Push(d) \/ C!Skip(d)
        BY <1>3, <3>1, <3>2, <3>7 DEF C!Push, C!Skip
      <3> QED
        BY <3>3, <3>4, <3>5, <3>6, <3>7
    <2> QED
      BY <1>2, <2>1, <2>2 DEF CopyInv
  <1>5. CASE \E d \in C!Dir : C!Push(d)
    <2>1. PICK d \in C!Dir : C!Push(d)
      BY <1>5
    <2>2. /\ found[d] \in Seq(Nat) /\ chan[d] \in Seq(Nat) /\ found[d] # <<>>
          /\ found \in [C!Dir -> Seq(Nat)] /\ chan \in [C!Dir -> Seq(Nat)]
      BY <1>3, <2>1 DEF CopyTypes, C!Push
    <2>3. /\ Head(found[d]) \in Nat /\ Tail(found[d]) \in Seq(Nat)
          /\ C!Range(found[d]) = {Head(found[d])} \cup C!Range(Tail(found[d]))
      BY <2>2, RangeTail
    <2>4. /\ Append(chan[d], Head(found[d])) \in Seq(Nat)
          /\ C!Range(Append(chan[d], Head(found[d]))) = C!Range(chan[d]) \cup {Head(found[d])}
      BY <2>2, <2>3, RangeAppend
    <2>5. /\ chan' = [chan EXCEPT ![d] = Append(chan[d], Head(found[d]))]
          /\ found' = [found EXCEPT ![d] = Tail(found[d])]
          /\ source = "push" /\ source' = "push" /\ result' = result
      BY <2>1 DEF C!Push
    <2>6. chan' \in [C!Dir -> Seq(Nat)] /\ found' \in [C!Dir -> Seq(Nat)]
      BY <2>2, <2>3, <2>4, <2>5
    <2>7. CopyTypes'
      BY <1>1, <1>3, <2>6 DEF CopyAssumed, CopyTypes
    <2>8. ASSUME NEW e \in C!Dir
          PROVE  C!Range(chan'[e]) \cup C!Range(found'[e]) = C!Range(chan[e]) \cup C!Range(found[e])
      <3>1. CASE e = d
        BY <2>2, <2>3, <2>4, <2>5, <3>1
      <3>2. CASE e # d
        BY <2>2, <2>5, <3>2
      <3> QED
        BY <3>1, <3>2
    <2>9. Reported'
      BY <1>1, <1>3, <2>8 DEF Reported
    <2>10. Emptied'
      BY <1>1, <1>3, <2>5 DEF Emptied, CopyAssumed
    <2> QED
      BY <1>2, <2>7, <2>9, <2>10 DEF CopyInv
  <1>6. CASE \E d \in C!Dir : C!Skip(d)
    <2>1. PICK d \in C!Dir : C!Skip(d)
      BY <1>6
    <2>2. /\ chan[d] \in Seq(Nat) /\ chan[d] # <<>> /\ chan \in [C!Dir -> Seq(Nat)]
      BY <1>3, <2>1 DEF CopyTypes, C!Skip
    <2>3. /\ Head(chan[d]) \in Nat /\ Tail(chan[d]) \in Seq(Nat)
          /\ C!Range(chan[d]) = {Head(chan[d])} \cup C!Range(Tail(chan[d]))
      BY <2>2, RangeTail
    <2>4. /\ chan' = [chan EXCEPT ![d] = Tail(chan[d])] /\ Head(chan[d]) \in seen[d]
          /\ loop[d].pc = "range"
          /\ source' = source /\ result' = result /\ found' = found
      BY <2>1 DEF C!Skip
    <2>5. chan' \in [C!Dir -> Seq(Nat)]
      BY <2>2, <2>3, <2>4
    <2>6. CopyTypes'
      BY <1>1, <1>3, <2>4, <2>5 DEF CopyAssumed, CopyTypes
    <2>7. ASSUME NEW e \in C!Dir
          PROVE  C!Range(chan'[e]) \cup seen[e] = C!Range(chan[e]) \cup seen[e]
      <3>1. CASE e = d
        BY <2>2, <2>3, <2>4, <3>1
      <3>2. CASE e # d
        BY <2>2, <2>4, <3>2
      <3> QED
        BY <3>1, <3>2
    <2>8. Reported'
      BY <1>1, <1>3, <2>4, <2>7 DEF Reported
    <2>9. \A e \in C!Dir : e # d => chan'[e] = chan[e]
      BY <2>2, <2>4
    <2>10. Emptied'
      BY <1>1, <1>3, <2>4, <2>9 DEF Emptied, CopyAssumed, CopyTypes
    <2> QED
      BY <1>2, <2>6, <2>8, <2>10 DEF CopyInv
  <1> QED
    BY <1>4, <1>5, <1>6
       DEF C!CloseChannels, C!ReaderFails, C!ReaderGone, C!AllDone, C!CopyFails

\* What the accounts and the holders of lists are made of.
SamePlaces ==
    /\ lists' = lists
    /\ \A d \in C!Dir :
        /\ loop'[d].pc = "range" <=> loop[d].pc = "range"
        /\ loop[d].pc = "range" => loop'[d].list = loop[d].list /\ loop'[d].length = loop[d].length
    /\ DOMAIN batches' = DOMAIN batches
    /\ \A b \in DOMAIN batches :
        /\ batches'[b].dir = batches[b].dir
        /\ batches'[b].pc = "query" <=> batches[b].pc = "query"
        /\ batches[b].pc = "query" =>
              batches'[b].list = batches[b].list /\ batches'[b].length = batches[b].length

\* Borrowing a list and giving one back does not change the accounts.
LEMMA SameAccounts ==
    ASSUME CopyAssumed, SamePlaces, UNCHANGED <<seen, asked, shared>>
    PROVE  ~shared' => Exclusive' /\ \A d \in C!Dir : Account(d)'
  <1> SUFFICES ASSUME ~shared' PROVE Exclusive' /\ \A d \in C!Dir : Account(d)'
    OBVIOUS
  <1>1. Exclusive /\ \A d \in C!Dir : Account(d)
    BY DEF CopyAssumed, CopyInv
  <1>2. Exclusive'
    BY <1>1 DEF Exclusive, SamePlaces
  <1>3. ASSUME NEW d \in C!Dir PROVE Account(d)'
    <2>1. C!Ids' = C!Ids
      BY DEF CopyAssumed, C!Ids, C!Found
    <2>2. LoopIds(d)' = LoopIds(d)
      <3>1. CASE loop[d].pc # "range"
        BY <3>1 DEF SamePlaces, LoopIds
      <3>2. CASE loop[d].pc = "range"
        <4>1. /\ loop'[d].pc = "range" /\ loop'[d].list = loop[d].list
              /\ loop'[d].length = loop[d].length /\ lists' = lists
          BY <3>2 DEF SamePlaces
        <4> QED
          BY <3>2, <4>1 DEF LoopIds, ListIds
      <3> QED
        BY <3>1, <3>2
    <2>3. BatchesOf(d)' = BatchesOf(d)
      BY DEF SamePlaces, BatchesOf
    <2>4. \A b \in BatchesOf(d) : BatchIds(b)' = BatchIds(b)
      <3> SUFFICES ASSUME NEW b \in BatchesOf(d) PROVE BatchIds(b)' = BatchIds(b)
        BY DEF SamePlaces
      <3>1. CASE batches[b].pc # "query"
        BY <3>1 DEF SamePlaces, BatchIds, BatchesOf
      <3>2. CASE batches[b].pc = "query"
        <4>1. /\ batches'[b].pc = "query" /\ batches'[b].list = batches[b].list
              /\ batches'[b].length = batches[b].length /\ lists' = lists
          BY <3>2 DEF SamePlaces, BatchesOf
        <4> QED
          BY <3>2, <4>1 DEF BatchIds, ListIds
      <3> QED
        BY <3>1, <3>2
    <2>5. AskedIds(d)' = AskedIds(d)
      BY <2>1 DEF AskedIds
    <2> QED
      BY <1>1, <2>1, <2>2, <2>3, <2>4, <2>5 DEF Account
  <1> QED
    BY <1>2, <1>3

\* A pool holds lists that exist.
LEMMA PoolTypes ==
    ASSUME CopyAssumed
    PROVE  pool \in Seq(Nat)
  <1>1. lists \in Seq(Seq(Nat)) /\ pool \in Seq(DOMAIN lists)
    BY DEF CopyAssumed, CopyInv, CopyTypes, Lent
  <1>2. DOMAIN lists \subseteq Nat
    BY <1>1
  <1> QED
    BY <1>1, <1>2

\* One direction's loop is changed.
LEMMA OneLoop ==
    ASSUME loop \in [C!Dir -> Loops], NEW d \in C!Dir, NEW w \in Loops,
           loop' = [loop EXCEPT ![d] = w]
    PROVE  /\ loop' \in [C!Dir -> Loops] /\ loop'[d] = w
           /\ \A e \in C!Dir : e # d => loop'[e] = loop[e]
  OBVIOUS

\* One batch is changed.
LEMMA OneBatch ==
    ASSUME batches \in Seq(Batches), NEW b \in DOMAIN batches, NEW w \in Batches,
           batches' = [batches EXCEPT ![b] = w]
    PROVE  /\ batches' \in Seq(Batches) /\ DOMAIN batches' = DOMAIN batches /\ batches'[b] = w
           /\ \A c \in DOMAIN batches : c # b => batches'[c] = batches[c]
  OBVIOUS

\* grab reads the pool.
LEMMA GrabReadsStep ==
    ASSUME CopyAssumed, NEW d \in C!Dir, C!GrabReads(d)
    PROVE  CopyInv'
  <1> DEFINE w == [loop[d] EXCEPT !.pc = "grabbing", !.read = pool]
  <1>1. /\ loop' = [loop EXCEPT ![d] = w] /\ loop[d].pc = "grab"
        /\ UNCHANGED <<used, found, source, chan, seen, lists, pool, batches, asked, result, shared>>
    BY DEF C!GrabReads
  <1>2. CopyTypes /\ Lent /\ Reported /\ Emptied /\ loop \in [C!Dir -> Loops]
    BY DEF CopyAssumed, CopyInv, CopyTypes
  <1>3. w \in Loops /\ w.pc = "grabbing" /\ w.read = pool
    BY <1>2, PoolTypes DEF Loops
  <1> HIDE DEF w
  <1>4. /\ loop' \in [C!Dir -> Loops] /\ loop'[d] = w
        /\ \A e \in C!Dir : e # d => loop'[e] = loop[e]
    BY <1>1, <1>2, <1>3, OneLoop
  <1>5. C!Ids' = C!Ids /\ C!Found' = C!Found
    BY DEF CopyAssumed, C!Ids, C!Found
  <1>6. CopyTypes'
    BY <1>1, <1>2, <1>4, <1>5 DEF CopyAssumed, CopyTypes
  <1>7. Lent'
    BY <1>1, <1>2, <1>3, <1>4 DEF Lent
  <1>8. Reported'
    BY <1>1, <1>2, <1>5 DEF Reported
  <1>9. Emptied'
    BY <1>1, <1>2, <1>3, <1>4 DEF Emptied, CopyAssumed, CopyTypes
  <1>10. SamePlaces
    BY <1>1, <1>3, <1>4 DEF SamePlaces
  <1> QED
    BY <1>1, <1>6, <1>7, <1>8, <1>9, <1>10, SameAccounts DEF CopyInv

\* giveback reads the pool.
LEMMA GivebackReadsStep ==
    ASSUME CopyAssumed, NEW b \in DOMAIN batches, C!GivebackReads(b)
    PROVE  CopyInv'
  <1> DEFINE w == [batches[b] EXCEPT !.pc = "giving", !.read = pool]
  <1>1. /\ batches' = [batches EXCEPT ![b] = w] /\ batches[b].pc = "giveback"
        /\ UNCHANGED <<used, found, source, chan, loop, seen, lists, pool, asked, result, shared>>
    BY DEF C!GivebackReads
  <1>2. CopyTypes /\ Lent /\ Reported /\ Emptied /\ batches \in Seq(Batches)
    BY DEF CopyAssumed, CopyInv, CopyTypes
  <1>11. batches[b] \in Batches
    BY <1>2
  <1>3. /\ w \in Batches /\ w.pc = "giving" /\ w.read = pool
        /\ w.dir = batches[b].dir /\ w.list = batches[b].list /\ w.length = batches[b].length
    BY <1>11, PoolTypes DEF Batches
  <1> HIDE DEF w
  <1>4. /\ batches' \in Seq(Batches) /\ DOMAIN batches' = DOMAIN batches /\ batches'[b] = w
        /\ \A c \in DOMAIN batches : c # b => batches'[c] = batches[c]
    BY <1>1, <1>2, <1>3, OneBatch
  <1>5. C!Ids' = C!Ids /\ C!Found' = C!Found
    BY DEF CopyAssumed, C!Ids, C!Found
  <1>6. CopyTypes'
    BY <1>1, <1>2, <1>4, <1>5 DEF CopyAssumed, CopyTypes
  <1>7. Lent'
    BY <1>1, <1>2, <1>3, <1>4 DEF Lent
  <1>8. Reported'
    BY <1>1, <1>2, <1>5 DEF Reported
  <1>9. Emptied'
    BY <1>1, <1>2 DEF Emptied, CopyAssumed
  <1>10. SamePlaces
    BY <1>1, <1>3, <1>4 DEF SamePlaces
  <1> QED
    BY <1>1, <1>6, <1>7, <1>8, <1>9, <1>10, SameAccounts DEF CopyInv

\* giveback writes the pool it read, with its list.
LEMMA GivebackWritesStep ==
    ASSUME CopyAssumed, NEW b \in DOMAIN batches, C!GivebackWrites(b)
    PROVE  CopyInv'
  <1> DEFINE w == [batches[b] EXCEPT !.pc = "done", !.read = <<>>, !.list = 0]
  <1>1. /\ batches' = [batches EXCEPT ![b] = w] /\ batches[b].pc = "giving"
        /\ pool' = Append(batches[b].read, batches[b].list)
        /\ UNCHANGED <<used, found, source, chan, loop, seen, lists, asked, result, shared>>
    BY DEF C!GivebackWrites
  <1>2. CopyTypes /\ Lent /\ Reported /\ Emptied /\ batches \in Seq(Batches)
    BY DEF CopyAssumed, CopyInv, CopyTypes
  <1>11. batches[b] \in Batches
    BY <1>2
  <1>3. /\ w \in Batches /\ w.pc = "done" /\ w.read = <<>> /\ w.dir = batches[b].dir
    <2>1. <<>> \in Seq(Nat) /\ 0 \in Nat
      OBVIOUS
    <2> QED
      BY <1>11, <2>1 DEF Batches
  <1> HIDE DEF w
  <1>4. /\ batches' \in Seq(Batches) /\ DOMAIN batches' = DOMAIN batches /\ batches'[b] = w
        /\ \A c \in DOMAIN batches : c # b => batches'[c] = batches[c]
    BY <1>1, <1>2, <1>3, OneBatch
  <1>5. C!Ids' = C!Ids /\ C!Found' = C!Found
    BY DEF CopyAssumed, C!Ids, C!Found
  <1>6. CopyTypes'
    BY <1>1, <1>2, <1>4, <1>5 DEF CopyAssumed, CopyTypes
  <1>7. Lent'
    <2>1. batches[b].read \in Seq(DOMAIN lists) /\ batches[b].list \in DOMAIN lists
      BY <1>1, <1>2 DEF Lent
    <2>2. pool' \in Seq(DOMAIN lists)
      BY <1>1, <2>1
    <2>3. <<>> \in Seq(DOMAIN lists)
      OBVIOUS
    <2> QED
      BY <1>1, <1>2, <1>3, <1>4, <2>2, <2>3 DEF Lent
  <1>8. Reported'
    BY <1>1, <1>2, <1>5 DEF Reported
  <1>9. Emptied'
    BY <1>1, <1>2 DEF Emptied, CopyAssumed
  <1>10. SamePlaces
    BY <1>1, <1>3, <1>4 DEF SamePlaces
  <1> QED
    BY <1>1, <1>6, <1>7, <1>8, <1>9, <1>10, SameAccounts DEF CopyInv

\* The ids in a place stay while its list does.
LEMMA LoopKept ==
    ASSUME NEW d \in C!Dir, loop'[d] = loop[d],
           loop[d].pc = "range" => lists'[loop[d].list] = lists[loop[d].list]
    PROVE  LoopIds(d)' = LoopIds(d)
  <1>1. CASE loop[d].pc # "range"
    BY <1>1 DEF LoopIds
  <1>2. CASE loop[d].pc = "range"
    <2>1. lists'[loop[d].list] = lists[loop[d].list]
      BY <1>2
    <2> QED
      BY <1>2, <2>1 DEF LoopIds, ListIds
  <1> QED
    BY <1>1, <1>2

\* The same of a batch.
LEMMA BatchKept ==
    ASSUME NEW b, batches'[b] = batches[b],
           batches[b].pc = "query" => lists'[batches[b].list] = lists[batches[b].list]
    PROVE  BatchIds(b)' = BatchIds(b)
  <1>1. CASE batches[b].pc # "query"
    BY <1>1 DEF BatchIds
  <1>2. CASE batches[b].pc = "query"
    <2>1. lists'[batches[b].list] = lists[batches[b].list]
      BY <1>2
    <2> QED
      BY <1>2, <2>1 DEF BatchIds, ListIds
  <1> QED
    BY <1>1, <1>2

\* The account of a direction whose places hold what they held.
LEMMA SameAccount ==
    ASSUME CopyAssumed, NEW d \in C!Dir, Account(d),
           LoopIds(d)' = LoopIds(d), BatchesOf(d)' = BatchesOf(d),
           \A b \in BatchesOf(d) : BatchIds(b)' = BatchIds(b),
           seen'[d] = seen[d], asked'[d] = asked[d]
    PROVE  Account(d)'
  <1>1. C!Ids' = C!Ids
    BY DEF CopyAssumed, C!Ids, C!Found
  <1>2. AskedIds(d)' = AskedIds(d)
    BY <1>1 DEF AskedIds
  <1> QED
    BY <1>1, <1>2 DEF Account

\* grab takes the last list of the pool it read, or a new one.
LEMMA GrabWritesStep ==
    ASSUME CopyAssumed, NEW d \in C!Dir, C!GrabWrites(d)
    PROVE  CopyInv'
  <1> DEFINE read == loop[d].read
             list == IF read = <<>> THEN Len(lists) + 1 ELSE C!Last(read)
             w == [pc |-> "range", list |-> list, length |-> 0, read |-> <<>>]
  <1>1. CopyTypes /\ Lent /\ Reported /\ Emptied
    BY DEF CopyAssumed, CopyInv
  <1>2. /\ loop \in [C!Dir -> Loops] /\ lists \in Seq(Seq(Nat)) /\ batches \in Seq(Batches)
        /\ read \in Seq(DOMAIN lists) /\ pool \in Seq(DOMAIN lists)
        /\ loop[d].pc = "grabbing"
    BY <1>1 DEF CopyTypes, Lent, C!GrabWrites
  <1>3. /\ loop' = [loop EXCEPT ![d] = w]
        /\ read = <<>> => lists' = Append(lists, <<>>) /\ pool' = pool
        /\ read # <<>> => lists' = lists /\ pool' = C!Front(read)
        /\ shared' = (shared \/ C!Holders(list) # {})
        /\ UNCHANGED <<used, found, source, chan, seen, batches, asked, result>>
    BY DEF C!GrabWrites
  <1>4. /\ lists' \in Seq(Seq(Nat)) /\ DOMAIN lists \subseteq DOMAIN lists'
        /\ \A n \in DOMAIN lists : lists'[n] = lists[n]
        /\ list \in DOMAIN lists' /\ list \in Nat
        /\ pool' \in Seq(DOMAIN lists')
    <2>1. CASE read = <<>>
      <3>1. <<>> \in Seq(Nat)
        OBVIOUS
      <3>2. /\ lists' = Append(lists, <<>>) /\ pool' = pool /\ list = Len(lists) + 1
        BY <1>3, <2>1
      <3>3. /\ lists' \in Seq(Seq(Nat)) /\ DOMAIN lists \subseteq DOMAIN lists'
            /\ \A n \in DOMAIN lists : lists'[n] = lists[n]
            /\ list \in DOMAIN lists' /\ list \in Nat
        BY <1>2, <3>1, <3>2
      <3>4. pool' \in Seq(DOMAIN lists')
        BY <1>2, <3>2, <3>3
      <3> QED
        BY <3>3, <3>4
    <2>2. CASE read # <<>>
      <3>1. C!Front(read) \in Seq(DOMAIN lists) /\ C!Last(read) \in DOMAIN lists
        BY <1>2, <2>2, FrontLast
      <3>2. list \in DOMAIN lists /\ lists' = lists /\ pool' = C!Front(read)
        BY <1>3, <2>2, <3>1
      <3> QED
        BY <1>2, <3>1, <3>2
    <2> QED
      BY <2>1, <2>2
  <1>5. w \in Loops /\ w.pc = "range" /\ w.list = list /\ w.length = 0 /\ w.read = <<>>
    <2>1. <<>> \in Seq(Nat) /\ 0 \in Nat
      OBVIOUS
    <2> QED
      BY <1>4, <2>1 DEF Loops
  <1> HIDE DEF w, list
  <1>6. /\ loop' \in [C!Dir -> Loops] /\ loop'[d] = w
        /\ \A e \in C!Dir : e # d => loop'[e] = loop[e]
    BY <1>2, <1>3, <1>5, OneLoop
  <1>7. C!Ids' = C!Ids /\ C!Found' = C!Found
    BY DEF CopyAssumed, C!Ids, C!Found
  <1>8. CopyTypes'
    BY <1>1, <1>3, <1>4, <1>6, <1>7 DEF CopyAssumed, CopyTypes
  <1>9. Lent'
    <2>1. \A s \in Seq(DOMAIN lists) : s \in Seq(DOMAIN lists')
      BY <1>4
    <2>2. \A e \in C!Dir :
            /\ loop'[e].read \in Seq(DOMAIN lists')
            /\ loop'[e].pc = "range" =>
                  loop'[e].list \in DOMAIN lists' /\ loop'[e].length <= Len(lists'[loop'[e].list])
      <3>1. <<>> \in Seq(DOMAIN lists') /\ Len(lists'[list]) \in Nat
        BY <1>4
      <3>2. \A e \in C!Dir : loop[e].read \in Seq(DOMAIN lists')
        BY <1>1, <2>1 DEF Lent
      <3>3. \A e \in C!Dir : loop[e].pc = "range" =>
                loop[e].list \in DOMAIN lists' /\ loop[e].length <= Len(lists'[loop[e].list])
        BY <1>1, <1>4 DEF Lent
      <3> SUFFICES ASSUME NEW e \in C!Dir
                   PROVE  /\ loop'[e].read \in Seq(DOMAIN lists')
                          /\ loop'[e].pc = "range" =>
                                /\ loop'[e].list \in DOMAIN lists'
                                /\ loop'[e].length <= Len(lists'[loop'[e].list])
        OBVIOUS
      <3>4. CASE e = d
        <4>1. loop'[e].read = <<>> /\ loop'[e].list = list /\ loop'[e].length = 0
          BY <1>5, <1>6, <3>4
        <4> QED
          BY <1>4, <3>1, <4>1
      <3>5. CASE e # d
        BY <1>6, <3>2, <3>3, <3>5
      <3> QED
        BY <3>4, <3>5
    <2>3. \A b \in DOMAIN batches : batches[b].read \in Seq(DOMAIN lists')
      BY <1>1, <2>1 DEF Lent
    <2>4. \A b \in DOMAIN batches : batches[b].pc # "done" =>
              batches[b].list \in DOMAIN lists' /\ batches[b].length <= Len(lists'[batches[b].list])
      BY <1>1, <1>4 DEF Lent
    <2> QED
      BY <1>3, <1>4, <2>2, <2>3, <2>4 DEF Lent
  <1>10. Reported'
    BY <1>1, <1>3, <1>7 DEF Reported
  <1>11. Emptied'
    BY <1>1, <1>3, <1>5, <1>6 DEF Emptied, CopyAssumed, CopyTypes
  <1>12. ASSUME ~shared' PROVE Exclusive' /\ \A e \in C!Dir : Account(e)'
    <2>1. Exclusive /\ \A e \in C!Dir : Account(e)
      BY <1>3, <1>12 DEF CopyAssumed, CopyInv
    <2>2. /\ \A e \in C!Dir : loop[e].pc = "range" => loop[e].list # list
          /\ \A b \in DOMAIN batches : batches[b].pc = "query" => batches[b].list # list
      BY <1>3, <1>12 DEF C!Holders
    <2>3. Exclusive'
      BY <1>3, <1>5, <1>6, <2>1, <2>2 DEF Exclusive
    <2>4. ASSUME NEW e \in C!Dir PROVE LoopIds(e)' = LoopIds(e)
      <3>1. CASE e = d
        <4>1. LoopIds(d) = {}
          BY <1>2 DEF LoopIds
        <4>2. LoopIds(d)' = {}
          BY <1>5, <1>6 DEF LoopIds, ListIds, InUse
        <4> QED
          BY <3>1, <4>1, <4>2
      <3>2. CASE e # d
        BY <1>1, <1>4, <1>6, <3>2, LoopKept DEF Lent
      <3> QED
        BY <3>1, <3>2
    <2>5. ASSUME NEW e \in C!Dir PROVE Account(e)'
      <3>1. BatchesOf(e)' = BatchesOf(e)
        BY <1>3 DEF BatchesOf
      <3>2. \A b \in BatchesOf(e) : BatchIds(b)' = BatchIds(b)
        <4> SUFFICES ASSUME NEW b \in BatchesOf(e) PROVE BatchIds(b)' = BatchIds(b)
          OBVIOUS
        <4>1. b \in DOMAIN batches /\ batches'[b] = batches[b]
          BY <1>3 DEF BatchesOf
        <4>2. batches[b].pc = "query" => lists'[batches[b].list] = lists[batches[b].list]
          BY <1>1, <1>4, <4>1 DEF Lent
        <4> QED
          BY <4>1, <4>2, BatchKept
      <3>3. seen'[e] = seen[e] /\ asked'[e] = asked[e]
        BY <1>3
      <3> QED
        BY <2>1, <2>4, <3>1, <3>2, <3>3, SameAccount
    <2> QED
      BY <2>3, <2>5
  <1> QED
    BY <1>8, <1>9, <1>10, <1>11, <1>12 DEF CopyInv

\* A batch is appended.
LEMMA OneBatchMore ==
    ASSUME batches \in Seq(Batches), NEW w \in Batches, batches' = Append(batches, w)
    PROVE  /\ batches' \in Seq(Batches)
           /\ DOMAIN batches' = DOMAIN batches \cup {Len(batches) + 1}
           /\ Len(batches) + 1 \notin DOMAIN batches
           /\ batches'[Len(batches) + 1] = w
           /\ \A b \in DOMAIN batches : batches'[b] = batches[b]
  OBVIOUS

\* A list that is handed over has one holder yet.
LEMMA HandedOver ==
    ASSUME Exclusive, NEW d \in C!Dir, NEW new, loop[d].pc = "range", loop'[d].pc # "range",
           \A e \in C!Dir : e # d => loop'[e] = loop[e],
           new \notin DOMAIN batches, DOMAIN batches' = DOMAIN batches \cup {new},
           batches'[new].list = loop[d].list,
           \A b \in DOMAIN batches : batches'[b] = batches[b]
    PROVE  Exclusive'
  <1>1. \A e, f \in C!Dir :
            loop'[e].pc = "range" /\ loop'[f].pc = "range" /\ loop'[e].list = loop'[f].list => e = f
    BY DEF Exclusive
  <1>2. \A e \in C!Dir : \A b \in DOMAIN batches' :
            ~(loop'[e].pc = "range" /\ batches'[b].pc = "query" /\ loop'[e].list = batches'[b].list)
    <2> SUFFICES ASSUME NEW e \in C!Dir, NEW b \in DOMAIN batches',
                        loop'[e].pc = "range", batches'[b].pc = "query",
                        loop'[e].list = batches'[b].list
                 PROVE  FALSE
      OBVIOUS
    <2>1. e # d /\ loop'[e] = loop[e]
      OBVIOUS
    <2>2. CASE b = new
      BY <2>1, <2>2 DEF Exclusive
    <2>3. CASE b \in DOMAIN batches
      BY <2>1, <2>3 DEF Exclusive
    <2> QED
      BY <2>2, <2>3
  <1>3. \A b, c \in DOMAIN batches' :
            batches'[b].pc = "query" /\ batches'[c].pc = "query" /\ batches'[b].list = batches'[c].list
                => b = c
    <2>1. \A b \in DOMAIN batches :
              ~(batches'[b].pc = "query" /\ batches'[b].list = batches'[new].list)
      BY DEF Exclusive
    <2>2. \A b, c \in DOMAIN batches :
              batches'[b].pc = "query" /\ batches'[c].pc = "query"
              /\ batches'[b].list = batches'[c].list => b = c
      BY DEF Exclusive
    <2> QED
      BY <2>1, <2>2
  <1> QED
    BY <1>1, <1>2, <1>3 DEF Exclusive

\* A list is handed to a new batch, with what was seen last.
LEMMA Handed ==
    ASSUME CopyAssumed, NEW d \in C!Dir, Account(d), NEW new, NEW X,
           new \notin BatchesOf(d), BatchesOf(d)' = BatchesOf(d) \cup {new},
           \A b \in BatchesOf(d) : BatchIds(b)' = BatchIds(b),
           BatchIds(new)' = LoopIds(d) \cup X, LoopIds(d)' = {},
           seen'[d] = seen[d] \cup X, X \cap seen[d] = {}, asked'[d] = asked[d]
    PROVE  Account(d)'
  <1>1. C!Ids' = C!Ids
    BY DEF CopyAssumed, C!Ids, C!Found
  <1>2. AskedIds(d)' = AskedIds(d)
    BY <1>1 DEF AskedIds
  <1>3. /\ \A id : id \in seen[d] <=> \/ id \in LoopIds(d) \/ id \in AskedIds(d)
                                      \/ \E b \in BatchesOf(d) : id \in BatchIds(b)
        /\ \A id \in C!Ids : asked[d][id] <= 1
        /\ \A id : ~(id \in LoopIds(d) /\ id \in AskedIds(d))
        /\ \A b \in BatchesOf(d) : \A id \in BatchIds(b) :
               id \notin LoopIds(d) /\ id \notin AskedIds(d)
        /\ \A b, c \in BatchesOf(d) : \A id \in BatchIds(b) : id \in BatchIds(c) => b = c
    BY DEF Account
  <1>4. \A id : (id \in seen[d])' <=>
            \/ (id \in LoopIds(d))' \/ (id \in AskedIds(d))'
            \/ \E b \in BatchesOf(d)' : (id \in BatchIds(b))'
    BY <1>2, <1>3
  <1>5. \A id \in C!Ids' : asked'[d][id] <= 1
    BY <1>1, <1>3
  <1>6. \A id : ~(id \in LoopIds(d)' /\ id \in AskedIds(d)')
    OBVIOUS
  <1>7. \A b \in BatchesOf(d)' : \A id \in BatchIds(b)' :
            id \notin LoopIds(d)' /\ id \notin AskedIds(d)'
    BY <1>2, <1>3
  <1>8. \A b, c \in BatchesOf(d)' : \A id \in BatchIds(b)' : id \in BatchIds(c)' => b = c
    BY <1>3
  <1> QED
    BY <1>4, <1>5, <1>6, <1>7, <1>8 DEF Account

\* The channel is closed and empty: the goroutine runs the batch it has begun.
LEMMA LastBatchStep ==
    ASSUME CopyAssumed, NEW d \in C!Dir, C!LastBatch(d)
    PROVE  CopyInv'
  <1> DEFINE list == loop[d].list
             w == [loop[d] EXCEPT !.pc = "done"]
             n == [dir |-> d, list |-> list, length |-> loop[d].length, pc |-> "query",
                   read |-> <<>>]
  <1>1. CopyTypes /\ Lent /\ Reported /\ Emptied
    BY DEF CopyAssumed, CopyInv
  <1>2. /\ loop \in [C!Dir -> Loops] /\ lists \in Seq(Seq(Nat)) /\ batches \in Seq(Batches)
        /\ loop[d].pc = "range" /\ list \in DOMAIN lists /\ loop[d].length <= Len(lists[list])
        /\ source = "closed" /\ chan[d] = <<>>
    BY <1>1 DEF CopyTypes, Lent, C!LastBatch
  <1>3. /\ loop' = [loop EXCEPT ![d] = w] /\ batches' = Append(batches, n)
        /\ UNCHANGED <<used, found, source, chan, seen, lists, pool, asked, result, shared>>
    BY DEF C!LastBatch, C!Batched
  <1>4. loop[d] \in Loops
    BY <1>2
  <1>5. w \in Loops /\ w.pc = "done" /\ w.read = loop[d].read
    BY <1>4 DEF Loops
  <1>6. /\ n \in Batches /\ n.dir = d /\ n.list = list /\ n.length = loop[d].length
        /\ n.pc = "query" /\ n.read = <<>>
    <2>1. <<>> \in Seq(Nat) /\ list \in Nat /\ loop[d].length \in Nat
      BY <1>4 DEF Loops
    <2> QED
      BY <2>1 DEF Batches
  <1> HIDE DEF w, n
  <1>7. /\ loop' \in [C!Dir -> Loops] /\ loop'[d] = w
        /\ \A e \in C!Dir : e # d => loop'[e] = loop[e]
    BY <1>2, <1>3, <1>5, OneLoop
  <1>8. PICK new :
            /\ batches' \in Seq(Batches) /\ DOMAIN batches' = DOMAIN batches \cup {new}
            /\ new \notin DOMAIN batches /\ batches'[new] = n
            /\ \A b \in DOMAIN batches : batches'[b] = batches[b]
    BY <1>2, <1>3, <1>6, OneBatchMore
  <1>9. C!Ids' = C!Ids /\ C!Found' = C!Found
    BY DEF CopyAssumed, C!Ids, C!Found
  <1>10. CopyTypes'
    BY <1>1, <1>3, <1>7, <1>8, <1>9 DEF CopyAssumed, CopyTypes
  <1>11. Lent'
    <2>1. \A e \in C!Dir :
            /\ loop'[e].read \in Seq(DOMAIN lists)
            /\ loop'[e].pc = "range" =>
                  loop'[e].list \in DOMAIN lists /\ loop'[e].length <= Len(lists[loop'[e].list])
      BY <1>1, <1>5, <1>7 DEF Lent
    <2>2. \A b \in DOMAIN batches' :
            /\ batches'[b].read \in Seq(DOMAIN lists)
            /\ batches'[b].pc # "done" =>
                  batches'[b].list \in DOMAIN lists /\ batches'[b].length <= Len(lists[batches'[b].list])
      <3>1. <<>> \in Seq(DOMAIN lists)
        OBVIOUS
      <3> QED
        BY <1>1, <1>2, <1>6, <1>8, <3>1 DEF Lent
    <2> QED
      BY <1>1, <1>3, <2>1, <2>2 DEF Lent
  <1>12. Reported'
    BY <1>1, <1>3, <1>9 DEF Reported
  <1>13. Emptied'
    BY <1>1, <1>2, <1>3, <1>7 DEF Emptied, CopyAssumed, CopyTypes
  <1>14. ASSUME ~shared' PROVE Exclusive' /\ \A e \in C!Dir : Account(e)'
    <2>1. Exclusive /\ \A e \in C!Dir : Account(e)
      BY <1>3, <1>14 DEF CopyAssumed, CopyInv
    <2>2. Exclusive'
      BY <1>2, <1>5, <1>6, <1>7, <1>8, <2>1, HandedOver
    <2>3. \A b \in DOMAIN batches : BatchIds(b)' = BatchIds(b)
      BY <1>3, <1>8, BatchKept
    <2>4. ASSUME NEW e \in C!Dir, e # d PROVE Account(e)'
      <3>1. LoopIds(e)' = LoopIds(e)
        BY <1>3, <1>7, <2>4, LoopKept
      <3>2. BatchesOf(e)' = BatchesOf(e)
        BY <1>6, <1>8, <2>4 DEF BatchesOf
      <3>3. \A b \in BatchesOf(e) : BatchIds(b)' = BatchIds(b)
        BY <2>3 DEF BatchesOf
      <3>4. seen'[e] = seen[e] /\ asked'[e] = asked[e]
        BY <1>3
      <3> QED
        BY <2>1, <3>1, <3>2, <3>3, <3>4, SameAccount
    <2>5. Account(d)'
      <3>1. BatchIds(new)' = LoopIds(d) \cup {}
        <4>1. LoopIds(d) = ListIds(list, loop[d].length)
          BY <1>2 DEF LoopIds
        <4>2. /\ batches'[new].pc = "query" /\ batches'[new].list = list
              /\ batches'[new].length = loop[d].length /\ lists' = lists
          BY <1>3, <1>6, <1>8
        <4> QED
          BY <4>1, <4>2 DEF BatchIds, ListIds
      <3>2. LoopIds(d)' = {}
        BY <1>5, <1>7 DEF LoopIds
      <3>3. new \notin BatchesOf(d) /\ BatchesOf(d)' = BatchesOf(d) \cup {new}
        BY <1>6, <1>8 DEF BatchesOf
      <3>4. \A b \in BatchesOf(d) : BatchIds(b)' = BatchIds(b)
        BY <2>3 DEF BatchesOf
      <3>5. seen'[d] = seen[d] \cup {} /\ {} \cap seen[d] = {} /\ asked'[d] = asked[d]
        BY <1>3
      <3> QED
        BY <2>1, <3>1, <3>2, <3>3, <3>4, <3>5, Handed
    <2> QED
      BY <2>2, <2>4, <2>5
  <1> QED
    BY <1>10, <1>11, <1>12, <1>13, <1>14 DEF CopyInv

\* Writing behind the part of an array that is in use.
Written(array, k, id) ==
    IF k + 1 > Len(array) THEN Append(array, id) ELSE [array EXCEPT ![k + 1] = id]

\* What is in use then.
LEMMA WrittenBehind ==
    ASSUME NEW a \in Seq(Nat), NEW id \in Nat, NEW k \in Nat, k <= Len(a),
           NEW new, new = Written(a, k, id)
    PROVE  /\ new \in Seq(Nat) /\ Len(new) >= Len(a) /\ Len(new) >= k + 1
           /\ InUse(new, k + 1) = InUse(a, k) \cup {id}
  <1>1. /\ new \in Seq(Nat) /\ Len(new) >= Len(a) /\ Len(new) >= k + 1
        /\ new[k + 1] = id /\ \A i \in 1 .. k : new[i] = a[i]
    BY SMTT(30) DEF Written
  <1>2. \A i \in 1 .. k + 1 : i = k + 1 \/ i \in 1 .. k
    OBVIOUS
  <1>3. \A i \in 1 .. k : i \in 1 .. k + 1
    OBVIOUS
  <1>4. k + 1 \in 1 .. k + 1
    OBVIOUS
  <1> QED
    BY <1>1, <1>2, <1>3, <1>4, Zenon DEF InUse

\* A direction's list has one id more.
LEMMA Listed ==
    ASSUME CopyAssumed, NEW d \in C!Dir, Account(d), NEW id, id \notin seen[d],
           BatchesOf(d)' = BatchesOf(d),
           \A b \in BatchesOf(d) : BatchIds(b)' = BatchIds(b),
           LoopIds(d)' = LoopIds(d) \cup {id},
           seen'[d] = seen[d] \cup {id}, asked'[d] = asked[d]
    PROVE  Account(d)'
  <1>1. C!Ids' = C!Ids
    BY DEF CopyAssumed, C!Ids, C!Found
  <1>2. AskedIds(d)' = AskedIds(d)
    BY <1>1 DEF AskedIds
  <1>3. /\ \A x : x \in seen[d] <=> \/ x \in LoopIds(d) \/ x \in AskedIds(d)
                                    \/ \E b \in BatchesOf(d) : x \in BatchIds(b)
        /\ \A x \in C!Ids : asked[d][x] <= 1
        /\ \A x : ~(x \in LoopIds(d) /\ x \in AskedIds(d))
        /\ \A b \in BatchesOf(d) : \A x \in BatchIds(b) :
               x \notin LoopIds(d) /\ x \notin AskedIds(d)
        /\ \A b, c \in BatchesOf(d) : \A x \in BatchIds(b) : x \in BatchIds(c) => b = c
    BY DEF Account
  <1>4. id \notin AskedIds(d) /\ \A b \in BatchesOf(d) : id \notin BatchIds(b)
    BY <1>3
  <1> QED
    BY <1>1, <1>2, <1>3, <1>4 DEF Account

\* A goroutine takes an id it has not seen: into its list, or into a batch.
LEMMA TakeStep ==
    ASSUME CopyAssumed, NEW d \in C!Dir, C!Take(d)
    PROVE  CopyInv'
  <1>1. CopyTypes /\ Lent /\ Reported /\ Emptied
    BY DEF CopyAssumed, CopyInv
  <1>2. PICK id, list, k : id = Head(chan[d]) /\ list = loop[d].list /\ k = loop[d].length
    OBVIOUS
  <1>3. /\ loop \in [C!Dir -> Loops] /\ lists \in Seq(Seq(Nat)) /\ batches \in Seq(Batches)
        /\ chan \in [C!Dir -> Seq(Nat)] /\ seen \in [C!Dir -> SUBSET Nat]
        /\ chan[d] \in Seq(Nat) /\ chan[d] # <<>>
        /\ loop[d].pc = "range" /\ list \in DOMAIN lists /\ k <= Len(lists[list])
    BY <1>1, <1>2 DEF CopyTypes, Lent, C!Take
  <1>4. /\ loop[d] \in Loops /\ list \in Nat /\ k \in Nat /\ lists[list] \in Seq(Nat)
    <2>1. loop[d] \in Loops
      BY <1>3
    <2> QED
      BY <1>2, <1>3, <2>1 DEF Loops
  <1>5. id \in Nat /\ Tail(chan[d]) \in Seq(Nat) /\ C!Range(chan[d]) = {id} \cup C!Range(Tail(chan[d]))
    BY <1>2, <1>3, RangeTail
  <1>6. PICK new : new = Written(lists[list], k, id)
    OBVIOUS
  <1>7. /\ new \in Seq(Nat) /\ Len(new) >= Len(lists[list]) /\ Len(new) >= k + 1
        /\ InUse(new, k + 1) = InUse(lists[list], k) \cup {id}
    <2>1. PICK a : a = lists[list]
      OBVIOUS
    <2>2. a \in Seq(Nat) /\ k \in Nat /\ id \in Nat /\ k <= Len(a) /\ new = Written(a, k, id)
      BY <1>3, <1>4, <1>5, <1>6, <2>1
    <2>3. /\ new \in Seq(Nat) /\ Len(new) >= Len(a) /\ Len(new) >= k + 1
          /\ InUse(new, k + 1) = InUse(a, k) \cup {id}
      BY <2>2, WrittenBehind
    <2> QED
      BY <2>1, <2>3
  <1>8. /\ id \notin seen[d]
        /\ seen' = [seen EXCEPT ![d] = seen[d] \cup {id}]
        /\ lists' = [lists EXCEPT ![list] = new]
        /\ chan' = [chan EXCEPT ![d] = Tail(chan[d])]
        /\ UNCHANGED <<used, found, source, pool, asked, result, shared>>
    BY <1>2, <1>6 DEF C!Take, Written
  <1>9. /\ lists' \in Seq(Seq(Nat)) /\ DOMAIN lists' = DOMAIN lists /\ lists'[list] = new
        /\ \A n \in DOMAIN lists : n # list => lists'[n] = lists[n]
    BY <1>3, <1>7, <1>8
  <1>10. \A n \in DOMAIN lists : Len(lists[n]) \in Nat /\ Len(lists'[n]) \in Nat
                                 /\ Len(lists'[n]) >= Len(lists[n])
    <2>1. \A n \in DOMAIN lists : lists[n] \in Seq(Nat) /\ lists'[n] \in Seq(Nat)
      BY <1>3, <1>7, <1>9
    <2>2. \A n \in DOMAIN lists : Len(lists[n]) \in Nat /\ Len(lists'[n]) \in Nat
      BY <2>1
    <2>3. \A n \in DOMAIN lists : Len(lists'[n]) >= Len(lists[n])
      <3> SUFFICES ASSUME NEW n \in DOMAIN lists PROVE Len(lists'[n]) >= Len(lists[n])
        OBVIOUS
      <3>1. CASE n = list
        BY <1>7, <1>9, <3>1
      <3>2. CASE n # list
        <4>1. lists'[n] = lists[n]
          BY <1>9, <3>2
        <4>2. Len(lists[n]) \in Nat
          BY <2>2
        <4> QED
          BY <4>1, <4>2
      <3> QED
        BY <3>1, <3>2
    <2> QED
      BY <2>2, <2>3
  <1>11. /\ seen' \in [C!Dir -> SUBSET Nat] /\ seen'[d] = seen[d] \cup {id}
         /\ chan' \in [C!Dir -> Seq(Nat)] /\ chan'[d] = Tail(chan[d])
         /\ \A e \in C!Dir : e # d => seen'[e] = seen[e] /\ chan'[e] = chan[e]
    BY <1>3, <1>5, <1>8
  <1>12. C!Ids' = C!Ids /\ C!Found' = C!Found
    BY DEF CopyAssumed, C!Ids, C!Found
  <1>13. Reported'
    <2>1. \A e \in C!Dir : seen'[e] \cup C!Range(chan'[e]) = seen[e] \cup C!Range(chan[e])
      BY <1>5, <1>11
    <2> QED
      BY <1>1, <1>8, <1>12, <2>1 DEF Reported
  <1>14. ASSUME ~shared
         PROVE  /\ Exclusive /\ \A e \in C!Dir : Account(e)
                /\ \A e \in C!Dir : e # d /\ loop[e].pc = "range"
                       => lists'[loop[e].list] = lists[loop[e].list]
                /\ \A b \in DOMAIN batches : batches[b].pc = "query"
                       => lists'[batches[b].list] = lists[batches[b].list]
    <2>1. Exclusive /\ \A e \in C!Dir : Account(e)
      BY <1>14 DEF CopyAssumed, CopyInv
    <2>2. \A e \in C!Dir : e # d /\ loop[e].pc = "range"
              => loop[e].list \in DOMAIN lists /\ loop[e].list # list
      BY <1>1, <1>2, <1>3, <2>1 DEF Lent, Exclusive
    <2>3. \A b \in DOMAIN batches : batches[b].pc = "query"
              => batches[b].list \in DOMAIN lists /\ batches[b].list # list
      BY <1>1, <1>2, <1>3, <2>1 DEF Lent, Exclusive
    <2> QED
      BY <1>9, <2>1, <2>2, <2>3
  <1>15. CASE k + 1 = C!Batch
    <2> DEFINE w == [loop[d] EXCEPT !.pc = "grab"]
               n == [dir |-> d, list |-> list, length |-> k + 1, pc |-> "query", read |-> <<>>]
    <2>1. loop' = [loop EXCEPT ![d] = w] /\ batches' = Append(batches, n)
      BY <1>2, <1>15 DEF C!Take, C!Batched
    <2>2. w \in Loops /\ w.pc = "grab" /\ w.read = loop[d].read
      BY <1>4 DEF Loops
    <2>3. /\ n \in Batches /\ n.dir = d /\ n.list = list /\ n.length = k + 1
          /\ n.pc = "query" /\ n.read = <<>>
      <3>1. <<>> \in Seq(Nat) /\ k + 1 \in Nat
        BY <1>4
      <3> QED
        BY <1>4, <3>1 DEF Batches
    <2> HIDE DEF w, n
    <2>4. /\ loop' \in [C!Dir -> Loops] /\ loop'[d] = w
          /\ \A e \in C!Dir : e # d => loop'[e] = loop[e]
      BY <1>3, <2>1, <2>2, OneLoop
    <2>5. PICK b0 :
            /\ batches' \in Seq(Batches) /\ DOMAIN batches' = DOMAIN batches \cup {b0}
            /\ b0 \notin DOMAIN batches /\ batches'[b0] = n
            /\ \A b \in DOMAIN batches : batches'[b] = batches[b]
      BY <1>3, <2>1, <2>3, OneBatchMore
    <2>6. CopyTypes'
      BY <1>1, <1>8, <1>9, <1>11, <1>12, <2>4, <2>5 DEF CopyAssumed, CopyTypes
    <2>7. Lent'
      <3>1. \A e \in C!Dir : loop'[e].read \in Seq(DOMAIN lists)
        BY <1>1, <2>2, <2>4 DEF Lent
      <3>2. \A e \in C!Dir : loop'[e].pc = "range" => e # d /\ loop[e].pc = "range"
                                                      /\ loop'[e] = loop[e]
        BY <2>2, <2>4
      <3>3. \A e \in C!Dir : loop[e] \in Loops /\ loop[e].length \in Nat
        BY <1>3 DEF Loops
      <3>4. \A e \in C!Dir : loop'[e].pc = "range" =>
                loop'[e].list \in DOMAIN lists /\ loop'[e].length <= Len(lists'[loop'[e].list])
        BY <1>1, <1>10, <3>2, <3>3 DEF Lent
      <3>5. \A b \in DOMAIN batches' : batches'[b].read \in Seq(DOMAIN lists)
        <4>1. <<>> \in Seq(DOMAIN lists)
          OBVIOUS
        <4> QED
          BY <1>1, <2>3, <2>5, <4>1 DEF Lent
      <3>6. \A b \in DOMAIN batches : batches[b] \in Batches /\ batches[b].length \in Nat
        <4>1. \A b \in DOMAIN batches : batches[b] \in Batches
          BY <1>3
        <4> QED
          BY <4>1 DEF Batches
      <3>7. \A b \in DOMAIN batches : batches[b].pc # "done" =>
                batches[b].list \in DOMAIN lists /\ batches[b].length <= Len(lists'[batches[b].list])
        BY <1>1, <1>10, <3>6 DEF Lent
      <3>8. \A b \in DOMAIN batches' : batches'[b].pc # "done" =>
                batches'[b].list \in DOMAIN lists /\ batches'[b].length <= Len(lists'[batches'[b].list])
        <4>1. CASE b0 \in DOMAIN batches'
          <5>1. batches'[b0].list = list /\ batches'[b0].length = k + 1
            BY ONLY <2>3, <2>5
          <5>2. list \in DOMAIN lists /\ k + 1 <= Len(lists'[list])
            BY <1>3, <1>4, <1>7, <1>9
          <5>3. \A b \in DOMAIN batches' : b = b0 \/ b \in DOMAIN batches
            BY ONLY <2>5
          <5> QED
            BY ONLY <2>5, <3>7, <5>1, <5>2, <5>3
        <4> QED
          BY ONLY <2>5, <4>1
      <3> QED
        BY <1>1, <1>8, <1>9, <3>1, <3>4, <3>5, <3>8 DEF Lent
    <2>8. Emptied'
      <3>1. /\ source = "closed" => \A e \in C!Dir : found[e] = <<>>
            /\ \A e \in used : e \in C!Dir /\ (loop[e].pc = "done" => source = "closed" /\ chan[e] = <<>>)
        BY <1>1 DEF Emptied, CopyTypes
      <3>2. result' # "nil"
        BY <1>8 DEF CopyAssumed
      <3>3. UNCHANGED <<used, found, source>>
        BY ONLY <1>8
      <3>4. \A e \in used : loop'[e].pc = "done" => source = "closed" /\ chan'[e] = <<>>
        BY ONLY <1>11, <2>2, <2>4, <3>1
      <3> QED
        BY ONLY <3>1, <3>2, <3>3, <3>4 DEF Emptied
    <2>9. ASSUME ~shared' PROVE Exclusive' /\ \A e \in C!Dir : Account(e)'
      <3>1. ~shared
        BY <1>8, <2>9
      <3>2. Exclusive'
        <4>1. Exclusive /\ loop[d].pc = "range" /\ loop[d].list = list
          <5>1. Exclusive
            BY <1>14, <3>1
          <5>2. loop[d].pc = "range" /\ loop[d].list = list
            BY ONLY <1>2, <1>3
          <5> QED
            BY <5>1, <5>2
        <4>2. /\ loop'[d].pc # "range"
              /\ \A e \in C!Dir : e # d => loop'[e] = loop[e]
          BY ONLY <2>2, <2>4
        <4>3. /\ b0 \notin DOMAIN batches /\ DOMAIN batches' = DOMAIN batches \cup {b0}
              /\ batches'[b0].list = loop[d].list
              /\ \A b \in DOMAIN batches : batches'[b] = batches[b]
          BY ONLY <2>3, <2>5, <4>1
        <4> QED
          BY <4>1, <4>2, <4>3, HandedOver
      <3>3. \A b \in DOMAIN batches : BatchIds(b)' = BatchIds(b)
        BY <1>14, <2>5, <3>1, BatchKept
      <3>4. ASSUME NEW e \in C!Dir, e # d PROVE Account(e)'
        <4>1. LoopIds(e)' = LoopIds(e)
          BY <1>14, <2>4, <3>1, <3>4, LoopKept
        <4>2. BatchesOf(e)' = BatchesOf(e)
          BY <2>3, <2>5, <3>4 DEF BatchesOf
        <4>3. \A b \in BatchesOf(e) : BatchIds(b)' = BatchIds(b)
          BY <3>3 DEF BatchesOf
        <4>4. seen'[e] = seen[e] /\ asked'[e] = asked[e]
          BY <1>8, <1>11, <3>4
        <4> QED
          BY <1>14, <3>1, <4>1, <4>2, <4>3, <4>4, SameAccount
      <3>5. Account(d)'
        <4>1. BatchIds(b0)' = LoopIds(d) \cup {id}
          <5>1. LoopIds(d) = InUse(lists[list], k)
            BY <1>2, <1>3 DEF LoopIds, ListIds
          <5>2. /\ batches'[b0].pc = "query" /\ batches'[b0].list = list
                /\ batches'[b0].length = k + 1 /\ lists'[list] = new
            BY <1>9, <2>3, <2>5
          <5>3. BatchIds(b0)' = InUse(new, k + 1)
            BY <5>2 DEF BatchIds, ListIds
          <5> QED
            BY <1>7, <5>1, <5>3
        <4>2. LoopIds(d)' = {}
          BY <2>2, <2>4 DEF LoopIds
        <4>3. b0 \notin BatchesOf(d) /\ BatchesOf(d)' = BatchesOf(d) \cup {b0}
          BY <2>3, <2>5 DEF BatchesOf
        <4>4. \A b \in BatchesOf(d) : BatchIds(b)' = BatchIds(b)
          BY <3>3 DEF BatchesOf
        <4>5. seen'[d] = seen[d] \cup {id} /\ {id} \cap seen[d] = {} /\ asked'[d] = asked[d]
          BY <1>8, <1>11
        <4> QED
          BY <1>14, <3>1, <4>1, <4>2, <4>3, <4>4, <4>5, Handed
      <3> QED
        BY <3>2, <3>4, <3>5
    <2> QED
      BY <1>13, <2>6, <2>7, <2>8, <2>9 DEF CopyInv
  <1>16. CASE k + 1 # C!Batch
    <2> DEFINE w == [loop[d] EXCEPT !.length = k + 1]
    <2>1. loop' = [loop EXCEPT ![d] = w] /\ batches' = batches
      BY <1>2, <1>16 DEF C!Take
    <2>2. /\ w \in Loops /\ w.pc = "range" /\ w.read = loop[d].read /\ w.list = list
          /\ w.length = k + 1
      <3>1. k + 1 \in Nat
        BY <1>4
      <3> QED
        BY <1>2, <1>3, <1>4, <3>1 DEF Loops
    <2> HIDE DEF w
    <2>3. /\ loop' \in [C!Dir -> Loops] /\ loop'[d] = w
          /\ \A e \in C!Dir : e # d => loop'[e] = loop[e]
      BY <1>3, <2>1, <2>2, OneLoop
    <2>4. CopyTypes'
      BY <1>1, <1>8, <1>9, <1>11, <1>12, <2>1, <2>3 DEF CopyAssumed, CopyTypes
    <2>5. Lent'
      <3>1. \A e \in C!Dir : loop'[e].read \in Seq(DOMAIN lists)
        BY <1>1, <2>2, <2>3 DEF Lent
      <3>2. \A e \in C!Dir : loop[e] \in Loops /\ loop[e].length \in Nat
        BY <1>3 DEF Loops
      <3>3. \A e \in C!Dir : loop[e].pc = "range" =>
                loop[e].list \in DOMAIN lists /\ loop[e].length <= Len(lists'[loop[e].list])
        BY <1>1, <1>10, <3>2 DEF Lent
      <3>4. loop'[d].list \in DOMAIN lists /\ loop'[d].length <= Len(lists'[loop'[d].list])
        BY <1>3, <1>4, <1>7, <1>9, <2>2, <2>3
      <3>5. \A e \in C!Dir : loop'[e].pc = "range" =>
                loop'[e].list \in DOMAIN lists /\ loop'[e].length <= Len(lists'[loop'[e].list])
        BY <2>3, <3>3, <3>4
      <3>6. \A b \in DOMAIN batches : batches[b] \in Batches /\ batches[b].length \in Nat
        <4>1. \A b \in DOMAIN batches : batches[b] \in Batches
          BY <1>3
        <4> QED
          BY <4>1 DEF Batches
      <3>7. \A b \in DOMAIN batches : batches[b].pc # "done" =>
                batches[b].list \in DOMAIN lists /\ batches[b].length <= Len(lists'[batches[b].list])
        BY <1>1, <1>10, <3>6 DEF Lent
      <3> QED
        BY <1>1, <1>8, <1>9, <2>1, <3>1, <3>5, <3>7 DEF Lent
    <2>6. Emptied'
      BY <1>1, <1>8, <1>11, <2>1, <2>2, <2>3 DEF Emptied, CopyAssumed, CopyTypes
    <2>7. ASSUME ~shared' PROVE Exclusive' /\ \A e \in C!Dir : Account(e)'
      <3>1. ~shared
        BY <1>8, <2>7
      <3>2. \A e \in C!Dir : (loop'[e].pc = "range" <=> loop[e].pc = "range")
                             /\ loop'[e].list = loop[e].list
        BY <1>2, <1>3, <2>2, <2>3
      <3>3. Exclusive'
        BY <1>14, <2>1, <3>1, <3>2 DEF Exclusive
      <3>4. \A b \in DOMAIN batches : BatchIds(b)' = BatchIds(b)
        BY <1>14, <2>1, <3>1, BatchKept
      <3>5. ASSUME NEW e \in C!Dir
            PROVE  /\ BatchesOf(e)' = BatchesOf(e)
                   /\ \A b \in BatchesOf(e) : BatchIds(b)' = BatchIds(b)
                   /\ asked'[e] = asked[e]
        BY <1>8, <2>1, <3>4 DEF BatchesOf
      <3>6. ASSUME NEW e \in C!Dir, e # d PROVE Account(e)'
        <4>1. LoopIds(e)' = LoopIds(e)
          BY <1>14, <2>3, <3>1, <3>6, LoopKept
        <4>2. seen'[e] = seen[e]
          BY <1>11, <3>6
        <4> QED
          BY <1>14, <3>1, <3>5, <4>1, <4>2, SameAccount
      <3>7. Account(d)'
        <4>1. LoopIds(d)' = LoopIds(d) \cup {id}
          <5>1. LoopIds(d) = InUse(lists[list], k)
            BY <1>2, <1>3 DEF LoopIds, ListIds
          <5>2. /\ loop'[d].pc = "range" /\ loop'[d].list = list /\ loop'[d].length = k + 1
                /\ lists'[list] = new
            BY <1>9, <2>2, <2>3
          <5>3. LoopIds(d)' = InUse(new, k + 1)
            BY <5>2 DEF LoopIds, ListIds
          <5> QED
            BY <1>7, <5>1, <5>3
        <4> QED
          BY <1>8, <1>11, <1>14, <3>1, <3>5, <4>1, Listed
      <3> QED
        BY <3>3, <3>6, <3>7
    <2> QED
      BY <1>13, <2>4, <2>5, <2>6, <2>7 DEF CopyInv
  <1> QED
    BY <1>15, <1>16

\* The ids of a batch are asked for.
LEMMA Copied ==
    ASSUME CopyAssumed, NEW d \in C!Dir, Account(d), NEW b \in BatchesOf(d),
           LoopIds(d)' = LoopIds(d), BatchesOf(d)' = BatchesOf(d),
           \A c \in BatchesOf(d) : c # b => BatchIds(c)' = BatchIds(c),
           BatchIds(b)' = {}, seen'[d] = seen[d], seen[d] \subseteq C!Ids,
           asked[d] \in [C!Ids -> Nat],
           \A id \in C!Ids : asked'[d][id] = asked[d][id] + (IF id \in BatchIds(b) THEN 1 ELSE 0)
    PROVE  Account(d)'
  <1>1. C!Ids' = C!Ids
    BY DEF CopyAssumed, C!Ids, C!Found
  <1>2. /\ \A id : id \in seen[d] <=> \/ id \in LoopIds(d) \/ id \in AskedIds(d)
                                      \/ \E c \in BatchesOf(d) : id \in BatchIds(c)
        /\ \A id \in C!Ids : asked[d][id] <= 1
        /\ \A id : ~(id \in LoopIds(d) /\ id \in AskedIds(d))
        /\ \A c \in BatchesOf(d) : \A id \in BatchIds(c) :
               id \notin LoopIds(d) /\ id \notin AskedIds(d)
        /\ \A c, e \in BatchesOf(d) : \A id \in BatchIds(c) : id \in BatchIds(e) => c = e
    BY DEF Account
  <1>3. \A id \in BatchIds(b) : id \in C!Ids /\ asked[d][id] = 0
    <2>1. \A id \in BatchIds(b) : id \in C!Ids /\ id \notin AskedIds(d)
      BY <1>2
    <2> QED
      BY <2>1 DEF AskedIds
  <1>4. \A id \in C!Ids : asked'[d][id] = IF id \in BatchIds(b) THEN 1 ELSE asked[d][id]
    <2> SUFFICES ASSUME NEW id \in C!Ids
                 PROVE  asked'[d][id] = IF id \in BatchIds(b) THEN 1 ELSE asked[d][id]
      OBVIOUS
    <2>1. asked[d][id] \in Nat
      OBVIOUS
    <2> QED
      BY <1>3, <2>1
  <1>5. AskedIds(d)' = AskedIds(d) \cup BatchIds(b)
    BY <1>1, <1>3, <1>4 DEF AskedIds
  <1>6. \A id \in C!Ids : asked'[d][id] <= 1
    BY <1>2, <1>4
  <1>7. \A id : (id \in seen[d])' <=>
            \/ (id \in LoopIds(d))' \/ (id \in AskedIds(d))'
            \/ \E c \in BatchesOf(d)' : (id \in BatchIds(c))'
    BY <1>2, <1>5
  <1>8. \A id : ~(id \in LoopIds(d)' /\ id \in AskedIds(d)')
    BY <1>2, <1>5
  <1>9. \A c \in BatchesOf(d)' : \A id \in BatchIds(c)' :
            id \notin LoopIds(d)' /\ id \notin AskedIds(d)'
    BY <1>2, <1>5
  <1>10. \A c, e \in BatchesOf(d)' : \A id \in BatchIds(c)' : id \in BatchIds(e)' => c = e
    BY <1>2
  <1> QED
    BY <1>1, <1>6, <1>7, <1>8, <1>9, <1>10 DEF Account

\* doSync asks for the ids that its list holds by now.
LEMMA CopyStep ==
    ASSUME CopyAssumed, NEW b \in DOMAIN batches, C!Copy(b)
    PROVE  CopyInv'
  <1>1. CopyTypes /\ Lent /\ Reported /\ Emptied /\ batches \in Seq(Batches)
        /\ asked \in [C!Dir -> [C!Ids -> Nat]]
    BY DEF CopyAssumed, CopyInv, CopyTypes
  <1>2. PICK d : d = batches[b].dir
    OBVIOUS
  <1>3. batches[b] \in Batches /\ d \in C!Dir /\ b \in BatchesOf(d)
    <2>1. batches[b] \in Batches
      BY <1>1
    <2> QED
      BY <1>2, <2>1 DEF Batches, BatchesOf
  <1> DEFINE w == [batches[b] EXCEPT !.pc = "giveback"]
             row == [id \in C!Ids |-> asked[d][id] + (IF id \in BatchIds(b) THEN 1 ELSE 0)]
  <1>4. /\ batches' = [batches EXCEPT ![b] = w] /\ batches[b].pc = "query"
        /\ UNCHANGED <<used, found, source, chan, loop, seen, lists, pool, result, shared>>
    BY DEF C!Copy, C!At
  <1>5. asked' = [asked EXCEPT ![d] = row]
    <2>1. BatchIds(b) = {lists[batches[b].list][i] : i \in 1 .. batches[b].length}
      BY <1>4 DEF BatchIds, ListIds, InUse
    <2> QED
      BY <1>2, <2>1 DEF C!Copy
  <1>6. /\ w \in Batches /\ w.pc = "giveback" /\ w.dir = d /\ w.read = batches[b].read
        /\ w.list = batches[b].list /\ w.length = batches[b].length
    BY <1>2, <1>3 DEF Batches
  <1>7. row \in [C!Ids -> Nat]
    <2>1. asked[d] \in [C!Ids -> Nat]
      BY <1>1, <1>3
    <2> QED
      BY <2>1
  <1>8. \A id \in C!Ids : row[id] = asked[d][id] + (IF id \in BatchIds(b) THEN 1 ELSE 0)
    OBVIOUS
  <1> HIDE DEF w, row
  <1>9. /\ batches' \in Seq(Batches) /\ DOMAIN batches' = DOMAIN batches /\ batches'[b] = w
        /\ \A c \in DOMAIN batches : c # b => batches'[c] = batches[c]
    BY <1>1, <1>4, <1>6, OneBatch
  <1>10. C!Ids' = C!Ids /\ C!Found' = C!Found
    BY DEF CopyAssumed, C!Ids, C!Found
  <1>11. /\ asked' \in [C!Dir -> [C!Ids -> Nat]] /\ asked'[d] = row
         /\ \A e \in C!Dir : e # d => asked'[e] = asked[e]
    BY <1>1, <1>3, <1>5, <1>7
  <1>12. CopyTypes'
    BY <1>1, <1>4, <1>9, <1>10, <1>11 DEF CopyAssumed, CopyTypes
  <1>13. Lent'
    BY <1>1, <1>4, <1>6, <1>9 DEF Lent
  <1>14. Reported'
    BY <1>1, <1>4, <1>10 DEF Reported
  <1>15. Emptied'
    BY <1>1, <1>4 DEF Emptied, CopyAssumed
  <1>16. ASSUME ~shared' PROVE Exclusive' /\ \A e \in C!Dir : Account(e)'
    <2>1. Exclusive /\ \A e \in C!Dir : Account(e)
      BY <1>4, <1>16 DEF CopyAssumed, CopyInv
    <2>2. Exclusive'
      BY <1>4, <1>6, <1>9, <2>1 DEF Exclusive
    <2>3. \A e \in C!Dir : LoopIds(e)' = LoopIds(e)
      BY <1>4, LoopKept
    <2>4. \A c \in DOMAIN batches : c # b => BatchIds(c)' = BatchIds(c)
      BY <1>4, <1>9, BatchKept
    <2>5. \A e \in C!Dir : BatchesOf(e)' = BatchesOf(e)
      <3>1. \A c \in DOMAIN batches : batches'[c].dir = batches[c].dir
        BY <1>2, <1>6, <1>9
      <3> QED
        BY <1>9, <3>1 DEF BatchesOf
    <2>6. ASSUME NEW e \in C!Dir, e # d PROVE Account(e)'
      <3>1. \A c \in BatchesOf(e) : BatchIds(c)' = BatchIds(c)
        BY <1>2, <2>4, <2>6 DEF BatchesOf
      <3>2. seen'[e] = seen[e] /\ asked'[e] = asked[e]
        BY <1>4, <1>11, <2>6
      <3> QED
        BY <2>1, <2>3, <2>5, <3>1, <3>2, SameAccount
    <2>7. Account(d)'
      <3>1. BatchIds(b)' = {}
        BY <1>6, <1>9 DEF BatchIds
      <3>2. \A c \in BatchesOf(d) : c # b => BatchIds(c)' = BatchIds(c)
        BY <2>4 DEF BatchesOf
      <3>3. seen'[d] = seen[d]
        BY <1>4
      <3>4. seen[d] \subseteq C!Ids
        BY <1>1, <1>3 DEF Reported, C!Ids, C!Dir
      <3>5. asked[d] \in [C!Ids -> Nat]
        BY <1>1, <1>3
      <3>6. \A id \in C!Ids :
                asked'[d][id] = asked[d][id] + (IF id \in BatchIds(b) THEN 1 ELSE 0)
        BY <1>8, <1>11
      <3> QED
        BY <1>3, <2>1, <2>3, <2>5, <3>1, <3>2, <3>3, <3>4, <3>5, <3>6, Copied
    <2> QED
      BY <2>2, <2>6, <2>7
  <1> QED
    BY <1>12, <1>13, <1>14, <1>15, <1>16 DEF CopyInv

\* A sync begins with nothing seen and one list in the pool.
LEMMA CopyBegins == C!SyncAssumption /\ C!SyncInit => CopyInv
  <1> SUFFICES ASSUME C!SyncAssumption, C!SyncInit PROVE CopyInv
    OBVIOUS
  <1>1. syncing \in Syncs /\ C!Found \in [C!Dir -> Seq(Nat)]
    BY DEF C!SyncInit, C!SyncAssumption, C!Found
  <1>2. /\ used \subseteq C!Dir /\ found = C!Found /\ chan = [d \in C!Dir |-> <<>>]
        /\ seen = [d \in C!Dir |-> {}] /\ lists = << <<>> >> /\ pool = <<1>> /\ batches = <<>>
        /\ asked = [d \in C!Dir |-> [id \in C!Ids |-> 0]] /\ source = "push" /\ result = ""
    BY DEF C!SyncInit, C!Dir
  <1>3. <<>> \in Seq(Nat)
    OBVIOUS
  <1>4. loop \in [C!Dir -> Loops]
    BY <1>3 DEF C!SyncInit, Loops
  <1>5. \A d \in C!Dir : /\ loop[d].pc # "range" /\ loop[d].read = <<>>
                         /\ d \in used => loop[d].pc = "grab"
    BY DEF C!SyncInit
  <1>6. /\ lists \in Seq(Seq(Nat)) /\ 1 \in DOMAIN lists /\ pool \in Seq(DOMAIN lists)
        /\ batches \in Seq(Batches) /\ DOMAIN batches = {}
    <2>1. lists = << <<>> >> /\ pool = <<1>> /\ batches = <<>>
      BY <1>2
    <2>2. lists \in Seq(Seq(Nat)) /\ DOMAIN lists = {1}
      BY <1>3, <2>1
    <2> QED
      BY <2>1, <2>2
  <1>7. asked \in [C!Dir -> [C!Ids -> Nat]]
    BY <1>2
  <1>8. CopyTypes
    BY <1>1, <1>2, <1>3, <1>4, <1>6, <1>7 DEF CopyTypes
  <1>9. Lent
    <2>1. <<>> \in Seq(DOMAIN lists)
      OBVIOUS
    <2> QED
      BY <1>5, <1>6, <2>1 DEF Lent
  <1>10. Reported
    BY <1>2, RangeOfNone DEF Reported
  <1>11. Emptied
    BY <1>2, <1>5 DEF Emptied
  <1>12. Exclusive
    BY <1>5, <1>6 DEF Exclusive
  <1>13. ASSUME NEW d \in C!Dir PROVE Account(d)
    <2>1. LoopIds(d) = {}
      BY <1>5 DEF LoopIds
    <2>2. BatchesOf(d) = {}
      BY <1>6 DEF BatchesOf
    <2>3. seen[d] = {} /\ \A id \in C!Ids : asked[d][id] = 0
      BY <1>2
    <2>4. AskedIds(d) = {}
      BY <2>3 DEF AskedIds
    <2> QED
      BY <2>1, <2>2, <2>3, <2>4 DEF Account
  <1> QED
    BY <1>8, <1>9, <1>10, <1>11, <1>12, <1>13 DEF CopyInv

\* Every step of a sync keeps the invariant.
LEMMA CopyStays ==
    ASSUME C!SyncAssumption, CopyInv, [C!SyncNext]_(C!syncVars)
    PROVE  CopyInv'
  <1>1. CASE UNCHANGED C!syncVars
    <2>1. UNCHANGED <<syncing, used, found, source, chan, loop, seen, lists, pool, batches, asked,
                      result, shared>>
      BY <1>1 DEF C!syncVars
    <2>2. C!Ids' = C!Ids /\ C!Found' = C!Found
      BY <2>1 DEF C!Ids, C!Found
    <2>3. CopyTypes' /\ Lent' /\ Reported' /\ Emptied'
      BY <2>1, <2>2 DEF CopyInv, CopyTypes, Lent, Reported, Emptied
    <2>4. ASSUME ~shared' PROVE Exclusive' /\ \A d \in C!Dir : Account(d)'
      BY <2>1, <2>2, <2>4 DEF CopyInv, Exclusive, Account, LoopIds, BatchIds, BatchesOf, AskedIds,
                              ListIds
    <2> QED
      BY <2>3, <2>4 DEF CopyInv
  <1>2. CASE C!SyncNext
    <2>1. CopyAssumed
      BY <1>2 DEF CopyAssumed, C!SyncNext
    <2> QED
      BY <1>2, <2>1, QuietStep, GrabReadsStep, GrabWritesStep, TakeStep, LastBatchStep, CopyStep,
         GivebackReadsStep, GivebackWritesStep DEF C!SyncNext
  <1> QED
    BY <1>1, <1>2

\* What the accounts say when all goroutines are done.
LEMMA CopyComplete == CopyInv => C!CopiesAll
  <1> SUFFICES ASSUME CopyInv, ~shared
               PROVE  /\ \A d \in C!Dir : \A id \in C!Ids :
                            asked[d][id] <= (IF id \in C!Range(C!Found[d]) THEN 1 ELSE 0)
                      /\ result = "nil" =>
                            \A d \in used : \A id \in C!Range(C!Found[d]) : asked[d][id] = 1
    BY DEF C!CopiesAll
  <1>1. CopyTypes /\ Reported /\ Emptied /\ \A d \in C!Dir : Account(d)
    BY DEF CopyInv
  <1>2. ASSUME NEW d \in C!Dir, NEW id \in C!Ids
        PROVE  /\ asked[d][id] \in Nat /\ asked[d][id] <= 1
               /\ asked[d][id] # 0 => id \in C!Range(C!Found[d])
    <2>1. asked[d][id] \in Nat
      BY <1>1 DEF CopyTypes
    <2>2. asked[d][id] <= 1 /\ (asked[d][id] # 0 => id \in seen[d])
      BY <1>1 DEF Account, AskedIds
    <2> QED
      BY <1>1, <2>1, <2>2 DEF Reported
  <1>3. ASSUME result = "nil", NEW d \in used, NEW id \in C!Range(C!Found[d])
        PROVE  asked[d][id] = 1
    <2>1. d \in C!Dir /\ id \in C!Ids
      <3>1. d \in C!Dir
        BY <1>1 DEF CopyTypes
      <3> QED
        BY <3>1 DEF C!Ids, C!Dir
    <2>2. chan[d] = <<>> /\ found[d] = <<>> /\ loop[d].pc = "done"
      BY <1>1, <1>3, <2>1 DEF Emptied
    <2>3. id \in seen[d]
      BY <1>1, <2>1, <2>2, RangeOfNone DEF Reported
    <2>4. LoopIds(d) = {} /\ \A b \in BatchesOf(d) : BatchIds(b) = {}
      BY <1>1, <1>3, <2>2 DEF Emptied, LoopIds, BatchIds, BatchesOf
    <2>5. id \in AskedIds(d)
      BY <1>1, <2>1, <2>3, <2>4 DEF Account
    <2> QED
      BY <1>2, <2>1, <2>5 DEF AskedIds
  <1> QED
    BY <1>2, <1>3

\* In a behaviour of Services the copying behaves as NegSync says.
LEMMA CopyRuns == Spec => C!SyncSpec
  <1>1. Init => C!SyncInit
    BY DEF Init
  <1>2. [Next]_vars => [C!SyncNext]_(C!syncVars)
    BY DEF Next, vars, copyVars, C!syncVars
  <1> QED
    BY <1>1, <1>2, PTL DEF Spec, C!SyncSpec

\* No id is queried twice, and NegentropySync returns nil only when every id that
\* was reported for a direction asked for has been queried (nip77.go:109-156), in
\* whatever order the goroutines run, for every report and size of a batch: unless
\* the pool, which giveback writes without its lock, has lent a list twice.
THEOREM CopiesAlwaysAll == Spec => []CopiesAll
  <1>1. C!SyncInit => CopyInv
    BY CopyBegins, InstancesAssumption
  <1>2. CopyInv /\ [C!SyncNext]_(C!syncVars) => CopyInv'
    BY CopyStays, InstancesAssumption
  <1>3. C!SyncSpec => []C!CopiesAll
    BY <1>1, <1>2, CopyComplete, PTL DEF C!SyncSpec
  <1> QED
    BY <1>3, CopyRuns, PTL DEF CopiesAll

-----------------------------------------------------------------------------
(* Reconciliation *)

Party == {"client", "server"}
Other(p) == IF p = "server" THEN "client" ELSE "server"
Numbers == 1 .. MaxItem

\* The items of a party from l up to b, and the bound from which range i of a message is.
Has(own, l, b) == {x \in own : l <= x /\ x < b}
From(m, l, i) == IF i = 1 THEN l ELSE m[i - 1].bound
LastBound(m) == IF m = <<>> THEN 0 ELSE m[Len(m)].bound

RangeTypes ==
    [bound : 0 .. R!Infinite, mode : {"skip", "fingerprint", "ids"}, content : SUBSET Numbers]

\* What the party that has own says of a range to the one that has others: its ids are all
\* of its items there, and a fingerprint that the other finds equal is of all of them too,
\* unless the message is free of that.
Says(r, l, own, others, free) ==
    /\ l <= r.bound
    /\ r.mode = "ids" => r.content = Has(own, l, r.bound)
    /\ r.mode = "fingerprint" =>
          /\ r.content \subseteq Has(own, l, r.bound)
          /\ free \/ (r.content = Has(others, l, r.bound) => Has(own, l, r.bound) = r.content)

\* A message, from the bound l on.
Message(m, l, own, others, free) ==
    /\ m \in Seq(RangeTypes)
    /\ \A i \in 1 .. Len(m) : Says(m[i], From(m, l, i), own, others, free) /\ l <= m[i].bound
    /\ \A i, j \in 1 .. Len(m) : i < j => m[i].bound <= m[j].bound

\* An item of which a message says something.
Covers(m, l, x) ==
    \E i \in 1 .. Len(m) : m[i].mode # "skip" /\ From(m, l, i) <= x /\ x < m[i].bound

\* A message tells of all items from l up to b.
Tells(m, l, b, own, others, free) ==
    /\ Message(m, l, own, others, free)
    /\ m # <<>> /\ LastBound(m) = b
    /\ \A x \in Numbers : l <= x /\ x < b => Covers(m, l, x)

\* The client knows whose an item is.
Settled(x) ==
    /\ x \in items["client"] \ items["server"] => x \in haves
    /\ x \in items["server"] \ items["client"] => x \in haveNots

SyncTypes ==
    /\ items \in [Party -> SUBSET Numbers]
    /\ turn \in Party \cup {"done"}
    /\ prev \in 0 .. R!Infinite
    /\ skipping \in BOOLEAN
    /\ hidden \in BOOLEAN

Sound ==
    /\ haves \subseteq items["client"] \ items["server"]
    /\ haveNots \subseteq items["server"] \ items["client"]

\* The ranges that are written go up to the one that is read, or to those skipped before it.
Messages ==
    /\ turn = "done" => reader = <<>> /\ output = <<>>
    /\ turn # "done" =>
          /\ Message(reader, prev, items[Other(turn)], items[turn], hidden)
          /\ Message(output, 0, items[turn], items[Other(turn)], hidden)
    /\ reader # <<>> => LastBound(output) <= prev /\ (~skipping => LastBound(output) = prev)

\* What is not known yet is in a range still to be read, or in the answer.
NothingLost ==
    ~hidden =>
        \A x \in Numbers : Settled(x) \/ Covers(reader, prev, x) \/ Covers(output, 0, x)

SyncInv == SyncTypes /\ Sound /\ Messages /\ NothingLost

LEMMA FiniteItems ==
    ASSUME R!ReconcileAssumption, NEW own \in SUBSET Numbers, NEW l, NEW b
    PROVE  /\ Has(own, l, b) \in SUBSET Numbers
           /\ IsFiniteSet(Has(own, l, b))
           /\ Cardinality(Has(own, l, b)) \in Nat
  <1>1. IsFiniteSet(Numbers)
    BY FS_Interval DEF R!ReconcileAssumption, Numbers
  <1>2. Has(own, l, b) \in SUBSET Numbers
    BY DEF Has
  <1> QED
    BY <1>1, <1>2, FS_Subset, FS_CardinalityType

\* A set of naturals from 1 on without gaps is as large as its last.
LEMMA NoGaps ==
    ASSUME NEW n \in Nat, NEW D \in SUBSET (1 .. n), \A j \in D : 1 .. j \subseteq D
    PROVE  Cardinality(D) \in 0 .. n /\ D = 1 .. Cardinality(D)
  <1>1. IsFiniteSet(1 .. n) /\ Cardinality(1 .. n) = n
    BY FS_Interval
  <1>2. IsFiniteSet(D) /\ Cardinality(D) \in Nat /\ Cardinality(D) <= n
    <2> DEFINE I == 1 .. n
    <2>1. IsFiniteSet(I) /\ Cardinality(I) = n /\ D \in SUBSET I
      BY <1>1
    <2> HIDE DEF I
    <2>2. IsFiniteSet(D) /\ Cardinality(D) <= Cardinality(I)
      BY <2>1, FS_Subset
    <2>3. Cardinality(D) \in Nat
      BY <2>2, FS_CardinalityType
    <2> QED
      BY <2>1, <2>2, <2>3
  <1>3. \A j \in D : j <= Cardinality(D)
    <2> TAKE j \in D
    <2>1. Cardinality(1 .. j) = j
      BY FS_Interval
    <2> QED
      BY <1>2, <2>1, FS_Subset
  <1>4. D \subseteq 1 .. Cardinality(D)
    BY <1>2, <1>3
  <1>5. IsFiniteSet(1 .. Cardinality(D)) /\ Cardinality(1 .. Cardinality(D)) = Cardinality(D)
    BY <1>2, FS_Interval
  <1>6. 1 .. Cardinality(D) = D
    BY <1>4, <1>5, FS_Subset
  <1> QED
    BY <1>2, <1>6

\* The messages of one range, and the rest of a message.
LEMMA OneRange ==
    ASSUME NEW r \in RangeTypes, NEW l \in 0 .. R!Infinite,
           NEW own \in SUBSET Numbers, NEW others, NEW free \in BOOLEAN,
           Says(r, l, own, others, free)
    PROVE  /\ Message(<<r>>, l, own, others, free)
           /\ <<r>> # <<>> /\ LastBound(<<r>>) = r.bound
           /\ r.mode # "skip" => \A x \in Numbers : l <= x /\ x < r.bound => Covers(<<r>>, l, x)
  <1>1. Len(<<r>>) = 1 /\ <<r>>[1] = r /\ From(<<r>>, l, 1) = l /\ <<r>> \in Seq(RangeTypes)
    BY DEF From
  <1> QED
    BY <1>1 DEF Message, LastBound, Covers, Says

LEMMA RestOfMessage ==
    ASSUME R!ReconcileAssumption, NEW m, NEW l \in 0 .. R!Infinite,
           NEW own \in SUBSET Numbers, NEW others, NEW free \in BOOLEAN,
           Message(m, l, own, others, free),
           m # <<>>
    PROVE  /\ Head(m) \in RangeTypes
           /\ Says(Head(m), l, own, others, free)
           /\ Head(m).bound \in 0 .. R!Infinite
           /\ Message(Tail(m), Head(m).bound, own, others, free)
           /\ \A x \in Numbers : Covers(m, l, x) =>
                 \/ Head(m).mode # "skip" /\ l <= x /\ x < Head(m).bound
                 \/ Covers(Tail(m), Head(m).bound, x)
  <1> DEFINE t == Tail(m)
             b == Head(m).bound
  <1>1. m \in Seq(RangeTypes) /\ Head(m) = m[1] /\ 1 \in 1 .. Len(m)
    BY DEF Message
  <1>2. t \in Seq(RangeTypes) /\ Len(t) = Len(m) - 1 /\ Len(t) \in Nat
    BY <1>1
  <1>3. \A i \in 1 .. Len(t) : t[i] = m[i + 1] /\ i + 1 \in 1 .. Len(m)
    BY <1>1, <1>2
  <1>4. \A i \in 1 .. Len(t) : From(t, b, i) = From(m, l, i + 1)
    <2> TAKE i \in 1 .. Len(t)
    <2>1. CASE i = 1
      BY <1>1, <2>1 DEF From
    <2>2. CASE i # 1
      <3>1. i - 1 \in 1 .. Len(t)
        BY <1>2, <2>2
      <3>2. t[i - 1] = m[(i - 1) + 1]
        BY <1>3, <3>1
      <3> QED
        BY <2>2, <3>1, <3>2 DEF From
    <2> QED
      BY <2>1, <2>2
  <1>5. Head(m) \in RangeTypes /\ b \in 0 .. R!Infinite /\ Says(Head(m), l, own, others, free)
    <2>1. Says(m[1], From(m, l, 1), own, others, free) /\ From(m, l, 1) = l
      BY <1>1 DEF Message, From
    <2>2. Head(m) \in RangeTypes
      BY <1>1
    <2> QED
      BY <1>1, <2>1, <2>2 DEF RangeTypes
  <1>6. Message(t, b, own, others, free)
    <2>1. ASSUME NEW i \in 1 .. Len(t)
          PROVE  Says(t[i], From(t, b, i), own, others, free) /\ b <= t[i].bound
      <3>1. i + 1 \in 1 .. Len(m) /\ t[i] = m[i + 1] /\ From(t, b, i) = From(m, l, i + 1)
        BY <1>3, <1>4
      <3>2. 1 < i + 1
        BY <1>2
      <3> QED
        BY <1>1, <3>1, <3>2 DEF Message
    <2>2. ASSUME NEW i \in 1 .. Len(t), NEW j \in 1 .. Len(t), i < j
          PROVE  t[i].bound <= t[j].bound
      <3>1. i + 1 < j + 1
        BY <1>2, <2>2
      <3> QED
        BY <1>3, <3>1 DEF Message
    <2> QED
      BY <1>2, <2>1, <2>2 DEF Message
  <1>7. ASSUME NEW x \in Numbers, Covers(m, l, x)
        PROVE  \/ Head(m).mode # "skip" /\ l <= x /\ x < b
               \/ Covers(t, b, x)
    <2>1. PICK i \in 1 .. Len(m) : m[i].mode # "skip" /\ From(m, l, i) <= x /\ x < m[i].bound
      BY <1>7 DEF Covers
    <2>2. CASE i = 1
      BY <1>1, <2>1, <2>2 DEF From
    <2>3. CASE i # 1
      <3>1. i - 1 \in 1 .. Len(t)
        BY <1>1, <1>2, <2>3
      <3>2. t[i - 1] = m[(i - 1) + 1] /\ From(t, b, i - 1) = From(m, l, (i - 1) + 1)
        BY <1>3, <1>4, <3>1
      <3>3. (i - 1) + 1 = i
        BY <1>1
      <3> QED
        BY <2>1, <3>1, <3>2, <3>3 DEF Covers
    <2> QED
      BY <2>2, <2>3
  <1> QED
    BY <1>5, <1>6, <1>7

\* A message that goes on with another, which begins where it ends.
Then(m, n) == m \o n

LEMMA JoinedTwice ==
    ASSUME NEW k \in Seq(RangeTypes), NEW m \in Seq(RangeTypes), NEW n \in Seq(RangeTypes)
    PROVE  k \o (m \o n) = Then(Then(k, m), n)
  <1>1. (k \o m) \o n = k \o (m \o n)
    BY ConcatAssociative
  <1> QED
    BY ONLY <1>1 DEF Then

\* The ranges of m \o n are those of m and those of n, from the same bounds.
LEMMA JoinedRanges ==
    ASSUME NEW m \in Seq(RangeTypes), NEW n \in Seq(RangeTypes)
    PROVE  /\ Then(m, n) \in Seq(RangeTypes) /\ Len(Then(m, n)) = Len(m) + Len(n)
           /\ \A i \in 1 .. Len(m) :
                 Then(m, n)[i] = m[i] /\ From(Then(m, n), 0, i) = From(m, 0, i)
           /\ \A i \in 1 .. Len(n) :
                 /\ Then(m, n)[Len(m) + i] = n[i]
                 /\ From(Then(m, n), 0, Len(m) + i) = From(n, LastBound(m), i)
  <1> DEFINE j == Then(m, n)
             k == Len(m)
             l == LastBound(m)
  <1>1. m \in Seq(RangeTypes) /\ n \in Seq(RangeTypes) /\ k \in Nat /\ Len(n) \in Nat
    OBVIOUS
  <1>2. j \in Seq(RangeTypes) /\ Len(j) = k + Len(n)
    BY <1>1 DEF Then
  <1>3. \A i \in 1 .. k : j[i] = m[i] /\ From(j, 0, i) = From(m, 0, i)
    <2>1. \A i \in 1 .. k : j[i] = m[i]
      BY <1>1 DEF Then
    <2> TAKE i \in 1 .. k
    <2>2. i # 1 => i - 1 \in 1 .. k
      BY <1>1 DEF Then
    <2> QED
      BY <2>1, <2>2 DEF From
  <1>4. \A i \in 1 .. Len(n) : j[k + i] = n[i]
    BY <1>1 DEF Then
  <1>5. l = IF k = 0 THEN 0 ELSE m[k].bound
    BY <1>1 DEF LastBound
  <1>6. \A i \in 1 .. Len(n) : From(j, 0, k + i) = From(n, l, i)
    <2> TAKE i \in 1 .. Len(n)
    <2>1. CASE i = 1 /\ k = 0
      BY <1>5, <2>1 DEF From
    <2>2. CASE i = 1 /\ k # 0
      <3>1. (k + i) - 1 = k /\ k \in 1 .. k /\ k + i # 1
        BY <1>1, <2>2
      <3> QED
        BY <1>3, <1>5, <2>2, <3>1 DEF From
    <2>3. CASE i # 1
      <3>1. i - 1 \in 1 .. Len(n) /\ (k + i) - 1 = k + (i - 1) /\ k + i # 1
        BY <1>1, <2>3
      <3>2. j[k + (i - 1)] = n[i - 1]
        BY <1>4, <3>1
      <3> QED
        BY <2>3, <3>1, <3>2 DEF From
    <2> QED
      BY <2>1, <2>2, <2>3
  <1> QED
    BY <1>2, <1>3, <1>4, <1>6

LEMMA JoinedEnds ==
    ASSUME NEW m \in Seq(RangeTypes), NEW n \in Seq(RangeTypes)
    PROVE  LastBound(Then(m, n)) = IF n = <<>> THEN LastBound(m) ELSE LastBound(n)
  <1>1. CASE n = <<>>
    <2>1. Then(m, n) = m
      BY <1>1 DEF Then
    <2> QED
      BY <1>1, <2>1
  <1>2. CASE n # <<>>
    <2>1. Len(n) \in 1 .. Len(n) /\ Then(m, n) # <<>> /\ Len(Then(m, n)) = Len(m) + Len(n)
      <3>1. Len(n) \in 1 .. Len(n) /\ Len(m) \in Nat
        BY <1>2
      <3>2. Len(Then(m, n)) = Len(m) + Len(n)
        BY JoinedRanges
      <3>3. Len(Then(m, n)) # 0
        BY <3>1, <3>2
      <3> QED
        BY <3>1, <3>2, <3>3
    <2>2. Then(m, n)[Len(m) + Len(n)] = n[Len(n)]
      BY <2>1, JoinedRanges
    <2> QED
      BY <1>2, <2>1, <2>2 DEF LastBound
  <1> QED
    BY <1>1, <1>2

LEMMA JoinedCovers ==
    ASSUME NEW m \in Seq(RangeTypes), NEW n \in Seq(RangeTypes), NEW x,
           Covers(m, 0, x) \/ Covers(n, LastBound(m), x)
    PROVE  Covers(Then(m, n), 0, x)
  <1> DEFINE j == Then(m, n)
             k == Len(m)
             l == LastBound(m)
  <1>1. k \in Nat /\ Len(n) \in Nat /\ Len(j) = k + Len(n)
    <2>1. Len(j) = k + Len(n)
      BY JoinedRanges
    <2>2. k \in Nat /\ Len(n) \in Nat
      OBVIOUS
    <2> QED
      BY <2>1, <2>2
  <1>2. ASSUME Covers(m, 0, x) PROVE Covers(j, 0, x)
    <2>1. PICK i \in 1 .. k : m[i].mode # "skip" /\ From(m, 0, i) <= x /\ x < m[i].bound
      BY <1>2 DEF Covers
    <2>2. i \in 1 .. Len(j)
      BY <1>1
    <2>3. j[i] = m[i] /\ From(j, 0, i) = From(m, 0, i)
      BY JoinedRanges
    <2> QED
      BY <2>1, <2>2, <2>3 DEF Covers
  <1>3. ASSUME Covers(n, l, x) PROVE Covers(j, 0, x)
    <2>1. PICK i \in 1 .. Len(n) : n[i].mode # "skip" /\ From(n, l, i) <= x /\ x < n[i].bound
      BY <1>3 DEF Covers
    <2>2. k + i \in 1 .. Len(j)
      BY <1>1
    <2>3. j[k + i] = n[i] /\ From(j, 0, k + i) = From(n, l, i)
      BY JoinedRanges
    <2> QED
      BY <2>1, <2>2, <2>3 DEF Covers
  <1> QED
    BY <1>2, <1>3

LEMMA Joined ==
    ASSUME R!ReconcileAssumption,
           NEW own \in SUBSET Numbers, NEW others, NEW free \in BOOLEAN,
           NEW m, NEW n,
           Message(m, 0, own, others, free), Message(n, LastBound(m), own, others, free)
    PROVE  Message(Then(m, n), 0, own, others, free)
  <1> DEFINE j == Then(m, n)
             k == Len(m)
             l == LastBound(m)
  <1>1. m \in Seq(RangeTypes) /\ n \in Seq(RangeTypes) /\ k \in Nat /\ Len(n) \in Nat
    BY DEF Message
  <1>2. j \in Seq(RangeTypes) /\ Len(j) = k + Len(n)
    BY <1>1, JoinedRanges
  <1>3. \A i \in 1 .. k : j[i] = m[i] /\ From(j, 0, i) = From(m, 0, i)
    BY <1>1, JoinedRanges
  <1>4. \A i \in 1 .. Len(n) : j[k + i] = n[i]
    BY <1>1, JoinedRanges
  <1>5. l = IF k = 0 THEN 0 ELSE m[k].bound
    BY <1>1 DEF LastBound
  <1>6. \A i \in 1 .. Len(n) : From(j, 0, k + i) = From(n, l, i)
    BY <1>1, JoinedRanges
  <1> HIDE DEF j
  <1>7. \A i \in 1 .. k : m[i].bound \in Int /\ 0 <= m[i].bound /\ m[i].bound <= l
    <2> TAKE i \in 1 .. k
    <2>1. m[i] \in RangeTypes /\ m[k] \in RangeTypes /\ k \in 1 .. k
      BY <1>1
    <2>2. m[i].bound \in 0 .. R!Infinite /\ m[k].bound \in 0 .. R!Infinite
      BY <2>1 DEF RangeTypes
    <2>3. i < k => m[i].bound <= m[k].bound
      BY <2>1 DEF Message
    <2>4. R!Infinite \in Nat
      BY DEF R!ReconcileAssumption, R!Infinite
    <2>5. i < k \/ i = k
      BY <1>1
    <2>6. l = m[k].bound
      BY <1>1, <1>5
    <2> QED
      BY <2>2, <2>3, <2>4, <2>5, <2>6
  <1>8. \A i \in 1 .. Len(n) : n[i].bound \in Int /\ 0 <= n[i].bound /\ l <= n[i].bound
    <2> TAKE i \in 1 .. Len(n)
    <2>1. n[i] \in RangeTypes
      BY <1>1
    <2>2. n[i].bound \in 0 .. R!Infinite
      BY <2>1 DEF RangeTypes
    <2>3. l <= n[i].bound
      BY DEF Message
    <2>4. R!Infinite \in Nat
      BY DEF R!ReconcileAssumption, R!Infinite
    <2> QED
      BY <2>2, <2>3, <2>4
  <1>9. ASSUME NEW i \in 1 .. Len(j)
        PROVE  i \in 1 .. k \/ \E h \in 1 .. Len(n) : i = k + h
    <2>1. i \in 1 .. k \/ (i - k \in 1 .. Len(n) /\ i = k + (i - k))
      BY <1>1, <1>2
    <2> QED
      BY <2>1
  <1>10. ASSUME NEW i \in 1 .. Len(j)
         PROVE  Says(j[i], From(j, 0, i), own, others, free) /\ 0 <= j[i].bound
    <2>1. CASE i \in 1 .. k
      <3>1. Says(m[i], From(m, 0, i), own, others, free)
        BY <2>1 DEF Message
      <3> QED
        BY <1>3, <1>7, <2>1, <3>1
    <2>2. ASSUME NEW h \in 1 .. Len(n), i = k + h
          PROVE  Says(j[i], From(j, 0, i), own, others, free) /\ 0 <= j[i].bound
      <3>1. Says(n[h], From(n, l, h), own, others, free)
        BY DEF Message
      <3> QED
        BY <1>4, <1>6, <1>8, <2>2, <3>1
    <2> QED
      BY <1>9, <2>1, <2>2
  <1>11. ASSUME NEW g \in 1 .. Len(j), NEW i \in 1 .. Len(j), g < i
         PROVE  j[g].bound <= j[i].bound
    <2>1. CASE g \in 1 .. k /\ i \in 1 .. k
      <3>1. m[g].bound <= m[i].bound
        BY <1>11, <2>1 DEF Message
      <3> QED
        BY <1>3, <2>1, <3>1
    <2>2. ASSUME g \in 1 .. k, NEW h \in 1 .. Len(n), i = k + h
          PROVE  j[g].bound <= j[i].bound
      <3>1. j[g] = m[g] /\ j[i] = n[h]
        BY <1>3, <1>4, <2>2
      <3>2. l \in Int
        <4>1. k \in 1 .. k /\ k # 0
          BY <1>1, <2>2
        <4> QED
          BY <1>5, <1>7, <4>1
      <3>3. m[g].bound \in Int /\ m[g].bound <= l
        BY <1>7, <2>2
      <3>4. n[h].bound \in Int /\ l <= n[h].bound
        BY <1>8
      <3> HIDE DEF l
      <3> QED
        BY <3>1, <3>2, <3>3, <3>4
    <2>3. ASSUME NEW f \in 1 .. Len(n), g = k + f, NEW h \in 1 .. Len(n), i = k + h
          PROVE  j[g].bound <= j[i].bound
      <3>1. f < h
        BY <1>1, <1>11, <2>3
      <3>2. n[f].bound <= n[h].bound
        BY <3>1 DEF Message
      <3> QED
        BY <1>4, <2>3, <3>2
    <2>4. i \in 1 .. k => g \in 1 .. k
      BY <1>1, <1>2, <1>11
    <2> QED
      BY <1>9, <2>1, <2>2, <2>3, <2>4
  <1> QED
    BY <1>2, <1>10, <1>11 DEF Message, j

-----------------------------------------------------------------------------
\* The buckets begin with the first item, end with the last, and none is empty.
LEMMA Cuts ==
    ASSUME R!ReconcileAssumption, NEW n \in Nat, n >= 2 * Buckets
    PROVE  /\ R!Cut(n, 0) = 0 /\ R!Cut(n, Buckets) = n
           /\ \A i \in 0 .. Buckets : R!Cut(n, i) \in Nat
           /\ \A i, j \in 0 .. Buckets : i < j => R!Cut(n, i) < R!Cut(n, j)
  <1> DEFINE q == n \div Buckets
             e == n % Buckets
  <1>1. Buckets \in Nat /\ Buckets > 0
    BY DEF R!ReconcileAssumption
  <1>2. q \in Nat /\ e \in 0 .. Buckets - 1 /\ n = Buckets * q + e
    BY <1>1
  <1>3. q >= 1
    BY <1>1, <1>2
  <1>4. \A i : R!Cut(n, i) = i * q + (IF i < e THEN i ELSE e)
    BY DEF R!Cut
  <1> HIDE DEF q, e
  <1>5. R!Cut(n, 0) = 0
    BY <1>2, <1>4
  <1>6. R!Cut(n, Buckets) = n
    BY <1>1, <1>2, <1>4
  <1>7. \A i \in 0 .. Buckets : i * q \in Nat
    BY <1>1, <1>2
  <1>8. \A i \in 0 .. Buckets : R!Cut(n, i) \in Nat
    BY <1>1, <1>2, <1>4, <1>7
  <1>9. ASSUME NEW i \in 0 .. Buckets, NEW j \in 0 .. Buckets, i < j
        PROVE  R!Cut(n, i) < R!Cut(n, j)
    <2>1. j * q = i * q + (j - i) * q
      BY <1>1, <1>2
    <2>2. (j - i) * q = ((j - i) - 1) * q + q
      BY <1>1, <1>2
    <2>3. (j - i) - 1 \in Nat
      BY <1>1, <1>9
    <2>4. ((j - i) - 1) * q \in Nat
      BY <1>2, <2>3
    <2>5. i * q \in Nat /\ j * q \in Nat /\ (j - i) * q \in Nat
      BY <1>1, <1>2, <1>7, <1>9
    <2> QED
      BY <1>1, <1>2, <1>3, <1>4, <1>9, <2>1, <2>2, <2>4, <2>5
  <1> QED
    BY <1>5, <1>6, <1>8, <1>9

\* An item is below a bound when its index is.
LEMMA IndexOrders ==
    ASSUME NEW s \in SUBSET Numbers, IsFiniteSet(s), NEW x \in s, NEW b \in 0 .. R!Infinite,
           R!ReconcileAssumption
    PROVE  /\ R!Index(s, b) \in Nat /\ R!Index(s, x) \in Nat
           /\ R!Index(s, x) < Cardinality(s)
           /\ x < b <=> R!Index(s, x) < R!Index(s, b)
  <1> DEFINE X == {y \in s : y < x}
             B == {y \in s : y < b}
  <1>1. R!Index(s, x) = Cardinality(X) /\ R!Index(s, b) = Cardinality(B)
    BY DEF R!Index, R!Cardinality, Cardinality
  <1>2. \A y \in s : y \in Int
    BY DEF Numbers, R!ReconcileAssumption
  <1>3. x \in Int /\ b \in Int
    BY <1>2 DEF R!ReconcileAssumption, R!Infinite
  <1>4. X \in SUBSET s /\ B \in SUBSET s /\ x \notin X /\ X \cup {x} \in SUBSET s
    BY <1>3
  <1>5. x < b => X \cup {x} \in SUBSET B
    <2>1. ASSUME x < b, NEW y \in s, y < x PROVE y < b
      BY <1>2, <1>3, <2>1
    <2> QED
      BY <2>1
  <1>6. ~(x < b) => B \in SUBSET X
    <2>1. ASSUME ~(x < b), NEW y \in s, y < b PROVE y < x
      BY <1>2, <1>3, <2>1
    <2> QED
      BY <2>1
  <1> HIDE DEF X, B
  <1>7. IsFiniteSet(X) /\ IsFiniteSet(B)
    BY <1>4, FS_Subset
  <1>8. Cardinality(X) \in Nat /\ Cardinality(B) \in Nat /\ Cardinality(s) \in Nat
    BY <1>7, FS_CardinalityType
  <1>9. Cardinality(X \cup {x}) = Cardinality(X) + 1
    BY <1>4, <1>7, FS_AddElement
  <1>10. Cardinality(X \cup {x}) <= Cardinality(s)
    BY <1>4, FS_Subset
  <1>11. x < b => Cardinality(X \cup {x}) <= Cardinality(B)
    BY <1>5, <1>7, FS_Subset
  <1>12. ~(x < b) => Cardinality(B) <= Cardinality(X)
    BY <1>6, <1>7, FS_Subset
  <1> QED
    BY <1>1, <1>8, <1>9, <1>10, <1>11, <1>12

LEMMA IndexGrows ==
    ASSUME R!ReconcileAssumption, NEW s \in SUBSET Numbers, IsFiniteSet(s),
           NEW a \in 0 .. R!Infinite, NEW b \in 0 .. R!Infinite, R!Index(s, a) < R!Index(s, b)
    PROVE  a < b
  <1> DEFINE A == {y \in s : y < a}
             B == {y \in s : y < b}
  <1>1. R!Index(s, a) = Cardinality(A) /\ R!Index(s, b) = Cardinality(B)
    BY DEF R!Index, R!Cardinality, Cardinality
  <1>2. \A y \in s : y \in Int
    BY DEF Numbers, R!ReconcileAssumption
  <1>3. a \in Int /\ b \in Int
    BY DEF R!ReconcileAssumption, R!Infinite
  <1>4. B \in SUBSET s /\ A \in SUBSET s
    OBVIOUS
  <1>5. ~(a < b) => B \in SUBSET A
    <2>1. ASSUME ~(a < b), NEW y \in s, y < b PROVE y < a
      BY <1>2, <1>3, <2>1
    <2> QED
      BY <2>1
  <1> HIDE DEF A, B
  <1>6. IsFiniteSet(A) /\ IsFiniteSet(B)
    BY <1>4, FS_Subset
  <1>7. Cardinality(A) \in Nat /\ Cardinality(B) \in Nat
    BY <1>6, FS_CardinalityType
  <1>8. ~(a < b) => Cardinality(B) <= Cardinality(A)
    BY <1>5, <1>6, FS_Subset
  <1> QED
    BY <1>1, <1>7, <1>8

\* The buckets of a range are ranges of a message, from bound to bound, with no gap between.
LEMMA SplitSays ==
    ASSUME R!ReconcileAssumption, NEW own \in SUBSET Numbers, NEW others, NEW free \in BOOLEAN,
           NEW l \in 0 .. R!Infinite, NEW b \in 0 .. R!Infinite, l <= b,
           Cardinality(Has(own, l, b)) >= 2 * Buckets,
           NEW m \in R!Split(Has(own, l, b), b)
    PROVE  /\ Message(m, l, own, others, free)
           /\ m # <<>> /\ LastBound(m) = b
           /\ \A x \in Numbers : l <= x /\ x < b => Covers(m, l, x)
  <1> DEFINE s == Has(own, l, b)
             n == Cardinality(s)
             Bucket(i) == {x \in s : R!Cut(n, i - 1) <= R!Index(s, x) /\ R!Index(s, x) < R!Cut(n, i)}
             f(c, i) == IF i = 1 THEN l ELSE c[i - 1]
  <1>1. s \in SUBSET Numbers /\ IsFiniteSet(s) /\ n \in Nat
    BY FiniteItems
  <1>2. Buckets \in Nat \ {0} /\ R!Infinite \in Nat /\ l \in Nat /\ b \in Nat
    BY DEF R!ReconcileAssumption, R!Infinite
  <1>3. PICK c \in [1 .. Buckets -> 1 .. R!Infinite] :
           /\ c[Buckets] = b
           /\ \A i \in 1 .. Buckets - 1 : R!Index(s, c[i]) = R!Cut(n, i)
           /\ m = [i \in 1 .. Buckets |-> R!Fingerprint(c[i], Bucket(i))]
    BY DEF R!Split, R!Cardinality, Cardinality
  <1>4. /\ R!Cut(n, 0) = 0 /\ R!Cut(n, Buckets) = n
        /\ \A i \in 0 .. Buckets : R!Cut(n, i) \in Nat
        /\ \A i, j \in 0 .. Buckets : i < j => R!Cut(n, i) < R!Cut(n, j)
    BY <1>1, Cuts
  <1>5. \A x : x \in s <=> x \in own /\ l <= x /\ x < b
    BY DEF Has
  <1>6. \A i, x : x \in Bucket(i) <=>
                     x \in s /\ R!Cut(n, i - 1) <= R!Index(s, x) /\ R!Index(s, x) < R!Cut(n, i)
    OBVIOUS
  <1>7. \A x \in s : x \in Nat
    BY <1>1 DEF Numbers, R!ReconcileAssumption
  <1>8. R!Index(s, b) = n /\ R!Index(s, l) = 0
    <2>1. {x \in s : x < b} = s
      BY <1>5
    <2>2. {x \in s : x < l} = {}
      BY <1>2, <1>5, <1>7
    <2>3. Cardinality({}) = 0
      BY FS_EmptySet
    <2> HIDE DEF s
    <2> QED
      BY <2>1, <2>2, <2>3 DEF R!Index, R!Cardinality, Cardinality
  <1> HIDE DEF s, n, Bucket
  <1>9. \A i \in 1 .. Buckets :
           /\ c[i] \in 0 .. R!Infinite /\ c[i] \in Nat
           /\ R!Index(s, c[i]) = R!Cut(n, i)
    <2> TAKE i \in 1 .. Buckets
    <2>1. CASE i = Buckets
      BY <1>2, <1>3, <1>4, <1>8, <2>1
    <2>2. CASE i # Buckets
      BY <1>2, <1>3, <2>2
    <2> QED
      BY <2>1, <2>2
  <1>10. \A i \in 1 .. Buckets :
            /\ f(c, i) \in 0 .. R!Infinite /\ f(c, i) \in Nat
            /\ R!Index(s, f(c, i)) = R!Cut(n, i - 1)
    <2> TAKE i \in 1 .. Buckets
    <2>1. CASE i = 1
      BY <1>2, <1>4, <1>8, <2>1
    <2>2. CASE i # 1
      <3>1. i - 1 \in 1 .. Buckets
        BY <1>2, <2>2
      <3> QED
        BY <1>9, <2>2, <3>1
    <2> QED
      BY <2>1, <2>2
  <1>11. \A i, j \in 1 .. Buckets : i < j => c[i] < c[j]
    <2> TAKE i, j \in 1 .. Buckets
    <2>1. i < j => R!Cut(n, i) < R!Cut(n, j)
      BY <1>2, <1>4
    <2> QED
      BY <1>1, <1>9, <2>1, IndexGrows
  <1>12. \A i \in 1 .. Buckets : f(c, i) < c[i]
    <2> TAKE i \in 1 .. Buckets
    <2>1. i - 1 \in 0 .. Buckets /\ i \in 0 .. Buckets /\ i - 1 < i
      BY <1>2
    <2>2. R!Cut(n, i - 1) < R!Cut(n, i)
      BY <1>4, <2>1
    <2>3. R!Index(s, f(c, i)) < R!Index(s, c[i])
      BY <1>9, <1>10, <2>2
    <2> HIDE DEF f
    <2> QED
      BY <1>1, <1>9, <1>10, <2>3, IndexGrows
  <1>13. \A i \in 1 .. Buckets : l <= f(c, i) /\ l <= c[i] /\ c[i] <= b
    <2> TAKE i \in 1 .. Buckets
    <2>1. 1 \in 1 .. Buckets /\ Buckets \in 1 .. Buckets /\ l < c[1]
      <3>1. 1 \in 1 .. Buckets /\ Buckets \in 1 .. Buckets
        BY <1>2
      <3>2. f(c, 1) < c[1]
        BY <1>12, <3>1
      <3> QED
        BY <3>1, <3>2
    <2>2. \A j \in 1 .. Buckets : c[1] <= c[j] /\ c[j] <= b
      <3> TAKE j \in 1 .. Buckets
      <3>1. (j = 1 \/ 1 < j) /\ (j = Buckets \/ j < Buckets)
        BY <1>2
      <3> QED
        BY <1>3, <1>9, <1>11, <2>1, <3>1
    <2>3. i # 1 => i - 1 \in 1 .. Buckets
      BY <1>2
    <2> QED
      BY <1>2, <1>9, <2>1, <2>2, <2>3
  <1>14. \A i \in 1 .. Buckets : Bucket(i) = Has(own, f(c, i), c[i])
    <2> TAKE i \in 1 .. Buckets
    <2>1. ASSUME NEW x \in s
          PROVE  x \in Bucket(i) <=> f(c, i) <= x /\ x < c[i]
      <3>1. R!Index(s, x) \in Nat
        BY <1>1, <1>2, IndexOrders
      <3>2. x < c[i] <=> R!Index(s, x) < R!Cut(n, i)
        BY <1>1, <1>9, IndexOrders
      <3>3. x < f(c, i) <=> R!Index(s, x) < R!Cut(n, i - 1)
        <4> HIDE DEF f
        <4> QED
          BY <1>1, <1>10, IndexOrders
      <3>4. R!Cut(n, i - 1) \in Nat /\ f(c, i) \in Nat /\ x \in Nat
        <4>1. i - 1 \in 0 .. Buckets
          BY <1>2
        <4> QED
          BY <1>4, <1>7, <1>10, <4>1
      <3> HIDE DEF f
      <3> QED
        BY <1>6, <3>1, <3>2, <3>3, <3>4
    <2>2. ASSUME NEW x \in own, f(c, i) <= x, x < c[i]
          PROVE  x \in s
      <3>1. x \in Nat
        BY DEF Numbers, R!ReconcileAssumption
      <3>2. l <= f(c, i) /\ c[i] <= b /\ f(c, i) \in Nat /\ c[i] \in Nat
        BY <1>9, <1>10, <1>13
      <3> HIDE DEF f
      <3> QED
        BY <1>2, <1>5, <2>2, <3>1, <3>2
    <2>3. \A x \in s : x \in own
      BY <1>5
    <2>4. \A x \in Bucket(i) : x \in s
      BY <1>6
    <2>5. \A x : x \in Has(own, f(c, i), c[i]) <=> x \in own /\ f(c, i) <= x /\ x < c[i]
      BY DEF Has
    <2> HIDE DEF f
    <2> QED
      BY <2>1, <2>2, <2>3, <2>4, <2>5
  <1>15. m \in Seq(RangeTypes) /\ Len(m) = Buckets /\ m # <<>>
    <2>1. \A i \in 1 .. Buckets : R!Fingerprint(c[i], Bucket(i)) \in RangeTypes
      <3> TAKE i \in 1 .. Buckets
      <3>1. Bucket(i) \in SUBSET Numbers
        BY <1>1, <1>6
      <3> QED
        BY <1>9, <3>1 DEF R!Fingerprint, RangeTypes
    <2>2. m \in [1 .. Buckets -> RangeTypes]
      BY <1>3, <2>1
    <2>3. m \in Seq(RangeTypes) /\ Len(m) = Buckets
      BY <1>2, <2>2
    <2> QED
      BY <1>2, <2>3
  <1>16. \A i \in 1 .. Buckets :
            m[i].mode = "fingerprint" /\ m[i].bound = c[i] /\ m[i].content = Bucket(i)
    BY <1>3 DEF R!Fingerprint
  <1>17. \A i \in 1 .. Buckets : From(m, l, i) = f(c, i)
    <2> TAKE i \in 1 .. Buckets
    <2>1. i # 1 => i - 1 \in 1 .. Buckets
      BY <1>2
    <2> QED
      BY <1>16, <2>1 DEF From
  <1> HIDE DEF f
  <1>18. \A i \in 1 .. Buckets : Says(m[i], From(m, l, i), own, others, free) /\ l <= m[i].bound
    <2> TAKE i \in 1 .. Buckets
    <2>1. f(c, i) <= c[i] /\ l <= c[i]
      BY <1>9, <1>10, <1>12, <1>13
    <2> QED
      BY <1>14, <1>16, <1>17, <2>1 DEF Says
  <1>19. \A i, j \in 1 .. Buckets : i < j => m[i].bound <= m[j].bound
    BY <1>9, <1>11, <1>16
  <1>20. LastBound(m) = b
    <2>1. Buckets \in 1 .. Buckets
      BY <1>2
    <2> QED
      BY <1>3, <1>15, <1>16, <2>1 DEF LastBound
  <1>21. ASSUME NEW x \in Numbers, l <= x, x < b
         PROVE  Covers(m, l, x)
    <2> DEFINE D == {i \in 1 .. Buckets : c[i] <= x}
               k == Cardinality(D)
    <2>1. x \in Nat
      BY DEF Numbers, R!ReconcileAssumption
    <2>2. \A j \in D : 1 .. j \subseteq D
      <3> SUFFICES ASSUME NEW j \in D, NEW i \in 1 .. j
                   PROVE  i \in D
        OBVIOUS
      <3>1. i \in 1 .. Buckets /\ j \in 1 .. Buckets /\ c[j] <= x /\ (i = j \/ i < j)
        BY <1>2
      <3>2. c[i] <= c[j]
        BY <1>9, <1>11, <3>1
      <3> QED
        BY <1>9, <2>1, <3>1, <3>2
    <2>3. k \in 0 .. Buckets /\ D = 1 .. k
      <3>1. D \in SUBSET (1 .. Buckets) /\ Buckets \in Nat
        BY <1>2
      <3> HIDE DEF D
      <3> QED
        BY <2>2, <3>1, NoGaps
    <2>4. Buckets \notin D
      BY <1>2, <1>3, <1>21, <2>1
    <2>5. \A i \in 1 .. Buckets : i \in D <=> c[i] <= x
      OBVIOUS
    <2> HIDE DEF D, k
    <2>6. k + 1 \in 1 .. Buckets /\ k + 1 \notin D
      BY <1>2, <2>3, <2>4
    <2>7. x < c[k + 1]
      BY <1>9, <2>1, <2>5, <2>6
    <2>8. f(c, k + 1) <= x
      <3>1. CASE k = 0
        BY <1>21, <3>1 DEF f
      <3>2. CASE k # 0
        <4>1. k \in D /\ k \in 1 .. Buckets /\ (k + 1) - 1 = k /\ k + 1 # 1
          BY <1>2, <2>3, <3>2
        <4> QED
          BY <2>5, <4>1 DEF f
      <3> QED
        BY <3>1, <3>2
    <2> QED
      BY <1>15, <1>16, <1>17, <2>6, <2>7, <2>8 DEF Covers
  <1> QED
    BY <1>15, <1>18, <1>19, <1>20, <1>21 DEF Message

\* Whether it is split or not, a range is what the party has in it.
LEMMA SplitRangeSays ==
    ASSUME R!ReconcileAssumption, NEW own \in SUBSET Numbers, NEW others, NEW free \in BOOLEAN,
           NEW l \in 0 .. R!Infinite, NEW b \in 0 .. R!Infinite, l <= b,
           NEW m \in R!SplitRange(Has(own, l, b), b)
    PROVE  Tells(m, l, b, own, others, free)
  <1> DEFINE s == Has(own, l, b)
             r == R!IdList(b, s)
  <1>1. CASE Cardinality(s) < 2 * Buckets
    <2>1. m = <<r>>
      BY <1>1 DEF R!SplitRange, R!Cardinality, Cardinality
    <2>2. r \in RangeTypes /\ r.bound = b /\ r.mode = "ids" /\ r.content = s
      BY FiniteItems DEF R!IdList, RangeTypes
    <2>3. Says(r, l, own, others, free)
      BY <2>2 DEF Says
    <2> HIDE DEF r
    <2> QED
      BY <2>1, <2>2, <2>3, OneRange DEF Tells
  <1>2. CASE ~(Cardinality(s) < 2 * Buckets)
    <2>1. Cardinality(s) \in Nat
      BY FiniteItems
    <2>2. 2 * Buckets \in Nat
      BY DEF R!ReconcileAssumption
    <2>3. Cardinality(s) >= 2 * Buckets /\ m \in R!Split(s, b)
      BY <1>2, <2>1, <2>2 DEF R!SplitRange, R!Cardinality, Cardinality
    <2> QED
      BY <2>3, SplitSays DEF Tells
  <1> QED
    BY <1>1, <1>2

-----------------------------------------------------------------------------
\* A message that is free of a promise says less.
LEMMA SaysLess ==
    ASSUME NEW m, NEW l, NEW own, NEW others, NEW free \in BOOLEAN, NEW free2 \in BOOLEAN,
           free => free2, Message(m, l, own, others, free)
    PROVE  Message(m, l, own, others, free2)
  BY DEF Message, Says

\* What the round of a range begins with.
LEMMA Begin ==
    ASSUME R!ReconcileAssumption, SyncInv, turn # "done", reader # <<>>
    PROVE  /\ turn \in Party /\ Other(turn) \in Party /\ Other(Other(turn)) = turn
           /\ items[turn] \in SUBSET Numbers /\ items[Other(turn)] \in SUBSET Numbers
           /\ Head(reader) \in RangeTypes
           /\ prev \in 0 .. R!Infinite /\ R!Bound \in 0 .. R!Infinite /\ prev <= R!Bound
           /\ Says(Head(reader), prev, items[Other(turn)], items[turn], hidden)
           /\ Message(Tail(reader), R!Bound, items[Other(turn)], items[turn], hidden)
           /\ Message(output, 0, items[turn], items[Other(turn)], hidden)
           /\ R!Ours = Has(items[turn], prev, R!Bound)
           /\ \A x \in Numbers : Covers(reader, prev, x) =>
                 \/ Head(reader).mode # "skip" /\ prev <= x /\ x < R!Bound
                 \/ Covers(Tail(reader), R!Bound, x)
  <1>1. /\ turn \in Party /\ prev \in 0 .. R!Infinite /\ hidden \in BOOLEAN
        /\ items \in [Party -> SUBSET Numbers]
        /\ Message(reader, prev, items[Other(turn)], items[turn], hidden)
        /\ Message(output, 0, items[turn], items[Other(turn)], hidden)
    BY DEF SyncInv, SyncTypes, Messages
  <1>2. Other(turn) \in Party /\ Other(Other(turn)) = turn
    BY <1>1 DEF Party, Other
  <1>3. R!Ours = Has(items[turn], prev, R!Bound)
    BY DEF R!Ours, R!Between, Has
  <1>4. items[turn] \in SUBSET Numbers /\ items[Other(turn)] \in SUBSET Numbers
    BY <1>1, <1>2
  <1>5. /\ Head(reader) \in RangeTypes
        /\ Says(Head(reader), prev, items[Other(turn)], items[turn], hidden)
        /\ R!Bound \in 0 .. R!Infinite
        /\ Message(Tail(reader), R!Bound, items[Other(turn)], items[turn], hidden)
        /\ \A x \in Numbers : Covers(reader, prev, x) =>
              \/ Head(reader).mode # "skip" /\ prev <= x /\ x < R!Bound
              \/ Covers(Tail(reader), R!Bound, x)
    BY <1>1, <1>4, RestOfMessage DEF R!Bound
  <1>6. prev <= R!Bound
    BY <1>5 DEF Says, R!Bound
  <1> QED
    BY <1>1, <1>2, <1>3, <1>4, <1>5, <1>6

\* A range that asks for no answer: what was in it is known.
LEMMA NoAnswer ==
    ASSUME R!ReconcileAssumption, SyncInv, turn # "done", reader # <<>>,
           skipping' = TRUE, reader' = Tail(reader), R!Advance,
           UNCHANGED <<items, turn, output, hidden>>,
           Sound', haves \subseteq haves', haveNots \subseteq haveNots',
           ~hidden => \A x \in Numbers : prev <= x /\ x < R!Bound /\ Head(reader).mode # "skip"
                                            => Settled(x)'
    PROVE  SyncInv'
  <1>1. SyncTypes /\ Messages /\ NothingLost
    BY DEF SyncInv
  <1>2. /\ turn \in Party /\ Other(turn) \in Party
        /\ prev \in 0 .. R!Infinite /\ R!Bound \in 0 .. R!Infinite /\ prev <= R!Bound
        /\ Message(Tail(reader), R!Bound, items[Other(turn)], items[turn], hidden)
        /\ Message(output, 0, items[turn], items[Other(turn)], hidden)
        /\ \A x \in Numbers : Covers(reader, prev, x) =>
              \/ Head(reader).mode # "skip" /\ prev <= x /\ x < R!Bound
              \/ Covers(Tail(reader), R!Bound, x)
    BY Begin
  <1>3. prev' = R!Bound
    BY DEF R!Advance
  <1>4. SyncTypes'
    BY <1>1, <1>2, <1>3 DEF SyncTypes
  <1>5. Messages'
    <2>1. Message(reader', prev', items[Other(turn)], items[turn], hidden)
      BY <1>2, <1>3
    <2>2. LastBound(output) <= prev
      BY <1>1 DEF Messages
    <2>3. LastBound(output) <= prev'
      <3>1. R!Infinite \in Nat
        BY DEF R!ReconcileAssumption, R!Infinite
      <3>2. LastBound(output) \in Int
        <4>1. output \in Seq(RangeTypes)
          BY <1>2 DEF Message
        <4>2. output # <<>> => output[Len(output)] \in RangeTypes
          BY <4>1
        <4> QED
          BY <3>1, <4>2 DEF LastBound, RangeTypes
      <3> QED
        BY <1>2, <1>3, <2>2, <3>1, <3>2
    <2>4. Other(turn)' = Other(turn) /\ turn # "done"
      BY <1>2 DEF Party, Other
    <2> QED
      BY <1>2, <2>1, <2>3, <2>4 DEF Messages
  <1>6. NothingLost'
    <2> SUFFICES ASSUME ~hidden, NEW x \in Numbers
                 PROVE  Settled(x)' \/ Covers(reader', prev', x) \/ Covers(output, 0, x)
      BY DEF NothingLost
    <2>1. Settled(x) => Settled(x)'
      BY DEF Settled
    <2>2. Settled(x) \/ Covers(reader, prev, x) \/ Covers(output, 0, x)
      BY <1>1 DEF NothingLost
    <2> QED
      BY <1>2, <1>3, <2>1, <2>2
  <1> QED
    BY <1>4, <1>5, <1>6 DEF SyncInv

\* The output, with the skipped ranges before the one that is read.
LEMMA AfterSkip ==
    ASSUME R!ReconcileAssumption, SyncInv, turn # "done", reader # <<>>
    PROVE  /\ Message(Then(output, R!FinishSkip), 0, items[turn], items[Other(turn)], hidden)
           /\ LastBound(Then(output, R!FinishSkip)) = prev
           /\ \A x \in Numbers : Covers(output, 0, x) => Covers(Then(output, R!FinishSkip), 0, x)
  <1> DEFINE own == items[turn]
             others == items[Other(turn)]
             r == R!Skip(prev)
             l == LastBound(output)
  <1>1. /\ turn \in Party /\ own \in SUBSET Numbers /\ prev \in 0 .. R!Infinite
        /\ Message(output, 0, own, others, hidden)
    BY Begin
  <1>2. hidden \in BOOLEAN /\ l <= prev /\ (~skipping => l = prev)
    BY DEF SyncInv, SyncTypes, Messages
  <1>3. CASE ~skipping
    <2>1. R!FinishSkip = <<>> /\ output \in Seq(RangeTypes)
      BY <1>1, <1>3 DEF R!FinishSkip, Message
    <2>2. Then(output, R!FinishSkip) = output
      BY <2>1 DEF Then
    <2> QED
      BY <1>1, <1>2, <1>3, <2>2
  <1>4. CASE skipping
    <2>1. R!FinishSkip = <<r>>
      BY <1>4 DEF R!FinishSkip
    <2>2. r \in RangeTypes /\ r.bound = prev /\ Says(r, l, own, others, hidden)
      BY <1>1, <1>2 DEF R!Skip, RangeTypes, Says
    <2>3. l \in 0 .. R!Infinite
      <3>1. output \in Seq(RangeTypes)
        BY <1>1 DEF Message
      <3>2. output # <<>> => output[Len(output)] \in RangeTypes
        BY <3>1
      <3> QED
        BY <3>2 DEF LastBound, RangeTypes, R!ReconcileAssumption, R!Infinite
    <2> HIDE DEF r, own, others
    <2>4. Message(<<r>>, l, own, others, hidden) /\ <<r>> # <<>> /\ LastBound(<<r>>) = prev
      BY <1>1, <1>2, <2>2, <2>3, OneRange
    <2> DEFINE n == <<r>>
    <2> HIDE DEF n
    <2>5. Message(n, LastBound(output), own, others, hidden) /\ n # <<>> /\ LastBound(n) = prev
      BY <2>4 DEF n
    <2>6. Message(Then(output, n), 0, own, others, hidden)
      BY <1>1, <1>2, <2>5, Joined
    <2>7. output \in Seq(RangeTypes) /\ n \in Seq(RangeTypes)
      BY <1>1, <2>5 DEF Message
    <2>8. LastBound(Then(output, n)) = prev
      BY <2>5, <2>7, JoinedEnds
    <2>9. \A x \in Numbers : Covers(output, 0, x) => Covers(Then(output, n), 0, x)
      BY <2>7, JoinedCovers
    <2> QED
      BY <2>1, <2>6, <2>8, <2>9 DEF own, others, n
  <1> QED
    BY <1>3, <1>4

\* The output with the answer to a range.
LEMMA Answered ==
    ASSUME R!ReconcileAssumption, SyncInv, turn # "done", reader # <<>>,
           NEW n, n # <<>>, Message(n, prev, items[turn], items[Other(turn)], hidden)
    PROVE  /\ output \o (R!FinishSkip \o n) = Then(Then(output, R!FinishSkip), n)
           /\ Message(Then(Then(output, R!FinishSkip), n), 0, items[turn], items[Other(turn)], hidden)
           /\ LastBound(Then(Then(output, R!FinishSkip), n)) = LastBound(n)
           /\ \A x \in Numbers :
                 Covers(output, 0, x) \/ Covers(n, prev, x)
                     => Covers(Then(Then(output, R!FinishSkip), n), 0, x)
  <1> DEFINE k == Then(output, R!FinishSkip)
  <1>1. /\ Message(k, 0, items[turn], items[Other(turn)], hidden) /\ LastBound(k) = prev
        /\ \A x \in Numbers : Covers(output, 0, x) => Covers(k, 0, x)
    BY AfterSkip
  <1>2. items[turn] \in SUBSET Numbers /\ hidden \in BOOLEAN /\ output \in Seq(RangeTypes)
    BY Begin DEF SyncInv, SyncTypes, Message
  <1>3. R!FinishSkip \in Seq(RangeTypes) /\ n \in Seq(RangeTypes)
    <2>1. R!Skip(prev) \in RangeTypes
      BY DEF SyncInv, SyncTypes, R!Skip, RangeTypes
    <2> QED
      BY <2>1 DEF R!FinishSkip, Message
  <1>4. output \o (R!FinishSkip \o n) = Then(k, n)
    BY <1>2, <1>3, JoinedTwice
  <1>5. k \in Seq(RangeTypes) /\ n # <<>>
    BY <1>1 DEF Message
  <1> HIDE DEF k
  <1>6. Message(Then(k, n), 0, items[turn], items[Other(turn)], hidden)
    BY <1>1, <1>2, Joined
  <1>7. LastBound(Then(k, n)) = LastBound(n)
    BY <1>3, <1>5, JoinedEnds
  <1>8. \A x \in Numbers : Covers(k, 0, x) \/ Covers(n, prev, x) => Covers(Then(k, n), 0, x)
    BY <1>1, <1>3, <1>5, JoinedCovers
  <1> QED
    BY <1>1, <1>4, <1>6, <1>7, <1>8 DEF k

\* A range that is answered in full.
LEMMA GoesOn ==
    ASSUME R!ReconcileAssumption, SyncInv, turn # "done", reader # <<>>,
           NEW n, n # <<>>, Message(n, prev, items[turn], items[Other(turn)], hidden),
           LastBound(n) = R!Bound, \A x \in Numbers : prev <= x /\ x < R!Bound => Covers(n, prev, x),
           output' = Then(Then(output, R!FinishSkip), n), reader' = Tail(reader), R!Advance,
           skipping' = FALSE, UNCHANGED <<items, turn, haves, haveNots, hidden>>
    PROVE  SyncInv'
  <1>1. /\ turn \in Party /\ Other(turn) \in Party
        /\ R!Bound \in 0 .. R!Infinite
        /\ Message(Tail(reader), R!Bound, items[Other(turn)], items[turn], hidden)
        /\ \A x \in Numbers : Covers(reader, prev, x) =>
              (prev <= x /\ x < R!Bound) \/ Covers(Tail(reader), R!Bound, x)
    BY Begin
  <1>2. /\ Message(output', 0, items[turn], items[Other(turn)], hidden)
        /\ LastBound(output') = R!Bound
        /\ \A x \in Numbers : Covers(output, 0, x) \/ Covers(n, prev, x) => Covers(output', 0, x)
    <2> DEFINE k == Then(Then(output, R!FinishSkip), n)
    <2>1. /\ Message(k, 0, items[turn], items[Other(turn)], hidden)
          /\ LastBound(k) = LastBound(n)
          /\ \A x \in Numbers : Covers(output, 0, x) \/ Covers(n, prev, x) => Covers(k, 0, x)
      BY Answered
    <2>2. output' = k
      OBVIOUS
    <2> HIDE DEF k
    <2> QED
      BY <2>1, <2>2
  <1>3. prev' = R!Bound
    BY DEF R!Advance
  <1>4. SyncTypes' /\ Sound'
    BY <1>1, <1>3 DEF SyncInv, SyncTypes, Sound
  <1>5. Messages'
    <2>1. Other(turn)' = Other(turn) /\ turn # "done"
      BY <1>1 DEF Party, Other
    <2>2. LastBound(output)' = R!Bound /\ R!Bound <= R!Bound
      <3>1. LastBound(output)' = LastBound(output')
        BY DEF LastBound
      <3> QED
        BY <1>1, <1>2, <3>1 DEF R!ReconcileAssumption, R!Infinite
    <2> QED
      BY <1>1, <1>2, <1>3, <2>1, <2>2 DEF Messages
  <1>6. NothingLost'
    <2> SUFFICES ASSUME ~hidden, NEW x \in Numbers
                 PROVE  Settled(x)' \/ Covers(reader', prev', x) \/ Covers(output', 0, x)
      BY DEF NothingLost
    <2>1. Settled(x) => Settled(x)'
      BY DEF Settled
    <2>2. Settled(x) \/ Covers(reader, prev, x) \/ Covers(output, 0, x)
      BY DEF SyncInv, NothingLost
    <2> QED
      BY <1>1, <1>2, <1>3, <2>1, <2>2
  <1> QED
    BY <1>4, <1>5, <1>6 DEF SyncInv

\* A message that is full ends with a fingerprint of what comes after u.
LEMMA FullTail ==
    ASSUME R!ReconcileAssumption,
           NEW own \in SUBSET Numbers, NEW others, NEW free \in BOOLEAN, NEW m,
           Message(m, 0, own, others, free), NEW u \in 0 .. R!Infinite, LastBound(m) <= u,
           free \/ (Has(own, u, R!Infinite) = Has(others, LastBound(m), R!Infinite)
                      => Has(own, LastBound(m), R!Infinite) = Has(own, u, R!Infinite))
    PROVE  LET f == R!Fingerprint(R!Infinite, Has(own, u, R!Infinite))
           IN  /\ Message(Append(m, f), 0, own, others, free)
               /\ \A x \in Numbers :
                     Covers(m, 0, x) \/ LastBound(m) <= x => Covers(Append(m, f), 0, x)
  <1> DEFINE f == R!Fingerprint(R!Infinite, Has(own, u, R!Infinite))
             l == LastBound(m)
             n == <<f>>
  <1>1. m \in Seq(RangeTypes) /\ R!Infinite \in Nat
    BY DEF Message, R!ReconcileAssumption, R!Infinite
  <1>2. l \in 0 .. R!Infinite
    <2>1. m # <<>> => m[Len(m)] \in RangeTypes
      BY <1>1
    <2> QED
      BY <1>1, <2>1 DEF LastBound, RangeTypes
  <1>3. Has(own, u, R!Infinite) \in SUBSET Numbers
    BY DEF Has
  <1>4. f \in RangeTypes
    BY <1>1, <1>3 DEF R!Fingerprint, RangeTypes
  <1>5. Has(own, u, R!Infinite) \subseteq Has(own, l, R!Infinite)
    <2> SUFFICES ASSUME NEW x \in own, u <= x
                 PROVE  l <= x
      BY DEF Has
    <2>1. x \in Nat
      BY DEF Numbers, R!ReconcileAssumption
    <2> QED
      BY <1>1, <1>2, <2>1
  <1>6. Says(f, l, own, others, free)
    BY <1>2, <1>5 DEF R!Fingerprint, Says
  <1>7. f.bound = R!Infinite /\ f.mode # "skip"
    BY DEF R!Fingerprint
  <1> HIDE DEF f
  <1>8. /\ Message(n, l, own, others, free)
        /\ \A x \in Numbers : l <= x /\ x < R!Infinite => Covers(n, l, x)
    BY <1>2, <1>4, <1>6, <1>7, OneRange
  <1>9. Append(m, f) = Then(m, n) /\ n \in Seq(RangeTypes)
    BY <1>1, <1>4 DEF Then
  <1> HIDE DEF n
  <1>10. Message(Then(m, n), 0, own, others, free)
    BY <1>8, Joined
  <1>11. \A x \in Numbers : Covers(m, 0, x) \/ Covers(n, l, x) => Covers(Then(m, n), 0, x)
    BY <1>1, <1>9, JoinedCovers
  <1>12. \A x \in Numbers : x < R!Infinite
    BY <1>1 DEF Numbers, R!Infinite, R!ReconcileAssumption
  <1> QED
    BY <1>8, <1>9, <1>10, <1>11, <1>12 DEF f

LEMMA CoversAbove ==
    ASSUME R!ReconcileAssumption, NEW m, NEW l \in 0 .. R!Infinite,
           NEW own, NEW others, NEW free, Message(m, l, own, others, free),
           NEW x \in Numbers, Covers(m, l, x)
    PROVE  l <= x
  <1>1. m \in Seq(RangeTypes) /\ \A i \in 1 .. Len(m) : l <= m[i].bound
    BY DEF Message
  <1>2. PICK i \in 1 .. Len(m) : From(m, l, i) <= x
    BY DEF Covers
  <1>3. x \in Int /\ l \in Int
    BY DEF Numbers, R!ReconcileAssumption, R!Infinite
  <1>4. CASE i = 1
    BY <1>2, <1>4 DEF From
  <1>5. CASE i # 1
    <2>1. i - 1 \in 1 .. Len(m)
      BY <1>1, <1>5
    <2>2. m[i - 1].bound \in 0 .. R!Infinite
      <3>1. m[i - 1] \in RangeTypes
        BY <1>1, <2>1
      <3> QED
        BY <3>1 DEF RangeTypes
    <2>3. l <= m[i - 1].bound /\ m[i - 1].bound <= x
      BY <1>1, <1>2, <1>5, <2>1 DEF From
    <2> QED
      BY <1>3, <2>2, <2>3 DEF R!ReconcileAssumption, R!Infinite
  <1> QED
    BY <1>4, <1>5

\* A message that ends before all ranges are read covers what they did.
LEMMA BreaksOff ==
    ASSUME R!ReconcileAssumption, SyncInv, turn # "done", reader # <<>>,
           reader' = <<>>, R!Advance, skipping' = FALSE, hidden' \in BOOLEAN, hidden => hidden',
           UNCHANGED <<items, turn, haves, haveNots>>,
           Message(output', 0, items[turn], items[Other(turn)], hidden'),
           \A x \in Numbers : Covers(output, 0, x) \/ prev <= x => Covers(output', 0, x)
    PROVE  SyncInv'
  <1>1. /\ turn \in Party /\ Other(turn) \in Party
        /\ prev \in 0 .. R!Infinite /\ R!Bound \in 0 .. R!Infinite
    BY Begin
  <1>2. prev' = R!Bound
    BY DEF R!Advance
  <1>3. SyncTypes' /\ Sound'
    BY <1>1, <1>2 DEF SyncInv, SyncTypes, Sound
  <1>4. Messages'
    <2>1. Other(turn)' = Other(turn) /\ turn # "done"
      BY <1>1 DEF Party, Other
    <2>2. Message(<<>>, prev', items[Other(turn)], items[turn], hidden')
      BY DEF Message
    <2> QED
      BY <2>1, <2>2 DEF Messages
  <1>5. NothingLost'
    <2> SUFFICES ASSUME ~hidden', NEW x \in Numbers
                 PROVE  Settled(x)' \/ Covers(output', 0, x)
      BY DEF NothingLost
    <2>1. Settled(x) => Settled(x)'
      BY DEF Settled
    <2>2. Settled(x) \/ Covers(reader, prev, x) \/ Covers(output, 0, x)
      BY DEF SyncInv, NothingLost
    <2>3. Covers(reader, prev, x) => prev <= x
      BY <1>1, CoversAbove DEF SyncInv, Messages
    <2> QED
      BY <2>1, <2>2, <2>3
  <1> QED
    BY <1>3, <1>4, <1>5 DEF SyncInv

-----------------------------------------------------------------------------
\* The ids of a message are those in its lists.
LEMMA IdsTypes ==
    ASSUME NEW m \in Seq(RangeTypes)
    PROVE  /\ R!Ids(m) \in SUBSET Numbers
           /\ \A x : x \in R!Ids(m) <=>
                 \E i \in 1 .. Len(m) : m[i].mode = "ids" /\ x \in m[i].content
  <1>1. \A x : x \in R!Ids(m) <=>
           \E i \in 1 .. Len(m) : m[i].mode = "ids" /\ x \in m[i].content
    BY DEF R!Ids
  <1>2. \A i \in 1 .. Len(m) : m[i].content \in SUBSET Numbers
    <2> TAKE i \in 1 .. Len(m)
    <2>1. m[i] \in RangeTypes
      OBVIOUS
    <2> QED
      BY <2>1 DEF RangeTypes
  <1> QED
    BY <1>1, <1>2

\* A message takes the room of its ids besides that of its ranges.
LEMMA IdsJoined ==
    ASSUME NEW m \in Seq(RangeTypes), NEW n \in Seq(RangeTypes)
    PROVE  /\ R!Ids(m) \in SUBSET Numbers /\ R!Ids(Then(m, n)) \in SUBSET Numbers
           /\ R!Ids(m) \subseteq R!Ids(Then(m, n)) /\ R!Ids(n) \subseteq R!Ids(Then(m, n))
  <1> DEFINE j == Then(m, n)
  <1>2. /\ j \in Seq(RangeTypes) /\ Len(j) = Len(m) + Len(n) /\ Len(m) \in Nat /\ Len(n) \in Nat
        /\ \A i \in 1 .. Len(m) : j[i] = m[i]
        /\ \A i \in 1 .. Len(n) : j[Len(m) + i] = n[i]
    <2>1. Len(m) \in Nat /\ Len(n) \in Nat
      OBVIOUS
    <2> QED
      BY <2>1, JoinedRanges
  <1> HIDE DEF j
  <1>3. ASSUME NEW x \in R!Ids(m) PROVE x \in R!Ids(j)
    <2>1. PICK i \in 1 .. Len(m) : m[i].mode = "ids" /\ x \in m[i].content
      BY IdsTypes
    <2>2. i \in 1 .. Len(j) /\ j[i] = m[i]
      BY <1>2
    <2> QED
      BY <1>2, <2>1, <2>2, IdsTypes
  <1>4. ASSUME NEW x \in R!Ids(n) PROVE x \in R!Ids(j)
    <2>1. PICK i \in 1 .. Len(n) : n[i].mode = "ids" /\ x \in n[i].content
      BY IdsTypes
    <2>2. Len(m) + i \in 1 .. Len(j) /\ j[Len(m) + i] = n[i]
      BY <1>2
    <2> QED
      BY <1>2, <2>1, <2>2, IdsTypes
  <1> QED
    BY <1>2, <1>3, <1>4, IdsTypes DEF j

\* All ids of a message are below its last bound.
LEMMA IdsBelow ==
    ASSUME R!ReconcileAssumption, NEW own \in SUBSET Numbers, NEW others, NEW free, NEW m,
           Message(m, 0, own, others, free)
    PROVE  \A x \in R!Ids(m) : x \in Numbers /\ x < LastBound(m)
  <1> SUFFICES ASSUME NEW x \in R!Ids(m)
               PROVE  x \in Numbers /\ x < LastBound(m)
    OBVIOUS
  <1>1. m \in Seq(RangeTypes)
    BY DEF Message
  <1>2. PICK i \in 1 .. Len(m) : m[i].mode = "ids" /\ x \in m[i].content
    BY <1>1, IdsTypes
  <1>3. m[i].content = Has(own, From(m, 0, i), m[i].bound)
    BY <1>2 DEF Message, Says
  <1>4. x \in Numbers /\ x < m[i].bound
    BY <1>2, <1>3 DEF Has
  <1>5. Len(m) \in 1 .. Len(m) /\ (i < Len(m) \/ i = Len(m))
    BY <1>1
  <1>6. i < Len(m) => m[i].bound <= m[Len(m)].bound
    BY <1>5 DEF Message
  <1>7. m[i].bound \in 0 .. R!Infinite /\ m[Len(m)].bound \in 0 .. R!Infinite
    <2>1. m[i] \in RangeTypes /\ m[Len(m)] \in RangeTypes
      BY <1>1, <1>5
    <2> QED
      BY <2>1 DEF RangeTypes
  <1>8. LastBound(m) = m[Len(m)].bound
    BY <1>1, <1>5 DEF LastBound
  <1>9. x \in Int /\ R!Infinite \in Nat
    BY <1>4 DEF Numbers, R!ReconcileAssumption, R!Infinite
  <1> QED
    BY <1>4, <1>5, <1>6, <1>7, <1>8, <1>9

\* Ids that come after a message do not share their room with its own.
LEMMA SizeJoined ==
    ASSUME R!ReconcileAssumption,
           NEW own \in SUBSET Numbers, NEW others, NEW free \in BOOLEAN, NEW m,
           Message(m, 0, own, others, free), NEW n \in Seq(RangeTypes),
           \A x \in R!Ids(n) : LastBound(m) <= x
    PROVE  /\ R!Size(m) \in Nat /\ R!Size(Then(m, n)) \in Nat /\ Cardinality(R!Ids(n)) \in Nat
           /\ R!Size(Then(m, n)) >= R!Size(m) + Len(n) + Cardinality(R!Ids(n))
  <1> DEFINE j == Then(m, n)
             ofM == R!Ids(m)
             ofN == R!Ids(n)
             ofJ == R!Ids(j)
  <1>1. m \in Seq(RangeTypes) /\ Len(j) = Len(m) + Len(n) /\ Len(m) \in Nat /\ Len(n) \in Nat
    <2>1. m \in Seq(RangeTypes)
      BY DEF Message
    <2>2. Len(m) \in Nat /\ Len(n) \in Nat
      BY <2>1
    <2>3. Len(j) = Len(m) + Len(n)
      BY <2>1, JoinedRanges
    <2> QED
      BY <2>1, <2>2, <2>3
  <1>2. /\ ofM \in SUBSET Numbers /\ ofN \in SUBSET Numbers /\ ofJ \in SUBSET Numbers
        /\ ofM \cup ofN \in SUBSET ofJ
    <2>1. ofM \in SUBSET Numbers /\ ofJ \in SUBSET Numbers /\ ofM \subseteq ofJ /\ ofN \subseteq ofJ
      BY <1>1, IdsJoined
    <2> HIDE DEF ofM, ofN, ofJ
    <2> QED
      BY <2>1
  <1>3. ofM \cap ofN = {}
    <2> SUFFICES ASSUME NEW x \in ofM, x \in ofN
                 PROVE  FALSE
      OBVIOUS
    <2>1. x \in Numbers /\ x < LastBound(m) /\ LastBound(m) <= x
      BY IdsBelow
    <2>2. x \in Int
      BY <2>1 DEF Numbers, R!ReconcileAssumption
    <2>3. LastBound(m) \in Int
      <3>1. m # <<>> => m[Len(m)] \in RangeTypes
        BY <1>1
      <3> QED
        BY <1>1, <3>1 DEF LastBound, RangeTypes, R!ReconcileAssumption, R!Infinite
    <2> QED
      BY <2>1, <2>2, <2>3
  <1> HIDE DEF ofM, ofN, ofJ, j
  <1>4. IsFiniteSet(Numbers)
    BY FS_Interval DEF R!ReconcileAssumption, Numbers
  <1>5. IsFiniteSet(ofM) /\ IsFiniteSet(ofN) /\ IsFiniteSet(ofJ)
    BY <1>2, <1>4, FS_Subset
  <1>6. Cardinality(ofM) \in Nat /\ Cardinality(ofN) \in Nat /\ Cardinality(ofJ) \in Nat
    BY <1>5, FS_CardinalityType
  <1>7. Cardinality(ofM \cup ofN) = Cardinality(ofM) + Cardinality(ofN) - Cardinality(ofM \cap ofN)
    BY <1>5, FS_Union
  <1>8. Cardinality(ofM \cap ofN) = 0
    BY <1>3, FS_EmptySet
  <1>9. Cardinality(ofM \cup ofN) <= Cardinality(ofJ)
    BY <1>2, <1>5, FS_Subset
  <1>10. Cardinality(ofM) + Cardinality(ofN) <= Cardinality(ofJ)
    BY <1>6, <1>7, <1>8, <1>9
  <1>11. R!Size(m) = Len(m) + Cardinality(ofM) /\ R!Size(j) = Len(j) + Cardinality(ofJ)
    BY DEF R!Size, ofM, ofJ, R!Cardinality, Cardinality
  <1> QED
    BY <1>1, <1>6, <1>10, <1>11 DEF j, ofN

-----------------------------------------------------------------------------
(* The rounds. *)

LEMMA ReadSkipStep ==
    ASSUME R!ReconcileAssumption, SyncInv, R!ReadSkip
    PROVE  SyncInv'
  <1>1. /\ turn # "done" /\ reader # <<>> /\ Head(reader).mode = "skip"
        /\ skipping' = TRUE /\ reader' = Tail(reader) /\ R!Advance
        /\ UNCHANGED <<items, turn, output, haves, haveNots, hidden>>
    BY DEF R!ReadSkip, R!Reading
  <1>2. Sound'
    BY <1>1 DEF SyncInv, Sound
  <1> QED
    BY <1>1, <1>2, NoAnswer

\* Equal fingerprints: unless the message is free of its promise, nobody lacks an item there.
LEMMA EqualStep ==
    ASSUME R!ReconcileAssumption, SyncInv, R!ReadEqual
    PROVE  SyncInv'
  <1>1. /\ turn # "done" /\ reader # <<>> /\ Head(reader).mode = "fingerprint"
        /\ Head(reader).content = R!Ours
        /\ skipping' = TRUE /\ reader' = Tail(reader) /\ R!Advance
        /\ UNCHANGED <<items, turn, output, haves, haveNots, hidden>>
    BY DEF R!ReadEqual, R!Reading, R!Theirs
  <1>2. Sound'
    BY <1>1 DEF SyncInv, Sound
  <1>3. ASSUME ~hidden, NEW x \in Numbers, prev <= x, x < R!Bound
        PROVE  Settled(x)'
    <2>1. /\ turn \in Party
          /\ Says(Head(reader), prev, items[Other(turn)], items[turn], hidden)
          /\ R!Ours = Has(items[turn], prev, R!Bound)
      BY <1>1, Begin
    <2>2. Has(items[turn], prev, R!Bound) = Has(items[Other(turn)], prev, R!Bound)
      BY <1>1, <1>3, <2>1 DEF Says, R!Bound
    <2>3. x \in items[turn] <=> x \in items[Other(turn)]
      BY <1>3, <2>2 DEF Has
    <2>4. x \in items["client"] <=> x \in items["server"]
      BY <2>1, <2>3 DEF Other, Party
    <2> QED
      BY <1>1, <2>4 DEF Settled
  <1> QED
    BY <1>1, <1>2, <1>3, NoAnswer

LEMMA IdsAsClientStep ==
    ASSUME R!ReconcileAssumption, SyncInv, R!ReadIdsAsClient
    PROVE  SyncInv'
  <1> DEFINE mine == items["client"]
             yours == items["server"]
  <1>1. /\ turn = "client" /\ turn # "done" /\ reader # <<>> /\ Head(reader).mode = "ids"
        /\ haves' = haves \cup (R!Ours \ R!Theirs) /\ haveNots' = haveNots \cup (R!Theirs \ R!Ours)
        /\ skipping' = TRUE /\ reader' = Tail(reader) /\ R!Advance
        /\ UNCHANGED <<items, turn, output, hidden>>
    BY DEF R!ReadIdsAsClient, R!Reading
  <1>2. R!Ours = Has(mine, prev, R!Bound) /\ R!Theirs = Has(yours, prev, R!Bound)
    <2>1. /\ Says(Head(reader), prev, items[Other(turn)], items[turn], hidden)
          /\ R!Ours = Has(items[turn], prev, R!Bound)
      BY <1>1, Begin
    <2>2. Other(turn) = "server"
      BY <1>1 DEF Other
    <2> QED
      BY <1>1, <2>1, <2>2 DEF Says, R!Bound, R!Theirs
  <1>3. Sound'
    <2>1. R!Ours \ R!Theirs \subseteq mine \ yours /\ R!Theirs \ R!Ours \subseteq yours \ mine
      BY <1>2 DEF Has
    <2>2. haves \subseteq mine \ yours /\ haveNots \subseteq yours \ mine
      BY DEF SyncInv, Sound
    <2> QED
      BY <1>1, <2>1, <2>2 DEF Sound
  <1>4. ASSUME NEW x \in Numbers, prev <= x, x < R!Bound
        PROVE  Settled(x)'
    <2>1. x \in mine <=> x \in R!Ours
      BY <1>2, <1>4 DEF Has
    <2>2. x \in yours <=> x \in R!Theirs
      BY <1>2, <1>4 DEF Has
    <2> QED
      BY <1>1, <2>1, <2>2 DEF Settled
  <1>5. haves \subseteq haves' /\ haveNots \subseteq haveNots'
    BY <1>1
  <1> QED
    BY <1>1, <1>3, <1>4, <1>5, NoAnswer

LEMMA OutputEnds ==
    ASSUME R!ReconcileAssumption, SyncInv, turn # "done", reader # <<>>
    PROVE  /\ LastBound(output) \in 0 .. R!Infinite /\ R!Infinite \in Nat
           /\ LastBound(output) <= prev /\ LastBound(output) <= R!Bound
           /\ prev \in Int /\ R!Bound \in Int
  <1>1. /\ prev \in 0 .. R!Infinite /\ R!Bound \in 0 .. R!Infinite /\ prev <= R!Bound
        /\ output \in Seq(RangeTypes)
    BY Begin DEF Message
  <1>2. LastBound(output) <= prev
    BY DEF SyncInv, Messages
  <1>3. R!Infinite \in Nat
    BY DEF R!ReconcileAssumption, R!Infinite
  <1>4. LastBound(output) \in 0 .. R!Infinite
    <2>1. output # <<>> => output[Len(output)] \in RangeTypes
      BY <1>1
    <2> QED
      BY <1>3, <2>1 DEF LastBound, RangeTypes
  <1> QED
    BY <1>1, <1>2, <1>3, <1>4

\* Different fingerprints: the range is split, or it is left to the end of the message,
\* which tells of it because the other party has something there.
LEMMA DifferentStep ==
    ASSUME R!ReconcileAssumption, SyncInv, R!ReadDifferent
    PROVE  SyncInv'
  <1> DEFINE own == items[turn]
             others == items[Other(turn)]
  <1>1. turn # "done" /\ reader # <<>> /\ Head(reader).mode = "fingerprint"
    BY DEF R!ReadDifferent, R!Reading
  <1>2. PICK split \in R!SplitRange(R!Ours, R!Bound) :
           /\ R!Emit(output, R!FinishSkip \o split, R!Bound)
           /\ hidden' = (hidden \/ R!HidesTail(R!FinishSkip \o split))
    BY DEF R!ReadDifferent
  <1>3. skipping' = FALSE /\ R!Advance /\ UNCHANGED <<items, turn, haves, haveNots>>
    BY DEF R!ReadDifferent
  <1>4. /\ own \in SUBSET Numbers /\ others \in SUBSET Numbers
        /\ prev \in 0 .. R!Infinite /\ R!Bound \in 0 .. R!Infinite /\ prev <= R!Bound
        /\ Says(Head(reader), prev, others, own, hidden)
        /\ Message(output, 0, own, others, hidden)
        /\ R!Ours = Has(own, prev, R!Bound)
    BY <1>1, Begin
  <1>5. hidden \in BOOLEAN
    BY DEF SyncInv, SyncTypes
  <1>6. /\ Message(split, prev, own, others, hidden) /\ split # <<>> /\ LastBound(split) = R!Bound
        /\ \A x \in Numbers : prev <= x /\ x < R!Bound => Covers(split, prev, x)
    <2> DEFINE low == prev
               top == R!Bound
               free == hidden
    <2>1. /\ own \in SUBSET Numbers /\ free \in BOOLEAN
          /\ low \in 0 .. R!Infinite /\ top \in 0 .. R!Infinite /\ low <= top
          /\ split \in R!SplitRange(Has(own, low, top), top)
      BY <1>2, <1>4, <1>5
    <2> HIDE DEF own, others, low, top, free
    <2>2. Tells(split, low, top, own, others, free)
      BY <2>1, SplitRangeSays
    <2> QED
      BY <2>2 DEF Tells, low, top, free
  <1>7. CASE ~R!Full(output, R!FinishSkip \o split)
    <2>1. output' = output \o (R!FinishSkip \o split) /\ reader' = Tail(reader) /\ hidden' = hidden
      BY <1>2, <1>5, <1>7 DEF R!Emit, R!HidesTail
    <2>2. output' = Then(Then(output, R!FinishSkip), split)
      BY <1>1, <1>6, <2>1, Answered
    <2> QED
      BY <1>1, <1>3, <1>6, <2>1, <2>2, GoesOn
  <1>8. CASE R!Full(output, R!FinishSkip \o split)
    <2> DEFINE f == R!Fingerprint(R!Infinite, Has(own, R!Bound, R!Infinite))
    <2>1. output' = Append(output, f) /\ reader' = <<>>
      BY <1>2, <1>8 DEF R!Emit, R!Between, Has
    <2>2. hidden' = (hidden \/ R!Theirs = {})
      BY <1>2, <1>8 DEF R!HidesTail
    <2>3. hidden' \in BOOLEAN /\ (hidden => hidden')
      BY <1>5, <2>2
    <2>4. /\ LastBound(output) \in 0 .. R!Infinite /\ R!Infinite \in Nat
          /\ LastBound(output) <= prev /\ LastBound(output) <= R!Bound
          /\ prev \in Int /\ R!Bound \in Int
      BY <1>1, OutputEnds
    <2>5. hidden' \/ Has(own, R!Bound, R!Infinite) # Has(others, LastBound(output), R!Infinite)
      <3> SUFFICES ASSUME ~hidden'
                   PROVE  Has(own, R!Bound, R!Infinite) # Has(others, LastBound(output), R!Infinite)
        BY <2>3
      <3>1. R!Theirs \subseteq Has(others, prev, R!Bound) /\ R!Theirs # {}
        BY <1>1, <1>4, <2>2 DEF Says, R!Theirs, R!Bound
      <3>2. PICK y \in others : prev <= y /\ y < R!Bound
        BY <3>1 DEF Has
      <3>3. y \in Int /\ y < R!Infinite
        BY <1>4 DEF Numbers, R!ReconcileAssumption, R!Infinite
      <3>4. LastBound(output) <= y /\ ~(R!Bound <= y)
        BY <2>4, <3>2, <3>3
      <3> QED
        BY <3>3, <3>4 DEF Has
    <2>6. Message(output, 0, own, others, hidden')
      BY <1>4, <1>5, <2>3, SaysLess
    <2> DEFINE free == hidden'
    <2>7. free \in BOOLEAN /\ Message(output, 0, own, others, free)
          /\ (free \/ Has(own, R!Bound, R!Infinite) # Has(others, LastBound(output), R!Infinite))
      BY <2>3, <2>5, <2>6
    <2> HIDE DEF free, own, others
    <2>8. /\ Message(Append(output, f), 0, own, others, free)
          /\ \A x \in Numbers :
                Covers(output, 0, x) \/ LastBound(output) <= x => Covers(Append(output, f), 0, x)
      BY <1>4, <2>4, <2>7, FullTail
    <2>9. \A x \in Numbers : prev <= x => LastBound(output) <= x
      <3>1. \A x \in Numbers : x \in Int
        BY DEF Numbers, R!ReconcileAssumption
      <3> QED
        BY <2>4, <3>1
    <2>10. Message(output', 0, items[turn], items[Other(turn)], hidden')
      BY <2>1, <2>8 DEF free, own, others
    <2>11. \A x \in Numbers : Covers(output, 0, x) \/ prev <= x => Covers(output', 0, x)
      BY <2>1, <2>8, <2>9
    <2> QED
      BY <1>1, <1>3, <2>1, <2>3, <2>10, <2>11, BreaksOff
  <1> QED
    BY <1>7, <1>8

\* A list that was cut short leaves no room in the message.
LEMMA CutShortIsFull ==
    ASSUME R!ReconcileAssumption, SyncInv, turn # "done", reader # <<>>,
           NEW n, n \in Seq(RangeTypes), Len(n) = 1, NEW many \in Int,
           \A x \in R!Ids(n) : prev <= x, Cardinality(R!Ids(n)) = many,
           many = FrameLimit - R!Size(output) + 1
    PROVE  R!Size(Then(Then(output, R!FinishSkip), n)) > FrameLimit
  <1> DEFINE own == items[turn]
             others == items[Other(turn)]
             k == Then(output, R!FinishSkip)
  <1>1. own \in SUBSET Numbers /\ hidden \in BOOLEAN /\ Message(output, 0, own, others, hidden)
    BY Begin DEF SyncInv, SyncTypes
  <1>2. Message(k, 0, own, others, hidden) /\ LastBound(k) = prev
    BY AfterSkip
  <1>3. R!FinishSkip \in Seq(RangeTypes) /\ R!Ids(R!FinishSkip) = {} /\ Len(R!FinishSkip) \in Nat
    <2>1. R!Skip(prev) \in RangeTypes /\ R!Skip(prev).mode = "skip"
      BY DEF SyncInv, SyncTypes, R!Skip, RangeTypes
    <2>2. CASE skipping
      <3>1. R!FinishSkip = <<R!Skip(prev)>>
        BY <2>2 DEF R!FinishSkip
      <3>2. R!FinishSkip \in Seq(RangeTypes) /\ Len(R!FinishSkip) = 1 /\ R!FinishSkip[1] = R!Skip(prev)
        BY <2>1, <3>1
      <3>3. \A x : x \notin R!Ids(R!FinishSkip)
        BY <2>1, <3>2, IdsTypes
      <3> QED
        BY <3>2, <3>3
    <2>3. CASE ~skipping
      <3>1. R!FinishSkip = <<>>
        BY <2>3 DEF R!FinishSkip
      <3>2. R!FinishSkip \in Seq(RangeTypes)
        BY <3>1
      <3>3. Len(R!FinishSkip) = 0
        BY <3>1
      <3>4. \A i : i \notin 1 .. Len(R!FinishSkip)
        BY <3>3
      <3>5. \A x : x \notin R!Ids(R!FinishSkip)
        BY <3>2, <3>4, IdsTypes
      <3> QED
        BY <3>2, <3>3, <3>5
    <2> QED
      BY <2>2, <2>3
  <1> HIDE DEF own, others
  <1>4. /\ R!Size(output) \in Nat /\ R!Size(k) \in Nat
        /\ R!Size(k) >= R!Size(output) + Len(R!FinishSkip) + Cardinality(R!Ids(R!FinishSkip))
    <2>1. \A x \in R!Ids(R!FinishSkip) : LastBound(output) <= x
      BY <1>3
    <2> QED
      BY <1>1, <1>3, <2>1, SizeJoined
  <1>5. Cardinality(R!Ids(R!FinishSkip)) = 0
    BY <1>3, FS_EmptySet
  <1> HIDE DEF k
  <1>6. /\ R!Size(Then(k, n)) \in Nat
        /\ R!Size(Then(k, n)) >= R!Size(k) + Len(n) + Cardinality(R!Ids(n))
    BY <1>1, <1>2, SizeJoined
  <1>7. FrameLimit \in Nat
    BY DEF R!ReconcileAssumption
  <1>8. R!Size(Then(k, n)) > FrameLimit
    BY <1>3, <1>4, <1>5, <1>6, <1>7
  <1> QED
    BY <1>8 DEF k

\* The server answers with its ids: of the range, or of what it begins with, and then the
\* message is full and its last fingerprint begins where the ids end.
LEMMA IdsAsServerStep ==
    ASSUME R!ReconcileAssumption, SyncInv, R!ReadIdsAsServer
    PROVE  SyncInv'
  <1> DEFINE own == items[turn]
             others == items[Other(turn)]
             many == FrameLimit - R!Size(output) + 1
             r(e) == R!IdList(e, R!Between(prev, e))
             k == Then(output, R!FinishSkip)
  <1>1. turn # "done" /\ reader # <<>>
    BY DEF R!ReadIdsAsServer, R!Reading
  <1>2. PICK e \in IF Cardinality(R!Ours) > many
                  THEN {x \in R!Ours : R!Index(R!Ours, x) = many} ELSE {R!Bound} :
           R!Emit(output \o R!FinishSkip \o <<r(e)>>, <<>>, e)
    BY DEF R!ReadIdsAsServer, R!Cardinality, Cardinality
  <1>3. skipping' = FALSE /\ R!Advance /\ UNCHANGED <<items, turn, haves, haveNots, hidden>>
    BY DEF R!ReadIdsAsServer
  <1>4. /\ own \in SUBSET Numbers /\ others \in SUBSET Numbers
        /\ prev \in 0 .. R!Infinite /\ R!Bound \in 0 .. R!Infinite /\ prev <= R!Bound
        /\ Message(output, 0, own, others, hidden)
        /\ R!Ours = Has(own, prev, R!Bound)
    BY <1>1, Begin
  <1>5. hidden \in BOOLEAN /\ R!Infinite \in Nat
    BY DEF SyncInv, SyncTypes, R!ReconcileAssumption, R!Infinite
  <1>6. R!Between(prev, e) = Has(own, prev, e)
    BY DEF R!Between, Has
  <1>7. e \in 0 .. R!Infinite /\ prev <= e
    <2>1. CASE e = R!Bound
      BY <1>4, <2>1
    <2>2. CASE e \in R!Ours
      <3>1. e \in own /\ prev <= e
        BY <1>4, <2>2 DEF Has
      <3> QED
        BY <1>4, <3>1 DEF Numbers, R!ReconcileAssumption, R!Infinite
    <2> QED
      BY <1>2, <2>1, <2>2
  <1> DEFINE n == <<r(e)>>
             m == Then(k, n)
             f == R!Fingerprint(R!Infinite, Has(own, e, R!Infinite))
  <1>8. r(e) \in RangeTypes /\ r(e).bound = e /\ r(e).mode = "ids" /\ r(e).content = Has(own, prev, e)
    <2>1. Has(own, prev, e) \in SUBSET Numbers
      BY <1>4 DEF Has
    <2> QED
      BY <1>6, <1>7, <2>1 DEF R!IdList, RangeTypes
  <1>9. Says(r(e), prev, own, others, hidden)
    BY <1>7, <1>8 DEF Says
  <1> HIDE DEF r
  <1>10. /\ Message(n, prev, own, others, hidden) /\ n # <<>> /\ LastBound(n) = e
         /\ \A x \in Numbers : prev <= x /\ x < e => Covers(n, prev, x)
    <2> HIDE DEF own, others
    <2> QED
      BY <1>4, <1>5, <1>8, <1>9, OneRange
  <1>11. n \in Seq(RangeTypes) /\ Len(n) = 1 /\ n[1] = r(e)
    BY <1>8
  <1>12. output \o R!FinishSkip \o n = m
    BY DEF Then
  <1> HIDE DEF n
  <1>13. /\ Message(m, 0, own, others, hidden) /\ LastBound(m) = e
         /\ \A x \in Numbers : Covers(output, 0, x) \/ Covers(n, prev, x) => Covers(m, 0, x)
    BY <1>1, <1>10, Answered
  <1>14. m \in Seq(RangeTypes) /\ m \o <<>> = m
    <2>1. m \in Seq(RangeTypes)
      BY <1>13 DEF Message
    <2> HIDE DEF m
    <2> QED
      BY <2>1
  <1>15. R!Emit(m, <<>>, e)
    BY <1>2, <1>12 DEF n
  <1>16. \A x : x \in R!Ids(n) <=> x \in Has(own, prev, e)
    BY <1>8, <1>11, IdsTypes
  <1>17. Cardinality(R!Ours) > many => R!Size(m) > FrameLimit
    <2> SUFFICES ASSUME Cardinality(R!Ours) > many
                 PROVE  R!Size(m) > FrameLimit
      OBVIOUS
    <2>1. e \in R!Ours /\ R!Index(R!Ours, e) = many
      BY <1>2
    <2>2. R!Ids(n) = {x \in R!Ours : x < e}
      <3>1. e < R!Bound /\ e \in Int /\ R!Bound \in Int
        BY <1>4, <1>5, <1>7, <2>1 DEF Has
      <3>2. \A x \in Numbers : x \in Int
        BY DEF Numbers, R!ReconcileAssumption
      <3>3. \A x \in own : x < e => x < R!Bound
        BY <1>4, <3>1, <3>2
      <3>4. \A x : x \in R!Ids(n) <=> x \in own /\ prev <= x /\ x < e
        BY <1>16 DEF Has
      <3>5. \A x : x \in R!Ours <=> x \in own /\ prev <= x /\ x < R!Bound
        BY <1>4 DEF Has
      <3> QED
        BY <3>3, <3>4, <3>5
    <2>3. Cardinality(R!Ids(n)) = many
      BY <2>1, <2>2 DEF R!Index, R!Cardinality, Cardinality
    <2>4. \A x \in R!Ids(n) : prev <= x
      BY <1>16 DEF Has
    <2>5. many \in Int
      <3>1. R!Ids(n) \in SUBSET Numbers
        BY <1>11, IdsTypes
      <3>2. IsFiniteSet(Numbers)
        BY FS_Interval DEF R!ReconcileAssumption, Numbers
      <3>3. Cardinality(R!Ids(n)) \in Nat
        BY <3>1, <3>2, FS_Subset, FS_CardinalityType
      <3> QED
        BY <2>3, <3>3
    <2> QED
      BY <1>1, <1>11, <2>3, <2>4, <2>5, CutShortIsFull
  <1>18. R!Full(m, <<>>) <=> R!Size(m) > FrameLimit
    BY <1>14 DEF R!Full
  <1> HIDE DEF m
  <1>19. CASE R!Size(m) > FrameLimit
    <2>1. output' = Append(m, f) /\ reader' = <<>>
      BY <1>15, <1>18, <1>19 DEF R!Emit, R!Between, Has
    <2> HIDE DEF own, others
    <2>2. /\ Message(Append(m, f), 0, own, others, hidden)
          /\ \A x \in Numbers :
                Covers(m, 0, x) \/ LastBound(m) <= x => Covers(Append(m, f), 0, x)
      <3> DEFINE g == hidden
      <3>1. g \in BOOLEAN /\ Message(m, 0, own, others, g) /\ e <= e /\ LastBound(m) = e
        BY <1>5, <1>7, <1>13
      <3> HIDE DEF g
      <3>2. Has(own, LastBound(m), R!Infinite) = Has(own, e, R!Infinite)
        BY <3>1
      <3>3. /\ Message(Append(m, f), 0, own, others, g)
            /\ \A x \in Numbers :
                  Covers(m, 0, x) \/ LastBound(m) <= x => Covers(Append(m, f), 0, x)
        BY <1>4, <1>7, <3>1, <3>2, FullTail
      <3> QED
        BY <3>3 DEF g
    <2>3. \A x \in Numbers : Covers(output, 0, x) \/ prev <= x => Covers(Append(m, f), 0, x)
      <3> TAKE x \in Numbers
      <3>1. x \in Int /\ e \in Int
        BY <1>5, <1>7 DEF Numbers, R!ReconcileAssumption
      <3>2. x < e \/ e <= x
        BY <3>1
      <3> QED
        BY <1>10, <1>13, <2>2, <3>2
    <2>4. Message(output', 0, items[turn], items[Other(turn)], hidden')
      BY <1>3, <2>1, <2>2 DEF own, others
    <2>5. hidden' \in BOOLEAN /\ (hidden => hidden')
      BY <1>3, <1>5
    <2> QED
      BY <1>1, <1>3, <2>1, <2>3, <2>4, <2>5, BreaksOff
  <1>20. CASE ~(R!Size(m) > FrameLimit)
    <2>1. output' = m /\ reader' = Tail(reader)
      BY <1>14, <1>15, <1>18, <1>20 DEF R!Emit
    <2>2. e = R!Bound
      BY <1>2, <1>17, <1>20
    <2>3. output' = Then(Then(output, R!FinishSkip), n)
      BY <2>1 DEF m
    <2> QED
      BY <1>1, <1>3, <1>10, <2>1, <2>2, <2>3, GoesOn
  <1> QED
    BY <1>19, <1>20

\* The other party reads what was written.
LEMMA ReplyStep ==
    ASSUME R!ReconcileAssumption, SyncInv, R!Reply
    PROVE  SyncInv'
  <1>1. /\ turn \in Party /\ items \in [Party -> SUBSET Numbers] /\ hidden \in BOOLEAN
        /\ turn # "done" /\ reader = <<>>
        /\ turn' = IF turn = "server" THEN "client" ELSE IF output = <<>> THEN "done" ELSE "server"
        /\ reader' = output /\ output' = <<>> /\ prev' = 0 /\ skipping' = FALSE
        /\ UNCHANGED <<items, haves, haveNots, hidden>>
    BY DEF R!Reply, SyncInv, SyncTypes
  <1>2. SyncTypes' /\ Sound'
    <2>1. 0 \in 0 .. R!Infinite
      BY DEF R!ReconcileAssumption, R!Infinite
    <2> QED
      BY <1>1, <2>1 DEF SyncInv, SyncTypes, Sound, Party
  <1>3. Messages'
    <2>1. Message(output, 0, items[turn], items[Other(turn)], hidden)
      BY <1>1 DEF SyncInv, Messages
    <2>2. CASE turn' = "done"
      <3>1. output = <<>>
        BY <1>1, <2>2
      <3> QED
        BY <1>1, <2>2, <3>1 DEF Messages
    <2>3. CASE turn' # "done"
      <3>1. turn' = Other(turn) /\ Other(turn)' = turn
        BY <1>1, <2>3 DEF Party, Other
      <3>2. Message(<<>>, 0, items[Other(turn)], items[turn], hidden)
        BY DEF Message
      <3>3. LastBound(<<>>) = 0
        BY DEF LastBound
      <3>4. Message(reader, prev, items[Other(turn)], items[turn], hidden)'
        BY <1>1, <2>1, <3>1
      <3>5. Message(output, 0, items[turn], items[Other(turn)], hidden)'
        BY <1>1, <3>1, <3>2
      <3>6. LastBound(output)' = 0
        BY <1>1, <3>3 DEF LastBound
      <3> QED
        BY <1>1, <2>3, <3>4, <3>5, <3>6 DEF Messages
    <2> QED
      BY <2>2, <2>3
  <1>4. NothingLost'
    <2> SUFFICES ASSUME ~hidden, NEW x \in Numbers
                 PROVE  Settled(x)' \/ Covers(output, 0, x)
      BY <1>1 DEF NothingLost
    <2>1. Settled(x) => Settled(x)'
      BY <1>1 DEF Settled
    <2>2. Settled(x) \/ Covers(reader, prev, x) \/ Covers(output, 0, x)
      BY DEF SyncInv, NothingLost
    <2>3. ~Covers(<<>>, prev, x)
      BY DEF Covers
    <2> QED
      BY <1>1, <2>1, <2>2, <2>3
  <1> QED
    BY <1>2, <1>3, <1>4 DEF SyncInv

LEMMA SyncBegins ==
    ASSUME R!ReconcileAssumption, R!SyncInit
    PROVE  SyncInv
  <1>1. PICK client \in SUBSET Numbers, server \in SUBSET Numbers : R!SyncStart(client, server)
    BY DEF R!SyncInit, Numbers
  <1>2. /\ items = [client |-> client, server |-> server]
        /\ turn = "server" /\ reader \in R!SplitRange(client, R!Infinite) /\ output = <<>>
        /\ prev = 0 /\ skipping = FALSE /\ haves = {} /\ haveNots = {} /\ hidden = FALSE
    BY <1>1 DEF R!SyncStart
  <1>3. R!Infinite \in Nat /\ 0 \in 0 .. R!Infinite /\ R!Infinite \in 0 .. R!Infinite
    BY DEF R!ReconcileAssumption, R!Infinite
  <1>4. items["client"] = client /\ items["server"] = server
    BY <1>2
  <1>5. SyncTypes /\ Sound
    BY <1>2, <1>3, <1>4 DEF SyncTypes, Sound, Party
  <1>6. Has(client, 0, R!Infinite) = client
    <2>1. \A x \in client : 0 <= x /\ x < R!Infinite
      BY DEF Numbers, R!ReconcileAssumption, R!Infinite
    <2> QED
      BY <2>1 DEF Has
  <1>7. /\ Message(reader, 0, client, server, FALSE)
        /\ \A x \in Numbers : 0 <= x /\ x < R!Infinite => Covers(reader, 0, x)
    <2> DEFINE top == R!Infinite
               low == 0
    <2>1. /\ low \in 0 .. R!Infinite /\ top \in 0 .. R!Infinite /\ low <= top /\ FALSE \in BOOLEAN
          /\ reader \in R!SplitRange(Has(client, low, top), top)
      BY <1>2, <1>3, <1>6
    <2> HIDE DEF low, top
    <2>2. Tells(reader, low, top, client, server, FALSE)
      BY <2>1, SplitRangeSays
    <2> QED
      BY <2>2 DEF Tells, low, top
  <1>8. Messages
    <2>1. Message(<<>>, 0, server, client, FALSE)
      BY DEF Message
    <2>2. LastBound(<<>>) = 0
      BY DEF LastBound
    <2>3. Other("server") = "client"
      BY DEF Other
    <2> QED
      <3>1. Message(reader, prev, items[Other(turn)], items[turn], hidden)
        BY <1>2, <1>4, <1>7, <2>3
      <3>2. Message(output, 0, items[turn], items[Other(turn)], hidden)
        BY <1>2, <1>4, <2>1, <2>3
      <3>3. LastBound(output) = prev /\ prev <= prev /\ turn # "done"
        BY <1>2, <2>2
      <3> QED
        BY <3>1, <3>2, <3>3 DEF Messages
  <1>9. NothingLost
    <2>1. \A x \in Numbers : 0 <= x /\ x < R!Infinite
      BY DEF Numbers, R!ReconcileAssumption, R!Infinite
    <2> QED
      BY <1>2, <1>7, <2>1 DEF NothingLost
  <1> QED
    BY <1>5, <1>8, <1>9 DEF SyncInv

LEMMA SyncStep ==
    ASSUME R!ReconcileAssumption, SyncInv, [R!SyncNext]_(R!syncVars)
    PROVE  SyncInv'
  <1>1. CASE UNCHANGED R!syncVars
    BY <1>1 DEF R!syncVars, SyncInv, SyncTypes, Sound, Messages, NothingLost, Settled, Message, Says,
                From, LastBound, Covers, Has, Other
  <1>2. CASE R!SyncNext
    BY <1>2, ReadSkipStep, EqualStep, DifferentStep, IdsAsClientStep, IdsAsServerStep, ReplyStep
       DEF R!SyncNext
  <1> QED
    BY <1>1, <1>2

LEMMA KnownIsExact ==
    ASSUME R!ReconcileAssumption, SyncInv
    PROVE  R!SyncIsExact
  <1>1. Sound
    BY DEF SyncInv
  <1>2. ASSUME turn = "done", ~hidden
        PROVE  /\ items["client"] \ items["server"] \subseteq haves
               /\ items["server"] \ items["client"] \subseteq haveNots
    <2>1. reader = <<>> /\ output = <<>>
      BY <1>2 DEF SyncInv, Messages
    <2>2. \A x \in Numbers : Settled(x)
      <3> TAKE x \in Numbers
      <3>1. Settled(x) \/ Covers(reader, prev, x) \/ Covers(output, 0, x)
        BY <1>2 DEF SyncInv, NothingLost
      <3> QED
        BY <2>1, <3>1 DEF Covers
    <2>3. items["client"] \in SUBSET Numbers /\ items["server"] \in SUBSET Numbers
      BY DEF SyncInv, SyncTypes, Party
    <2> QED
      BY <2>2, <2>3 DEF Settled
  <1> QED
    BY <1>1, <1>2 DEF Sound, R!SyncIsExact

\* Between parties that have nothing, nothing is to be found.
LEMMA NothingToSync ==
    ASSUME R!ReconcileAssumption, NoSync
    PROVE  SyncInv
  <1>1. items["client"] = {} /\ items["server"] = {}
    BY DEF NoSync
  <1>2. SyncTypes
    <2>1. items \in [Party -> SUBSET Numbers]
      BY DEF NoSync, Party
    <2>2. 0 \in 0 .. R!Infinite
      BY DEF R!ReconcileAssumption, R!Infinite
    <2> QED
      BY <2>1, <2>2 DEF NoSync, SyncTypes, Party
  <1>3. Sound /\ Messages
    BY DEF NoSync, Sound, Messages
  <1>4. NothingLost
    BY <1>1 DEF NothingLost, Settled
  <1> QED
    BY <1>2, <1>3, <1>4 DEF SyncInv

\* The client is told nothing that is not so, and when it is done it has been told all
\* that one party has and the other has not (negentropy.go:69-245), for all sets, numbers
\* of buckets and sizes of a frame: unless a frame was full at a fingerprint of nothing.
THEOREM SyncAlwaysExact == Spec => []SyncIsExact
  <1>1. Init => SyncInv
    <2>1. R!SyncInit => SyncInv
      BY SyncBegins, InstancesAssumption
    <2>2. NoSync => SyncInv
      BY NothingToSync, InstancesAssumption
    <2> QED
      BY <2>1, <2>2 DEF Init
  <1>2. SyncInv /\ [Next]_vars => SyncInv'
    <2>1. [Next]_vars => [R!SyncNext]_(R!syncVars)
      BY DEF Next, vars, syncVars, R!syncVars
    <2> QED
      BY <2>1, SyncStep, InstancesAssumption
  <1>3. SyncInv => SyncIsExact
    BY KnownIsExact, InstancesAssumption DEF SyncIsExact
  <1> QED
    BY <1>1, <1>2, <1>3, PTL DEF Spec

=============================================================================
