------------------------------ MODULE Monitor ------------------------------
(***************************************************************************)
(* The freshness monitor (src/internal/monitor/monitor.go and probe.go).   *)
(*                                                                         *)
(* One goroutine.  At every slot of its schedule it probes the relay,      *)
(* again after a failure that may pass, and tells an operator what has     *)
(* changed.  A step of Run is one round of its loop; the probes of Check   *)
(* and the alert take time that is chosen freely.                          *)
(***************************************************************************)
EXTENDS Integers, Sequences

CONSTANTS
    Interval,       \* between two slots of the schedule
    RemindInterval, \* between two alerts of an incident that goes on
    MaxAge,         \* the oldest an event may be
    Retries,        \* further probes after one that failed
    MaxClock,       \* bound: no round begins after this time
    MaxDelay        \* bound: the time a step of a round takes

MonitorAssumption ==
    /\ {Interval, RemindInterval, MaxAge} \subseteq Nat \ {0}
    /\ {Retries, MaxClock, MaxDelay} \subseteq Nat

VARIABLES
    clock,
    next,            \* the next slot
    check,           \* Check: the probes made and the status so far
    previous,        \* the status of the last check; the cause goes with it
    pending,         \* the alert that could not be sent, "" if there is none
    lastAlert,       \* when an alert was last sent in this incident, None if none was
    recoveredPending,
    since,           \* incidentSince
    told,            \* history: the last alert that was delivered
    began,           \* history: when the incident that lasts, or was last, began
    failed           \* history: the last alert was not delivered

monitorVars == <<clock, next, check, previous, pending, lastAlert, recoveredPending, since,
                 told, began, failed>>

-----------------------------------------------------------------------------
(* What a probe finds *)

None == -1
Failures == {"connect_error", "timeout", "protocol_error", "rejected"}
Statuses == Failures \cup {"healthy", "stale", "empty"}

retryable(status) == status \in {"connect_error", "timeout", "protocol_error"}

\* The messages of a relay that the probe tells apart, for its subscription.
Frames == [type : {"EVENT"}, valid : BOOLEAN, age : {-1, 0, MaxAge, MaxAge + 1}]
          \cup [type : {"AUTH", "CLOSED", "EOSE", "NOTICE", "OK", "other subscription"}]

Fresh(frame) == frame.type = "EVENT" /\ frame.valid /\ frame.age >= 0
Bad(frame) == frame.type = "OK" \/ (frame.type = "EVENT" /\ ~Fresh(frame))

\* The status of a probe that is sent frames until one of them ends it: the youngest
\* event decides, and a connection that ends first is an error.
Probe(frames) ==
    LET Ends(i) == frames[i].type \in {"AUTH", "CLOSED", "EOSE"} \/ Bad(frames[i])
        Last == {i \in DOMAIN frames : Ends(i) /\ \A j \in 1 .. i - 1 : ~Ends(j)}
        Ages == {frames[j].age : j \in {k \in DOMAIN frames : Fresh(frames[k])}}
    IN  IF Last = {} THEN {"connect_error", "timeout"}
        ELSE LET end == frames[CHOOSE i \in Last : TRUE]
             IN  IF Bad(end) THEN {"protocol_error"}
                 ELSE IF end.type # "EOSE" THEN {"rejected"}
                 ELSE IF Ages = {} THEN {"empty"}
                 ELSE IF \E age \in Ages : age <= MaxAge THEN {"healthy"}
                 ELSE {"stale"}

\* The frames are few: an event, perhaps another, and what ends the probe.
Answers == UNION {[1 .. n -> Frames] : n \in 0 .. 2}
Outcomes == UNION {Probe(frames) : frames \in Answers}

-----------------------------------------------------------------------------
(* Check *)

Idle == [attempts |-> 0, status |-> "connect_error", at |-> 0]

MonitorInit ==
    /\ clock = 0
    /\ next = 0
    /\ check = Idle
    /\ previous = ""
    /\ pending = ""
    /\ lastAlert = None
    /\ recoveredPending = FALSE
    /\ since = None
    /\ told = [kind |-> "", cause |-> "", since |-> None, at |-> None]
    /\ began = None
    /\ failed = FALSE

loopVars == <<next, previous, pending, lastAlert, recoveredPending, since, told, began, failed>>

\* sleep until the slot
Wake ==
    /\ check.attempts = 0
    /\ clock <= MaxClock
    /\ clock' = IF next > clock THEN next ELSE clock
    /\ check' = [attempts |-> 1, status |-> "", at |-> clock']
    /\ UNCHANGED loopVars

Attempt ==
    /\ check.attempts > 0
    /\ check.status = ""
    /\ \E status \in Outcomes : check' = [check EXCEPT !.status = status]
    /\ \E d \in 0 .. MaxDelay : clock' = clock + d
    /\ UNCHANGED loopVars

Again == retryable(check.status) /\ check.attempts <= Retries

Retry ==
    /\ check.status # ""
    /\ check.attempts > 0
    /\ Again
    /\ check' = [check EXCEPT !.attempts = @ + 1, !.status = ""]
    /\ UNCHANGED <<clock, loopVars>>

-----------------------------------------------------------------------------
(* The rest of a round *)

\* The alert of an unhealthy check.
AlertKind(status, now) ==
    IF previous \in {"healthy", ""} THEN "abnormal"
    ELSE IF status # previous THEN "cause_changed"
    ELSE IF pending # "" THEN pending
    ELSE IF lastAlert = None \/ now - lastAlert >= RemindInterval THEN "reminder"
    ELSE ""

Deliver(kind, status, start) ==
    told' = [kind |-> kind, cause |-> status, since |-> start, at |-> clock]

skipMissedSlots(slot, now) ==
    IF slot > now THEN slot ELSE slot + ((now - slot) \div Interval + 1) * Interval

Finish ==
    /\ previous' = check.status
    /\ check' = Idle
    /\ \E d \in 0 .. MaxDelay : clock' = clock + d
    /\ next' = skipMissedSlots(next + Interval, clock')

Unhealthy(sent) ==
    /\ check.status \notin {"", "healthy"}
    /\ ~Again
    /\ check.attempts > 0
    /\ LET begins == previous \in {"healthy", ""}
           kind == AlertKind(check.status, clock)
           start == IF begins THEN check.at ELSE since
       IN  /\ since' = start
           /\ began' = IF begins THEN check.at ELSE began
           /\ IF kind = "" THEN sent /\ failed' = FALSE /\ UNCHANGED <<pending, lastAlert, told>>
              ELSE IF sent
                   THEN /\ Deliver(kind, check.status, start)
                        /\ lastAlert' = clock
                        /\ pending' = ""
                        /\ failed' = FALSE
              ELSE /\ pending' = IF kind = "reminder" THEN pending ELSE kind
                   /\ failed' = TRUE
                   /\ UNCHANGED <<lastAlert, told>>
    /\ recoveredPending' = TRUE
    /\ Finish

\* Faulty: a recovery that could not be sent is forgotten.
HealthyForgets(sent) ==
    /\ check.status = "healthy"
    /\ IF sent /\ recoveredPending THEN Deliver("recovery", "healthy", since) ELSE UNCHANGED told
    /\ recoveredPending' = FALSE
    /\ since' = None /\ lastAlert' = None /\ pending' = ""
    /\ failed' = ~sent
    /\ Finish
    /\ UNCHANGED began

Healthy(sent) ==
    /\ check.status = "healthy"
    /\ IF ~recoveredPending THEN sent /\ UNCHANGED <<recoveredPending, told>>
       ELSE IF sent
            THEN recoveredPending' = FALSE /\ Deliver("recovery", "healthy", since)
       ELSE UNCHANGED <<recoveredPending, told>>
    /\ IF sent THEN since' = None /\ lastAlert' = None /\ pending' = ""
       ELSE UNCHANGED <<since, lastAlert, pending>>
    /\ failed' = ~sent
    /\ Finish
    /\ UNCHANGED began

Run == Wake \/ Attempt \/ Retry \/ \E sent \in BOOLEAN : Unhealthy(sent) \/ Healthy(sent)

MonitorSpec == MonitorInit /\ [][Run]_monitorVars

-----------------------------------------------------------------------------

(***************************************************************************)
(* When a round is over the operator has been told how the relay is: the   *)
(* last alert delivered is about this cause, or about the recovery, unless *)
(* one waits to be sent again; what he is told of the incident's beginning *)
(* is true; and he is reminded in time while no alert fails.  The flags    *)
(* of Run carry this through failing alerts, causes that change back and   *)
(* recoveries that never got out.                                          *)
(***************************************************************************)
ToldIsCurrent ==
    check.attempts = 0 =>
        /\ previous \in Statuses \ {"healthy"} /\ pending = "" =>
              told.cause = previous /\ told.since = began
        /\ previous = "healthy" /\ ~recoveredPending =>
              told.kind = "" \/ (told.kind = "recovery" /\ told.since = began)
        /\ previous \in Statuses \ {"healthy"} /\ ~failed =>
              clock - told.at < RemindInterval + MaxDelay

=============================================================================
