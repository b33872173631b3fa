----------------------------- MODULE PoolRelays -----------------------------
(***************************************************************************)
(* The pool's connection to one relay, and publications through it         *)
(* (EnsureRelay, WithPenaltyBox and PublishMany of                         *)
(* src/internal/nostr/pool.go).                                            *)
(*                                                                         *)
(* Callers look the relay up and connect under a lock that is chosen by    *)
(* the hash of its name.  A publication that the relay answers by          *)
(* "auth-required:" is tried again after AUTH.                             *)
(***************************************************************************)
EXTENDS Integers, FiniteSets

CONSTANTS
    Task,         \* goroutines of PublishMany
    MaxConnects   \* bound: attempts to connect

ConnectsAssumption == MaxConnects \in Nat

VARIABLES
    relay,        \* pool.Relays[nm]: a connection, or 0
    alive,        \* connections that are up
    attempts,     \* attempts to connect so far
    lock,         \* the holder of the named lock, as a set
    penalty,      \* penaltyBox[nm]: failures, and whether time remains
    task          \* the step and result of each goroutine

vars == <<relay, alive, attempts, lock, penalty, task>>

Absent == 0

Init ==
    /\ relay = Absent
    /\ alive = {}
    /\ attempts = 0
    /\ lock = {}
    /\ penalty = [failures |-> 0, remains |-> FALSE]
    /\ task = [t \in Task |-> [pc |-> "ensure", relay |-> Absent, result |-> "none"]]

At(t, l) == task[t].pc = l
Goto(t, l) == task' = [task EXCEPT ![t].pc = l]
Result(t, r) == task' = [task EXCEPT ![t].pc = "done", ![t].result = r]

\* Faulty: the lock is not waited for.
TakeLockAlways(t) == lock' = lock \cup {t}

TakeLock(t) == lock = {} /\ lock' = {t}

Lock(t) ==
    /\ At(t, "ensure")
    /\ TakeLock(t)
    /\ Goto(t, "load")
    /\ UNCHANGED <<relay, alive, attempts, penalty>>

\* The penalty is looked at for a relay that is stored as nil: none is.
LoadRelay(t) ==
    /\ At(t, "load")
    /\ IF relay \in alive
       THEN /\ task' = [task EXCEPT ![t].pc = "publish", ![t].relay = relay]
            /\ lock' = lock \ {t}
       ELSE Goto(t, "connect") /\ UNCHANGED lock
    /\ UNCHANGED <<relay, alive, attempts, penalty>>

Connect(t) ==
    /\ At(t, "connect")
    /\ attempts < MaxConnects
    /\ attempts' = attempts + 1
    /\ relay' = attempts'
    /\ alive' = alive \cup {attempts'}
    /\ task' = [task EXCEPT ![t].pc = "publish", ![t].relay = attempts']
    /\ lock' = lock \ {t}
    /\ UNCHANGED penalty

ConnectFails(t) ==
    /\ At(t, "connect")
    /\ attempts < MaxConnects
    /\ attempts' = attempts + 1
    /\ penalty' = [failures |-> penalty.failures + 1, remains |-> TRUE]
    /\ Result(t, "error")
    /\ lock' = lock \ {t}
    /\ UNCHANGED <<relay, alive>>

\* The goroutine of WithPenaltyBox: the time is up, the failures stay.
PenaltyEnds ==
    /\ penalty.remains
    /\ penalty' = [penalty EXCEPT !.remains = FALSE]
    /\ UNCHANGED <<relay, alive, attempts, lock, task>>

ConnectionEnds ==
    /\ alive # {}
    /\ \E c \in alive : alive' = alive \ {c}
    /\ UNCHANGED <<relay, attempts, lock, penalty, task>>

\* Accepted; or the connection ends while the OK is awaited: see RelayClient.
Published(t) ==
    /\ At(t, "publish") \/ At(t, "publishAgain")
    /\ Result(t, "nil")
    /\ UNCHANGED <<relay, alive, attempts, lock, penalty>>

PublishFails(t) ==
    /\ At(t, "publish") \/ At(t, "auth") \/ At(t, "publishAgain")
    /\ Result(t, "error")
    /\ UNCHANGED <<relay, alive, attempts, lock, penalty>>

AuthRequired(t) ==
    /\ At(t, "publish")
    /\ task[t].relay \in alive
    /\ Goto(t, "auth")
    /\ UNCHANGED <<relay, alive, attempts, lock, penalty>>

Authenticated(t) ==
    /\ At(t, "auth")
    /\ task[t].relay \in alive
    /\ Goto(t, "publishAgain")
    /\ UNCHANGED <<relay, alive, attempts, lock, penalty>>

Next ==
    \/ PenaltyEnds \/ ConnectionEnds
    \/ \E t \in Task :
        \/ Lock(t) \/ LoadRelay(t) \/ Connect(t) \/ ConnectFails(t)
        \/ Published(t) \/ PublishFails(t) \/ AuthRequired(t) \/ Authenticated(t)

Spec == Init /\ [][Next]_vars

-----------------------------------------------------------------------------

TypeOK ==
    /\ relay \in 0 .. MaxConnects /\ attempts \in 0 .. MaxConnects
    /\ alive \subseteq 1 .. MaxConnects
    /\ lock \in {{}} \cup {{t} : t \in Task}
    /\ penalty \in [failures : Nat, remains : BOOLEAN]
    /\ task \in [Task -> [pc : {"ensure", "load", "connect", "publish", "auth", "publishAgain", "done"},
                          relay : 0 .. MaxConnects, result : {"none", "nil", "error"}]]

(***************************************************************************)
(* The pool never holds two live connections to one relay, and the one it  *)
(* holds is the one it knows (pool.go:22: "not duplicated").               *)
(***************************************************************************)
OneConnection == alive \subseteq {relay} \ {Absent}

=============================================================================
