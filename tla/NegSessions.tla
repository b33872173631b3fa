---------------------------- MODULE NegSessions ----------------------------
(***************************************************************************)
(* The negentropy sessions of one websocket and one subscription id        *)
(* (the NEG-OPEN, NEG-MSG and NEG-CLOSE cases of HandleWebsocket in        *)
(* src/internal/relay/engine/handlers.go, engine/negentropy.go).           *)
(*                                                                         *)
(* Every message is handled in a goroutine of its own.  An OPEN makes a    *)
(* session, with a debounced timer that deletes whatever session has the   *)
(* id when it fires; a MSG reconciles on the session it finds and sets the *)
(* timer of that one anew.  A session is named by the OPEN that made it.   *)
(***************************************************************************)
EXTENDS Integers, FiniteSets

CONSTANTS
    Open, Msg, Close, \* the messages that arrive, each handled once
    Prompt            \* no timer fires between two statements of an OPEN's handler

SessionAssumption ==
    /\ Open \cap Msg = {} /\ Open \cap Close = {} /\ Msg \cap Close = {}
    /\ Prompt \in BOOLEAN

Handler == Open \cup Msg \cup Close
None == "none"

NoneAssumption == None \notin Handler

VARIABLES
    at,      \* at[h]: where the goroutine of message h is
    session, \* the entry of the id in ws.negentropySessions, or None
    uses,    \* uses[h]: the session that the MSG h has loaded
    armed,   \* armed[s]: the timer of session s runs
    deltas,  \* deltas[s]: whose timestamps lastTimestampIn and Out of s are
    reply,   \* reply[h]: what h has been answered
    overlap  \* history: MSGs during which another one reconciled on the same session

sessVars == <<at, session, uses, armed, deltas, reply, overlap>>

-----------------------------------------------------------------------------

SessInit ==
    /\ at = [h \in Handler |-> "sent"]
    /\ session = None
    /\ uses = [h \in Msg |-> None]
    /\ armed = [s \in Open |-> FALSE]
    /\ deltas = [s \in Open |-> None]
    /\ reply = [h \in Handler |-> "none"]
    /\ overlap = {}

Goto(h, l) == at' = [at EXCEPT ![h] = l]
Answer(h, r) == reply' = [reply EXCEPT ![h] = r]

-----------------------------------------------------------------------------
(* NEG-OPEN *)

\* The filter is rejected, or the message cannot be reconciled.
OpenFails(h) ==
    /\ h \in Open /\ at[h] = "sent"
    /\ Goto(h, "done") /\ Answer(h, "error")
    /\ UNCHANGED <<session, uses, armed, deltas, overlap>>

\* The vector is filled, and the answer of a server is never empty.
OpenReplies(h) ==
    /\ h \in Open /\ at[h] = "sent"
    /\ Goto(h, "arm") /\ Answer(h, "whole")
    /\ deltas' = [deltas EXCEPT ![h] = h]
    /\ UNCHANGED <<session, uses, armed, overlap>>

\* Faulty: the timer is left to the first MSG.
OpenSkipsTimer(h) ==
    /\ h \in Open /\ at[h] = "arm"
    /\ Goto(h, "store")
    /\ UNCHANGED <<session, uses, armed, deltas, reply, overlap>>

OpenArms(h) ==
    /\ h \in Open /\ at[h] = "arm"
    /\ Goto(h, "store")
    /\ armed' = [armed EXCEPT ![h] = TRUE]
    /\ UNCHANGED <<session, uses, deltas, reply, overlap>>

\* A session that is there already is replaced; its timer runs on.
OpenStores(h) ==
    /\ h \in Open /\ at[h] = "store"
    /\ Goto(h, "done")
    /\ session' = h
    /\ UNCHANGED <<uses, armed, deltas, reply, overlap>>

-----------------------------------------------------------------------------
(* NEG-MSG *)

MsgLoads(h) ==
    /\ h \in Msg /\ at[h] = "sent"
    /\ uses' = [uses EXCEPT ![h] = session]
    /\ IF session = None THEN Goto(h, "done") /\ Answer(h, "CLOSED")
       ELSE Goto(h, "reset") /\ UNCHANGED reply
    /\ UNCHANGED <<session, armed, deltas, overlap>>

Reconciling(s) == {g \in Msg : uses[g] = s /\ at[g] = "reconcile"}

Together(h) ==
    LET others == Reconciling(uses[h]) \ {h}
    IN  overlap' = IF others = {} THEN overlap ELSE overlap \cup others \cup {h}

\* Faulty: the timestamps of the last message are kept.
MsgKeepsDeltas(h) ==
    /\ h \in Msg /\ at[h] = "reset"
    /\ Goto(h, "reconcile")
    /\ Together(h)
    /\ UNCHANGED <<session, uses, armed, deltas, reply>>

\* Reconcile begins: the timestamps that bounds are relative to are reset.
MsgResets(h) ==
    /\ h \in Msg /\ at[h] = "reset"
    /\ Goto(h, "reconcile")
    /\ deltas' = [deltas EXCEPT ![uses[h]] = h]
    /\ Together(h)
    /\ UNCHANGED <<session, uses, armed, reply>>

\* Reconcile ends: bounds that were read or written relative to the timestamps of
\* another MSG are not those that were meant.
MsgReplies(h) ==
    /\ h \in Msg /\ at[h] = "reconcile"
    /\ Answer(h, IF deltas[uses[h]] = h THEN "whole" ELSE "garbled")
    /\ deltas' = [deltas EXCEPT ![uses[h]] = h]
    /\ Goto(h, "postpone")
    /\ UNCHANGED <<session, uses, armed, overlap>>

\* The message cannot be decoded: whatever session has the id by now goes.
MsgFails(h) ==
    /\ h \in Msg /\ at[h] = "reconcile"
    /\ Answer(h, "error")
    /\ session' = None
    /\ Goto(h, "done")
    /\ UNCHANGED <<uses, armed, deltas, overlap>>

\* The timer starts again, be the session deleted or replaced.
MsgPostpones(h) ==
    /\ h \in Msg /\ at[h] = "postpone"
    /\ armed' = [armed EXCEPT ![uses[h]] = TRUE]
    /\ Goto(h, "done")
    /\ UNCHANGED <<session, uses, deltas, reply, overlap>>

-----------------------------------------------------------------------------

CloseDeletes(h) ==
    /\ h \in Close /\ at[h] = "sent"
    /\ session' = None
    /\ Goto(h, "done")
    /\ UNCHANGED <<uses, armed, deltas, reply, overlap>>

\* Seven seconds without a MSG of s; the entry may be another session's by now.
TimerFires(s) ==
    /\ armed[s]
    /\ Prompt => at[s] # "store"
    /\ armed' = [armed EXCEPT ![s] = FALSE]
    /\ session' = None
    /\ UNCHANGED <<at, uses, deltas, reply, overlap>>

-----------------------------------------------------------------------------

SessNext ==
    \/ \E h \in Handler :
        \/ OpenFails(h) \/ OpenReplies(h) \/ OpenArms(h) \/ OpenStores(h)
        \/ MsgLoads(h) \/ MsgResets(h) \/ MsgReplies(h) \/ MsgFails(h) \/ MsgPostpones(h)
        \/ CloseDeletes(h)
    \/ \E s \in Open : TimerFires(s)

SessSpec == SessInit /\ [][SessNext]_sessVars

-----------------------------------------------------------------------------

(***************************************************************************)
(* Every session in the map has a timer that runs, through replacements,   *)
(* deletions and timers of older sessions: none stays for the life of the  *)
(* connection with the vector it holds.  It rests on Prompt, because the   *)
(* timer is started before the session is stored.                          *)
(***************************************************************************)
SessionsExpire == session # None => armed[session]

(***************************************************************************)
(* A MSG that has the session for itself while it reconciles is answered   *)
(* with what was meant, whatever MSGs came before it and whichever session *)
(* has the id meanwhile.  Only MSGs that reconcile at once can spoil each  *)
(* other, because the Negentropy of a session has no lock.                 *)
(***************************************************************************)
RepliesAreWhole == \A h \in Msg : reply[h] = "garbled" => h \in overlap

=============================================================================
