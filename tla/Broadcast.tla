----------------------------- MODULE Broadcast -----------------------------
(***************************************************************************)
(* A broadcast (notifyListeners, listener.go:135-151) beside the listener  *)
(* registry it walks.                                                      *)
(*                                                                         *)
(* The range statement evaluates rl.listeners once, so a broadcast keeps   *)
(* the length the slice had when it began, but it copies each element out  *)
(* of the shared array when it comes to it.  It takes no mutex: addListener*)
(* and the removals of module Listeners run between any two of its steps,  *)
(* and inside the copy of one element.                                     *)
(***************************************************************************)
EXTENDS Listeners, Integers, FiniteSets

CONSTANTS
    Event,      \* events, abstracted to names
    Match,      \* pairs <<filter, event>> for which filter.Matches(event)
    Prevented,  \* pairs <<ws, event>> some PreventBroadcast hook stops
    Broadcasts  \* bound: broadcasts in one behaviour

ASSUME MatchAssumption == Match \subseteq Filter \X Event
ASSUME PreventedAssumption == Prevented \subseteq WS \X Event
ASSUME BroadcastsAssumption == Broadcasts \in Nat

VARIABLES
    walk,       \* the broadcast's local state
    sent,       \* EVENT envelopes it has written, per (websocket, id)
    history     \* what happened in the registry since it began

bvars == <<walk, sent, history>>
allVars == <<vars, bvars>>

Subscriber == WS \X Id
Resting == [pc |-> "rest", left |-> Broadcasts]
NoCopy == [ws |-> "none"]

\* How many listeners of relay r send event e to subscriber x.
Wanted(b, n, e, x) ==
    Cardinality({i \in 1..n : /\ b[i].ws = x[1] /\ b[i].id = x[2]
                              /\ <<b[i].filter, e>> \in Match
                              /\ <<b[i].ws, e>> \notin Prevented})

Least(m, n) == IF m <= n THEN m ELSE n

BInit ==
    /\ Init
    /\ walk = Resting
    /\ sent = [x \in Subscriber |-> 0]
    /\ history = [removed |-> FALSE, began |-> [x \in Subscriber |-> 0],
                  least |-> [x \in Subscriber |-> 0], seen |-> {}]

\* Faulty: the walk covers every slot ever written, not the slice.
BeginWithStaleTail(r, e) ==
    /\ walk.pc = "rest"
    /\ walk.left > 0
    /\ LET now == [x \in Subscriber |-> Wanted(backing[r], len[r], e, x)]
       IN  history' = [removed |-> op # Idle, began |-> now, least |-> now,
                       seen |-> {backing[r][i].ws : i \in 1..len[r]}]
    /\ walk' = [pc |-> "next", left |-> walk.left - 1, relay |-> r, event |-> e,
                size |-> Cardinality({i \in Slot : backing[r][i] # NoListener}),
                i |-> 1, copy |-> NoCopy, count |-> 0]
    /\ sent' = [x \in Subscriber |-> 0]
    /\ UNCHANGED vars

\* range rl.listeners: the slice header is copied once.
BeginBroadcast(r, e) ==
    /\ walk.pc = "rest"
    /\ walk.left > 0
    /\ LET now == [x \in Subscriber |-> Wanted(backing[r], len[r], e, x)]
       IN  history' = [removed |-> op # Idle, began |-> now, least |-> now,
                       seen |-> {backing[r][i].ws : i \in 1..len[r]}]
    /\ walk' = [pc |-> "next", left |-> walk.left - 1, relay |-> r, event |-> e,
                size |-> len[r], i |-> 1, copy |-> NoCopy, count |-> 0]
    /\ sent' = [x \in Subscriber |-> 0]
    /\ UNCHANGED vars

\* The copy of element i begins: some of its fields are read now.
ReadListener ==
    /\ walk.pc = "next"
    /\ walk.i <= walk.size
    /\ walk' = [walk EXCEPT !.pc = "copying", !.copy = backing[walk.relay][walk.i]]
    /\ UNCHANGED <<vars, sent, history>>

\* The outcomes of copying an element that was old and became new meanwhile:
\* each field is the old one or the new one.
Torn(old, new) ==
    [ws : {old.ws, new.ws}, id : {old.id, new.id}, filter : {old.filter, new.filter}]

\* Faulty: listeners that are not sent the event are counted too.
NotifyCountsAll ==
    /\ walk.pc = "copying"
    /\ \E l \in Torn(walk.copy, backing[walk.relay][walk.i]) :
         LET notify == /\ <<l.filter, walk.event>> \in Match
                       /\ <<l.ws, walk.event>> \notin Prevented
         IN  /\ sent' = IF notify THEN [sent EXCEPT ![<<l.ws, l.id>>] = @ + 1] ELSE sent
             /\ walk' = [walk EXCEPT !.pc = "next", !.i = @ + 1, !.copy = NoCopy,
                                     !.count = @ + 1]
    /\ UNCHANGED <<vars, history>>

\* The copy ends; the listener is sent the event unless its filter does not
\* match or a hook prevents it.
NotifyListener ==
    /\ walk.pc = "copying"
    /\ \E l \in Torn(walk.copy, backing[walk.relay][walk.i]) :
         LET notify == /\ <<l.filter, walk.event>> \in Match
                       /\ <<l.ws, walk.event>> \notin Prevented
         IN  /\ sent' = IF notify THEN [sent EXCEPT ![<<l.ws, l.id>>] = @ + 1] ELSE sent
             /\ walk' = [walk EXCEPT !.pc = "next", !.i = @ + 1, !.copy = NoCopy,
                                     !.count = IF notify THEN @ + 1 ELSE @]
    /\ UNCHANGED <<vars, history>>

\* The loop ends; notifyListeners returns count.
ReturnCount ==
    /\ walk.pc = "next"
    /\ walk.i > walk.size
    /\ walk' = [walk EXCEPT !.pc = "done"]
    /\ UNCHANGED <<vars, sent, history>>

\* The caller has used the count.
Rest ==
    /\ walk.pc = "done"
    /\ walk' = [Resting EXCEPT !.left = walk.left]
    /\ sent' = [x \in Subscriber |-> 0]
    /\ history' = [removed |-> FALSE, began |-> [x \in Subscriber |-> 0],
                   least |-> [x \in Subscriber |-> 0], seen |-> {}]
    /\ UNCHANGED vars

\* The registry moves on; the history records what a running broadcast met.
Registry ==
    /\ Next
    /\ history' =
         IF walk.pc \in {"next", "copying"}
         THEN LET r == walk.relay
              IN  [removed |-> history.removed \/ op' # Idle,
                   began |-> history.began,
                   least |-> [x \in Subscriber |->
                       Least(history.least[x], Wanted(backing'[r], len'[r], walk.event, x))],
                   seen |-> history.seen \cup {backing'[r][i].ws : i \in 1..len'[r]}]
         ELSE history
    /\ UNCHANGED <<walk, sent>>

BNext ==
    \/ \E r \in Relay, e \in Event : BeginBroadcast(r, e)
    \/ ReadListener
    \/ NotifyListener
    \/ ReturnCount
    \/ Rest
    \/ Registry

BSpec == BInit /\ [][BNext]_allVars

-----------------------------------------------------------------------------
(* Properties *)

\* When no removal overlaps a broadcast, every subscriber gets the event once
\* per matching listener it had when the broadcast began, and no other does;
\* subscribing meanwhile changes nothing (listener.go:139).  The count that is
\* returned, which decides the "mute" answer to an ephemeral event
\* (handlers.go:294), is zero exactly if nobody was listening then.
QuietIsExact ==
    walk.pc = "done" /\ ~history.removed =>
        /\ sent = history.began
        /\ walk.count = 0 <=> \A x \in Subscriber : history.began[x] = 0

\* Whatever runs meanwhile, an event is written only to websockets that had a
\* listener on the relay at some moment of the broadcast: the stale part of
\* the array a long walk still reads was live when it began.
OnlySeenSockets ==
    \A x \in Subscriber : sent[x] > 0 => x[1] \in history.seen

=============================================================================
