--------------------------- MODULE Subscriptions ---------------------------
(***************************************************************************)
(* What the listener registry promises, with no slices and no positions:   *)
(* a multiset of subscriptions.  Subscribing adds one, closing an id takes *)
(* away exactly the subscriptions of that websocket and id, and a          *)
(* disconnect exactly those of that websocket.  A removal is not atomic:   *)
(* the subscriptions leave one at a time, and nothing else happens before  *)
(* the last one has left.  Module Listeners implements this.               *)
(***************************************************************************)
EXTENDS Naturals

CONSTANTS WS, Id, Relay, Filter

\* removing names what is being taken away: nothing, one id of one
\* websocket, or a whole websocket.
VARIABLES online, count, removing

subVars == <<online, count, removing>>

Subscription == [ws : WS, id : Id, relay : Relay, filter : Filter]

Nobody == {}

SubsInit ==
    /\ online = {}
    /\ count = [x \in Subscription |-> 0]
    /\ removing = Nobody

Arrive(w) ==
    /\ removing = Nobody
    /\ w \notin online
    /\ online' = online \cup {w}
    /\ UNCHANGED <<count, removing>>

Subscribe(x) ==
    /\ removing = Nobody
    /\ x.ws \in online
    /\ count' = [count EXCEPT ![x] = @ + 1]
    /\ UNCHANGED <<online, removing>>

\* The targets of a removal: the websocket and ids whose subscriptions leave.
BeginClose(w, id) ==
    /\ removing = Nobody
    /\ w \in online
    /\ removing' = {<<w, id>>}
    /\ UNCHANGED <<online, count>>

BeginLeave(w) ==
    /\ removing = Nobody
    /\ w \in online
    /\ removing' = {w} \X Id
    /\ UNCHANGED <<online, count>>

RemoveOne(x) ==
    /\ <<x.ws, x.id>> \in removing
    /\ count[x] > 0
    /\ count' = [count EXCEPT ![x] = @ - 1]
    /\ UNCHANGED <<online, removing>>

Drained == \A x \in Subscription : <<x.ws, x.id>> \in removing => count[x] = 0

EndClose ==
    /\ \E w \in WS, id \in Id : removing = {<<w, id>>}
    /\ Drained
    /\ removing' = Nobody
    /\ UNCHANGED <<online, count>>

EndLeave ==
    /\ \E w \in WS :
           /\ removing = {w} \X Id
           /\ online' = online \ {w}
    /\ Drained
    /\ removing' = Nobody
    /\ UNCHANGED count

SubsNext ==
    \/ \E w \in WS : Arrive(w) \/ BeginLeave(w)
    \/ \E w \in WS, id \in Id : BeginClose(w, id)
    \/ \E x \in Subscription : Subscribe(x) \/ RemoveOne(x)
    \/ EndClose
    \/ EndLeave

SubsSpec == SubsInit /\ [][SubsNext]_subVars

=============================================================================
