----------------------------- MODULE Listeners -----------------------------
(***************************************************************************)
(* The listener registry of the relay engine                               *)
(* (src/internal/relay/engine/listener.go).                                *)
(*                                                                         *)
(* Every relay keeps a slice of listeners, the array broadcasts walk.      *)
(* The main relay also keeps, per connected websocket, a slice of specs:   *)
(* one spec per listener, holding the listener's position in the slice of  *)
(* the (sub)relay it was routed to.  Listeners are swap-deleted, so each   *)
(* removal may move somebody else's listener and must repair the index in  *)
(* that listener's spec.                                                   *)
(*                                                                         *)
(* All operations hold clientsMutex from entry to return.  The two         *)
(* removals loop over the specs of one websocket; one step of the model is *)
(* one iteration, because broadcasts walk the slices without the mutex     *)
(* and see every intermediate state (module Broadcast).                    *)
(*                                                                         *)
(* Positions count from 1 here and from 0 in the code, so the code's       *)
(* index -1 is 0 here.                                                     *)
(***************************************************************************)
EXTENDS Naturals, Sequences, FiniteSets

CONSTANTS
    WS,         \* websockets (connections)
    Id,         \* subscription ids
    Relay,      \* the main relay and the subrelays it routes to
    Filter,     \* filters, abstracted to names
    Request,    \* REQ messages; each owns one cancellable context
    Cap,        \* bound: slots in the array under a relay's listeners
    Room        \* bound: listeners a relay may hold, at most Cap

ASSUME RequestAssumption == Request \subseteq [ws : WS, id : Id, n : Nat]
ASSUME CapAssumption == Cap \in Nat \ {0}
ASSUME RoomAssumption == Room \in [Relay -> 1..Cap]

VARIABLES
    connected,  \* the keys of rl.clients
    clients,    \* rl.clients[ws]: the specs of a websocket
    backing,    \* the array under each relay's listeners slice
    len,        \* the length of each relay's listeners slice
    cancelled,  \* requests whose context was cancelled by their client
    op          \* who holds clientsMutex, and where in its loop it is

vars == <<connected, clients, backing, len, cancelled, op>>

Slot == 1..Cap
ListenerSpec == [id : Id, cancel : Request, index : 0..Cap, subrelay : Relay]
Listener == [ws : WS, id : Id, filter : Filter]
NoListener == [ws |-> "none"]   \* an array slot never written

Idle == [kind |-> "idle"]
Panicked == [kind |-> "panicked"]
RemovingId(w, id, s) == [kind |-> "removeId", ws |-> w, id |-> id, s |-> s]
RemovingClient(w, s) == [kind |-> "removeClient", ws |-> w, s |-> s]

Init ==
    /\ connected = {}
    /\ clients = [w \in WS |-> <<>>]
    /\ backing = [r \in Relay |-> [i \in Slot |-> NoListener]]
    /\ len = [r \in Relay |-> 0]
    /\ cancelled = {}
    /\ op = Idle

-----------------------------------------------------------------------------
(* Sequence and array helpers *)

\* specs[s] = specs[len-1]; specs = specs[0:len-1]
SwapDelete(specs, s) ==
    SubSeq([specs EXCEPT ![s] = specs[Len(specs)]], 1, Len(specs) - 1)

\* the positions IndexFunc's predicate accepts
At(specs, r, i) == {j \in DOMAIN specs : specs[j].index = i /\ specs[j].subrelay = r}

First(S) == CHOOSE j \in S : \A k \in S : j <= k

\* Faulty: the new position is never written to the spec.
SetIndexForgotten(cs, w, s, i) == cs

\* rl.clients[w][s].index = i
SetIndex(cs, w, s, i) == [cs EXCEPT ![w][s].index = i]

\* Take the listener at position i out of relay r: the last listener moves
\* into its place, and the spec of the moved listener gets the new position.
\* cs is rl.clients as the search finds it; next is the mutex state after.
\* A search that finds nothing indexes movedSpecs[-1], which panics.
Unlist(r, i, cs, next) ==
    LET last == len[r]
        moved == backing[r][last]
        found == At(cs[moved.ws], r, last)
    IN  IF i = last
        THEN /\ len' = [len EXCEPT ![r] = last - 1]
             /\ clients' = cs
             /\ op' = next
             /\ UNCHANGED backing
        ELSE /\ backing' = [backing EXCEPT ![r][i] = moved]
             /\ IF found = {}
                THEN /\ op' = Panicked
                     /\ clients' = cs
                     /\ UNCHANGED len
                ELSE /\ clients' = SetIndex(cs, moved.ws, First(found), i)
                     /\ len' = [len EXCEPT ![r] = last - 1]
                     /\ op' = next

-----------------------------------------------------------------------------
(* Operations *)

\* HandleWebsocket registers the connection before any message is read.  The
\* pointer is fresh; the model reuses the name of a connection that has gone,
\* and with it the names of its requests, whose contexts are new.
Connect(w) ==
    /\ op = Idle
    /\ w \notin connected
    /\ connected' = connected \cup {w}
    /\ clients' = [clients EXCEPT ![w] = <<>>]
    /\ cancelled' = {q \in cancelled : q.ws # w}
    /\ UNCHANGED <<backing, len, op>>

\* addListener for one filter of request q, routed to relay r.  A websocket
\* that has already gone is ignored.
AddListener(q, r, f) ==
    /\ op = Idle
    /\ q.ws \in connected
    /\ len[r] < Room[r]
    /\ clients' = [clients EXCEPT ![q.ws] =
           Append(@, [id |-> q.id, cancel |-> q, index |-> len[r] + 1, subrelay |-> r])]
    /\ backing' = [backing EXCEPT ![r][len[r] + 1] =
           [ws |-> q.ws, id |-> q.id, filter |-> f]]
    /\ len' = [len EXCEPT ![r] = @ + 1]
    /\ UNCHANGED <<connected, cancelled, op>>

\* removeListenerId takes the mutex; the loop runs from the last spec down.
RemoveListenerId(w, id) ==
    /\ op = Idle
    /\ w \in connected
    /\ op' = RemovingId(w, id, Len(clients[w]))
    /\ UNCHANGED <<connected, clients, backing, len, cancelled>>

\* One iteration on a spec of the closed id: cancel, swap-delete the spec,
\* swap-delete the listener.
RemoveIdMatch ==
    /\ op.kind = "removeId"
    /\ op.s > 0
    /\ LET spec == clients[op.ws][op.s]
       IN  /\ spec.id = op.id
           /\ cancelled' = cancelled \cup {spec.cancel}
           /\ Unlist(spec.subrelay, spec.index,
                     [clients EXCEPT ![op.ws] = SwapDelete(@, op.s)],
                     [op EXCEPT !.s = @ - 1])
    /\ UNCHANGED connected

\* One iteration on a spec of another id.
RemoveIdSkip ==
    /\ op.kind = "removeId"
    /\ op.s > 0
    /\ clients[op.ws][op.s].id # op.id
    /\ op' = [op EXCEPT !.s = @ - 1]
    /\ UNCHANGED <<connected, clients, backing, len, cancelled>>

RemoveIdReturn ==
    /\ op.kind = "removeId"
    /\ op.s = 0
    /\ op' = Idle
    /\ UNCHANGED <<connected, clients, backing, len, cancelled>>

\* removeClientAndListeners takes the mutex; the loop runs from the first
\* spec up.  kill always calls it twice, so the websocket may be gone already.
RemoveClientAndListeners(w) ==
    /\ op = Idle
    /\ w \in connected
    /\ op' = RemovingClient(w, 1)
    /\ UNCHANGED <<connected, clients, backing, len, cancelled>>

\* Faulty: the removed listener's spec keeps its index while the search runs.
RemoveClientStepKeepsIndex ==
    /\ op.kind = "removeClient"
    /\ op.s <= Len(clients[op.ws])
    /\ LET spec == clients[op.ws][op.s]
       IN  Unlist(spec.subrelay, spec.index, clients, [op EXCEPT !.s = @ + 1])
    /\ UNCHANGED <<connected, cancelled>>

\* One iteration: the listener goes, the spec stays in the slice until the
\* client is deleted.  Its index becomes -1 when another listener is moved,
\* so that the search for the moved listener's spec cannot find it.
RemoveClientStep ==
    /\ op.kind = "removeClient"
    /\ op.s <= Len(clients[op.ws])
    /\ LET spec == clients[op.ws][op.s]
       IN  Unlist(spec.subrelay, spec.index,
                  IF spec.index = len[spec.subrelay]
                  THEN clients
                  ELSE SetIndex(clients, op.ws, op.s, 0),
                  [op EXCEPT !.s = @ + 1])
    /\ UNCHANGED <<connected, cancelled>>

\* delete(rl.clients, ws), and return.
RemoveClientReturn ==
    /\ op.kind = "removeClient"
    /\ op.s > Len(clients[op.ws])
    /\ connected' = connected \ {op.ws}
    /\ clients' = [clients EXCEPT ![op.ws] = <<>>]
    /\ op' = Idle
    /\ UNCHANGED <<backing, len, cancelled>>

Next ==
    \/ \E w \in WS : Connect(w)
    \/ \E q \in Request, r \in Relay, f \in Filter : AddListener(q, r, f)
    \/ \E w \in WS, id \in Id : RemoveListenerId(w, id)
    \/ RemoveIdMatch
    \/ RemoveIdSkip
    \/ RemoveIdReturn
    \/ \E w \in WS : RemoveClientAndListeners(w)
    \/ RemoveClientStep
    \/ RemoveClientReturn

Spec == Init /\ [][Next]_vars

-----------------------------------------------------------------------------
(* Properties *)

OpOK == op \in {Idle, Panicked}
               \cup [kind : {"removeId"}, ws : WS, id : Id, s : Nat]
               \cup [kind : {"removeClient"}, ws : WS, s : Nat]

TypeOK ==
    /\ connected \in SUBSET WS
    /\ clients \in [WS -> Seq(ListenerSpec)]
    /\ backing \in [Relay -> [Slot -> Listener \cup {NoListener}]]
    /\ len \in [Relay -> 0..Cap]
    /\ cancelled \in SUBSET Request
    /\ OpOK

\* The spec at position s of w still stands for a listener: it has not been
\* passed by a running removeClientAndListeners.
Live(w, s) ==
    /\ s \in DOMAIN clients[w]
    /\ ~(op.kind = "removeClient" /\ op.ws = w /\ s < op.s)

\* Each live spec points into its relay's slice, at a listener of its own
\* websocket and id: closing a subscription removes that subscription's
\* listener and nobody else's (removeListenerId, listener.go:64-99).
SpecsPointHome ==
    op # Panicked =>
    \A w \in WS : \A s \in DOMAIN clients[w] : Live(w, s) =>
        LET spec == clients[w][s]
        IN  /\ spec.index \in 1..len[spec.subrelay]
            /\ backing[spec.subrelay][spec.index].ws = w
            /\ backing[spec.subrelay][spec.index].id = spec.id

\* No two live specs share a listener, whoever moved what in between.
SpecsDistinct ==
    op # Panicked =>
    \A w1, w2 \in WS : \A s1 \in DOMAIN clients[w1], s2 \in DOMAIN clients[w2] :
        /\ Live(w1, s1) /\ Live(w2, s2)
        /\ clients[w1][s1].index = clients[w2][s2].index
        /\ clients[w1][s1].subrelay = clients[w2][s2].subrelay
        => w1 = w2 /\ s1 = s2

\* Every listener has a live spec of a connected websocket, so nothing is
\* broadcast to a subscription no one can close: no listener leaks.
ListenersOwned ==
    op # Panicked =>
    \A r \in Relay : \A i \in 1..len[r] :
        LET w == backing[r][i].ws
        IN  w \in connected /\ \E s \in DOMAIN clients[w] :
                /\ Live(w, s)
                /\ clients[w][s].index = i
                /\ clients[w][s].subrelay = r

\* The search for the moved listener's spec always finds it; movedSpecs[idx]
\* never indexes at -1 (listener.go:92 and 126).
NoPanic == op # Panicked

\* All of them: in every interleaving of subscribing, closing and leaving,
\* specs and listeners point at each other (listener.go:36-133).
RegistryConsistent == SpecsPointHome /\ SpecsDistinct /\ ListenersOwned /\ NoPanic

-----------------------------------------------------------------------------
(* What the registry promises: module Subscriptions *)

\* The registry seen as a multiset: who is removing what, and how many
\* listeners each (websocket, id, relay, filter) has.
Count == [x \in [ws : WS, id : Id, relay : Relay, filter : Filter] |->
    Cardinality({i \in 1..len[x.relay] :
        backing[x.relay][i] = [ws |-> x.ws, id |-> x.id, filter |-> x.filter]})]

Removing ==
    CASE op.kind = "removeId" -> {<<op.ws, op.id>>}
      [] op.kind = "removeClient" -> {op.ws} \X Id
      [] OTHER -> {}

Abstract == INSTANCE Subscriptions
    WITH online <- connected, count <- Count, removing <- Removing

\* A removal step takes away one listener of the websocket and id it names
\* (or none), and the removal is over when they are all gone; everyone else
\* keeps exactly the listeners it had, although some of them move
\* (listener.go:64-133).
ImplementsSubscriptions == Abstract!SubsSpec

=============================================================================
