--------------------------- MODULE RequestsProofs ---------------------------
(***************************************************************************)
(* Safety of the REQ and CLOSE messages of one connection, for any number  *)
(* of them, of filters, query hooks and events.                            *)
(***************************************************************************)
EXTENDS Requests, FiniteSetTheorems, TLAPS

\* The values of a messageObservation.
Observation == [writeFailed : BOOLEAN, internalError : BOOLEAN]

\* What writeResponse may do, whether the client gets m or not.
LEMMA Writes ==
    ASSUME TypeOK, NEW q \in Req, NEW m \in Envelope, NEW e \in BOOLEAN,
           WriteResponse(q, m, e)
    PROVE  /\ \/ conn = "open" /\ sent' = [sent EXCEPT ![q] = Append(sent[q], m)]
              \/ conn # "open" /\ UNCHANGED sent
           /\ \/ obs' = Observed(q, FALSE, e) /\ lost' = lost
              \/ obs' = Observed(q, TRUE, e) /\ lost' = lost \cup {q}
           /\ sent' \in [Req -> Seq(Envelope)]
           /\ obs' \in [Req -> Observation]
           /\ lost' \in SUBSET Req
  <1>1. sent \in [Req -> Seq(Envelope)] /\ obs \in [Req -> Observation] /\ lost \in SUBSET Req
    BY DEF TypeOK, Observation
  <1>2. ASSUME NEW f \in BOOLEAN
        PROVE  Observed(q, f, e) \in [Req -> Observation]
    BY <1>1 DEF Observed, Observation
  <1>3. CASE Received(q, m) /\ obs' = Observed(q, FALSE, e)
    <2>1. conn = "open" /\ UNCHANGED lost /\ sent' = [sent EXCEPT ![q] = Append(sent[q], m)]
      BY <1>3 DEF Received
    <2>2. Append(sent[q], m) \in Seq(Envelope)
      BY <1>1
    <2>3. sent' \in [Req -> Seq(Envelope)]
      BY <1>1, <2>1, <2>2
    <2> QED
      BY <1>1, <1>2, <1>3, <2>1, <2>3
  <1>4. CASE Swallowed /\ obs' = Observed(q, FALSE, e)
    BY <1>1, <1>2, <1>4 DEF Swallowed
  <1>5. CASE Failed(q) /\ obs' = Observed(q, TRUE, e)
    BY <1>1, <1>2, <1>5 DEF Failed
  <1> QED
    BY <1>3, <1>4, <1>5 DEF WriteResponse

\* The results that are reported are the known ones.
LEMMA ResultRange ==
    ASSUME NEW o, NEW base \in {"ok", "blocked"}
    PROVE  Result(o, base) \in {"ok", "blocked", "error", "write_error"}
  BY DEF Result

\* A filter that is accepted.
LEMMA Accepted ==
    ASSUME TypeOK, NEW q \in Req, FilterAccepted(q)
    PROVE  /\ at' \in [Req -> Nat]
           /\ eose' \in [Req -> Int]
           /\ listeners' \in SUBSET [req : Req, filter : Nat]
  <1>1. at' \in [Req -> Nat] /\ eose' \in [Req -> Int]
    BY DEF FilterAccepted, TypeOK
  <1>2. listeners' \in SUBSET [req : Req, filter : Nat]
    BY DEF FilterAccepted, AddsListener, TypeOK
  <1> QED
    BY <1>1, <1>2

\* At the start everything has its type.
LEMMA InitTyped == Init => TypeOK
  BY FiltersAssumption DEF Init, TypeOK, history

\* Every step keeps the types.
LEMMA NextTyped == TypeOK /\ [Next]_vars => TypeOK'
  <1> SUFFICES ASSUME TypeOK, [Next]_vars PROVE TypeOK'
    OBVIOUS
  <1> USE FiltersAssumption, HooksAssumption
  <1>1. ASSUME NEW q \in Req, ReadReq(q) PROVE TypeOK'
    BY <1>1 DEF ReadReq, answers, TypeOK, history
  <1>2. ASSUME NEW q \in Req, LimitZero(q) PROVE TypeOK'
    <2>1. at' \in [Req -> Nat] /\ eose' \in [Req -> Int] /\ listeners' \in SUBSET [req : Req, filter : Nat]
      BY <1>2, Accepted DEF LimitZero
    <2> QED
      BY <1>2, <2>1 DEF LimitZero, answers, TypeOK
  <1>3. ASSUME NEW q \in Req, RejectFilter(q) PROVE TypeOK'
    <2>1. [kind |-> "CLOSED"] \in Envelope
      BY DEF Envelope
    <2>2. /\ sent' \in [Req -> Seq(Envelope)] /\ lost' \in SUBSET Req
          /\ obs' \in [Req -> Observation]
      BY <1>3, <2>1, Writes DEF RejectFilter
    <2>3. outcome' \in [Req -> {"none", "ok", "blocked", "error", "write_error"}]
      BY <1>3, ResultRange DEF RejectFilter, TypeOK
    <2> QED
      BY <1>3, <2>2, <2>3 DEF RejectFilter, TypeOK, Observation
  <1>4. ASSUME NEW q \in Req, BeginQueries(q) PROVE TypeOK'
    BY <1>4 DEF BeginQueries, answers, TypeOK, history
  <1>5. ASSUME NEW q \in Req, StartLoader(q) PROVE TypeOK'
    BY <1>5 DEF StartLoader, Querying, answers, TypeOK, history, Loader
  <1>6. ASSUME NEW q \in Req, QueryFails(q) PROVE TypeOK'
    <2>1. [kind |-> "NOTICE"] \in Envelope
      BY DEF Envelope
    <2>2. /\ sent' \in [Req -> Seq(Envelope)] /\ lost' \in SUBSET Req
          /\ obs' \in [Req -> Observation]
      BY <1>6, <2>1, Writes DEF QueryFails
    <2>3. eose' \in [Req -> Int] /\ hook' \in [Req -> Nat]
      BY <1>6 DEF QueryFails, TypeOK
    <2> QED
      BY <1>6, <2>2, <2>3 DEF QueryFails, TypeOK, Observation
  <1>7. ASSUME NEW q \in Req, EndQueries(q) PROVE TypeOK'
    <2>1. at' \in [Req -> Nat] /\ eose' \in [Req -> Int] /\ listeners' \in SUBSET [req : Req, filter : Nat]
      BY <1>7, Accepted DEF EndQueries
    <2> QED
      BY <1>7, <2>1 DEF EndQueries, answers, TypeOK, history
  <1>8. ASSUME NEW q \in Req, SendEose(q) PROVE TypeOK'
    <2>1. [kind |-> "EOSE"] \in Envelope
      BY DEF Envelope
    <2>2. /\ sent' \in [Req -> Seq(Envelope)] /\ lost' \in SUBSET Req
          /\ obs' \in [Req -> Observation]
      BY <1>8, <2>1, Writes DEF SendEose
    <2>3. outcome' \in [Req -> {"none", "ok", "blocked", "error", "write_error"}]
      BY <1>8, ResultRange DEF SendEose, TypeOK
    <2> QED
      BY <1>8, <2>2, <2>3 DEF SendEose, TypeOK, Observation
  <1>9. ASSUME NEW q \in Req, LoaderWrites(q) PROVE TypeOK'
    <2>1. PICK l \in loaders[q] : \E e \in l.left :
            /\ WriteResponse(q, [kind |-> "EVENT", event |-> e], FALSE)
            /\ loaders' = [loaders EXCEPT ![q] =
                   (@ \ {l}) \cup {[l EXCEPT !.left = @ \ {e}]}]
      BY <1>9 DEF LoaderWrites
    <2>2. PICK e \in l.left :
            /\ WriteResponse(q, [kind |-> "EVENT", event |-> e], FALSE)
            /\ loaders' = [loaders EXCEPT ![q] =
                   (@ \ {l}) \cup {[l EXCEPT !.left = @ \ {e}]}]
      BY <2>1
    <2>3. l \in Loader /\ e \in Event
      BY DEF TypeOK, Loader
    <2>4. [kind |-> "EVENT", event |-> e] \in Envelope
      BY <2>3 DEF Envelope
    <2>5. /\ sent' \in [Req -> Seq(Envelope)] /\ lost' \in SUBSET Req
          /\ obs' \in [Req -> Observation]
      BY <2>2, <2>4, Writes
    <2>6. [l EXCEPT !.left = @ \ {e}] \in Loader
      BY <2>3 DEF Loader
    <2>7. loaders' \in [Req -> SUBSET Loader]
      BY <2>2, <2>6 DEF TypeOK
    <2> QED
      BY <1>9, <2>5, <2>7 DEF LoaderWrites, TypeOK, Observation
  <1>10. ASSUME NEW q \in Req, LoaderEnds(q) PROVE TypeOK'
    BY <1>10 DEF LoaderEnds, answers, TypeOK, history
  <1>11. ASSUME NEW q \in Req, LoaderBreaks(q) PROVE TypeOK'
    BY <1>11 DEF LoaderBreaks, answers, TypeOK, history
  <1>12. ASSUME NEW c \in Close, ReadClose(c) PROVE TypeOK'
    BY <1>12 DEF ReadClose, goroutines, answers, TypeOK, history
  <1>13. ASSUME NEW c \in Close, RemoveListeners(c) PROVE TypeOK'
    BY <1>13 DEF RemoveListeners, goroutines, answers, TypeOK, history
  <1>14. ASSUME Drop \/ Kill \/ RemoveClient PROVE TypeOK'
    BY <1>14 DEF Drop, Kill, RemoveClient, goroutines, answers, TypeOK, history
  <1>15. ASSUME NEW e \in Event, Store(e) PROVE TypeOK'
    BY <1>15 DEF Store, goroutines, answers, TypeOK, history
  <1>16. ASSUME UNCHANGED vars PROVE TypeOK'
    BY <1>16 DEF vars, goroutines, answers, TypeOK, history
  <1> QED
    BY <1>1, <1>2, <1>3, <1>4, <1>5, <1>6, <1>7, <1>8, <1>9, <1>10, <1>11, <1>12,
       <1>13, <1>14, <1>15, <1>16 DEF Next, ReqStep, LoaderStep

-----------------------------------------------------------------------------
(* What a step leaves of a REQ it is not a step of *)

Same(p) ==
    /\ pc'[p] = pc[p] /\ at'[p] = at[p] /\ hook'[p] = hook[p]
    /\ eose'[p] = eose[p] /\ loaders'[p] = loaders[p]
    /\ sent'[p] = sent[p] /\ obs'[p] = obs[p] /\ outcome'[p] = outcome[p]
    /\ before'[p] = before[p] /\ queried'[p] = queried[p]
    /\ (p \in broken' <=> p \in broken)
    /\ (p \in scanFailed' <=> p \in scanFailed)
    /\ (p \in lost' <=> p \in lost)

\* What writeResponse leaves of the other REQs.
LEMMA WritesOwn ==
    ASSUME TypeOK, NEW q \in Req, NEW m, NEW e, WriteResponse(q, m, e),
           NEW p \in Req, p # q
    PROVE  sent'[p] = sent[p] /\ obs'[p] = obs[p] /\ (p \in lost' <=> p \in lost)
  <1>1. sent'[p] = sent[p]
    BY DEF WriteResponse, Received, Swallowed, Failed, TypeOK
  <1>3. (p \in lost' <=> p \in lost)
    BY DEF WriteResponse, Received, Swallowed, Failed
  <1>2. obs'[p] = obs[p]
    BY DEF WriteResponse, Observed, TypeOK
  <1> QED
    BY <1>1, <1>2, <1>3

\* A REQ changes by its own steps only.
LEMMA OwnSteps ==
    ASSUME TypeOK, [Next]_vars, NEW p \in Req
    PROVE  ReadReq(p) \/ ReqStep(p) \/ LoaderStep(p) \/ Same(p)
  <1>1. CASE \E q \in Req : ReadReq(q) \/ ReqStep(q) \/ LoaderStep(q)
    <2>1. PICK q \in Req : ReadReq(q) \/ ReqStep(q) \/ LoaderStep(q)
      BY <1>1
    <2> SUFFICES ASSUME p # q PROVE Same(p)
      BY <2>1
    <2>2. ASSUME ReadReq(q) PROVE Same(p)
      BY <2>2 DEF ReadReq, answers, Same, TypeOK
    <2>3. ASSUME LimitZero(q) PROVE Same(p)
      BY <2>3 DEF LimitZero, FilterAccepted, answers, Same, TypeOK
    <2>4. ASSUME RejectFilter(q) PROVE Same(p)
      BY <2>4, WritesOwn DEF RejectFilter, Same, TypeOK
    <2>5. ASSUME BeginQueries(q) PROVE Same(p)
      BY <2>5 DEF BeginQueries, answers, Same, TypeOK, history
    <2>6. ASSUME StartLoader(q) PROVE Same(p)
      BY <2>6 DEF StartLoader, answers, Same, TypeOK, history
    <2>7. ASSUME QueryFails(q) PROVE Same(p)
      BY <2>7, WritesOwn DEF QueryFails, Same, TypeOK
    <2>8. ASSUME EndQueries(q) PROVE Same(p)
      BY <2>8 DEF EndQueries, FilterAccepted, answers, Same, TypeOK, history
    <2>9. ASSUME SendEose(q) PROVE Same(p)
      BY <2>9, WritesOwn DEF SendEose, Same, TypeOK
    <2>10. ASSUME LoaderWrites(q) PROVE Same(p)
      <3>1. sent'[p] = sent[p] /\ obs'[p] = obs[p] /\ (p \in lost' <=> p \in lost)
        BY <2>10, WritesOwn DEF LoaderWrites
      <3>2. loaders'[p] = loaders[p]
        BY <2>10 DEF LoaderWrites, TypeOK
      <3> QED
        BY <2>10, <3>1, <3>2 DEF LoaderWrites, Same
    <2>11. ASSUME LoaderEnds(q) PROVE Same(p)
      BY <2>11 DEF LoaderEnds, answers, Same, TypeOK, history
    <2>12. ASSUME LoaderBreaks(q) PROVE Same(p)
      BY <2>12 DEF LoaderBreaks, answers, Same, TypeOK
    <2> QED
      BY <2>1, <2>2, <2>3, <2>4, <2>5, <2>6, <2>7, <2>8, <2>9, <2>10, <2>11, <2>12
         DEF ReqStep, LoaderStep
  <1>2. ASSUME NEW c \in Close, ReadClose(c) \/ RemoveListeners(c) PROVE Same(p)
    BY <1>2 DEF ReadClose, RemoveListeners, goroutines, answers, history, Same
  <1>3. ASSUME Drop \/ Kill \/ RemoveClient PROVE Same(p)
    BY <1>3 DEF Drop, Kill, RemoveClient, goroutines, answers, history, Same
  <1>4. ASSUME NEW e \in Event, Store(e) PROVE Same(p)
    BY <1>4 DEF Store, goroutines, answers, history, Same
  <1>5. ASSUME UNCHANGED vars PROVE Same(p)
    BY <1>5 DEF vars, goroutines, answers, history, Same
  <1> QED
    BY <1>1, <1>2, <1>3, <1>4, <1>5 DEF Next

-----------------------------------------------------------------------------
(* The WaitGroup *)

Placed(q) ==
    /\ at[q] \in 1..Filters[q] + 1
    /\ pc[q] = "unread" => at[q] = 1 /\ loaders[q] = {} /\ sent[q] = <<>>
    /\ pc[q] = "hooks" => at[q] <= Filters[q] /\ hook[q] \in 1..Hooks + 1

\* The loaders of a REQ are those of different queries, which have been made.
Apart(q) ==
    /\ IsFiniteSet(loaders[q])
    /\ \A l, k \in loaders[q] : l.filter = k.filter /\ l.hook = k.hook => l = k
    /\ pc[q] = "filters" => \A l \in loaders[q] : l.filter < at[q]
    /\ pc[q] = "hooks" => \A l \in loaders[q] :
                            l.filter < at[q] \/ (l.filter = at[q] /\ l.hook < hook[q])

Counted(q) ==
    /\ pc[q] = "filters" =>
         eose[q] = Filters[q] - at[q] + 1 + Cardinality(loaders[q])
    /\ pc[q] = "hooks" =>
         eose[q] = Filters[q] - at[q] + 1 + (Hooks - hook[q] + 1) + Cardinality(loaders[q])

Core == TypeOK /\ \A q \in Req : Placed(q) /\ Apart(q) /\ Counted(q)

\* The WaitGroups are right at the start,
LEMMA InitCore == Init => Core
  <1> SUFFICES ASSUME Init PROVE Core
    OBVIOUS
  <1>1. TypeOK
    BY InitTyped
  <1>2. ASSUME NEW q \in Req PROVE Placed(q) /\ Apart(q) /\ Counted(q)
    BY FS_EmptySet, FiltersAssumption DEF Init, Placed, Apart, Counted
  <1> QED
    BY <1>1, <1>2 DEF Core

\* One loader goes.
LEMMA LoaderGone ==
    ASSUME Core, NEW q \in Req, NEW l \in loaders[q],
           loaders' = [loaders EXCEPT ![q] = loaders[q] \ {l}]
    PROVE  /\ loaders'[q] = loaders[q] \ {l}
           /\ IsFiniteSet(loaders'[q])
           /\ Cardinality(loaders[q]) \in Nat
           /\ Cardinality(loaders'[q]) = Cardinality(loaders[q]) - 1
  BY FS_RemoveElement, FS_CardinalityType DEF Core, Apart, TypeOK

\* One loader goes on with an event less.
LEMMA LoaderMoves ==
    ASSUME Core, NEW q \in Req, NEW l \in loaders[q], NEW e,
           loaders' = [loaders EXCEPT ![q] =
               (loaders[q] \ {l}) \cup {[l EXCEPT !.left = l.left \ {e}]}]
    PROVE  /\ IsFiniteSet(loaders'[q])
           /\ Cardinality(loaders'[q]) = Cardinality(loaders[q])
           /\ \A k \in loaders'[q] : \E j \in loaders[q] :
                k.filter = j.filter /\ k.hook = j.hook
           /\ \A k, j \in loaders'[q] : k.filter = j.filter /\ k.hook = j.hook => k = j
  <1> DEFINE m == [l EXCEPT !.left = l.left \ {e}]
             L == loaders[q] \ {l}
  <1>1. l \in Loader /\ loaders[q] \subseteq Loader
    BY DEF Core, TypeOK
  <1>2. m.filter = l.filter /\ m.hook = l.hook
    BY <1>1 DEF Loader
  <1>3. loaders'[q] = L \cup {m}
    BY DEF Core, TypeOK
  <1> HIDE DEF m, L
  <1>4. \A k, j \in loaders[q] : k.filter = j.filter /\ k.hook = j.hook => k = j
    BY DEF Core, Apart
  <1>5. m \notin L
    BY <1>2, <1>4 DEF L
  <1>6. IsFiniteSet(L) /\ Cardinality(L) = Cardinality(loaders[q]) - 1
    BY FS_RemoveElement DEF Core, Apart, L
  <1>7. IsFiniteSet(L \cup {m}) /\ Cardinality(L \cup {m}) = Cardinality(L) + 1
    BY <1>5, <1>6, FS_AddElement
  <1>8. Cardinality(loaders[q]) \in Nat
    BY FS_CardinalityType DEF Core, Apart
  <1>9. /\ IsFiniteSet(loaders'[q])
        /\ Cardinality(loaders'[q]) = Cardinality(loaders[q])
    <2>1. IsFiniteSet(loaders'[q]) /\ Cardinality(loaders'[q]) = Cardinality(L) + 1
      BY <1>3, <1>7, Zenon
    <2> QED
      BY <1>6, <1>8, <2>1
  <1>10. \A k \in loaders'[q] : \E j \in loaders[q] : k.filter = j.filter /\ k.hook = j.hook
    BY <1>2, <1>3 DEF L
  <1>11. ASSUME NEW k \in loaders'[q], NEW j \in loaders'[q], k.filter = j.filter, k.hook = j.hook
         PROVE  k = j
    <2>1. k \in L /\ j \in L => k = j
      BY <1>4, <1>11 DEF L
    <2>2. ~(k \in L /\ j = m) /\ ~(j \in L /\ k = m)
      BY <1>2, <1>4, <1>11 DEF L
    <2> QED
      BY <1>3, <2>1, <2>2
  <1> QED
    BY <1>9, <1>10, <1>11

\* and every step keeps them right.
LEMMA NextCore == Core /\ [Next]_vars => Core'
  <1> SUFFICES ASSUME Core, [Next]_vars, NEW q \in Req
               PROVE  TypeOK' /\ Placed(q)' /\ Apart(q)' /\ Counted(q)'
    BY NextTyped DEF Core
  <1> USE FiltersAssumption, HooksAssumption
  <1>1. TypeOK /\ TypeOK' /\ Placed(q) /\ Apart(q) /\ Counted(q)
    BY NextTyped DEF Core
  <1>2. Filters[q] \in Nat /\ at[q] \in Nat /\ hook[q] \in Nat /\ eose[q] \in Int
    BY <1>1 DEF TypeOK
  <1>3. Cardinality(loaders[q]) \in Nat
    BY <1>1, FS_CardinalityType DEF Apart
  <1>4. ASSUME ReadReq(q) PROVE Placed(q)' /\ Apart(q)' /\ Counted(q)'
    <2>1. /\ pc[q] = "unread" /\ pc'[q] = "filters" /\ at'[q] = at[q] /\ loaders'[q] = loaders[q]
          /\ eose'[q] = Filters[q]
      BY <1>1, <1>4 DEF ReadReq, TypeOK
    <2>2. at[q] = 1 /\ loaders[q] = {} /\ Cardinality(loaders[q]) = 0
      BY <1>1, <2>1, FS_EmptySet DEF Placed
    <2>3. Placed(q)' /\ Apart(q)'
      BY <1>1, <2>1, <2>2 DEF Placed, Apart
    <2>4. Cardinality(loaders'[q]) = 0
      BY <2>1, <2>2, Zenon
    <2>5. Counted(q)'
      BY <1>2, <2>1, <2>2, <2>4 DEF Counted
    <2> QED
      BY <2>3, <2>5
  <1>5. ASSUME LimitZero(q) PROVE Placed(q)' /\ Apart(q)' /\ Counted(q)'
    <2>1. /\ pc[q] = "filters" /\ pc'[q] = "filters" /\ at[q] <= Filters[q] /\ at'[q] = at[q] + 1
          /\ eose'[q] = eose[q] - 1 /\ loaders'[q] = loaders[q]
      BY <1>1, <1>5 DEF LimitZero, Handling, FilterAccepted, TypeOK
    <2>2. Placed(q)' /\ Counted(q)'
      BY <1>1, <1>2, <1>3, <2>1 DEF Placed, Counted
    <2>3. \A l \in loaders[q] : l.filter \in Nat
      BY <1>1 DEF TypeOK, Loader
    <2>4. Apart(q)'
      BY <1>1, <1>2, <2>1, <2>3 DEF Apart
    <2> QED
      BY <2>2, <2>4
  <1>6. ASSUME RejectFilter(q) PROVE Placed(q)' /\ Apart(q)' /\ Counted(q)'
    <2>1. /\ pc'[q] = "done" /\ at'[q] = at[q] /\ loaders'[q] = loaders[q]
      BY <1>1, <1>6 DEF RejectFilter, TypeOK
    <2> QED
      BY <1>1, <2>1 DEF Placed, Apart, Counted
  <1>7. ASSUME BeginQueries(q) PROVE Placed(q)' /\ Apart(q)' /\ Counted(q)'
    <2>1. /\ pc[q] = "filters" /\ pc'[q] = "hooks" /\ at[q] <= Filters[q] /\ at'[q] = at[q]
          /\ eose'[q] = eose[q] + Hooks /\ loaders'[q] = loaders[q] /\ hook'[q] = 1
      BY <1>1, <1>7 DEF BeginQueries, Handling, TypeOK
    <2>2. Placed(q)' /\ Counted(q)'
      BY <1>1, <1>2, <1>3, <2>1 DEF Placed, Counted
    <2>3. Apart(q)'
      BY <1>1, <2>1 DEF Apart
    <2> QED
      BY <2>2, <2>3
  <1>8. ASSUME StartLoader(q) PROVE Placed(q)' /\ Apart(q)' /\ Counted(q)'
    <2> DEFINE m == [filter |-> at[q], hook |-> hook[q], left |-> stored]
    <2>1. /\ pc[q] = "hooks" /\ pc'[q] = "hooks" /\ hook[q] <= Hooks /\ at'[q] = at[q]
          /\ eose'[q] = eose[q] /\ loaders'[q] = loaders[q] \cup {m} /\ hook'[q] = hook[q] + 1
      BY <1>1, <1>8 DEF StartLoader, Querying, TypeOK
    <2>2. m.filter = at[q] /\ m.hook = hook[q]
      OBVIOUS
    <2> HIDE DEF m
    <2>3. \A l \in loaders[q] : l.filter \in Nat /\ l.hook \in Nat
      BY <1>1 DEF TypeOK, Loader
    <2>4. \A l \in loaders[q] : l.filter < at[q] \/ (l.filter = at[q] /\ l.hook < hook[q])
      BY <1>1, <2>1 DEF Apart
    <2>5. \A l \in loaders[q] : ~(l.filter = m.filter /\ l.hook = m.hook)
      BY <1>2, <2>2, <2>3, <2>4
    <2>6. m \notin loaders[q]
      BY <2>5
    <2>7. IsFiniteSet(loaders'[q]) /\ Cardinality(loaders'[q]) = Cardinality(loaders[q]) + 1
      <3>1. /\ IsFiniteSet(loaders[q] \cup {m})
            /\ Cardinality(loaders[q] \cup {m}) = Cardinality(loaders[q]) + 1
        BY <1>1, <2>6, FS_AddElement DEF Apart
      <3> QED
        BY <2>1, <3>1, Zenon
    <2>8. Placed(q)' /\ Counted(q)'
      BY <1>1, <1>2, <1>3, <2>1, <2>7 DEF Placed, Counted
    <2>9. \A l, k \in loaders'[q] : l.filter = k.filter /\ l.hook = k.hook => l = k
      BY <1>1, <2>1, <2>5 DEF Apart
    <2>10. \A l \in loaders'[q] : l.filter < at'[q] \/ (l.filter = at'[q] /\ l.hook < hook'[q])
      BY <1>2, <2>1, <2>2, <2>3, <2>4
    <2> QED
      BY <2>1, <2>7, <2>8, <2>9, <2>10 DEF Apart
  <1>9. ASSUME QueryFails(q) PROVE Placed(q)' /\ Apart(q)' /\ Counted(q)'
    <2>1. /\ pc[q] = "hooks" /\ pc'[q] = "hooks" /\ hook[q] <= Hooks /\ at'[q] = at[q]
          /\ eose'[q] = eose[q] - 1 /\ loaders'[q] = loaders[q] /\ hook'[q] = hook[q] + 1
      BY <1>1, <1>9 DEF QueryFails, Querying, TypeOK
    <2>2. Placed(q)' /\ Counted(q)'
      BY <1>1, <1>2, <1>3, <2>1 DEF Placed, Counted
    <2>3. \A l \in loaders[q] : l.filter \in Nat /\ l.hook \in Nat
      BY <1>1 DEF TypeOK, Loader
    <2>4. Apart(q)'
      BY <1>1, <1>2, <2>1, <2>3 DEF Apart
    <2> QED
      BY <2>2, <2>4
  <1>10. ASSUME EndQueries(q) PROVE Placed(q)' /\ Apart(q)' /\ Counted(q)'
    <2>1. /\ pc[q] = "hooks" /\ pc'[q] = "filters" /\ hook[q] > Hooks /\ at'[q] = at[q] + 1
          /\ eose'[q] = eose[q] - 1 /\ loaders'[q] = loaders[q]
      BY <1>1, <1>10 DEF EndQueries, FilterAccepted, TypeOK
    <2>2. Placed(q)' /\ Counted(q)'
      BY <1>1, <1>2, <1>3, <2>1 DEF Placed, Counted
    <2>3. \A l \in loaders[q] : l.filter \in Nat
      BY <1>1 DEF TypeOK, Loader
    <2>4. Apart(q)'
      BY <1>1, <1>2, <2>1, <2>3 DEF Apart
    <2> QED
      BY <2>2, <2>4
  <1>11. ASSUME SendEose(q) PROVE Placed(q)' /\ Apart(q)' /\ Counted(q)'
    <2>1. /\ pc'[q] = "done" /\ at'[q] = at[q] /\ loaders'[q] = loaders[q]
      BY <1>1, <1>11 DEF SendEose, TypeOK
    <2> QED
      BY <1>1, <2>1 DEF Placed, Apart, Counted
  <1>12. ASSUME LoaderWrites(q) PROVE Placed(q)' /\ Apart(q)' /\ Counted(q)'
    <2>8. PICK l \in loaders[q] : \E e \in l.left :
            loaders' = [loaders EXCEPT ![q] =
                (loaders[q] \ {l}) \cup {[l EXCEPT !.left = l.left \ {e}]}]
      BY <1>12 DEF LoaderWrites
    <2>1. PICK e \in l.left :
            loaders' = [loaders EXCEPT ![q] =
                (loaders[q] \ {l}) \cup {[l EXCEPT !.left = l.left \ {e}]}]
      BY <2>8
    <2>7. /\ IsFiniteSet(loaders'[q])
          /\ Cardinality(loaders'[q]) = Cardinality(loaders[q])
          /\ \A k \in loaders'[q] : \E j \in loaders[q] : k.filter = j.filter /\ k.hook = j.hook
          /\ \A k, j \in loaders'[q] : k.filter = j.filter /\ k.hook = j.hook => k = j
      BY <2>1, LoaderMoves, Zenon
    <2>2. pc' = pc /\ at' = at /\ hook' = hook /\ eose' = eose
      BY <1>12 DEF LoaderWrites
    <2>3. pc[q] # "unread"
      BY <1>1, <2>1 DEF Placed
    <2>4. Placed(q)' /\ Counted(q)'
      <3>1. Placed(q)'
        BY ONLY <1>1, <2>2, <2>3 DEF Placed
      <3>2. Counted(q)'
        BY ONLY <1>1, <2>2, <2>7 DEF Counted
      <3> QED
        BY <3>1, <3>2
    <2>5. /\ IsFiniteSet(loaders'[q])
          /\ \A k \in loaders'[q] : \E j \in loaders[q] : k.filter = j.filter /\ k.hook = j.hook
          /\ \A k, j \in loaders'[q] : k.filter = j.filter /\ k.hook = j.hook => k = j
      BY <2>7
    <2>6. Apart(q)'
      <3>1. pc[q] = "filters" => \A k \in loaders'[q] : k.filter < at[q]
        BY <1>1, <2>5 DEF Apart
      <3>2. pc[q] = "hooks" => \A k \in loaders'[q] :
              k.filter < at[q] \/ (k.filter = at[q] /\ k.hook < hook[q])
        BY <1>1, <2>5 DEF Apart
      <3> QED
        BY <2>2, <2>5, <3>1, <3>2 DEF Apart
    <2> QED
      BY <2>4, <2>6
  <1>13. ASSUME LoaderEnds(q) \/ LoaderBreaks(q) PROVE Placed(q)' /\ Apart(q)' /\ Counted(q)'
    <2>1. PICK l \in loaders[q] : loaders' = [loaders EXCEPT ![q] = loaders[q] \ {l}]
      BY <1>13 DEF LoaderEnds, LoaderBreaks
    <2>2. pc' = pc /\ at' = at /\ hook' = hook /\ eose'[q] = eose[q] - 1
      BY <1>1, <1>13 DEF LoaderEnds, LoaderBreaks, TypeOK
    <2>3. pc[q] # "unread"
      BY <1>1, <2>1 DEF Placed
    <2>4. Placed(q)' /\ Counted(q)'
      <3>1. Cardinality(loaders'[q]) = Cardinality(loaders[q]) - 1
        BY <2>1, LoaderGone
      <3>2. Placed(q)'
        BY <1>1, <2>2, <2>3 DEF Placed
      <3>3. Counted(q)'
        BY <1>1, <1>2, <1>3, <2>2, <3>1 DEF Counted
      <3> QED
        BY <3>2, <3>3
    <2>5. Apart(q)'
      <3>1. loaders'[q] = loaders[q] \ {l} /\ IsFiniteSet(loaders'[q])
        BY <2>1, LoaderGone, Zenon
      <3> QED
        BY ONLY <1>1, <2>2, <3>1 DEF Apart
    <2> QED
      BY <2>4, <2>5
  <1>14. ASSUME Same(q) PROVE Placed(q)' /\ Apart(q)' /\ Counted(q)'
    BY <1>1, <1>14 DEF Same, Placed, Apart, Counted
  <1> QED
    BY <1>1, <1>4, <1>5, <1>6, <1>7, <1>8, <1>9, <1>10, <1>11, <1>12, <1>13, <1>14,
       OwnSteps DEF ReqStep, LoaderStep

\* At the EOSE every filter has been handled and every loader has ended.
LEMMA Drained ==
    ASSUME Core, NEW q \in Req, pc[q] = "filters", at[q] > Filters[q], eose[q] = 0
    PROVE  at[q] = Filters[q] + 1 /\ loaders[q] = {}
  <1>1. Filters[q] \in Nat /\ at[q] \in 1..Filters[q] + 1 /\ Counted(q) /\ IsFiniteSet(loaders[q])
    BY FiltersAssumption DEF Core, Placed, Apart
  <1>2. at[q] = Filters[q] + 1
    BY <1>1
  <1>3. Cardinality(loaders[q]) \in Nat
    BY <1>1, FS_CardinalityType
  <1>4. Cardinality(loaders[q]) = 0
    BY <1>1, <1>2, <1>3 DEF Counted
  <1> QED
    BY <1>1, <1>2, <1>4, FS_EmptySet

-----------------------------------------------------------------------------
(* The answer to a REQ *)

Concluded(q) ==
    /\ pc[q] # "done" <=> outcome[q] = "none"
    /\ pc[q] # "done" => ~Answered(q)
    /\ "EOSE" \in Kinds(sent[q]) => loaders[q] = {} /\ at[q] = Filters[q] + 1
    /\ outcome[q] = "ok" => loaders[q] = {}

LastOf(q) ==
    \A i, j \in DOMAIN sent[q] :
        i < j => sent[q][i].kind # "EOSE" /\ ~(sent[q][i].kind = "CLOSED"
                                              /\ sent[q][j].kind \in {"EOSE", "CLOSED"})

\* What is known of the writes is what will be reported.
Truthful(q) ==
    /\ outcome[q] = "none" /\ q \in lost => obs[q].writeFailed
    /\ outcome[q] = "ok" => q \notin lost /\ ~obs[q].internalError

Answers == Core /\ \A q \in Req : Concluded(q) /\ LastOf(q) /\ Truthful(q)

\* The kinds of a sequence of messages and one more.
LEMMA KindsAppend ==
    ASSUME NEW s \in Seq(Envelope), NEW m \in Envelope
    PROVE  Kinds(Append(s, m)) = Kinds(s) \cup {m.kind}
  <1>1. /\ DOMAIN Append(s, m) = DOMAIN s \cup {Len(s) + 1}
        /\ \A i \in DOMAIN s : Append(s, m)[i] = s[i]
        /\ Append(s, m)[Len(s) + 1] = m
    OBVIOUS
  <1> QED
    BY <1>1 DEF Kinds

\* The message is the next of the REQ, if the client receives it.
LEMMA Grows ==
    ASSUME TypeOK, NEW q \in Req, NEW m \in Envelope, NEW e \in BOOLEAN,
           WriteResponse(q, m, e)
    PROVE  \/ conn # "open" /\ sent'[q] = sent[q]
           \/ /\ conn = "open"
              /\ sent'[q] = Append(sent[q], m)
              /\ Kinds(sent'[q]) = Kinds(sent[q]) \cup {m.kind}
  <1>1. sent[q] \in Seq(Envelope) /\ sent \in [Req -> Seq(Envelope)]
    BY DEF TypeOK
  <1>2. CASE conn = "open" /\ sent' = [sent EXCEPT ![q] = Append(sent[q], m)]
    <2>1. sent'[q] = Append(sent[q], m)
      BY <1>1, <1>2
    <2> QED
      BY <1>1, <1>2, <2>1, KindsAppend
  <1>3. CASE conn # "open" /\ UNCHANGED sent
    BY <1>3
  <1>4. \/ conn = "open" /\ sent' = [sent EXCEPT ![q] = Append(sent[q], m)]
        \/ conn # "open" /\ UNCHANGED sent
    BY Writes, Zenon
  <1> QED
    BY <1>2, <1>3, <1>4, Zenon

\* A message may follow those that were sent, if no EOSE is among them.
LEMMA Follows ==
    ASSUME TypeOK, NEW q \in Req, NEW m \in Envelope, LastOf(q),
           "EOSE" \notin Kinds(sent[q]),
           m.kind \in {"EOSE", "CLOSED"} => ~Answered(q),
           sent'[q] = sent[q] \/ sent'[q] = Append(sent[q], m)
    PROVE  LastOf(q)'
  <1>1. sent[q] \in Seq(Envelope)
    BY DEF TypeOK
  <1>2. CASE sent'[q] = sent[q]
    BY <1>2 DEF LastOf
  <1>3. CASE sent'[q] = Append(sent[q], m)
    <2>1. /\ DOMAIN sent'[q] = 1..Len(sent[q]) + 1 /\ DOMAIN sent[q] = 1..Len(sent[q])
          /\ Len(sent[q]) \in Nat
          /\ \A i \in 1..Len(sent[q]) : sent'[q][i] = sent[q][i]
          /\ sent'[q][Len(sent[q]) + 1] = m
      BY <1>1, <1>3
    <2> SUFFICES ASSUME NEW i \in DOMAIN sent'[q], NEW j \in DOMAIN sent'[q], i < j
                 PROVE  /\ sent'[q][i].kind # "EOSE"
                        /\ ~(sent'[q][i].kind = "CLOSED" /\ sent'[q][j].kind \in {"EOSE", "CLOSED"})
      BY DEF LastOf
    <2>2. i \in DOMAIN sent[q] /\ sent'[q][i] = sent[q][i] /\ sent[q][i].kind \in Kinds(sent[q])
      BY <2>1 DEF Kinds
    <2>3. CASE j \in DOMAIN sent[q]
      BY <2>1, <2>2, <2>3 DEF LastOf
    <2>4. CASE j = Len(sent[q]) + 1
      BY <2>1, <2>2, <2>4 DEF Answered
    <2> QED
      BY <2>1, <2>3, <2>4
  <1> QED
    BY <1>2, <1>3

\* What a write leaves in the observation of its REQ.
LEMMA Notes ==
    ASSUME TypeOK, NEW q \in Req, NEW m \in Envelope, NEW e \in BOOLEAN,
           WriteResponse(q, m, e)
    PROVE  /\ outcome[q] = "none" /\ (q \in lost => obs[q].writeFailed)
                => (q \in lost' => obs'[q].writeFailed)
           /\ obs[q].internalError => obs'[q].internalError
           /\ outcome[q] = "none" /\ e => obs'[q].internalError
  <1>1. obs \in [Req -> Observation]
    BY DEF TypeOK, Observation
  <1>2. ASSUME NEW f \in BOOLEAN, obs' = Observed(q, f, e)
        PROVE  /\ outcome[q] = "none" /\ f => obs'[q].writeFailed
               /\ outcome[q] = "none" /\ obs[q].writeFailed => obs'[q].writeFailed
               /\ obs[q].internalError => obs'[q].internalError
               /\ outcome[q] = "none" /\ e => obs'[q].internalError
    <2>1. CASE outcome[q] # "none"
      BY <1>1, <1>2, <2>1 DEF Observed
    <2>2. CASE outcome[q] = "none"
      <3> DEFINE wf == obs[q].writeFailed \/ f
                 ie == obs[q].internalError \/ e
      <3>1. obs'[q] = [writeFailed |-> wf, internalError |-> ie]
        BY <1>1, <1>2, <2>2 DEF Observed
      <3>2. (obs[q].writeFailed \/ f => wf) /\ (obs[q].internalError \/ e => ie)
        OBVIOUS
      <3> HIDE DEF wf, ie
      <3>3. obs'[q].writeFailed = wf /\ obs'[q].internalError = ie
        BY <3>1
      <3> QED
        BY <3>2, <3>3, Zenon
    <2> QED
      BY <2>1, <2>2
  <1>3. CASE obs' = Observed(q, FALSE, e) /\ lost' = lost
    BY <1>2, <1>3
  <1>4. CASE obs' = Observed(q, TRUE, e) /\ lost' = lost \cup {q}
    BY <1>2, <1>4
  <1>5. \/ obs' = Observed(q, FALSE, e) /\ lost' = lost
        \/ obs' = Observed(q, TRUE, e) /\ lost' = lost \cup {q}
    BY Writes, Zenon
  <1> QED
    BY <1>3, <1>4, <1>5

\* Nothing is answered at the start,
LEMMA InitAnswers == Init => Answers
  <1> SUFFICES ASSUME Init, NEW q \in Req PROVE Concluded(q) /\ LastOf(q) /\ Truthful(q)
    BY InitCore DEF Answers
  <1>1. /\ pc[q] = "unread" /\ sent[q] = <<>> /\ outcome[q] = "none" /\ lost = {} /\ loaders[q] = {}
    BY DEF Init
  <1>2. Kinds(sent[q]) = {} /\ DOMAIN sent[q] = {}
    BY <1>1 DEF Kinds
  <1> QED
    BY <1>1, <1>2 DEF Concluded, LastOf, Truthful, Answered

\* and every step keeps the answers in order and the results true.
LEMMA NextAnswers == Answers /\ [Next]_vars => Answers'
  <1> SUFFICES ASSUME Answers, [Next]_vars, NEW q \in Req
               PROVE  Concluded(q)' /\ LastOf(q)' /\ Truthful(q)'
    BY NextCore DEF Answers
  <1>1. TypeOK /\ TypeOK' /\ Core /\ Placed(q) /\ Concluded(q) /\ LastOf(q) /\ Truthful(q)
    BY NextCore DEF Answers, Core
  <1> DEFINE Silent == /\ sent'[q] = sent[q] /\ obs'[q] = obs[q] /\ outcome'[q] = outcome[q]
                       /\ (q \in lost' <=> q \in lost)
  <1>2. ASSUME Silent, pc[q] # "done", pc'[q] # "done"
        PROVE  Concluded(q)' /\ LastOf(q)' /\ Truthful(q)'
    BY <1>1, <1>2 DEF Concluded, LastOf, Truthful, Answered, Kinds
  <1>3. ASSUME ReadReq(q) PROVE Silent /\ pc[q] # "done" /\ pc'[q] # "done"
    BY <1>1, <1>3 DEF ReadReq, answers, TypeOK
  <1>4. ASSUME LimitZero(q) PROVE Silent /\ pc[q] # "done" /\ pc'[q] # "done"
    BY <1>1, <1>4 DEF LimitZero, Handling, answers
  <1>5. ASSUME BeginQueries(q) PROVE Silent /\ pc[q] # "done" /\ pc'[q] # "done"
    BY <1>1, <1>5 DEF BeginQueries, Handling, answers, history, TypeOK
  <1>6. ASSUME StartLoader(q) PROVE Silent /\ pc[q] # "done" /\ pc'[q] # "done"
    BY <1>1, <1>6 DEF StartLoader, Querying, answers, history
  <1>7. ASSUME EndQueries(q) PROVE Silent /\ pc[q] # "done" /\ pc'[q] # "done"
    BY <1>1, <1>7 DEF EndQueries, answers, history, TypeOK
  <1>8. ASSUME RejectFilter(q) PROVE Concluded(q)' /\ LastOf(q)' /\ Truthful(q)'
    <2> DEFINE m == [kind |-> "CLOSED"]
    <2>1. m \in Envelope /\ m.kind = "CLOSED"
      BY DEF Envelope
    <2>2. WriteResponse(q, m, FALSE)
      BY <1>8 DEF RejectFilter
    <2>3. pc[q] = "filters" /\ pc'[q] = "done" /\ outcome'[q] = "blocked"
      BY <1>1, <1>8 DEF RejectFilter, Handling, Result, TypeOK
    <2>4. ~Answered(q) /\ "EOSE" \notin Kinds(sent[q])
      BY <1>1, <2>3 DEF Concluded, Answered
    <2> HIDE DEF m
    <2>5. LastOf(q)'
      BY <1>1, <2>1, <2>2, <2>4, Grows, Follows
    <2>6. "EOSE" \notin Kinds(sent'[q])
      <3>1. sent'[q] = sent[q] \/ Kinds(sent'[q]) = Kinds(sent[q]) \cup {m.kind}
        BY <1>1, <2>1, <2>2, Grows
      <3>2. CASE sent'[q] = sent[q]
        BY <2>4, <3>2 DEF Kinds
      <3> QED
        BY <2>1, <2>4, <3>1, <3>2
    <2> QED
      BY <2>3, <2>5, <2>6 DEF Concluded, Truthful
  <1>9. ASSUME SendEose(q) PROVE Concluded(q)' /\ LastOf(q)' /\ Truthful(q)'
    <2> DEFINE m == [kind |-> "EOSE"]
    <2>1. m \in Envelope /\ m.kind = "EOSE"
      BY DEF Envelope
    <2>2. WriteResponse(q, m, FALSE)
      BY <1>9 DEF SendEose
    <2>3. /\ pc[q] = "filters" /\ pc'[q] = "done" /\ outcome'[q] = Result(obs'[q], "ok")
          /\ at'[q] = at[q] /\ loaders'[q] = loaders[q]
      BY <1>1, <1>9 DEF SendEose, TypeOK
    <2>4. outcome[q] = "none" /\ ~Answered(q) /\ "EOSE" \notin Kinds(sent[q])
      BY <1>1, <2>3 DEF Concluded, Answered
    <2>5. at[q] = Filters[q] + 1 /\ loaders[q] = {}
      BY <1>1, <1>9, Drained DEF SendEose
    <2> HIDE DEF m
    <2>6. LastOf(q)'
      BY <1>1, <2>1, <2>2, <2>4, Grows, Follows
    <2>7. q \in lost' => obs'[q].writeFailed
      BY <1>1, <2>1, <2>2, <2>4, Notes DEF Truthful
    <2>8. /\ outcome'[q] # "none"
          /\ outcome'[q] = "ok" => ~obs'[q].writeFailed /\ ~obs'[q].internalError
      BY <2>3 DEF Result
    <2> QED
      BY <2>3, <2>5, <2>6, <2>7, <2>8 DEF Concluded, Truthful
  <1>10. ASSUME QueryFails(q) PROVE Concluded(q)' /\ LastOf(q)' /\ Truthful(q)'
    <2> DEFINE m == [kind |-> "NOTICE"]
    <2>1. m \in Envelope /\ m.kind = "NOTICE"
      BY DEF Envelope
    <2>2. WriteResponse(q, m, TRUE)
      BY <1>10 DEF QueryFails
    <2>3. pc[q] = "hooks" /\ pc'[q] = "hooks" /\ outcome'[q] = outcome[q]
      BY <1>1, <1>10 DEF QueryFails, Querying
    <2>4. outcome[q] = "none" /\ ~Answered(q) /\ "EOSE" \notin Kinds(sent[q])
      BY <1>1, <2>3 DEF Concluded, Answered
    <2> HIDE DEF m
    <2>5. LastOf(q)' /\ Kinds(sent'[q]) \cap {"EOSE", "CLOSED"} = {}
      BY <1>1, <2>1, <2>2, <2>4, Grows, Follows DEF Answered
    <2>6. q \in lost' => obs'[q].writeFailed
      BY <1>1, <2>1, <2>2, <2>4, Notes DEF Truthful
    <2> QED
      BY <2>3, <2>4, <2>5, <2>6 DEF Concluded, Truthful, Answered
  <1>11. ASSUME LoaderWrites(q) PROVE Concluded(q)' /\ LastOf(q)' /\ Truthful(q)'
    <2>1. PICK l \in loaders[q] : \E e \in l.left : WriteResponse(q, [kind |-> "EVENT", event |-> e], FALSE)
      BY <1>11 DEF LoaderWrites
    <2>2. PICK e \in l.left : WriteResponse(q, [kind |-> "EVENT", event |-> e], FALSE)
      BY <2>1
    <2> DEFINE m == [kind |-> "EVENT", event |-> e]
    <2>3. m \in Envelope /\ m.kind = "EVENT"
      BY <1>1 DEF Envelope, TypeOK, Loader
    <2>4. pc' = pc /\ outcome' = outcome
      BY <1>11 DEF LoaderWrites
    <2>5. "EOSE" \notin Kinds(sent[q]) /\ outcome[q] # "ok"
      BY <1>1, <2>1 DEF Concluded
    <2>6. WriteResponse(q, m, FALSE)
      BY <2>2
    <2> HIDE DEF m
    <2>7. /\ LastOf(q)' /\ "EOSE" \notin Kinds(sent'[q])
          /\ pc[q] # "done" => Kinds(sent'[q]) \cap {"EOSE", "CLOSED"} = {}
      BY <1>1, <2>3, <2>5, <2>6, Grows, Follows DEF Answered, Concluded
    <2>8. outcome[q] = "none" => (q \in lost' => obs'[q].writeFailed)
      BY <1>1, <2>3, <2>6, Notes DEF Truthful
    <2>9. Concluded(q)'
      BY <1>1, <2>4, <2>5, <2>7 DEF Concluded, Answered
    <2>10. Truthful(q)'
      BY <2>4, <2>5, <2>8 DEF Truthful
    <2> QED
      BY <2>7, <2>9, <2>10
  <1>12. ASSUME LoaderEnds(q) \/ LoaderBreaks(q) PROVE Concluded(q)' /\ LastOf(q)' /\ Truthful(q)'
    <2>1. /\ Silent /\ pc' = pc /\ at' = at
      BY <1>12 DEF LoaderEnds, LoaderBreaks, answers, history
    <2>2. loaders[q] # {}
      BY <1>12 DEF LoaderEnds, LoaderBreaks
    <2>3. "EOSE" \notin Kinds(sent[q]) /\ outcome[q] # "ok"
      BY <1>1, <2>2 DEF Concluded
    <2>4. Kinds(sent'[q]) = Kinds(sent[q])
      BY <2>1 DEF Kinds
    <2> QED
      BY <1>1, <2>1, <2>3, <2>4 DEF Concluded, LastOf, Truthful, Answered
  <1>13. ASSUME Same(q) PROVE Concluded(q)' /\ LastOf(q)' /\ Truthful(q)'
    BY <1>1, <1>13 DEF Same, Concluded, LastOf, Truthful, Answered, Kinds
  <1> HIDE DEF Silent
  <1>14. ASSUME ReadReq(q) \/ LimitZero(q) \/ BeginQueries(q) \/ StartLoader(q) \/ EndQueries(q)
         PROVE  Concluded(q)' /\ LastOf(q)' /\ Truthful(q)'
    BY <1>2, <1>3, <1>4, <1>5, <1>6, <1>7, <1>14
  <1> QED
    BY <1>1, <1>8, <1>9, <1>10, <1>11, <1>12, <1>13, <1>14, OwnSteps DEF ReqStep, LoaderStep

-----------------------------------------------------------------------------
(* The listeners *)

\* Every filter handled has its listener, unless somebody took it away.
Subscribed(q) ==
    /\ \A c \in Close : closing[c] = "done" => IdOf[c] # IdOf[q]
    /\ conn # "gone"
    => \A k \in 1..at[q] - 1 : [req |-> q, filter |-> k] \in listeners

\* What was answered when the CLOSE was read, does not add a listener any more.
Closed(c) ==
    /\ \A q \in answered[c] : pc[q] = "done" /\ IdOf[q] = IdOf[c]
    /\ closing[c] = "done" => \A l \in listeners : l.req \notin answered[c]

Listening ==
    /\ \A q \in Req : Subscribed(q)
    /\ \A c \in Close : Closed(c)
    /\ GoneIsClean

\* A step that is none of the registry's.
Quiet ==
    /\ listeners' = listeners /\ closing' = closing /\ answered' = answered
    /\ at' = at
    /\ conn' = conn \/ (conn # "gone" /\ conn' # "gone")
    /\ \A q \in Req : pc[q] = "done" => pc'[q] = "done"

Accepts(q) ==
    /\ closing' = closing /\ answered' = answered /\ conn' = conn
    /\ at' = [at EXCEPT ![q] = at[q] + 1]
    /\ AddsListener(q)
    /\ pc[q] # "done"
    /\ \A p \in Req : pc[p] = "done" => pc'[p] = "done"

\* The steps as the registry sees them.
LEMMA RegistrySteps ==
    ASSUME TypeOK, [Next]_vars
    PROVE  \/ Quiet
           \/ \E q \in Req : Accepts(q)
           \/ \E c \in Close : ReadClose(c) \/ RemoveListeners(c)
           \/ RemoveClient
  <1>1. ASSUME NEW q \in Req, LimitZero(q) \/ EndQueries(q) PROVE Accepts(q)
    <2>1. /\ closing' = closing /\ answered' = answered /\ conn' = conn
          /\ FilterAccepted(q) /\ pc[q] # "done"
          /\ pc' = pc \/ pc' = [pc EXCEPT ![q] = "filters"]
      BY <1>1 DEF LimitZero, EndQueries, Handling, history
    <2>2. \A p \in Req : pc[p] = "done" => pc'[p] = "done"
      BY <2>1 DEF TypeOK
    <2> QED
      BY <2>1, <2>2 DEF Accepts, FilterAccepted
  <1>2. ASSUME NEW q \in Req, ReadReq(q) PROVE Quiet
    BY <1>2 DEF ReadReq, Quiet, TypeOK
  <1>3. ASSUME NEW q \in Req, BeginQueries(q) PROVE Quiet
    BY <1>3 DEF BeginQueries, Handling, history, Quiet, TypeOK
  <1>4. ASSUME NEW q \in Req, RejectFilter(q) \/ SendEose(q) PROVE Quiet
    BY <1>4 DEF RejectFilter, SendEose, Quiet, TypeOK
  <1>5. ASSUME NEW q \in Req, StartLoader(q) \/ QueryFails(q) \/ LoaderStep(q) PROVE Quiet
    BY <1>5 DEF StartLoader, QueryFails, LoaderStep, LoaderWrites, LoaderEnds, LoaderBreaks,
                history, Quiet
  <1>6. ASSUME Drop \/ Kill PROVE Quiet
    BY <1>6 DEF Drop, Kill, goroutines, history, Quiet
  <1>7. ASSUME NEW e \in Event, Store(e) PROVE Quiet
    BY <1>7 DEF Store, goroutines, history, Quiet
  <1>8. ASSUME UNCHANGED vars PROVE Quiet
    BY <1>8 DEF vars, goroutines, history, Quiet
  <1> QED
    BY <1>1, <1>2, <1>3, <1>4, <1>5, <1>6, <1>7, <1>8 DEF Next, ReqStep

\* No listener is missing at the start, none is left over,
LEMMA InitListening == Init => Listening
  BY DEF Init, Listening, Subscribed, Closed, GoneIsClean

\* and no step makes it so.
LEMMA NextListening == Answers /\ Listening /\ [Next]_vars => Listening'
  <1> SUFFICES ASSUME Answers, Listening, [Next]_vars PROVE Listening'
    OBVIOUS
  <1>1. /\ TypeOK /\ GoneIsClean
        /\ \A q \in Req : Subscribed(q) /\ Concluded(q) /\ at[q] \in Nat
        /\ \A c \in Close : Closed(c)
    BY DEF Answers, Core, Listening, TypeOK
  <1>2. CASE Quiet
    BY <1>1, <1>2 DEF Quiet, TypeOK, Listening, Subscribed, Closed, GoneIsClean
  <1>3. ASSUME NEW q \in Req, Accepts(q) PROVE Listening'
    <2>1. /\ closing' = closing /\ answered' = answered /\ conn' = conn
          /\ at'[q] = at[q] + 1 /\ \A p \in Req : p # q => at'[p] = at[p]
          /\ conn = "gone" => listeners' = listeners
          /\ conn # "gone" => listeners' = listeners \cup {[req |-> q, filter |-> at[q]]}
          /\ pc[q] # "done" /\ \A p \in Req : pc[p] = "done" => pc'[p] = "done"
      BY <1>1, <1>3 DEF Accepts, AddsListener, TypeOK
    <2>2. ASSUME NEW p \in Req PROVE Subscribed(p)'
      BY <1>1, <2>1 DEF Subscribed
    <2>3. ASSUME NEW c \in Close PROVE Closed(c)'
      BY <1>1, <2>1 DEF Closed, TypeOK
    <2> QED
      BY <1>1, <2>1, <2>2, <2>3 DEF Listening, GoneIsClean
  <1>4. ASSUME NEW c \in Close, ReadClose(c) PROVE Listening'
    <2>1. /\ conn' = conn /\ conn # "gone" /\ listeners' = listeners /\ at' = at /\ pc' = pc
          /\ closing'[c] = "started" /\ closing[c] = "unread"
          /\ \A d \in Close : d # c => closing'[d] = closing[d] /\ answered'[d] = answered[d]
          /\ answered'[c] = {q \in Req : IdOf[q] = IdOf[c] /\ Answered(q)}
      BY <1>1, <1>4 DEF ReadClose, goroutines, TypeOK
    <2>2. ASSUME NEW p \in Req PROVE Subscribed(p)'
      BY <1>1, <2>1 DEF Subscribed
    <2>3. ASSUME NEW d \in Close PROVE Closed(d)'
      BY <1>1, <2>1 DEF Closed, Concluded
    <2> QED
      BY <1>1, <2>1, <2>2, <2>3 DEF Listening, GoneIsClean
  <1>5. ASSUME NEW c \in Close, RemoveListeners(c) PROVE Listening'
    <2>1. /\ conn' = conn /\ at' = at /\ pc' = pc /\ answered' = answered
          /\ closing'[c] = "done" /\ \A d \in Close : d # c => closing'[d] = closing[d]
          /\ listeners' = {l \in listeners : IdOf[l.req] # IdOf[c]}
      BY <1>1, <1>5 DEF RemoveListeners, goroutines, history, TypeOK
    <2>2. ASSUME NEW p \in Req PROVE Subscribed(p)'
      BY <1>1, <2>1 DEF Subscribed
    <2>3. ASSUME NEW d \in Close PROVE Closed(d)'
      BY <1>1, <2>1 DEF Closed
    <2> QED
      BY <1>1, <2>1, <2>2, <2>3 DEF Listening, GoneIsClean
  <1>6. CASE RemoveClient
    <2>1. conn' = "gone" /\ listeners' = {} /\ answered' = answered /\ pc' = pc
      BY <1>6 DEF RemoveClient, goroutines, history
    <2> QED
      BY <1>1, <2>1 DEF Listening, Subscribed, Closed, GoneIsClean
  <1> QED
    BY <1>1, <1>2, <1>3, <1>4, <1>5, <1>6, RegistrySteps

-----------------------------------------------------------------------------
(* The stored events *)

IsSent(q, m) == \E i \in DOMAIN sent[q] : sent[q][i] = m
StoredEvent(e) == [kind |-> "EVENT", event |-> e]

\* No query of the REQ has been made.
Ahead(q) == at[q] = 1 /\ (pc[q] = "filters" \/ (pc[q] = "hooks" /\ hook[q] = 1))

Unharmed(q) ==
    queried[q] /\ Filters[q] > 0 /\ Hooks > 0 /\ ~obs[q].internalError /\ q \notin broken

\* An event that was stored when the REQ was read has been sent, or waits in a
\* loader, or will be found by the first query.
Pending(q, e) ==
    IsSent(q, StoredEvent(e)) \/ (\E l \in loaders[q] : e \in l.left) \/ Ahead(q)

Complete(q) ==
    /\ before[q] \subseteq stored
    /\ pc[q] \in {"filters", "hooks"} /\ conn = "open" /\ Unharmed(q) =>
         \A e \in before[q] : Pending(q, e)
    /\ "EOSE" \in Kinds(sent[q]) /\ Unharmed(q) =>
         \A e \in before[q] : IsSent(q, StoredEvent(e))

Loading == \A q \in Req : Complete(q)

\* Events are not deleted here, and a connection does not come back.
LEMMA OneWay ==
    ASSUME TypeOK, [Next]_vars
    PROVE  stored \subseteq stored' /\ (conn' = "open" => conn = "open")
  <1>1. ASSUME NEW q \in Req, ReadReq(q) \/ ReqStep(q) \/ LoaderStep(q)
        PROVE  stored' = stored /\ conn' = conn
    BY <1>1 DEF ReadReq, ReqStep, LoaderStep, LimitZero, RejectFilter, BeginQueries, StartLoader,
                QueryFails, EndQueries, SendEose, LoaderWrites, LoaderEnds, LoaderBreaks
  <1> QED
    BY <1>1 DEF Next, ReadClose, RemoveListeners, Drop, Kill, RemoveClient, Store, vars

\* A write takes nothing back, and the client receives it if it is there.
LEMMA Sends ==
    ASSUME TypeOK, NEW q \in Req, NEW m \in Envelope, NEW e \in BOOLEAN,
           WriteResponse(q, m, e)
    PROVE  /\ \A x : IsSent(q, x) => IsSent(q, x)'
           /\ conn = "open" => IsSent(q, m)'
  <1>1. sent[q] \in Seq(Envelope)
    BY DEF TypeOK
  <1>2. CASE sent'[q] = sent[q] /\ conn # "open"
    BY <1>2 DEF IsSent
  <1>3. CASE sent'[q] = Append(sent[q], m)
    <2>1. /\ DOMAIN sent'[q] = DOMAIN sent[q] \cup {Len(sent[q]) + 1}
          /\ \A i \in DOMAIN sent[q] : sent'[q][i] = sent[q][i]
          /\ sent'[q][Len(sent[q]) + 1] = m
      BY <1>1, <1>3
    <2> QED
      BY <2>1 DEF IsSent
  <1> QED
    BY <1>2, <1>3, Grows

\* No stored event is missing at the start,
LEMMA InitLoading == Init => Loading
  <1> SUFFICES ASSUME Init, NEW q \in Req PROVE Complete(q)
    BY DEF Loading
  <1>1. pc[q] = "unread" /\ sent[q] = <<>> /\ before[q] = {}
    BY DEF Init
  <1>2. Kinds(sent[q]) = {}
    BY <1>1 DEF Kinds
  <1> QED
    BY <1>1, <1>2 DEF Complete

\* and none gets lost on its way to the client.
LEMMA NextLoading == Answers /\ Loading /\ [Next]_vars => Loading'
  <1> SUFFICES ASSUME Answers, Loading, [Next]_vars, NEW q \in Req PROVE Complete(q)'
    BY DEF Loading
  <1> USE FiltersAssumption, HooksAssumption
  <1>1. /\ TypeOK /\ TypeOK' /\ Core /\ Placed(q) /\ Concluded(q) /\ Complete(q)
        /\ Concluded(q)' /\ stored \subseteq stored' /\ (conn' = "open" => conn = "open")
    BY NextAnswers, OneWay DEF Answers, Core, Loading
  <1>2. ASSUME "EOSE" \notin Kinds(sent[q])', before'[q] = before[q],
               \/ pc'[q] = "done" \/ conn' # "open" \/ ~Unharmed(q)'
               \/ \A e \in before[q] : Pending(q, e)'
        PROVE  Complete(q)'
    BY <1>1, <1>2 DEF Complete
  <1>3. ASSUME pc'[q] # "done" PROVE "EOSE" \notin Kinds(sent[q])'
    BY <1>1, <1>3 DEF Concluded, Answered
  <1>4. ASSUME ReadReq(q) PROVE Complete(q)'
    <2>1. /\ pc[q] = "unread" /\ pc'[q] = "filters" /\ at'[q] = at[q] /\ before'[q] = stored
          /\ stored' = stored
      BY <1>1, <1>4 DEF ReadReq, TypeOK
    <2>2. Ahead(q)'
      BY <1>1, <2>1 DEF Placed, Ahead
    <2>3. "EOSE" \notin Kinds(sent[q])'
      BY <1>3, <2>1
    <2> QED
      BY <2>1, <2>2, <2>3 DEF Complete, Pending
  <1>5. ASSUME LimitZero(q) PROVE Complete(q)'
    <2>1. pc'[q] # "done" /\ before' = before /\ ~queried'[q]
      BY <1>1, <1>5 DEF LimitZero, Handling, TypeOK
    <2> QED
      BY <1>2, <1>3, <2>1 DEF Unharmed
  <1>6. ASSUME RejectFilter(q) PROVE Complete(q)'
    <2>1. pc[q] = "filters" /\ pc'[q] = "done" /\ before' = before
      BY <1>1, <1>6 DEF RejectFilter, Handling, TypeOK
    <2>2. at[q] <= Filters[q] /\ at'[q] = at[q]
      BY <1>6 DEF RejectFilter, Handling
    <2>3. Filters[q] \in Nat /\ at[q] \in Nat
      BY <1>1 DEF TypeOK
    <2>4. "EOSE" \notin Kinds(sent[q])'
      BY <1>1, <2>2, <2>3 DEF Concluded
    <2> QED
      BY <1>2, <2>1, <2>4
  <1>7. ASSUME BeginQueries(q) \/ StartLoader(q) \/ EndQueries(q) PROVE Complete(q)'
    <2>1. /\ pc[q] \in {"filters", "hooks"} /\ pc'[q] # "done" /\ sent' = sent /\ before' = before
          /\ conn' = conn /\ obs' = obs /\ queried' = queried /\ broken' = broken
      BY <1>1, <1>7 DEF BeginQueries, StartLoader, EndQueries, Handling, Querying, answers, history, TypeOK
    <2> SUFFICES ASSUME conn = "open", Unharmed(q), NEW e \in before[q], Pending(q, e)
                 PROVE  Pending(q, e)'
      <3>1. conn' # "open" \/ ~Unharmed(q)' \/ \A e \in before[q] : Pending(q, e)'
        BY <1>1, <2>1 DEF Complete, Unharmed
      <3> QED
        BY <1>2, <1>3, <2>1, <3>1
    <2>2. CASE IsSent(q, StoredEvent(e))
      BY <2>1, <2>2 DEF Pending, IsSent, StoredEvent
    <2>3. ASSUME NEW l \in loaders[q], e \in l.left PROVE Pending(q, e)'
      <3>1. l \in loaders'[q]
        BY <1>1, <1>7 DEF BeginQueries, StartLoader, EndQueries, TypeOK
      <3> QED
        BY <2>3, <3>1 DEF Pending
    <2>4. CASE Ahead(q)
      <3>1. CASE BeginQueries(q)
        BY <1>1, <2>4, <3>1 DEF BeginQueries, Ahead, Pending, TypeOK
      <3>2. CASE StartLoader(q)
        <4>1. [filter |-> at[q], hook |-> hook[q], left |-> stored] \in loaders'[q]
          BY <1>1, <3>2 DEF StartLoader, TypeOK
        <4>2. e \in stored
          BY <1>1 DEF Complete
        <4> QED
          BY <4>1, <4>2 DEF Pending
      <3>3. CASE EndQueries(q)
        BY <1>1, <2>4, <3>3 DEF EndQueries, Ahead, Unharmed
      <3> QED
        BY <1>7, <3>1, <3>2, <3>3
    <2> QED
      BY <2>2, <2>3, <2>4 DEF Pending
  <1>8. ASSUME QueryFails(q) PROVE Complete(q)'
    <2>1. pc[q] = "hooks" /\ pc' = pc /\ before' = before /\ WriteResponse(q, [kind |-> "NOTICE"], TRUE)
      BY <1>8 DEF QueryFails, Querying
    <2>2. [kind |-> "NOTICE"] \in Envelope /\ outcome[q] = "none"
      BY <1>1, <2>1 DEF Envelope, Concluded
    <2>3. obs'[q].internalError
      BY <1>1, <2>1, <2>2, Notes
    <2> QED
      BY <1>2, <1>3, <2>1, <2>3 DEF Unharmed
  <1>9. ASSUME SendEose(q) PROVE Complete(q)'
    <2> DEFINE m == [kind |-> "EOSE"]
    <2>1. m \in Envelope
      BY DEF Envelope
    <2>2. WriteResponse(q, m, FALSE)
      BY <1>9 DEF SendEose
    <2>3. /\ pc[q] = "filters" /\ pc'[q] = "done" /\ before' = before /\ stored' = stored
          /\ queried' = queried /\ broken' = broken
      BY <1>1, <1>9 DEF SendEose, TypeOK
    <2>4. at[q] = Filters[q] + 1 /\ loaders[q] = {}
      BY <1>1, <1>9, Drained DEF SendEose
    <2>5. "EOSE" \notin Kinds(sent[q])
      BY <1>1, <2>3 DEF Concluded, Answered
    <2>6. obs[q].internalError => obs'[q].internalError
      BY <1>1, <2>1, <2>2, Notes
    <2> HIDE DEF m
    <2>7. CASE conn # "open"
      <3>1. sent'[q] = sent[q]
        BY <1>1, <2>1, <2>2, <2>7, Grows
      <3>2. Kinds(sent[q])' = Kinds(sent[q])
        BY <3>1 DEF Kinds
      <3> QED
        BY <1>2, <2>3, <2>5, <3>2
    <2>8. CASE conn = "open"
      <3> SUFFICES ASSUME Unharmed(q)', NEW e \in before[q] PROVE IsSent(q, StoredEvent(e))'
        BY <1>1, <2>3 DEF Complete
      <3>1. Unharmed(q)
        BY <2>3, <2>6 DEF Unharmed
      <3>2. Pending(q, e)
        BY <1>1, <2>3, <2>8, <3>1 DEF Complete
      <3>3. Filters[q] \in Nat
        OBVIOUS
      <3>4. IsSent(q, StoredEvent(e))
        BY <2>4, <3>1, <3>2, <3>3 DEF Pending, Ahead, Unharmed
      <3> QED
        BY <1>1, <2>1, <2>2, <3>4, Sends
    <2> QED
      BY <2>7, <2>8
  <1>10. ASSUME LoaderWrites(q) PROVE Complete(q)'
    <2>1. PICK l \in loaders[q] : \E d \in l.left :
            /\ WriteResponse(q, [kind |-> "EVENT", event |-> d], FALSE)
            /\ loaders' = [loaders EXCEPT ![q] =
                   (loaders[q] \ {l}) \cup {[l EXCEPT !.left = l.left \ {d}]}]
      BY <1>10 DEF LoaderWrites
    <2>2. PICK d \in l.left :
            /\ WriteResponse(q, [kind |-> "EVENT", event |-> d], FALSE)
            /\ loaders' = [loaders EXCEPT ![q] =
                   (loaders[q] \ {l}) \cup {[l EXCEPT !.left = l.left \ {d}]}]
      BY <2>1
    <2> DEFINE r == [l EXCEPT !.left = l.left \ {d}]
    <2>3. l \in Loader /\ d \in Event
      BY <1>1 DEF TypeOK, Loader
    <2>4. r.left = l.left \ {d}
      BY <2>3 DEF Loader
    <2>5. loaders'[q] = (loaders[q] \ {l}) \cup {r}
      BY <1>1, <2>2 DEF TypeOK
    <2>6. StoredEvent(d) \in Envelope /\ WriteResponse(q, StoredEvent(d), FALSE)
      BY <2>2, <2>3 DEF Envelope, StoredEvent
    <2> HIDE DEF r
    <2>7. /\ pc' = pc /\ at' = at /\ hook' = hook /\ conn' = conn /\ before' = before
          /\ queried' = queried /\ broken' = broken /\ stored' = stored
      BY <1>10 DEF LoaderWrites
    <2>8. "EOSE" \notin Kinds(sent[q])'
      BY <1>1, <2>5 DEF Concluded
    <2>9. pc[q] # "unread"
      BY <1>1, <2>1 DEF Placed
    <2>10. obs[q].internalError => obs'[q].internalError
      BY <1>1, <2>6, Notes
    <2> SUFFICES ASSUME pc[q] # "done", conn = "open", Unharmed(q), NEW e \in before[q], Pending(q, e)
                 PROVE  Pending(q, e)'
      <3>1. pc[q] \in {"unread", "filters", "hooks", "done"}
        BY <1>1 DEF TypeOK
      <3>2. Unharmed(q)' => Unharmed(q)
        BY <2>7, <2>10 DEF Unharmed
      <3>3. pc'[q] = "done" \/ conn' # "open" \/ ~Unharmed(q)' \/ \A e \in before[q] : Pending(q, e)'
        BY <1>1, <2>7, <2>9, <3>1, <3>2 DEF Complete
      <3> QED
        BY <1>2, <2>7, <2>8, <3>3
    <2>11. CASE IsSent(q, StoredEvent(e))
      BY <1>1, <2>6, <2>11, Sends DEF Pending
    <2>12. CASE Ahead(q)
      BY <2>7, <2>12 DEF Ahead, Pending
    <2>13. ASSUME NEW k \in loaders[q], e \in k.left PROVE Pending(q, e)'
      <3>1. CASE e = d /\ k = l
        BY <1>1, <2>6, <3>1, Sends DEF Pending
      <3>2. CASE e # d /\ k = l
        <4>1. r \in loaders'[q] /\ e \in r.left
          BY <2>4, <2>5, <2>13, <3>2
        <4> QED
          BY <4>1 DEF Pending
      <3>3. CASE k # l
        <4>1. k \in loaders'[q]
          BY <2>5, <3>3
        <4> QED
          BY <2>13, <4>1 DEF Pending
      <3> QED
        BY <3>1, <3>2, <3>3
    <2> QED
      BY <2>11, <2>12, <2>13 DEF Pending
  <1>11. ASSUME LoaderEnds(q) PROVE Complete(q)'
    <2>1. PICK l \in loaders[q] : l.left = {} /\ loaders' = [loaders EXCEPT ![q] = loaders[q] \ {l}]
      BY <1>11 DEF LoaderEnds
    <2>2. loaders'[q] = loaders[q] \ {l}
      BY <1>1, <2>1 DEF TypeOK
    <2>3. /\ pc' = pc /\ at' = at /\ hook' = hook /\ conn' = conn /\ before' = before /\ sent' = sent
          /\ obs' = obs /\ queried' = queried /\ broken' = broken /\ stored' = stored
      BY <1>11 DEF LoaderEnds, answers, history
    <2>4. "EOSE" \notin Kinds(sent[q])
      BY <1>1, <2>1 DEF Concluded
    <2>5. Kinds(sent[q])' = Kinds(sent[q]) /\ (Unharmed(q)' <=> Unharmed(q))
      BY <2>3 DEF Kinds, Unharmed
    <2>6. ASSUME NEW e, Pending(q, e) PROVE Pending(q, e)'
      <3>1. IsSent(q, StoredEvent(e)) => IsSent(q, StoredEvent(e))'
        BY <2>3 DEF IsSent, StoredEvent
      <3>2. Ahead(q) => Ahead(q)'
        BY <2>3 DEF Ahead
      <3>3. (\E k \in loaders[q] : e \in k.left) => (\E k \in loaders'[q] : e \in k.left)
        BY <2>1, <2>2
      <3> QED
        BY <2>6, <3>1, <3>2, <3>3 DEF Pending
    <2> QED
      BY <1>1, <2>3, <2>4, <2>5, <2>6 DEF Complete
  <1>12. ASSUME LoaderBreaks(q) PROVE Complete(q)'
    <2>1. /\ loaders[q] # {} /\ sent' = sent /\ before' = before /\ q \in broken'
      BY <1>12 DEF LoaderBreaks, answers
    <2>2. "EOSE" \notin Kinds(sent[q]) /\ Kinds(sent[q])' = Kinds(sent[q])
      BY <1>1, <2>1 DEF Concluded, Kinds
    <2> QED
      BY <1>2, <2>1, <2>2 DEF Unharmed
  <1>13. ASSUME Same(q) PROVE Complete(q)'
    <2>1. Kinds(sent[q])' = Kinds(sent[q]) /\ (Unharmed(q)' <=> Unharmed(q)) /\ before'[q] = before[q]
      BY <1>13 DEF Same, Kinds, Unharmed
    <2>2. \A e : Pending(q, e)' <=> Pending(q, e)
      BY <1>13 DEF Same, Pending, IsSent, Ahead, StoredEvent
    <2>3. \A e : IsSent(q, StoredEvent(e))' <=> IsSent(q, StoredEvent(e))
      BY <1>13 DEF Same, IsSent, StoredEvent
    <2>4. pc'[q] = pc[q]
      BY <1>13 DEF Same
    <2> QED
      BY <1>1, <2>1, <2>2, <2>3, <2>4 DEF Complete
  <1> QED
    BY <1>1, <1>4, <1>5, <1>6, <1>7, <1>8, <1>9, <1>10, <1>11, <1>12, <1>13,
       OwnSteps DEF ReqStep, LoaderStep

-----------------------------------------------------------------------------
(* What breaks a loader off *)

ClosedByClient(q) == \E c \in Close : closing[c] = "done" /\ IdOf[c] = IdOf[q]

\* Before its end a REQ is cancelled by a CLOSE only, and its loaders break off
\* because its context is done, or for a scan that fails.
CutShort(q) ==
    /\ q \in cancelled /\ pc[q] # "done" => ClosedByClient(q)
    /\ q \in broken \ scanFailed /\ pc[q] # "done" => CtxDone(q)
    /\ q \in broken \ scanFailed /\ outcome[q] = "ok" => ClosedByClient(q)

Cutting == \A q \in Req : CutShort(q)

\* A context that is done stays so; and who cancels it.
LEMMA Cancels ==
    ASSUME TypeOK, [Next]_vars, NEW q \in Req
    PROVE  /\ ClosedByClient(q) => ClosedByClient(q)'
           /\ pc[q] = "done" => pc'[q] = "done"
           /\ CtxDone(q) => CtxDone(q)'
           /\ q \in cancelled' \ cancelled /\ pc'[q] # "done" => ClosedByClient(q)'
  <1> DEFINE Kept == closing' = closing /\ conn' = conn
  <1>1. ASSUME NEW p \in Req, RejectFilter(p) \/ SendEose(p)
        PROVE  Kept /\ cancelled' = cancelled \cup {p} /\ pc' = [pc EXCEPT ![p] = "done"]
    BY <1>1 DEF RejectFilter, SendEose
  <1>2. ASSUME NEW p \in Req, ReadReq(p) \/ LimitZero(p) \/ BeginQueries(p) \/ EndQueries(p)
        PROVE  /\ Kept /\ cancelled' = cancelled
               /\ pc[q] = "done" => pc'[q] = "done"
    BY <1>2 DEF ReadReq, LimitZero, BeginQueries, EndQueries, FilterAccepted, Handling, TypeOK
  <1>3. ASSUME NEW p \in Req, StartLoader(p) \/ QueryFails(p) \/ LoaderStep(p)
        PROVE  Kept /\ cancelled' = cancelled /\ pc' = pc
    BY <1>3 DEF StartLoader, QueryFails, LoaderStep, LoaderWrites, LoaderEnds, LoaderBreaks
  <1>4. ASSUME NEW c \in Close, ReadClose(c)
        PROVE  /\ conn' = conn /\ cancelled' = cancelled /\ pc' = pc
               /\ ClosedByClient(q) => ClosedByClient(q)'
    BY <1>4 DEF ReadClose, goroutines, ClosedByClient, TypeOK
  <1>5. ASSUME NEW c \in Close, RemoveListeners(c)
        PROVE  /\ conn' = conn /\ cancelled \subseteq cancelled' /\ pc' = pc
               /\ ClosedByClient(q) => ClosedByClient(q)'
               /\ q \in cancelled' \ cancelled => ClosedByClient(q)'
    <2>1. closing'[c] = "done" /\ \A d \in Close : closing[d] = "done" => closing'[d] = "done"
      BY <1>5 DEF RemoveListeners, TypeOK
    <2>2. q \in cancelled' \ cancelled => IdOf[q] = IdOf[c]
      BY <1>5 DEF RemoveListeners
    <2> QED
      BY <1>5, <2>1, <2>2 DEF RemoveListeners, goroutines, ClosedByClient
  <1>6. ASSUME Drop \/ Kill \/ RemoveClient
        PROVE  /\ closing' = closing /\ cancelled' = cancelled /\ pc' = pc
               /\ conn \in {"closed", "gone"} => conn' \in {"closed", "gone"}
    BY <1>6 DEF Drop, Kill, RemoveClient, goroutines
  <1>7. ASSUME (\E e \in Event : Store(e)) \/ UNCHANGED vars
        PROVE  Kept /\ cancelled' = cancelled /\ pc' = pc
    BY <1>7 DEF Store, vars, goroutines
  <1>8. CASE \E p \in Req : RejectFilter(p) \/ SendEose(p)
    <2>1. PICK p \in Req : Kept /\ cancelled' = cancelled \cup {p} /\ pc' = [pc EXCEPT ![p] = "done"]
      BY <1>1, <1>8
    <2> QED
      BY <2>1 DEF CtxDone, ClosedByClient, TypeOK
  <1>9. CASE \E p \in Req : ReadReq(p) \/ LimitZero(p) \/ BeginQueries(p) \/ EndQueries(p)
    BY <1>2, <1>9 DEF CtxDone, ClosedByClient
  <1>10. CASE (\E p \in Req : StartLoader(p) \/ QueryFails(p) \/ LoaderStep(p))
              \/ (\E e \in Event : Store(e)) \/ UNCHANGED vars
    BY <1>3, <1>7, <1>10 DEF CtxDone, ClosedByClient
  <1>11. CASE \E c \in Close : ReadClose(c)
    BY <1>4, <1>11 DEF CtxDone
  <1>12. CASE \E c \in Close : RemoveListeners(c)
    BY <1>5, <1>12 DEF CtxDone
  <1>13. CASE Drop \/ Kill \/ RemoveClient
    BY <1>6, <1>13 DEF CtxDone, ClosedByClient
  <1> HIDE DEF Kept
  <1> QED
    BY <1>8, <1>9, <1>10, <1>11, <1>12, <1>13 DEF Next, ReqStep

\* Nothing is cut short at the start,
LEMMA InitCutting == Init => Cutting
  BY DEF Init, Cutting, CutShort

\* and if a REQ is, then its result shows it, unless a CLOSE or the scan did it.
LEMMA NextCutting == Answers /\ Cutting /\ [Next]_vars => Cutting'
  <1> SUFFICES ASSUME Answers, Cutting, [Next]_vars, NEW q \in Req PROVE CutShort(q)'
    BY DEF Cutting
  <1>1. TypeOK /\ Core /\ Concluded(q) /\ Truthful(q) /\ CutShort(q)
    BY DEF Answers, Core, Cutting
  <1>2. /\ ClosedByClient(q) => ClosedByClient(q)'
        /\ pc[q] = "done" => pc'[q] = "done"
        /\ CtxDone(q) => CtxDone(q)'
        /\ q \in cancelled' \ cancelled /\ pc'[q] # "done" => ClosedByClient(q)'
    BY <1>1, Cancels
  <1>3. ASSUME q \in broken' \ scanFailed' => q \in broken \ scanFailed,
               outcome'[q] = "ok" => outcome[q] = "ok"
        PROVE  CutShort(q)'
    BY <1>1, <1>2, <1>3 DEF CutShort
  <1>4. ASSUME SendEose(q) PROVE CutShort(q)'
    <2> DEFINE m == [kind |-> "EOSE"]
    <2>1. m \in Envelope
      BY DEF Envelope
    <2>2. WriteResponse(q, m, FALSE)
      BY <1>4 DEF SendEose
    <2>3. /\ broken' = broken /\ scanFailed' = scanFailed
          /\ pc[q] = "filters" /\ pc'[q] = "done" /\ outcome'[q] = Result(obs'[q], "ok")
      BY <1>1, <1>4 DEF SendEose, TypeOK
    <2>4. outcome[q] = "none"
      BY <1>1, <2>3 DEF Concluded
    <2> HIDE DEF m
    <2>5. ASSUME conn \in {"closed", "gone"} PROVE outcome'[q] # "ok"
      <3>1. lost' = lost \cup {q}
        BY <2>2, <2>5 DEF WriteResponse, Received, Swallowed, Failed
      <3>2. obs'[q].writeFailed
        BY <1>1, <2>1, <2>2, <2>4, <3>1, Notes DEF Truthful
      <3> QED
        BY <2>3, <3>2 DEF Result
    <2> QED
      BY <1>1, <1>2, <2>3, <2>5 DEF CutShort, CtxDone
  <1>5. ASSUME LoaderBreaks(q) PROVE CutShort(q)'
    <2>1. /\ outcome' = outcome /\ pc' = pc /\ loaders[q] # {}
          /\ CtxDone(q) \/ q \in scanFailed'
      BY <1>5 DEF LoaderBreaks, answers
    <2>2. outcome'[q] # "ok"
      BY <1>1, <2>1 DEF Concluded
    <2> QED
      BY <1>1, <1>2, <2>1, <2>2 DEF CutShort
  <1>6. ASSUME RejectFilter(q) PROVE CutShort(q)'
    <2>1. broken' = broken /\ scanFailed' = scanFailed /\ outcome'[q] = "blocked"
      BY <1>1, <1>6 DEF RejectFilter, Result, TypeOK
    <2> QED
      BY <1>3, <2>1
  <1>7. ASSUME \/ ReadReq(q) \/ LimitZero(q) \/ BeginQueries(q) \/ StartLoader(q) \/ QueryFails(q)
               \/ EndQueries(q) \/ LoaderWrites(q) \/ LoaderEnds(q)
        PROVE  CutShort(q)'
    <2>1. broken' = broken /\ scanFailed' = scanFailed /\ outcome' = outcome
      BY <1>7 DEF ReadReq, LimitZero, BeginQueries, StartLoader, QueryFails, EndQueries,
                  LoaderWrites, LoaderEnds, answers, history
    <2> QED
      BY <1>3, <2>1
  <1>8. ASSUME Same(q) PROVE CutShort(q)'
    BY <1>3, <1>8 DEF Same
  <1> QED
    BY <1>1, <1>4, <1>5, <1>6, <1>7, <1>8, OwnSteps DEF ReqStep, LoaderStep

-----------------------------------------------------------------------------
(* Theorems *)

\* The inductive invariant: the WaitGroup, the answers, the listeners, and the
\* stored events on their way, and what cuts them short.
IInv == Answers /\ Listening /\ Loading /\ Cutting

\* The invariant holds at all times.
LEMMA Invariance == Spec => []IInv
  <1>1. Init => IInv
    BY InitAnswers, InitListening, InitLoading, InitCutting DEF IInv
  <1>2. IInv /\ [Next]_vars => IInv'
    BY NextAnswers, NextListening, NextLoading, NextCutting DEF IInv
  <1> QED
    BY <1>1, <1>2, PTL DEF Spec

\* The state has its types, whatever the handlers of REQ and CLOSE do.
THEOREM TypeCorrect == Spec => []TypeOK
  <1>1. IInv => TypeOK
    BY DEF IInv, Answers, Core
  <1> QED
    BY <1>1, Invariance, PTL

\* The WaitGroup eose is right for any number of filters and query hooks: Done
\* never panics, and Wait returns when the last loader has ended.
THEOREM EoseAlwaysCounts == Spec => []EoseCounts
  <1>1. IInv => EoseCounts
    BY DEF IInv, Answers, Core, Counted, EoseCounts
  <1> QED
    BY <1>1, Invariance, PTL

\* Nothing from the storage follows EOSE, and a REQ is answered once.
THEOREM EoseAlwaysLast == Spec => []EoseIsLast
  <1>1. IInv => EoseIsLast
    BY DEF IInv, Answers, LastOf, EoseIsLast
  <1> QED
    BY <1>1, Invariance, PTL

\* The client that gets EOSE has got all that was stored when the REQ was read.
THEOREM EoseAlwaysComplete == Spec => []EoseIsComplete
  <1>1. IInv => EoseIsComplete
    BY DEF IInv, Loading, Complete, Unharmed, IsSent, StoredEvent, EoseIsComplete
  <1> QED
    BY <1>1, Invariance, PTL

\* The client that gets EOSE has a listener for every filter.
THEOREM EoseAlwaysSubscribed == Spec => []EoseIsSubscribed
  <1>1. IInv => EoseIsSubscribed
    <2> SUFFICES ASSUME IInv, NEW q \in Req, "EOSE" \in Kinds(sent[q]),
                        \A c \in Close : closing[c] = "done" => IdOf[c] # IdOf[q],
                        conn # "gone"
                 PROVE  \A k \in 1..Filters[q] : [req |-> q, filter |-> k] \in listeners
      BY DEF EoseIsSubscribed
    <2>1. Concluded(q) /\ Subscribed(q)
      BY DEF IInv, Answers, Listening
    <2>2. at[q] = Filters[q] + 1 /\ Filters[q] \in Nat
      BY <2>1, FiltersAssumption DEF Concluded
    <2>3. at[q] - 1 = Filters[q]
      BY <2>2
    <2> QED
      BY <2>1, <2>3 DEF Subscribed
  <1> QED
    BY <1>1, Invariance, PTL

\* A CLOSE sent after the answer to a REQ leaves no listener of it.
THEOREM CloseAlwaysFinal == Spec => []CloseIsFinal
  <1>1. IInv => CloseIsFinal
    BY DEF IInv, Listening, Closed, CloseIsFinal
  <1> QED
    BY <1>1, Invariance, PTL

\* A client that has gone has no listener.
THEOREM GoneAlwaysClean == Spec => []GoneIsClean
  <1>1. IInv => GoneIsClean
    BY DEF IInv, Listening
  <1> QED
    BY <1>1, Invariance, PTL

\* A REQ that is reported "ok" has lost no response and failed no query, and what
\* was loaded of it has been written to its end, unless a scan failed or the
\* client closed it.
THEOREM OkAlwaysTrue == Spec => []OkIsTrue
  <1>1. IInv => OkIsTrue
    BY DEF IInv, Answers, Truthful, Cutting, CutShort, ClosedByClient, OkIsTrue
  <1> QED
    BY <1>1, Invariance, PTL

=============================================================================
