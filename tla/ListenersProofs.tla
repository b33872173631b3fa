--------------------------- MODULE ListenersProofs ---------------------------
(***************************************************************************)
(* The registry invariant of module Listeners, for every number of         *)
(* websockets, ids, subrelays and requests and every slice bound.          *)
(*                                                                         *)
(* The invariant pairs live specs and listeners one to one.  Inside a loop *)
(* iteration one listener is about to go and has no spec any more: the     *)
(* pairing has a hole.  Both removals make such a hole in their own way    *)
(* (by dropping the spec, or by passing it), and Unlist closes it: that is *)
(* lemma UnlistClosesHole, the heart of the proof.                         *)
(*                                                                         *)
(* The second section proves that the registry implements Subscriptions:   *)
(* the slices count as a multiset, of which a removal takes out one at a   *)
(* time.                                                                   *)
(*                                                                         *)
(* The third is about a broadcast beside the registry it walks without the *)
(* mutex, for any number of listeners, clients and filters, and any hooks. *)
(* A broadcast keeps the slice's first length, so what matters is what the *)
(* registry writes into the array meanwhile.  Subscribing writes behind    *)
(* the slice only (SlotsKept); a removal writes inside what is left of it  *)
(* only (WritesInside).                                                    *)
(***************************************************************************)
EXTENDS Broadcast, FiniteSetTheorems, TLAPS

\* The live positions of each websocket's specs.
LiveAt == [w \in WS |-> {s \in DOMAIN clients[w] : Live(w, s)}]

\* The specs L of cs and the listeners of bk and ln are paired one to one,
\* but for the listeners whose place is in hole.  A spec outside L points
\* nowhere, or behind the listeners, or at a hole at the very end.
Homes(cs, bk, ln, L, hole) ==
    \A w \in WS : \A s \in L[w] :
        /\ s \in DOMAIN cs[w]
        /\ cs[w][s].index \in 1..ln[cs[w][s].subrelay]
        /\ <<cs[w][s].subrelay, cs[w][s].index>> \notin hole
        /\ bk[cs[w][s].subrelay][cs[w][s].index].ws = w
        /\ bk[cs[w][s].subrelay][cs[w][s].index].id = cs[w][s].id

Distinct(cs, L) ==
    \A w1, w2 \in WS : \A s1 \in L[w1], s2 \in L[w2] :
        /\ cs[w1][s1].index = cs[w2][s2].index
        /\ cs[w1][s1].subrelay = cs[w2][s2].subrelay
        => w1 = w2 /\ s1 = s2

Owned(cs, bk, ln, L, hole) ==
    \A r \in Relay : \A i \in 1..ln[r] : <<r, i>> \notin hole =>
        /\ bk[r][i] \in Listener
        /\ \E s \in L[bk[r][i].ws] :
               cs[bk[r][i].ws][s].index = i /\ cs[bk[r][i].ws][s].subrelay = r

DeadOut(cs, ln, L, hole) ==
    \A w \in WS : \A s \in DOMAIN cs[w] \ L[w] :
        \/ cs[w][s].index = 0
        \/ cs[w][s].index > ln[cs[w][s].subrelay]
        \/ /\ cs[w][s].index = ln[cs[w][s].subrelay]
           /\ <<cs[w][s].subrelay, cs[w][s].index>> \in hole

Paired(cs, bk, ln, L, hole) ==
    /\ Homes(cs, bk, ln, L, hole)
    /\ Distinct(cs, L)
    /\ Owned(cs, bk, ln, L, hole)
    /\ DeadOut(cs, ln, L, hole)

\* Only connected websockets have specs, and a running loop is within the
\* specs of its websocket, which stays connected meanwhile.
LoopOK ==
    /\ \A w \in WS \ connected : clients[w] = <<>>
    /\ op.kind = "removeId" => op.s <= Len(clients[op.ws])
    /\ op.kind = "removeClient" =>
           /\ op.ws \in connected
           /\ op.s \in 1..(Len(clients[op.ws]) + 1)

\* The inductive invariant.
IInv ==
    /\ TypeOK
    /\ NoPanic
    /\ LoopOK
    /\ Paired(clients, backing, len, LiveAt, {})

-----------------------------------------------------------------------------

\* What removeListenerId's swap-delete of a spec leaves: one element fewer, each
\* at its old position or, for the last one, at the freed position.
LEMMA SwapDeleteProperties ==
    ASSUME NEW S, NEW specs \in Seq(S), NEW s \in 1..Len(specs)
    PROVE  /\ SwapDelete(specs, s) \in Seq(S)
           /\ Len(SwapDelete(specs, s)) = Len(specs) - 1
           /\ \A i \in 1..(Len(specs) - 1) :
                  SwapDelete(specs, s)[i] = IF i = s THEN specs[Len(specs)] ELSE specs[i]
  <1> DEFINE e == [specs EXCEPT ![s] = specs[Len(specs)]]
  <1>1. e \in Seq(S) /\ Len(e) = Len(specs)
    OBVIOUS
  <1>2. \A i \in 1..Len(specs) : e[i] = IF i = s THEN specs[Len(specs)] ELSE specs[i]
    OBVIOUS
  <1> HIDE DEF e
  <1>3. SubSeq(e, 1, Len(specs) - 1) \in Seq(S)
    BY <1>1
  <1>4. Len(SubSeq(e, 1, Len(specs) - 1)) = Len(specs) - 1
    BY <1>1
  <1>5. \A i \in 1..(Len(specs) - 1) : SubSeq(e, 1, Len(specs) - 1)[i] = e[i]
    BY <1>1
  <1> QED
    BY <1>2, <1>3, <1>4, <1>5 DEF SwapDelete, e

\* new is cs but for the index of one spec.
OnlyIndex(new, cs, w0, s0, i0) ==
    /\ new \in [WS -> Seq(ListenerSpec)]
    /\ \A w \in WS : Len(new[w]) = Len(cs[w]) /\ DOMAIN new[w] = DOMAIN cs[w]
    /\ \A w \in WS : \A s \in DOMAIN cs[w] :
           /\ new[w][s].id = cs[w][s].id
           /\ new[w][s].subrelay = cs[w][s].subrelay
           /\ new[w][s].index = IF w = w0 /\ s = s0 THEN i0 ELSE cs[w][s].index

\* What writing one spec's index changes: that field of that spec, nothing else.
LEMMA SetIndexProperties ==
    ASSUME NEW cs \in [WS -> Seq(ListenerSpec)],
           NEW w0 \in WS, NEW s0 \in DOMAIN cs[w0], NEW i0 \in 0..Cap
    PROVE  OnlyIndex(SetIndex(cs, w0, s0, i0), cs, w0, s0, i0)
  <1> DEFINE new == SetIndex(cs, w0, s0, i0)
             old == cs[w0][s0]
             e == [old EXCEPT !.index = i0]
             seq == [cs[w0] EXCEPT ![s0] = e]
  <1>1. cs[w0] \in Seq(ListenerSpec) /\ old \in ListenerSpec
    OBVIOUS
  <1>2. e \in ListenerSpec /\ e.id = old.id /\ e.subrelay = old.subrelay /\ e.index = i0
    BY <1>1 DEF ListenerSpec
  <1>3. new = [cs EXCEPT ![w0] = seq]
    BY DEF SetIndex
  <1> HIDE DEF e, old, new
  <1>4. /\ seq \in Seq(ListenerSpec) /\ Len(seq) = Len(cs[w0]) /\ DOMAIN seq = DOMAIN cs[w0]
        /\ \A s \in DOMAIN cs[w0] : seq[s] = IF s = s0 THEN e ELSE cs[w0][s]
    BY <1>1, <1>2
  <1> HIDE DEF seq
  <1>5. \A w \in WS : new[w] = IF w = w0 THEN seq ELSE cs[w]
    BY <1>3
  <1>6. new \in [WS -> Seq(ListenerSpec)]
    BY <1>3, <1>4
  <1>7. OnlyIndex(new, cs, w0, s0, i0)
    BY <1>2, <1>4, <1>5, <1>6 DEF old, OnlyIndex
  <1> QED
    BY <1>7 DEF new

\* Two live specs of one state that point at the same listener are the same.
LEMMA DistinctHere ==
    ASSUME NEW cs, NEW L, Distinct(cs, L),
           NEW w1 \in WS, NEW w2 \in WS, NEW s1 \in L[w1], NEW s2 \in L[w2],
           cs[w1][s1].index = cs[w2][s2].index,
           cs[w1][s1].subrelay = cs[w2][s2].subrelay
    PROVE  w1 = w2 /\ s1 = s2
  BY DEF Distinct

\* The listener a removal moves.
Moved(r) == backing[r][len[r]]

\* The only spec of the moved websocket at the old last place is the one
\* paired with the moved listener, so IndexFunc finds that one.
LEMMA FoundIsOwner ==
    ASSUME NEW cs \in [WS -> Seq(ListenerSpec)], NEW L \in [WS -> SUBSET Nat],
           NEW r0 \in Relay, NEW i0 \in 1..len[r0],
           TypeOK, i0 # len[r0],
           Paired(cs, backing, len, L, {<<r0, i0>>})
    PROVE  /\ Moved(r0) \in Listener
           /\ \E s0 \in L[Moved(r0).ws] :
                  /\ s0 \in DOMAIN cs[Moved(r0).ws]
                  /\ cs[Moved(r0).ws][s0].index = len[r0]
                  /\ cs[Moved(r0).ws][s0].subrelay = r0
                  /\ At(cs[Moved(r0).ws], r0, len[r0]) = {s0}
                  /\ First(At(cs[Moved(r0).ws], r0, len[r0])) = s0
  <1> DEFINE last == len[r0]
  <1>1. last \in Nat /\ last \in 1..len[r0] /\ last > 0 /\ <<r0, last>> \notin {<<r0, i0>>}
    BY DEF TypeOK
  <1>2. /\ Moved(r0) \in Listener
        /\ \E s \in L[Moved(r0).ws] :
              cs[Moved(r0).ws][s].index = last /\ cs[Moved(r0).ws][s].subrelay = r0
    BY <1>1 DEF Paired, Owned, Moved
  <1>3. Moved(r0).ws \in WS
    BY <1>2 DEF Listener
  <1>4. PICK s0 \in L[Moved(r0).ws] :
           cs[Moved(r0).ws][s0].index = last /\ cs[Moved(r0).ws][s0].subrelay = r0
    BY <1>2
  <1>5. s0 \in DOMAIN cs[Moved(r0).ws]
    BY <1>3, <1>4 DEF Paired, Homes
  <1>6. ASSUME NEW j \in At(cs[Moved(r0).ws], r0, last)
        PROVE  j = s0
    <2>1. j \in DOMAIN cs[Moved(r0).ws] /\ cs[Moved(r0).ws][j].index = last
          /\ cs[Moved(r0).ws][j].subrelay = r0
      BY <1>6 DEF At
    <2>2. CASE j \in L[Moved(r0).ws]
      <3>1. Distinct(cs, L)
        BY DEF Paired
      <3> QED
        BY <3>1, <2>1, <2>2, <1>3, <1>4 DEF Distinct
    <2>3. CASE j \notin L[Moved(r0).ws]
      <3>1. \/ cs[Moved(r0).ws][j].index = 0
            \/ cs[Moved(r0).ws][j].index > len[cs[Moved(r0).ws][j].subrelay]
            \/ <<cs[Moved(r0).ws][j].subrelay, cs[Moved(r0).ws][j].index>> \in {<<r0, i0>>}
        BY <2>1, <2>3, <1>3 DEF Paired, DeadOut
      <3>2. FALSE
        BY <3>1, <2>1, <1>1
      <3> QED
        BY <3>2
    <2> QED
      BY <2>2, <2>3
  <1>7. At(cs[Moved(r0).ws], r0, last) = {s0}
    BY <1>4, <1>5, <1>6 DEF At
  <1>8. First({s0}) = s0
    <2>1. s0 \in Nat
      BY <1>3, <1>4
    <2>2. \E j \in {s0} : \A k \in {s0} : j <= k
      BY <2>1
    <2> QED
      BY <2>2 DEF First
  <1> QED
    BY <1>2, <1>4, <1>5, <1>7, <1>8

\* Unlist closes the hole: whichever listener moves into it, its own spec and
\* no other follows.
LEMMA UnlistClosesHole ==
    ASSUME NEW cs \in [WS -> Seq(ListenerSpec)], NEW L \in [WS -> SUBSET Nat],
           NEW r0 \in Relay, NEW i0 \in 1..len[r0], NEW next,
           TypeOK,
           Paired(cs, backing, len, L, {<<r0, i0>>}),
           Unlist(r0, i0, cs, next)
    PROVE  /\ op' = next
           /\ clients' \in [WS -> Seq(ListenerSpec)]
           /\ \A w \in WS : Len(clients'[w]) = Len(cs[w])
           /\ backing' \in [Relay -> [Slot -> Listener \cup {NoListener}]]
           /\ len' \in [Relay -> 0..Cap]
           /\ Paired(clients', backing', len', L, {})
  <1> DEFINE last == len[r0]
  <1>1. /\ Cap \in Nat /\ len \in [Relay -> 0..Cap]
        /\ backing \in [Relay -> [Slot -> Listener \cup {NoListener}]]
        /\ last \in 1..Cap /\ i0 \in Slot
    BY CapAssumption DEF TypeOK, Slot
  <1>2. /\ Homes(cs, backing, len, L, {<<r0, i0>>})
        /\ Distinct(cs, L)
        /\ Owned(cs, backing, len, L, {<<r0, i0>>})
        /\ DeadOut(cs, len, L, {<<r0, i0>>})
    BY DEF Paired
  <1>3. \A w \in WS : \A s \in DOMAIN cs[w] : cs[w][s] \in ListenerSpec
    OBVIOUS
  <1>4. \A w \in WS : \A s \in DOMAIN cs[w] :
           cs[w][s].index \in 0..Cap /\ cs[w][s].subrelay \in Relay
    BY <1>3 DEF ListenerSpec
  <1>5. CASE i0 = last
    <2>1. /\ op' = next /\ clients' = cs /\ backing' = backing
          /\ len' = [len EXCEPT ![r0] = last - 1]
      BY <1>5 DEF Unlist
    <2>2. /\ len' \in [Relay -> 0..Cap]
          /\ \A r \in Relay : len'[r] = IF r = r0 THEN last - 1 ELSE len[r]
      BY <2>1, <1>1
    <2>3. Homes(cs, backing, len', L, {})
      <3> SUFFICES ASSUME NEW w \in WS, NEW s \in L[w]
                   PROVE  /\ s \in DOMAIN cs[w]
                          /\ cs[w][s].index \in 1..len'[cs[w][s].subrelay]
                          /\ backing[cs[w][s].subrelay][cs[w][s].index].ws = w
                          /\ backing[cs[w][s].subrelay][cs[w][s].index].id = cs[w][s].id
        BY DEF Homes
      <3>1. /\ s \in DOMAIN cs[w]
            /\ cs[w][s].index \in 1..len[cs[w][s].subrelay]
            /\ <<cs[w][s].subrelay, cs[w][s].index>> \notin {<<r0, i0>>}
            /\ backing[cs[w][s].subrelay][cs[w][s].index].ws = w
            /\ backing[cs[w][s].subrelay][cs[w][s].index].id = cs[w][s].id
        BY <1>2 DEF Homes
      <3>2. cs[w][s].index \in 1..len'[cs[w][s].subrelay]
        BY <3>1, <2>2, <1>1, <1>4, <1>5
      <3> QED
        BY <3>1, <3>2
    <2>4. Owned(cs, backing, len', L, {})
      <3>1. ASSUME NEW r \in Relay, NEW i \in 1..len'[r]
            PROVE  i \in 1..len[r] /\ <<r, i>> \notin {<<r0, i0>>}
        BY <2>2, <1>1, <1>5
      <3> QED
        BY <3>1, <1>2 DEF Owned
    <2>5. DeadOut(cs, len', L, {})
      BY <2>2, <1>1, <1>2, <1>4, <1>5 DEF DeadOut
    <2> QED
      BY <2>1, <2>2, <2>3, <2>4, <2>5, <1>1, <1>2 DEF Paired
  <1>6. CASE i0 # last
    <2> DEFINE moved == Moved(r0)
               m == moved.ws
    <2>1. PICK s0 \in L[m] :
             /\ moved \in Listener
             /\ s0 \in DOMAIN cs[m]
             /\ cs[m][s0].index = last
             /\ cs[m][s0].subrelay = r0
             /\ At(cs[m], r0, last) = {s0}
             /\ First(At(cs[m], r0, last)) = s0
      <3>1. /\ Moved(r0) \in Listener
            /\ \E s1 \in L[Moved(r0).ws] :
                  /\ s1 \in DOMAIN cs[Moved(r0).ws]
                  /\ cs[Moved(r0).ws][s1].index = len[r0]
                  /\ cs[Moved(r0).ws][s1].subrelay = r0
                  /\ At(cs[Moved(r0).ws], r0, len[r0]) = {s1}
                  /\ First(At(cs[Moved(r0).ws], r0, len[r0])) = s1
        BY <1>6, FoundIsOwner
      <3> QED
        BY <3>1
    <2>2. m \in WS
      BY <2>1 DEF Listener
    <2>3. /\ op' = next
          /\ clients' = SetIndex(cs, m, s0, i0)
          /\ backing' = [backing EXCEPT ![r0][i0] = moved]
          /\ len' = [len EXCEPT ![r0] = last - 1]
      BY <1>6, <2>1 DEF Unlist, Moved
    <2>4. /\ len' \in [Relay -> 0..Cap]
          /\ \A r \in Relay : len'[r] = IF r = r0 THEN last - 1 ELSE len[r]
      BY <2>3, <1>1
    <2>5. /\ backing' \in [Relay -> [Slot -> Listener \cup {NoListener}]]
          /\ \A r \in Relay, i \in Slot :
                 backing'[r][i] = IF r = r0 /\ i = i0 THEN moved ELSE backing[r][i]
      BY <2>1, <2>3, <1>1
    <2>6. OnlyIndex(clients', cs, m, s0, i0)
      <3>1. i0 \in 0..Cap
        BY <1>1 DEF Slot
      <3> HIDE DEF m, moved
      <3> QED
        BY <3>1, <2>1, <2>2, <2>3, SetIndexProperties
    <2>7. /\ moved.ws = m /\ Distinct(cs, L)
          /\ \A w \in WS : \A s \in L[w] :
                 /\ s \in DOMAIN cs[w]
                 /\ cs[w][s].index \in 1..len[cs[w][s].subrelay]
                 /\ ~(cs[w][s].subrelay = r0 /\ cs[w][s].index = i0)
                 /\ backing[cs[w][s].subrelay][cs[w][s].index].ws = w
                 /\ backing[cs[w][s].subrelay][cs[w][s].index].id = cs[w][s].id
                 /\ cs[w][s].subrelay \in Relay
      <3>1. Homes(cs, backing, len, L, {<<r0, i0>>}) /\ Distinct(cs, L)
        BY <1>2
      <3>2. \A w \in WS : \A s \in L[w] :
               /\ s \in DOMAIN cs[w]
               /\ cs[w][s].index \in 1..len[cs[w][s].subrelay]
               /\ ~(cs[w][s].subrelay = r0 /\ cs[w][s].index = i0)
               /\ backing[cs[w][s].subrelay][cs[w][s].index].ws = w
               /\ backing[cs[w][s].subrelay][cs[w][s].index].id = cs[w][s].id
        BY ONLY <3>1 DEF Homes
      <3>3. \A w \in WS : \A s \in L[w] : cs[w][s].subrelay \in Relay
        BY ONLY <3>2, <1>4
      <3> QED
        BY <3>1, <3>2, <3>3
    <2>8. moved = backing[r0][last]
      BY DEF Moved
    <2> HIDE DEF moved, m
    <2>9. ASSUME NEW w \in WS, NEW s \in L[w], ~(w = m /\ s = s0)
          PROVE  ~(cs[w][s].subrelay = r0 /\ cs[w][s].index = last)
      BY <2>1, <2>2, <2>9, <1>2 DEF Distinct
    <2>10. Homes(clients', backing', len', L, {})
      <3> SUFFICES ASSUME NEW w \in WS, NEW s \in L[w]
                   PROVE  /\ s \in DOMAIN clients'[w]
                          /\ clients'[w][s].index \in 1..len'[clients'[w][s].subrelay]
                          /\ backing'[clients'[w][s].subrelay][clients'[w][s].index].ws = w
                          /\ backing'[clients'[w][s].subrelay][clients'[w][s].index].id
                                 = clients'[w][s].id
        BY DEF Homes
      <3>1. /\ s \in DOMAIN cs[w] /\ s \in DOMAIN clients'[w]
            /\ clients'[w][s].id = cs[w][s].id
            /\ clients'[w][s].subrelay = cs[w][s].subrelay
        BY <2>6, <2>7 DEF OnlyIndex
      <3>2. CASE w = m /\ s = s0
        <4>1. clients'[w][s].index = i0 /\ clients'[w][s].subrelay = r0
          BY <3>1, <3>2, <2>1, <2>6 DEF OnlyIndex
        <4>2. moved.id = cs[w][s].id
          BY <3>2, <2>1, <2>7, <2>8
        <4>3. i0 \in 1..len'[r0]
          BY <1>1, <1>6, <2>4
        <4> QED
          BY <3>1, <3>2, <4>1, <4>2, <4>3, <1>1, <2>5, <2>7
      <3>3. CASE ~(w = m /\ s = s0)
        <4>1. clients'[w][s].index = cs[w][s].index
          BY <3>1, <3>3, <2>6 DEF OnlyIndex
        <4>2. ~(cs[w][s].subrelay = r0 /\ cs[w][s].index = last)
          BY <3>3, <2>9
        <4>3. cs[w][s].index \in 1..len'[cs[w][s].subrelay]
          <5>1. cs[w][s].index \in 1..len[cs[w][s].subrelay] /\ cs[w][s].subrelay \in Relay
            BY ONLY <2>7
          <5>2. len[cs[w][s].subrelay] \in Nat /\ last \in Nat /\ last = len[r0]
            BY <5>1, <1>1
          <5> QED
            BY ONLY <4>2, <5>1, <5>2, <2>4
        <4>4. cs[w][s].index \in Slot
          BY <4>3, <2>7, <2>4, <1>1 DEF Slot
        <4>5. backing'[cs[w][s].subrelay][cs[w][s].index]
                = backing[cs[w][s].subrelay][cs[w][s].index]
          BY <4>4, <2>5, <2>7
        <4>6. /\ backing[cs[w][s].subrelay][cs[w][s].index].ws = w
              /\ backing[cs[w][s].subrelay][cs[w][s].index].id = cs[w][s].id
              /\ cs[w][s].subrelay \in Relay
          BY ONLY <2>7
        <4>7. len'[clients'[w][s].subrelay] = len'[cs[w][s].subrelay]
          BY ONLY <3>1
        <4> QED
          BY ONLY <3>1, <4>1, <4>3, <4>5, <4>6, <4>7
      <3> QED
        BY <3>2, <3>3
    <2>11. Distinct(clients', L)
      <3> SUFFICES ASSUME NEW w1 \in WS, NEW w2 \in WS, NEW s1 \in L[w1], NEW s2 \in L[w2],
                          clients'[w1][s1].index = clients'[w2][s2].index,
                          clients'[w1][s1].subrelay = clients'[w2][s2].subrelay
                   PROVE  w1 = w2 /\ s1 = s2
        BY DEF Distinct
      <3>1. /\ clients'[w1][s1].subrelay = cs[w1][s1].subrelay
            /\ clients'[w2][s2].subrelay = cs[w2][s2].subrelay
            /\ clients'[w1][s1].index = IF w1 = m /\ s1 = s0 THEN i0 ELSE cs[w1][s1].index
            /\ clients'[w2][s2].index = IF w2 = m /\ s2 = s0 THEN i0 ELSE cs[w2][s2].index
        <4>1. s1 \in DOMAIN cs[w1] /\ s2 \in DOMAIN cs[w2]
          BY ONLY <2>7
        <4> QED
          BY ONLY <2>6, <4>1 DEF OnlyIndex
      <3>2. /\ ~(cs[w1][s1].subrelay = r0 /\ cs[w1][s1].index = i0)
            /\ ~(cs[w2][s2].subrelay = r0 /\ cs[w2][s2].index = i0)
        BY <2>7
      <3>3. CASE w1 = m /\ s1 = s0
        BY <3>1, <3>2, <3>3, <2>1
      <3>4. CASE w2 = m /\ s2 = s0
        BY <3>1, <3>2, <3>4, <2>1
      <3>5. CASE ~(w1 = m /\ s1 = s0) /\ ~(w2 = m /\ s2 = s0)
        <4>1. /\ cs[w1][s1].index = cs[w2][s2].index
              /\ cs[w1][s1].subrelay = cs[w2][s2].subrelay
          BY <3>1, <3>5
        <4>2. Distinct(cs, L)
          BY ONLY <2>7
        <4> QED
          BY ONLY <4>1, <4>2 DEF Distinct
      <3> QED
        BY <3>3, <3>4, <3>5
    <2>12. Owned(clients', backing', len', L, {})
      <3> SUFFICES ASSUME NEW r \in Relay, NEW i \in 1..len'[r]
                   PROVE  /\ backing'[r][i] \in Listener
                          /\ \E s \in L[backing'[r][i].ws] :
                                 /\ clients'[backing'[r][i].ws][s].index = i
                                 /\ clients'[backing'[r][i].ws][s].subrelay = r
        BY DEF Owned
      <3>1. i \in 1..len[r] /\ i \in Slot /\ ~(r = r0 /\ i = last)
        BY <2>4, <1>1 DEF Slot
      <3>2. CASE r = r0 /\ i = i0
        <4>1. backing'[r][i] = moved
          BY <3>1, <3>2, <2>5
        <4>2. clients'[m][s0].index = i /\ clients'[m][s0].subrelay = r
          BY <3>2, <2>1, <2>2, <2>6 DEF OnlyIndex
        <4> QED
          BY <4>1, <4>2, <2>1, <2>7
      <3>3. CASE ~(r = r0 /\ i = i0)
        <4> DEFINE l == backing[r][i]
        <4>1. backing'[r][i] = l
          BY <3>1, <3>3, <2>5
        <4>2. <<r, i>> \notin {<<r0, i0>>}
          BY <3>3
        <4>3. /\ l \in Listener
              /\ \E s \in L[l.ws] : cs[l.ws][s].index = i /\ cs[l.ws][s].subrelay = r
          BY <4>2, <3>1, <1>2 DEF Owned
        <4> HIDE DEF l
        <4>4. PICK s \in L[l.ws] : cs[l.ws][s].index = i /\ cs[l.ws][s].subrelay = r
          BY <4>3
        <4>5. l.ws \in WS
          BY <4>3 DEF Listener
        <4>6. ~(l.ws = m /\ s = s0)
          BY <4>4, <3>1, <2>1
        <4>7. clients'[l.ws][s].index = i /\ clients'[l.ws][s].subrelay = r
          BY <4>4, <4>5, <4>6, <2>6, <2>7 DEF OnlyIndex
        <4> QED
          BY <4>1, <4>3, <4>4, <4>7
      <3> QED
        BY <3>2, <3>3
    <2>13. DeadOut(clients', len', L, {})
      <3> SUFFICES ASSUME NEW w \in WS, NEW s \in DOMAIN clients'[w] \ L[w]
                   PROVE  \/ clients'[w][s].index = 0
                          \/ clients'[w][s].index > len'[clients'[w][s].subrelay]
                          \/ /\ clients'[w][s].index = len'[clients'[w][s].subrelay]
                             /\ <<clients'[w][s].subrelay, clients'[w][s].index>> \in {}
        BY Zenon DEF DeadOut
      <3>1. s \in DOMAIN cs[w] \ L[w] /\ ~(w = m /\ s = s0)
        BY <2>1, <2>6 DEF OnlyIndex
      <3>2. /\ clients'[w][s].index = cs[w][s].index
            /\ clients'[w][s].subrelay = cs[w][s].subrelay
        BY <3>1, <2>6 DEF OnlyIndex
      <3>3. \/ cs[w][s].index = 0
            \/ cs[w][s].index > len[cs[w][s].subrelay]
            \/ /\ cs[w][s].index = len[cs[w][s].subrelay]
               /\ <<cs[w][s].subrelay, cs[w][s].index>> \in {<<r0, i0>>}
        BY <3>1, <1>2 DEF DeadOut
      <3>4. cs[w][s].index \in 0..Cap /\ cs[w][s].subrelay \in Relay
        BY <3>1, <1>4
      <3> QED
        BY <3>2, <3>3, <3>4, <1>1, <1>6, <2>4
    <2>14. /\ clients' \in [WS -> Seq(ListenerSpec)]
           /\ \A w \in WS : Len(clients'[w]) = Len(cs[w])
      BY <2>6 DEF OnlyIndex
    <2> QED
      BY <2>3, <2>4, <2>5, <2>10, <2>11, <2>12, <2>13, <2>14 DEF Paired
  <1> QED
    BY <1>5, <1>6

-----------------------------------------------------------------------------

\* Outside removeClientAndListeners every spec is live.
LEMMA LiveIsDomain ==
    ASSUME op.kind # "removeClient"
    PROVE  LiveAt = [w \in WS |-> DOMAIN clients[w]]
  BY DEF LiveAt, Live

\* The empty registry of a relay that starts satisfies the invariant.
LEMMA InitIInv == Init => IInv
  <1> SUFFICES ASSUME Init PROVE IInv
    OBVIOUS
  <1>1. TypeOK
    <2>1. clients \in [WS -> Seq(ListenerSpec)]
      BY DEF Init
    <2> QED
      BY <2>1, CapAssumption DEF Init, TypeOK, OpOK, Slot, Idle
  <1>2. NoPanic /\ LoopOK
    BY DEF Init, NoPanic, LoopOK, Idle, Panicked
  <1>3. \A w \in WS : clients[w] = <<>> /\ DOMAIN clients[w] = {} /\ LiveAt[w] = {}
    <2>1. \A w \in WS : clients[w] = <<>>
      BY DEF Init
    <2>2. DOMAIN <<>> = {}
      OBVIOUS
    <2> QED
      BY <2>1, <2>2 DEF LiveAt
  <1>4. \A r \in Relay : 1..len[r] = {}
    BY DEF Init
  <1>5. Homes(clients, backing, len, LiveAt, {}) /\ Distinct(clients, LiveAt)
    BY <1>3 DEF Homes, Distinct
  <1>6. Owned(clients, backing, len, LiveAt, {})
    BY <1>4 DEF Owned
  <1>7. DeadOut(clients, len, LiveAt, {})
    BY <1>3 DEF DeadOut
  <1> QED
    BY <1>1, <1>2, <1>5, <1>6, <1>7 DEF IInv, Paired

\* HandleWebsocket's rl.clients[ws] = empty (handlers.go:83) preserves it.
LEMMA ConnectIInv ==
    ASSUME IInv, NEW w \in WS, Connect(w)
    PROVE  IInv'
  <1>1. clients' = clients
    BY DEF IInv, LoopOK, TypeOK, Connect
  <1>2. LiveAt' = LiveAt
    BY <1>1 DEF Connect, LiveAt, Live
  <1>3. TypeOK' /\ NoPanic' /\ LoopOK'
    BY <1>1 DEF IInv, TypeOK, OpOK, NoPanic, LoopOK, Connect, Idle
  <1> QED
    BY <1>1, <1>2, <1>3 DEF IInv, Connect

\* Entering removeListenerId changes no slice and no spec.
LEMMA RemoveListenerIdIInv ==
    ASSUME IInv, NEW w \in WS, NEW id \in Id, RemoveListenerId(w, id)
    PROVE  IInv'
  <1>1. op' = RemovingId(w, id, Len(clients[w])) /\ UNCHANGED <<connected, clients, backing, len, cancelled>>
    BY DEF RemoveListenerId
  <1>2. Len(clients[w]) \in Nat
    BY DEF IInv, TypeOK
  <1>3. op.kind = "idle" /\ op'.kind = "removeId" /\ op'.ws = w /\ op'.s = Len(clients[w])
    BY <1>1 DEF RemoveListenerId, Idle, RemovingId
  <1>4. LiveAt' = LiveAt
    BY <1>1, <1>3 DEF LiveAt, Live
  <1>5. TypeOK'
    BY <1>1, <1>2 DEF IInv, TypeOK, OpOK, RemovingId
  <1>6. NoPanic' /\ LoopOK'
    BY <1>1, <1>2, <1>3 DEF IInv, NoPanic, LoopOK, Panicked
  <1> QED
    BY <1>1, <1>4, <1>5, <1>6 DEF IInv

\* Entering removeClientAndListeners leaves every spec live: s starts at the first.
LEMMA RemoveClientAndListenersIInv ==
    ASSUME IInv, NEW w \in WS, RemoveClientAndListeners(w)
    PROVE  IInv'
  <1>1. op' = RemovingClient(w, 1) /\ UNCHANGED <<connected, clients, backing, len, cancelled>>
    BY DEF RemoveClientAndListeners
  <1>2. Len(clients[w]) \in Nat /\ DOMAIN clients[w] = 1..Len(clients[w])
    BY DEF IInv, TypeOK
  <1>3. op.kind = "idle" /\ op'.kind = "removeClient" /\ op'.ws = w /\ op'.s = 1
    BY <1>1 DEF RemoveClientAndListeners, Idle, RemovingClient
  <1>4. LiveAt' = LiveAt
    BY <1>1, <1>2, <1>3 DEF LiveAt, Live
  <1>5. TypeOK'
    BY <1>1 DEF IInv, TypeOK, OpOK, RemovingClient
  <1>6. NoPanic' /\ LoopOK'
    BY <1>1, <1>2, <1>3 DEF IInv, NoPanic, LoopOK, Panicked, RemoveClientAndListeners
  <1> QED
    BY <1>1, <1>4, <1>5, <1>6 DEF IInv

\* An iteration over a spec of another id preserves it.
LEMMA RemoveIdSkipIInv ==
    ASSUME IInv, RemoveIdSkip \/ RemoveIdReturn
    PROVE  IInv'
  <1>1. op.kind = "removeId" /\ UNCHANGED <<connected, clients, backing, len, cancelled>>
    BY DEF RemoveIdSkip, RemoveIdReturn
  <1>2. op.s \in Nat /\ op \in [kind : {"removeId"}, ws : WS, id : Id, s : Nat]
    BY <1>1 DEF IInv, TypeOK, OpOK, Idle, Panicked
  <1>3. \/ op' = Idle
        \/ op' = [op EXCEPT !.s = @ - 1] /\ op.s > 0
    BY DEF RemoveIdSkip, RemoveIdReturn
  <1>4. CASE op' = Idle
    <2>1. op'.kind = "idle" /\ op' # Panicked
      BY <1>4 DEF Idle, Panicked
    <2>2. LiveAt' = LiveAt
      BY <1>1, <2>1 DEF LiveAt, Live
    <2>3. TypeOK' /\ NoPanic' /\ LoopOK'
      BY <1>1, <1>4, <2>1 DEF IInv, TypeOK, OpOK, NoPanic, LoopOK
    <2> QED
      BY <1>1, <2>2, <2>3 DEF IInv
  <1>5. CASE op' = [op EXCEPT !.s = @ - 1] /\ op.s > 0
    <2>1. op' \in [kind : {"removeId"}, ws : WS, id : Id, s : Nat]
      BY <1>2, <1>5
    <2>2. op'.kind = "removeId" /\ op'.ws = op.ws /\ op'.s = op.s - 1 /\ op' # Panicked
      BY <1>2, <1>5, <2>1 DEF Panicked
    <2>3. LiveAt' = LiveAt
      BY <1>1, <2>2 DEF LiveAt, Live
    <2>4. Len(clients[op.ws]) \in Nat /\ op.s <= Len(clients[op.ws])
      BY <1>1, <1>2 DEF IInv, TypeOK, LoopOK
    <2>5. TypeOK' /\ NoPanic' /\ LoopOK'
      BY <1>1, <1>2, <2>1, <2>2, <2>4 DEF IInv, TypeOK, OpOK, NoPanic, LoopOK
    <2> QED
      BY <1>1, <2>3, <2>5 DEF IInv
  <1> QED
    BY <1>3, <1>4, <1>5

\* addListener appends a listener and the spec that owns it (listener.go:46-58).
LEMMA AddListenerIInv ==
    ASSUME IInv, NEW q \in Request, NEW r0 \in Relay, NEW f \in Filter,
           AddListener(q, r0, f)
    PROVE  IInv'
  <1> DEFINE w0 == q.ws
             n == len[r0] + 1
             k == Len(clients[w0]) + 1
             spec == [id |-> q.id, cancel |-> q, index |-> n, subrelay |-> r0]
             lis == [ws |-> w0, id |-> q.id, filter |-> f]
  <1>1. /\ Cap \in Nat /\ len \in [Relay -> 0..Cap] /\ n \in 1..Cap /\ n \in Nat
        /\ w0 \in WS /\ q.id \in Id
        /\ clients \in [WS -> Seq(ListenerSpec)]
        /\ backing \in [Relay -> [Slot -> Listener \cup {NoListener}]]
    <2>1. Cap \in Nat /\ Room[r0] \in 1..Cap /\ len \in [Relay -> 0..Cap] /\ len[r0] < Room[r0]
      BY CapAssumption, RoomAssumption DEF IInv, TypeOK, AddListener
    <2>2. n \in 1..Cap /\ n \in Nat
      BY <2>1
    <2>3. q.ws \in WS /\ q.id \in Id
      BY RequestAssumption
    <2> QED
      BY <2>1, <2>2, <2>3 DEF IInv, TypeOK
  <1>2. spec \in ListenerSpec /\ lis \in Listener
    BY <1>1 DEF ListenerSpec, Listener
  <1>3. /\ clients' = [clients EXCEPT ![w0] = Append(clients[w0], spec)]
        /\ backing' = [backing EXCEPT ![r0][n] = lis]
        /\ len' = [len EXCEPT ![r0] = n]
        /\ UNCHANGED <<connected, cancelled, op>> /\ op = Idle /\ w0 \in connected
    BY DEF AddListener
  <1>4. /\ op.kind = "idle" /\ op # Panicked
        /\ LiveAt = [w \in WS |-> DOMAIN clients[w]]
        /\ LiveAt' = [w \in WS |-> DOMAIN clients'[w]]
    BY <1>3 DEF Idle, Panicked, LiveAt, Live
  <1> HIDE DEF spec, lis
  <1>5. /\ clients' \in [WS -> Seq(ListenerSpec)]
        /\ \A w \in WS : DOMAIN clients'[w] = IF w = w0 THEN DOMAIN clients[w] \cup {k} ELSE DOMAIN clients[w]
        /\ k \notin DOMAIN clients[w0]
        /\ clients'[w0][k] = spec
        /\ \A w \in WS : \A s \in DOMAIN clients[w] : clients'[w][s] = clients[w][s]
    <2> DEFINE new == Append(clients[w0], spec)
    <2>1. /\ new \in Seq(ListenerSpec) /\ new[k] = spec /\ k \notin DOMAIN clients[w0]
          /\ DOMAIN new = DOMAIN clients[w0] \cup {k}
          /\ \A s \in DOMAIN clients[w0] : new[s] = clients[w0][s]
      <3>1. clients[w0] \in Seq(ListenerSpec)
        BY <1>1
      <3> QED
        BY <3>1, <1>2
    <2> HIDE DEF new
    <2>2. clients' = [clients EXCEPT ![w0] = new]
      BY <1>3 DEF new
    <2> QED
      BY <1>1, <2>1, <2>2
  <1>6. /\ backing' \in [Relay -> [Slot -> Listener \cup {NoListener}]]
        /\ \A r \in Relay, i \in Slot :
               backing'[r][i] = IF r = r0 /\ i = n THEN lis ELSE backing[r][i]
        /\ len' \in [Relay -> 0..Cap]
        /\ \A r \in Relay : len'[r] = IF r = r0 THEN n ELSE len[r]
    BY <1>1, <1>2, <1>3 DEF Slot
  <1>7. TypeOK' /\ NoPanic' /\ LoopOK'
    BY <1>1, <1>3, <1>4, <1>5, <1>6 DEF IInv, TypeOK, OpOK, NoPanic, LoopOK
  <1>8. \A w \in WS : \A s \in DOMAIN clients[w] :
           /\ clients[w][s].index \in 1..len[clients[w][s].subrelay]
           /\ clients[w][s].subrelay \in Relay
           /\ clients[w][s].index \in Slot
           /\ ~(clients[w][s].subrelay = r0 /\ clients[w][s].index = n)
           /\ backing[clients[w][s].subrelay][clients[w][s].index].ws = w
           /\ backing[clients[w][s].subrelay][clients[w][s].index].id = clients[w][s].id
    <2> SUFFICES ASSUME NEW w \in WS, NEW s \in DOMAIN clients[w]
                 PROVE  /\ clients[w][s].index \in 1..len[clients[w][s].subrelay]
                        /\ clients[w][s].subrelay \in Relay
                        /\ clients[w][s].index \in Slot
                        /\ ~(clients[w][s].subrelay = r0 /\ clients[w][s].index = n)
                        /\ backing[clients[w][s].subrelay][clients[w][s].index].ws = w
                        /\ backing[clients[w][s].subrelay][clients[w][s].index].id = clients[w][s].id
      OBVIOUS
    <2>1. clients[w][s] \in ListenerSpec
      BY <1>1
    <2>2. clients[w][s].subrelay \in Relay
      BY <2>1 DEF ListenerSpec
    <2>3. s \in LiveAt[w]
      BY <1>4
    <2>4. /\ clients[w][s].index \in 1..len[clients[w][s].subrelay]
          /\ backing[clients[w][s].subrelay][clients[w][s].index].ws = w
          /\ backing[clients[w][s].subrelay][clients[w][s].index].id = clients[w][s].id
      BY <2>3 DEF IInv, Paired, Homes
    <2> QED
      BY <2>2, <2>4, <1>1 DEF Slot
  <1>9. Homes(clients', backing', len', LiveAt', {})
    <2> SUFFICES ASSUME NEW w \in WS, NEW s \in DOMAIN clients'[w]
                 PROVE  /\ clients'[w][s].index \in 1..len'[clients'[w][s].subrelay]
                        /\ backing'[clients'[w][s].subrelay][clients'[w][s].index].ws = w
                        /\ backing'[clients'[w][s].subrelay][clients'[w][s].index].id = clients'[w][s].id
      BY <1>4 DEF Homes
    <2>1. CASE w = w0 /\ s = k
      <3>1. spec.index = n /\ spec.subrelay = r0 /\ spec.id = lis.id /\ lis.ws = w0 /\ n \in Slot
        BY <1>1 DEF spec, lis, Slot
      <3> QED
        BY <2>1, <3>1, <1>1, <1>5, <1>6
    <2>2. CASE ~(w = w0 /\ s = k)
      <3>1. s \in DOMAIN clients[w] /\ clients'[w][s] = clients[w][s]
        BY <2>2, <1>5
      <3>2. clients[w][s].index \in 1..len'[clients[w][s].subrelay]
        <4>1. /\ clients[w][s].index \in 1..len[clients[w][s].subrelay]
              /\ clients[w][s].subrelay \in Relay
          BY <3>1, <1>8
        <4>2. \A r \in Relay : len'[r] \in Nat /\ len[r] \in Nat /\ len[r] <= len'[r]
          <5>1. Cap \in Nat /\ len \in [Relay -> 0..Cap]
            BY <1>1
          <5>2. \A r \in Relay : len'[r] = IF r = r0 THEN n ELSE len[r]
            BY <1>6
          <5> QED
            BY <5>1, <5>2
        <4>3. \A r \in Relay : \A i \in 1..len[r] : i \in 1..len'[r]
          BY <4>2
        <4> QED
          BY <4>1, <4>3
      <3>3. /\ backing'[clients[w][s].subrelay][clients[w][s].index].ws = w
            /\ backing'[clients[w][s].subrelay][clients[w][s].index].id = clients[w][s].id
        <4>1. s \in DOMAIN clients[w]
          BY ONLY <3>1
        <4>2. /\ clients[w][s].subrelay \in Relay /\ clients[w][s].index \in Slot
              /\ ~(clients[w][s].subrelay = r0 /\ clients[w][s].index = n)
              /\ backing[clients[w][s].subrelay][clients[w][s].index].ws = w
              /\ backing[clients[w][s].subrelay][clients[w][s].index].id = clients[w][s].id
          BY ONLY <4>1, <1>8
        <4>3. backing'[clients[w][s].subrelay][clients[w][s].index]
                = backing[clients[w][s].subrelay][clients[w][s].index]
          BY ONLY <1>6, <4>2
        <4> QED
          BY ONLY <4>2, <4>3
      <3> QED
        BY ONLY <3>1, <3>2, <3>3
    <2> QED
      BY <2>1, <2>2
  <1>10. Distinct(clients', LiveAt')
    <2> SUFFICES ASSUME NEW w1 \in WS, NEW w2 \in WS,
                        NEW s1 \in DOMAIN clients'[w1], NEW s2 \in DOMAIN clients'[w2],
                        clients'[w1][s1].index = clients'[w2][s2].index,
                        clients'[w1][s1].subrelay = clients'[w2][s2].subrelay
                 PROVE  w1 = w2 /\ s1 = s2
      BY <1>4 DEF Distinct
    <2>1. spec.index = n /\ spec.subrelay = r0
      BY DEF spec
    <2>2. CASE (w1 = w0 /\ s1 = k) \/ (w2 = w0 /\ s2 = k)
      <3>1. ASSUME NEW w \in WS, NEW s \in DOMAIN clients'[w], ~(w = w0 /\ s = k)
            PROVE  ~(clients'[w][s].index = n /\ clients'[w][s].subrelay = r0)
        <4>1. s \in DOMAIN clients[w] /\ clients'[w][s] = clients[w][s]
          BY <3>1, <1>5
        <4> QED
          BY <4>1, <1>8
      <3>2. clients'[w0][k].index = n /\ clients'[w0][k].subrelay = r0
        BY <2>1, <1>5
      <3> HIDE DEF n, k, w0
      <3>3. CASE w1 = w0 /\ s1 = k
        <4>1. clients'[w2][s2].index = n /\ clients'[w2][s2].subrelay = r0
          BY <3>2, <3>3
        <4> QED
          BY <3>1, <3>3, <4>1
      <3>4. CASE w2 = w0 /\ s2 = k
        <4>1. clients'[w1][s1].index = n /\ clients'[w1][s1].subrelay = r0
          BY <3>2, <3>4
        <4> QED
          BY <3>1, <3>4, <4>1
      <3> QED
        BY <2>2, <3>3, <3>4
    <2>3. CASE ~(w1 = w0 /\ s1 = k) /\ ~(w2 = w0 /\ s2 = k)
      <3>1. /\ s1 \in LiveAt[w1] /\ s2 \in LiveAt[w2]
            /\ clients[w1][s1].index = clients[w2][s2].index
            /\ clients[w1][s1].subrelay = clients[w2][s2].subrelay
        BY <2>3, <1>4, <1>5
      <3>2. Distinct(clients, LiveAt)
        BY DEF IInv, Paired
      <3> QED
        BY <3>1, <3>2, DistinctHere
    <2> QED
      BY <2>2, <2>3
  <1>11. Owned(clients', backing', len', LiveAt', {})
    <2> SUFFICES ASSUME NEW r \in Relay, NEW i \in 1..len'[r]
                 PROVE  /\ backing'[r][i] \in Listener
                        /\ \E s \in DOMAIN clients'[backing'[r][i].ws] :
                               /\ clients'[backing'[r][i].ws][s].index = i
                               /\ clients'[backing'[r][i].ws][s].subrelay = r
      <3>1. ASSUME NEW r \in Relay, NEW i \in 1..len'[r], backing'[r][i] \in Listener
            PROVE  LiveAt'[backing'[r][i].ws] = DOMAIN clients'[backing'[r][i].ws]
        BY <3>1, <1>4 DEF Listener
      <3> QED
        BY <3>1 DEF Owned
    <2>1. i \in Slot
      BY <1>1, <1>6 DEF Slot
    <2>2. CASE r = r0 /\ i = n
      <3>1. spec.index = n /\ spec.subrelay = r0 /\ lis.ws = w0
        BY DEF spec, lis
      <3>2. backing'[r][i] = lis
        BY <2>1, <2>2, <1>6
      <3>3. k \in DOMAIN clients'[w0]
        BY <1>1, <1>5
      <3> QED
        BY <2>2, <3>1, <3>2, <3>3, <1>2, <1>5
    <2>3. CASE ~(r = r0 /\ i = n)
      <3> DEFINE l == backing[r][i]
      <3>1. i \in 1..len[r] /\ backing'[r][i] = l
        BY <2>1, <2>3, <1>1, <1>6
      <3>2. l \in Listener /\ \E s \in LiveAt[l.ws] : clients[l.ws][s].index = i /\ clients[l.ws][s].subrelay = r
        BY <3>1 DEF IInv, Paired, Owned
      <3> HIDE DEF l
      <3>3. l.ws \in WS
        BY <3>2 DEF Listener
      <3>4. PICK s \in DOMAIN clients[l.ws] : clients[l.ws][s].index = i /\ clients[l.ws][s].subrelay = r
        BY <3>2, <3>3, <1>4
      <3>5. s \in DOMAIN clients'[l.ws] /\ clients'[l.ws][s] = clients[l.ws][s]
        BY <3>3, <3>4, <1>5
      <3> QED
        BY <3>1, <3>2, <3>4, <3>5
    <2> QED
      BY <2>2, <2>3
  <1>12. DeadOut(clients', len', LiveAt', {})
    BY <1>4 DEF DeadOut
  <1> QED
    BY <1>7, <1>9, <1>10, <1>11, <1>12 DEF IInv, Paired

\* The registry after dropping a spec, and after passing one.
Dropped(w, s) == [clients EXCEPT ![w] = SwapDelete(clients[w], s)]
Passed(w, s) ==
    IF clients[w][s].index = len[clients[w][s].subrelay] THEN clients ELSE SetIndex(clients, w, s, 0)
LiveBut(w, s) == [LiveAt EXCEPT ![w] = @ \ {s}]
Positions(cs) == [w \in WS |-> DOMAIN cs[w]]

\* What Unlist needs to find.
Holed(cs, L, r0, i0) ==
    /\ cs \in [WS -> Seq(ListenerSpec)]
    /\ L \in [WS -> SUBSET Nat]
    /\ r0 \in Relay /\ i0 \in 1..len[r0]
    /\ Paired(cs, backing, len, L, {<<r0, i0>>})

\* Dropping one of its specs leaves a hole at that spec's listener.
LEMMA DropSpecMakesHole ==
    ASSUME IInv, op.kind # "removeClient",
           NEW w0 \in WS, NEW s0 \in 1..Len(clients[w0])
    PROVE  /\ Holed(Dropped(w0, s0), Positions(Dropped(w0, s0)),
                    clients[w0][s0].subrelay, clients[w0][s0].index)
           /\ Len(Dropped(w0, s0)[w0]) = Len(clients[w0]) - 1
           /\ \A w \in WS \ {w0} : Dropped(w0, s0)[w] = clients[w]
  <1> SUFFICES ASSUME NEW cs, cs = Dropped(w0, s0),
                      NEW r0, r0 = clients[w0][s0].subrelay,
                      NEW i0, i0 = clients[w0][s0].index
               PROVE  /\ Holed(cs, Positions(cs), r0, i0)
                      /\ Len(cs[w0]) = Len(clients[w0]) - 1
                      /\ \A w \in WS \ {w0} : cs[w] = clients[w]
    OBVIOUS
  <1> DEFINE n == Len(clients[w0])
             L == Positions(cs)
             from(w, s) == IF w = w0 /\ s = s0 THEN n ELSE s
  <1>0. L = [w \in WS |-> DOMAIN cs[w]]
    BY DEF Positions
  <1> HIDE DEF L
  <1>1. /\ clients \in [WS -> Seq(ListenerSpec)]
        /\ n \in Nat /\ s0 \in 1..n /\ DOMAIN clients[w0] = 1..n
        /\ LiveAt = [w \in WS |-> DOMAIN clients[w]]
        /\ Paired(clients, backing, len, LiveAt, {})
    <2>1. clients \in [WS -> Seq(ListenerSpec)] /\ Paired(clients, backing, len, LiveAt, {})
      BY DEF IInv, TypeOK
    <2>2. clients[w0] \in Seq(ListenerSpec)
      BY <2>1
    <2>3. n \in Nat /\ s0 \in 1..n /\ DOMAIN clients[w0] = 1..n
      BY <2>2
    <2> QED
      BY <2>1, <2>3, LiveIsDomain
  <1>2. /\ SwapDelete(clients[w0], s0) \in Seq(ListenerSpec)
        /\ Len(SwapDelete(clients[w0], s0)) = n - 1
        /\ DOMAIN SwapDelete(clients[w0], s0) = 1..(n - 1)
        /\ \A i \in 1..(n - 1) :
               SwapDelete(clients[w0], s0)[i] = IF i = s0 THEN clients[w0][n] ELSE clients[w0][i]
    <2>1. clients[w0] \in Seq(ListenerSpec)
      BY <1>1
    <2>2. /\ SwapDelete(clients[w0], s0) \in Seq(ListenerSpec)
          /\ Len(SwapDelete(clients[w0], s0)) = n - 1
          /\ \A i \in 1..(n - 1) :
                 SwapDelete(clients[w0], s0)[i] = IF i = s0 THEN clients[w0][n] ELSE clients[w0][i]
      BY <2>1, <1>1, SwapDeleteProperties
    <2> QED
      BY <2>2
  <1>3. /\ cs \in [WS -> Seq(ListenerSpec)]
        /\ cs[w0] = SwapDelete(clients[w0], s0)
        /\ \A w \in WS \ {w0} : cs[w] = clients[w]
    BY <1>1, <1>2 DEF Dropped
  <1>4. ASSUME NEW w \in WS, NEW s \in L[w]
        PROVE  /\ s \in DOMAIN cs[w]
               /\ from(w, s) \in DOMAIN clients[w]
               /\ ~(w = w0 /\ from(w, s) = s0)
               /\ cs[w][s] = clients[w][from(w, s)]
    <2>1. CASE w = w0
      <3>1. s \in 1..(n - 1)
        BY <2>1, <1>0, <1>2, <1>3
      <3> QED
        <4>1. s \in DOMAIN cs[w] /\ cs[w][s] = IF s = s0 THEN clients[w0][n] ELSE clients[w0][s]
          BY <2>1, <3>1, <1>2, <1>3
        <4>2. from(w, s) = IF s = s0 THEN n ELSE s
          BY <2>1
        <4>3. n \in Nat /\ s0 \in 1..n /\ DOMAIN clients[w] = 1..n
          BY <2>1, <1>1
        <4> HIDE DEF from, n
        <4>4. from(w, s) \in 1..n /\ from(w, s) # s0
          BY <3>1, <4>2, <4>3
        <4> QED
          BY <2>1, <4>1, <4>2, <4>3, <4>4
    <2>2. CASE w # w0
      BY <2>2, <1>0, <1>1, <1>3
    <2> QED
      BY <2>1, <2>2
  <1>5. ASSUME NEW w \in WS, NEW t \in DOMAIN clients[w], ~(w = w0 /\ t = s0)
        PROVE  \E s \in L[w] : from(w, s) = t
    <2>1. CASE w = w0 /\ t = n
      <3>1. s0 \in L[w] /\ from(w, s0) = t
        BY <2>1, <1>0, <1>1, <1>2, <1>3, <1>5
      <3> QED
        BY <3>1
    <2>2. CASE w = w0 /\ t # n
      <3>1. t \in L[w] /\ from(w, t) = t
        BY <2>2, <1>0, <1>1, <1>2, <1>3, <1>5
      <3> QED
        BY <3>1
    <2>3. CASE w # w0
      <3>1. t \in L[w] /\ from(w, t) = t
        BY <2>3, <1>0, <1>1, <1>3
      <3> QED
        BY <3>1
    <2> QED
      BY <2>1, <2>2, <2>3
  <1>6. ASSUME NEW w \in WS, NEW s1 \in L[w], NEW s2 \in L[w], from(w, s1) = from(w, s2)
        PROVE  s1 = s2
    <2>1. CASE w = w0
      <3>1. s1 \in 1..(n - 1) /\ s2 \in 1..(n - 1)
        BY <2>1, <1>0, <1>2, <1>3
      <3> QED
        BY <2>1, <3>1, <1>1, <1>6
    <2>2. CASE w # w0
      BY <2>2, <1>6
    <2> QED
      BY <2>1, <2>2
  <1>7. /\ \A w \in WS : \A s \in DOMAIN clients[w] :
              /\ clients[w][s].index \in 1..len[clients[w][s].subrelay]
              /\ backing[clients[w][s].subrelay][clients[w][s].index].ws = w
              /\ backing[clients[w][s].subrelay][clients[w][s].index].id = clients[w][s].id
        /\ r0 \in Relay /\ i0 \in 1..len[r0]
    <2>1. Homes(clients, backing, len, LiveAt, {})
      BY <1>1 DEF Paired
    <2>2. \A w \in WS : LiveAt[w] = DOMAIN clients[w]
      BY <1>1
    <2>3. s0 \in DOMAIN clients[w0] /\ clients[w0][s0] \in ListenerSpec
      BY <1>1
    <2>4. \A w \in WS : \A s \in DOMAIN clients[w] :
              /\ clients[w][s].index \in 1..len[clients[w][s].subrelay]
              /\ backing[clients[w][s].subrelay][clients[w][s].index].ws = w
              /\ backing[clients[w][s].subrelay][clients[w][s].index].id = clients[w][s].id
      BY ONLY <2>1, <2>2 DEF Homes
    <2> QED
      BY <2>3, <2>4 DEF ListenerSpec
  <1>8. ASSUME NEW w1 \in WS, NEW w2 \in WS,
               NEW s1 \in DOMAIN clients[w1], NEW s2 \in DOMAIN clients[w2],
               clients[w1][s1].index = clients[w2][s2].index,
               clients[w1][s1].subrelay = clients[w2][s2].subrelay
        PROVE  w1 = w2 /\ s1 = s2
    <2>1. Distinct(clients, LiveAt) /\ s1 \in LiveAt[w1] /\ s2 \in LiveAt[w2]
      BY <1>1 DEF Paired
    <2> QED
      BY <2>1, <1>8, DistinctHere
  <1> HIDE DEF from
  <1>9. Homes(cs, backing, len, L, {<<r0, i0>>})
    <2> SUFFICES ASSUME NEW w \in WS, NEW s \in L[w]
                 PROVE  /\ s \in DOMAIN cs[w]
                        /\ cs[w][s].index \in 1..len[cs[w][s].subrelay]
                        /\ <<cs[w][s].subrelay, cs[w][s].index>> \notin {<<r0, i0>>}
                        /\ backing[cs[w][s].subrelay][cs[w][s].index].ws = w
                        /\ backing[cs[w][s].subrelay][cs[w][s].index].id = cs[w][s].id
      BY DEF Homes
    <2> DEFINE t == from(w, s)
    <2>1. s \in DOMAIN cs[w] /\ t \in DOMAIN clients[w] /\ ~(w = w0 /\ t = s0) /\ cs[w][s] = clients[w][t]
      BY <1>4
    <2> HIDE DEF t
    <2>2. ~(clients[w][t].subrelay = r0 /\ clients[w][t].index = i0)
      BY <2>1, <1>1, <1>8
    <2>3. /\ clients[w][t].index \in 1..len[clients[w][t].subrelay]
          /\ backing[clients[w][t].subrelay][clients[w][t].index].ws = w
          /\ backing[clients[w][t].subrelay][clients[w][t].index].id = clients[w][t].id
      BY ONLY <2>1, <1>7
    <2> QED
      BY ONLY <2>1, <2>2, <2>3
  <1>10. Distinct(cs, L)
    <2> SUFFICES ASSUME NEW w1 \in WS, NEW w2 \in WS, NEW s1 \in L[w1], NEW s2 \in L[w2],
                        cs[w1][s1].index = cs[w2][s2].index,
                        cs[w1][s1].subrelay = cs[w2][s2].subrelay
                 PROVE  w1 = w2 /\ s1 = s2
      BY DEF Distinct
    <2>1. /\ from(w1, s1) \in DOMAIN clients[w1] /\ cs[w1][s1] = clients[w1][from(w1, s1)]
          /\ from(w2, s2) \in DOMAIN clients[w2] /\ cs[w2][s2] = clients[w2][from(w2, s2)]
      BY <1>4
    <2>2. w1 = w2 /\ from(w1, s1) = from(w2, s2)
      BY <2>1, <1>8
    <2> QED
      BY <2>2, <1>6
  <1>11. Owned(cs, backing, len, L, {<<r0, i0>>})
    <2> SUFFICES ASSUME NEW r \in Relay, NEW i \in 1..len[r], <<r, i>> \notin {<<r0, i0>>}
                 PROVE  /\ backing[r][i] \in Listener
                        /\ \E s \in L[backing[r][i].ws] :
                               /\ cs[backing[r][i].ws][s].index = i
                               /\ cs[backing[r][i].ws][s].subrelay = r
      BY DEF Owned
    <2> DEFINE l == backing[r][i]
    <2>1. l \in Listener /\ \E t \in LiveAt[l.ws] : clients[l.ws][t].index = i /\ clients[l.ws][t].subrelay = r
      BY <1>1 DEF Paired, Owned
    <2> HIDE DEF l
    <2>2. l.ws \in WS
      BY <2>1 DEF Listener
    <2>3. PICK t \in DOMAIN clients[l.ws] : clients[l.ws][t].index = i /\ clients[l.ws][t].subrelay = r
      BY <2>1, <2>2, <1>1
    <2>4. ~(l.ws = w0 /\ t = s0)
      BY <2>3
    <2>5. PICK s \in L[l.ws] : from(l.ws, s) = t
      BY <2>2, <2>4, <1>5
    <2>6. cs[l.ws][s] = clients[l.ws][t]
      BY <2>2, <2>5, <1>4
    <2> QED
      BY <2>1, <2>3, <2>5, <2>6 DEF l
  <1>12. DeadOut(cs, len, L, {<<r0, i0>>})
    BY <1>0 DEF DeadOut
  <1>13. L \in [WS -> SUBSET Nat]
    BY <1>0, <1>3
  <1> QED
    BY <1>2, <1>3, <1>7, <1>9, <1>10, <1>11, <1>12, <1>13 DEF Paired, Holed, L

\* So does passing one of them, provided the passed spec keeps its index only
\* when that is the last: the -1 of removeClientAndListeners.
LEMMA PassSpecMakesHole ==
    ASSUME IInv, NEW w0 \in WS, NEW s0 \in LiveAt[w0]
    PROVE  /\ Holed(Passed(w0, s0), LiveBut(w0, s0),
                    clients[w0][s0].subrelay, clients[w0][s0].index)
           /\ \A w \in WS : Len(Passed(w0, s0)[w]) = Len(clients[w])
  <1> SUFFICES ASSUME NEW cs, cs = Passed(w0, s0),
                      NEW L, L = LiveBut(w0, s0),
                      NEW r0, r0 = clients[w0][s0].subrelay,
                      NEW i0, i0 = clients[w0][s0].index
               PROVE  /\ Holed(cs, L, r0, i0)
                      /\ \A w \in WS : Len(cs[w]) = Len(clients[w])
    OBVIOUS
  <1>1. /\ clients \in [WS -> Seq(ListenerSpec)] /\ Cap \in Nat
        /\ Homes(clients, backing, len, LiveAt, {})
        /\ Distinct(clients, LiveAt)
        /\ Owned(clients, backing, len, LiveAt, {})
        /\ DeadOut(clients, len, LiveAt, {})
    BY CapAssumption DEF IInv, TypeOK, Paired
  <1>2. \A w \in WS : DOMAIN clients[w] \subseteq Nat
    BY <1>1
  <1>3. LiveAt \in [WS -> SUBSET Nat] /\ \A w \in WS : LiveAt[w] \subseteq DOMAIN clients[w]
    BY <1>2 DEF LiveAt
  <1>4. /\ L \in [WS -> SUBSET Nat]
        /\ \A w \in WS : L[w] = IF w = w0 THEN LiveAt[w] \ {s0} ELSE LiveAt[w]
    BY <1>3 DEF LiveBut
  <1>5. s0 \in DOMAIN clients[w0] /\ 0 \in 0..Cap
    BY <1>1, <1>3
  <1>6. /\ cs \in [WS -> Seq(ListenerSpec)]
        /\ \A w \in WS : Len(cs[w]) = Len(clients[w]) /\ DOMAIN cs[w] = DOMAIN clients[w]
        /\ \A w \in WS : \A s \in DOMAIN clients[w] :
               /\ cs[w][s].id = clients[w][s].id
               /\ cs[w][s].subrelay = clients[w][s].subrelay
               /\ ~(w = w0 /\ s = s0) => cs[w][s].index = clients[w][s].index
        /\ cs[w0][s0].index = IF i0 = len[r0] THEN i0 ELSE 0
    <2>1. CASE i0 = len[r0]
      BY <2>1, <1>1 DEF Passed
    <2>2. CASE i0 # len[r0]
      <3>1. OnlyIndex(cs, clients, w0, s0, 0)
        BY <2>2, <1>1, <1>5, SetIndexProperties DEF Passed
      <3> QED
        BY <2>2, <3>1, <1>5 DEF OnlyIndex
    <2> QED
      BY <2>1, <2>2
  <1>7. r0 \in Relay /\ i0 \in 1..len[r0]
    <2>1. clients[w0][s0] \in ListenerSpec
      BY <1>1, <1>5
    <2> QED
      BY <2>1, <1>1 DEF Homes, ListenerSpec
  <1>8. ASSUME NEW w \in WS, NEW s \in L[w]
        PROVE  s \in LiveAt[w] /\ s \in DOMAIN clients[w] /\ ~(w = w0 /\ s = s0)
    BY <1>3, <1>4
  <1>9. Homes(cs, backing, len, L, {<<r0, i0>>})
    <2> SUFFICES ASSUME NEW w \in WS, NEW s \in L[w]
                 PROVE  /\ s \in DOMAIN cs[w]
                        /\ cs[w][s].index \in 1..len[cs[w][s].subrelay]
                        /\ <<cs[w][s].subrelay, cs[w][s].index>> \notin {<<r0, i0>>}
                        /\ backing[cs[w][s].subrelay][cs[w][s].index].ws = w
                        /\ backing[cs[w][s].subrelay][cs[w][s].index].id = cs[w][s].id
      BY DEF Homes
    <2>1. s \in LiveAt[w] /\ s \in DOMAIN clients[w] /\ ~(w = w0 /\ s = s0)
      BY <1>8
    <2>2. ~(clients[w][s].subrelay = r0 /\ clients[w][s].index = i0)
      <3>1. Distinct(clients, LiveAt) /\ s0 \in LiveAt[w0]
        BY <1>1
      <3>2. \A v \in WS : \A k \in LiveAt[v] :
               clients[v][k].index = clients[w0][s0].index
               /\ clients[v][k].subrelay = clients[w0][s0].subrelay => v = w0 /\ k = s0
        BY ONLY <3>1 DEF Distinct
      <3> QED
        BY <2>1, <3>2
    <2>3. /\ clients[w][s].index \in 1..len[clients[w][s].subrelay]
          /\ backing[clients[w][s].subrelay][clients[w][s].index].ws = w
          /\ backing[clients[w][s].subrelay][clients[w][s].index].id = clients[w][s].id
      BY <2>1, <1>1 DEF Homes
    <2> QED
      BY <2>1, <2>2, <2>3, <1>6
  <1>10. Distinct(cs, L)
    <2> SUFFICES ASSUME NEW w1 \in WS, NEW w2 \in WS, NEW s1 \in L[w1], NEW s2 \in L[w2],
                        cs[w1][s1].index = cs[w2][s2].index,
                        cs[w1][s1].subrelay = cs[w2][s2].subrelay
                 PROVE  w1 = w2 /\ s1 = s2
      BY DEF Distinct
    <2>1. /\ s1 \in LiveAt[w1] /\ clients[w1][s1].index = cs[w1][s1].index
          /\ clients[w1][s1].subrelay = cs[w1][s1].subrelay
      BY <1>6, <1>8
    <2>2. /\ s2 \in LiveAt[w2] /\ clients[w2][s2].index = cs[w2][s2].index
          /\ clients[w2][s2].subrelay = cs[w2][s2].subrelay
      BY <1>6, <1>8
    <2> QED
      BY <2>1, <2>2, <1>1, DistinctHere
  <1>11. Owned(cs, backing, len, L, {<<r0, i0>>})
    <2> SUFFICES ASSUME NEW r \in Relay, NEW i \in 1..len[r], <<r, i>> \notin {<<r0, i0>>}
                 PROVE  /\ backing[r][i] \in Listener
                        /\ \E s \in L[backing[r][i].ws] :
                               /\ cs[backing[r][i].ws][s].index = i
                               /\ cs[backing[r][i].ws][s].subrelay = r
      BY DEF Owned
    <2> DEFINE l == backing[r][i]
    <2>1. l \in Listener /\ \E t \in LiveAt[l.ws] : clients[l.ws][t].index = i /\ clients[l.ws][t].subrelay = r
      BY <1>1 DEF Owned
    <2> HIDE DEF l
    <2>2. l.ws \in WS
      BY <2>1 DEF Listener
    <2>3. PICK t \in LiveAt[l.ws] : clients[l.ws][t].index = i /\ clients[l.ws][t].subrelay = r
      BY <2>1
    <2>4. ~(l.ws = w0 /\ t = s0)
      BY <2>3
    <2>5. t \in L[l.ws] /\ t \in DOMAIN clients[l.ws]
      BY <2>2, <2>3, <2>4, <1>3, <1>4
    <2>6. cs[l.ws][t].index = i /\ cs[l.ws][t].subrelay = r
      BY <2>2, <2>3, <2>4, <2>5, <1>6
    <2> QED
      BY <2>1, <2>5, <2>6 DEF l
  <1>12. DeadOut(cs, len, L, {<<r0, i0>>})
    <2> SUFFICES ASSUME NEW w \in WS, NEW s \in DOMAIN cs[w] \ L[w]
                 PROVE  \/ cs[w][s].index = 0
                        \/ cs[w][s].index > len[cs[w][s].subrelay]
                        \/ /\ cs[w][s].index = len[cs[w][s].subrelay]
                           /\ <<cs[w][s].subrelay, cs[w][s].index>> \in {<<r0, i0>>}
      BY DEF DeadOut
    <2>1. s \in DOMAIN clients[w] /\ cs[w][s].subrelay = clients[w][s].subrelay
      BY <1>6
    <2>2. CASE w = w0 /\ s = s0
      <3>1. cs[w0][s0].subrelay = r0
        BY <2>1, <2>2
      <3> QED
        BY <2>2, <3>1, <1>6
    <2>3. CASE ~(w = w0 /\ s = s0)
      <3>1. s \in DOMAIN clients[w] \ LiveAt[w] /\ cs[w][s].index = clients[w][s].index
        BY <2>1, <2>3, <1>4, <1>6
      <3>2. \/ clients[w][s].index = 0
            \/ clients[w][s].index > len[clients[w][s].subrelay]
        BY <3>1, <1>1 DEF DeadOut
      <3> QED
        BY <2>1, <3>1, <3>2
    <2> QED
      BY <2>2, <2>3
  <1> QED
    BY <1>4, <1>6, <1>7, <1>9, <1>10, <1>11, <1>12 DEF Paired, Holed

\* An iteration of removeListenerId that removes: the spec goes, which leaves a
\* hole, and the swap-delete of the listener closes it (listener.go:72-95).
LEMMA RemoveIdMatchIInv ==
    ASSUME IInv, RemoveIdMatch
    PROVE  IInv'
  <1> DEFINE w0 == op.ws
             s0 == op.s
             r0 == clients[w0][s0].subrelay
             i0 == clients[w0][s0].index
             cs == Dropped(w0, s0)
             next == [op EXCEPT !.s = @ - 1]
             L == Positions(cs)
  <1>1. /\ op.kind = "removeId" /\ w0 \in WS /\ s0 \in Nat
        /\ op \in [kind : {"removeId"}, ws : WS, id : Id, s : Nat]
    BY DEF IInv, TypeOK, OpOK, RemoveIdMatch, Idle, Panicked
  <1>2. s0 \in 1..Len(clients[w0])
    <2>1. Len(clients[w0]) \in Nat
      BY <1>1 DEF IInv, TypeOK
    <2> QED
      BY <1>1, <2>1 DEF IInv, LoopOK, RemoveIdMatch
  <1>3. next \in [kind : {"removeId"}, ws : WS, id : Id, s : Nat]
        /\ next.kind = "removeId" /\ next.ws = w0 /\ next.s = s0 - 1
    BY <1>1, <1>2
  <1>4. /\ connected' = connected /\ cancelled' = cancelled \cup {clients[w0][s0].cancel}
        /\ Unlist(r0, i0, cs, next)
    BY DEF RemoveIdMatch, Dropped
  <1>5. clients[w0][s0].cancel \in Request
    <2>1. clients[w0][s0] \in ListenerSpec
      BY <1>1, <1>2 DEF IInv, TypeOK
    <2> QED
      BY <2>1 DEF ListenerSpec
  <1>6. /\ Holed(cs, L, r0, i0)
        /\ Len(cs[w0]) = Len(clients[w0]) - 1
        /\ \A w \in WS \ {w0} : cs[w] = clients[w]
    BY <1>1, <1>2, DropSpecMakesHole
  <1> HIDE DEF cs, r0, i0, next
  <1>7. L = [w \in WS |-> DOMAIN cs[w]]
    BY DEF Positions
  <1> HIDE DEF L
  <1>8. /\ op' = next
        /\ clients' \in [WS -> Seq(ListenerSpec)]
        /\ \A w \in WS : Len(clients'[w]) = Len(cs[w])
        /\ backing' \in [Relay -> [Slot -> Listener \cup {NoListener}]]
        /\ len' \in [Relay -> 0..Cap]
        /\ Paired(clients', backing', len', L, {})
    <2>1. TypeOK
      BY DEF IInv
    <2> QED
      BY <2>1, <1>4, <1>6, UnlistClosesHole DEF Holed
  <1>9. LiveAt' = L
    <2>1. \A w \in WS : DOMAIN clients'[w] = DOMAIN cs[w]
      BY <1>6, <1>8 DEF Holed
    <2>2. op'.kind # "removeClient"
      BY <1>3, <1>8
    <2>3. LiveAt' = [w \in WS |-> DOMAIN clients'[w]]
      BY <2>2 DEF LiveAt, Live
    <2> QED
      BY <2>1, <2>3, <1>7
  <1>10. TypeOK'
    BY <1>3, <1>4, <1>5, <1>8 DEF IInv, TypeOK, OpOK
  <1>11. NoPanic'
    BY <1>3, <1>8 DEF NoPanic, Panicked
  <1>12. LoopOK'
    <2>1. op'.kind = "removeId" /\ op'.ws = w0 /\ op'.s = s0 - 1
      BY <1>3, <1>8
    <2>2. Len(clients'[w0]) = Len(clients[w0]) - 1 /\ Len(clients[w0]) \in Nat
      BY <1>1, <1>6, <1>8 DEF IInv, TypeOK
    <2>3. op'.s <= Len(clients'[op'.ws])
      BY <2>1, <2>2, <1>2
    <2>4. ASSUME NEW w \in WS \ connected' PROVE clients'[w] = <<>>
      <3>1. w # w0
        BY <1>1, <1>2, <1>4 DEF IInv, LoopOK
      <3>2. cs[w] = <<>>
        BY <3>1, <1>4, <1>6 DEF IInv, LoopOK
      <3>3. Len(clients'[w]) = 0 /\ clients'[w] \in Seq(ListenerSpec)
        BY <3>2, <1>8
      <3> QED
        BY <3>3
    <2> QED
      BY <2>1, <2>3, <2>4 DEF LoopOK
  <1> QED
    BY <1>8, <1>9, <1>10, <1>11, <1>12 DEF IInv

\* An iteration of removeClientAndListeners: the spec is passed, which leaves a
\* hole, and the swap-delete of the listener closes it (listener.go:106-129).
LEMMA RemoveClientStepIInv ==
    ASSUME IInv, RemoveClientStep
    PROVE  IInv'
  <1> DEFINE w0 == op.ws
             s0 == op.s
             r0 == clients[w0][s0].subrelay
             i0 == clients[w0][s0].index
             cs == Passed(w0, s0)
             next == [op EXCEPT !.s = @ + 1]
             L == LiveBut(w0, s0)
  <1>1. /\ op.kind = "removeClient" /\ w0 \in WS /\ s0 \in Nat
        /\ op \in [kind : {"removeClient"}, ws : WS, s : Nat]
    BY DEF IInv, TypeOK, OpOK, RemoveClientStep, Idle, Panicked
  <1>2. s0 \in 1..Len(clients[w0]) /\ DOMAIN clients[w0] = 1..Len(clients[w0])
        /\ Len(clients[w0]) \in Nat
    <2>1. clients[w0] \in Seq(ListenerSpec)
      BY <1>1 DEF IInv, TypeOK
    <2> QED
      BY <1>1, <2>1 DEF IInv, LoopOK, RemoveClientStep
  <1>3. next \in [kind : {"removeClient"}, ws : WS, s : Nat]
        /\ next.kind = "removeClient" /\ next.ws = w0 /\ next.s = s0 + 1
    BY <1>1
  <1>4. /\ UNCHANGED <<connected, cancelled>>
        /\ Unlist(r0, i0, cs, next)
    BY DEF RemoveClientStep, Passed
  <1>5. s0 \in LiveAt[w0]
    BY <1>1, <1>2 DEF LiveAt, Live
  <1>6. /\ Holed(cs, L, r0, i0)
        /\ \A w \in WS : Len(cs[w]) = Len(clients[w])
    BY <1>1, <1>5, PassSpecMakesHole
  <1> HIDE DEF cs, r0, i0, next, L
  <1>7. /\ op' = next
        /\ clients' \in [WS -> Seq(ListenerSpec)]
        /\ \A w \in WS : Len(clients'[w]) = Len(cs[w])
        /\ backing' \in [Relay -> [Slot -> Listener \cup {NoListener}]]
        /\ len' \in [Relay -> 0..Cap]
        /\ Paired(clients', backing', len', L, {})
    <2>1. TypeOK
      BY DEF IInv
    <2> QED
      BY <2>1, <1>4, <1>6, UnlistClosesHole DEF Holed
  <1>8. LiveAt' = L
    <2>1. \A w \in WS : DOMAIN clients'[w] = DOMAIN clients[w] /\ DOMAIN clients[w] \subseteq Nat
      BY <1>6, <1>7 DEF IInv, TypeOK
    <2>2. op'.kind = "removeClient" /\ op'.ws = w0 /\ op'.s = s0 + 1
      BY <1>3, <1>7
    <2>3. \A w \in WS : LiveAt'[w] = {s \in DOMAIN clients[w] : ~(w = w0 /\ s < s0 + 1)}
      BY <2>1, <2>2 DEF LiveAt, Live
    <2>4. \A w \in WS : LiveAt[w] = {s \in DOMAIN clients[w] : ~(w = w0 /\ s < s0)}
      BY <1>1 DEF LiveAt, Live
    <2>5. ASSUME NEW w \in WS PROVE LiveAt'[w] = L[w]
      <3>1. CASE w = w0
        <4>1. L[w] = LiveAt[w] \ {s0}
          BY <3>1, <1>1 DEF L, LiveAt, LiveBut
        <4>2. \A s \in DOMAIN clients[w] : ~(s < s0 + 1) <=> (~(s < s0) /\ s # s0)
          BY <2>1, <1>1
        <4> QED
          BY <3>1, <4>1, <4>2, <2>3, <2>4
      <3>2. CASE w # w0
        <4>1. L[w] = LiveAt[w]
          BY <3>2 DEF L, LiveAt, LiveBut
        <4> QED
          BY <3>2, <4>1, <2>3, <2>4
      <3> QED
        BY <3>1, <3>2
    <2>6. LiveAt' = [w \in WS |-> LiveAt'[w]] /\ L = [w \in WS |-> L[w]]
      BY DEF LiveAt, L, LiveBut
    <2> QED
      BY <2>5, <2>6
  <1>9. TypeOK'
    BY <1>3, <1>4, <1>7 DEF IInv, TypeOK, OpOK
  <1>10. NoPanic'
    BY <1>3, <1>7 DEF NoPanic, Panicked
  <1>11. LoopOK'
    <2>1. op'.kind = "removeClient" /\ op'.ws = w0 /\ op'.s = s0 + 1
      BY <1>3, <1>7
    <2>2. Len(clients'[w0]) = Len(clients[w0])
      BY <1>1, <1>6, <1>7
    <2>3. op'.ws \in connected' /\ op'.s \in 1..(Len(clients'[op'.ws]) + 1)
      BY <2>1, <2>2, <1>1, <1>2, <1>4 DEF IInv, LoopOK
    <2>4. ASSUME NEW w \in WS \ connected' PROVE clients'[w] = <<>>
      <3>1. clients[w] = <<>>
        BY <1>4 DEF IInv, LoopOK
      <3>2. Len(clients'[w]) = 0 /\ clients'[w] \in Seq(ListenerSpec)
        BY <3>1, <1>6, <1>7
      <3> QED
        BY <3>2
    <2> QED
      BY <2>1, <2>3, <2>4 DEF LoopOK
  <1> QED
    BY <1>7, <1>8, <1>9, <1>10, <1>11 DEF IInv

\* delete(rl.clients, ws) drops only specs that have been passed.
LEMMA RemoveClientReturnIInv ==
    ASSUME IInv, RemoveClientReturn
    PROVE  IInv'
  <1>1. /\ op.kind = "removeClient" /\ op.ws \in WS /\ op.s \in Nat /\ op.s > Len(clients[op.ws])
        /\ clients \in [WS -> Seq(ListenerSpec)]
        /\ clients' = [clients EXCEPT ![op.ws] = <<>>]
        /\ connected' = connected \ {op.ws}
        /\ op' = Idle /\ op'.kind = "idle" /\ op' # Panicked
        /\ UNCHANGED <<backing, len, cancelled>>
    BY DEF IInv, TypeOK, OpOK, RemoveClientReturn, Idle, Panicked
  <1>2. /\ clients' \in [WS -> Seq(ListenerSpec)]
        /\ clients'[op.ws] = <<>> /\ DOMAIN clients'[op.ws] = {}
        /\ \A w \in WS : w # op.ws => clients'[w] = clients[w]
    <2>1. <<>> \in Seq(ListenerSpec) /\ DOMAIN <<>> = {}
      OBVIOUS
    <2> QED
      BY <1>1, <2>1
  <1>3. LiveAt[op.ws] = {}
    <2>1. DOMAIN clients[op.ws] = 1..Len(clients[op.ws]) /\ Len(clients[op.ws]) \in Nat
      BY <1>1
    <2> QED
      BY <1>1, <2>1 DEF LiveAt, Live
  <1>4. \A w \in WS : /\ LiveAt'[w] = LiveAt[w]
                      /\ w # op.ws => LiveAt[w] = DOMAIN clients[w]
    BY <1>1, <1>2, <1>3 DEF LiveAt, Live
  <1>5. LiveAt' = LiveAt
    BY <1>4 DEF LiveAt
  <1>6. TypeOK' /\ NoPanic' /\ LoopOK'
    BY <1>1, <1>2 DEF IInv, TypeOK, OpOK, NoPanic, LoopOK
  <1>7. Homes(clients', backing', len', LiveAt', {}) /\ Distinct(clients', LiveAt')
    <2>1. /\ Homes(clients, backing, len, LiveAt, {}) /\ Distinct(clients, LiveAt)
          /\ \A w \in WS : \A s \in LiveAt[w] : w # op.ws /\ clients'[w] = clients[w]
      BY <1>2, <1>3 DEF IInv, Paired
    <2>2. Homes(clients', backing', len', LiveAt', {})
      BY <2>1, <1>1, <1>5 DEF Homes
    <2>3. Distinct(clients', LiveAt')
      BY <2>1, <1>5 DEF Distinct
    <2> QED
      BY <2>2, <2>3
  <1>8. Owned(clients', backing', len', LiveAt', {})
    <2> SUFFICES ASSUME NEW r \in Relay, NEW i \in 1..len[r]
                 PROVE  /\ backing[r][i] \in Listener
                        /\ \E s \in LiveAt[backing[r][i].ws] :
                               /\ clients'[backing[r][i].ws][s].index = i
                               /\ clients'[backing[r][i].ws][s].subrelay = r
      BY <1>1, <1>5 DEF Owned
    <2> DEFINE l == backing[r][i]
    <2>1. l \in Listener /\ \E t \in LiveAt[l.ws] : clients[l.ws][t].index = i /\ clients[l.ws][t].subrelay = r
      BY DEF IInv, Paired, Owned
    <2> HIDE DEF l
    <2>2. l.ws \in WS /\ l.ws # op.ws
      BY <2>1, <1>3 DEF Listener
    <2> QED
      BY <2>1, <2>2, <1>2 DEF l
  <1>9. DeadOut(clients', len', LiveAt', {})
    BY <1>1, <1>2, <1>4, <1>5 DEF DeadOut
  <1> QED
    BY <1>5, <1>6, <1>7, <1>8, <1>9 DEF IInv, Paired

\* Every step of the registry preserves the invariant.
LEMMA NextIInv == IInv /\ [Next]_vars => IInv'
  <1> SUFFICES ASSUME IInv, [Next]_vars PROVE IInv'
    OBVIOUS
  <1>1. CASE UNCHANGED vars
    <2>1. UNCHANGED <<connected, clients, backing, len, cancelled, op>>
      BY <1>1 DEF vars
    <2>2. TypeOK' /\ NoPanic' /\ LoopOK'
      BY <2>1 DEF IInv, TypeOK, OpOK, NoPanic, LoopOK
    <2>3. LiveAt' = LiveAt
      BY <2>1 DEF LiveAt, Live
    <2> QED
      BY <2>1, <2>2, <2>3 DEF IInv
  <1>2. CASE Next
    BY <1>2, ConnectIInv, AddListenerIInv, RemoveListenerIdIInv, RemoveIdMatchIInv,
       RemoveIdSkipIInv, RemoveClientAndListenersIInv, RemoveClientStepIInv,
       RemoveClientReturnIInv DEF Next
  <1> QED
    BY <1>1, <1>2

\* The inductive invariant holds in every reachable state.
THEOREM InvariantHolds == Spec => []IInv
  <1> QED
    BY InitIInv, NextIInv, PTL DEF Spec

\* The registry's variables always have their types; in particular every index
\* a removal uses is within the slice (listener.go:36-133).
THEOREM TypeCorrect == Spec => []TypeOK
  <1>1. IInv => TypeOK
    BY DEF IInv
  <1> QED
    BY <1>1, InvariantHolds, PTL

\* IndexFunc always finds the moved listener's spec: removeListenerId and
\* removeClientAndListeners never index at -1 (listener.go:92, 126).
THEOREM NeverPanics == Spec => []NoPanic
  <1>1. IInv => NoPanic
    BY DEF IInv
  <1> QED
    BY <1>1, InvariantHolds, PTL

\* Every live spec points at a listener of its own websocket and id, so a
\* removal takes away what the client asked for (listener.go:64-133).
THEOREM SpecsAlwaysPointHome == Spec => []SpecsPointHome
  <1>1. IInv => SpecsPointHome
    <2> SUFFICES ASSUME IInv, NEW w \in WS, NEW s \in DOMAIN clients[w], Live(w, s)
                 PROVE  LET spec == clients[w][s]
                        IN  /\ spec.index \in 1..len[spec.subrelay]
                            /\ backing[spec.subrelay][spec.index].ws = w
                            /\ backing[spec.subrelay][spec.index].id = spec.id
      BY DEF SpecsPointHome
    <2>1. s \in LiveAt[w]
      BY DEF LiveAt
    <2> QED
      BY <2>1 DEF IInv, Paired, Homes
  <1> QED
    BY <1>1, InvariantHolds, PTL

\* No two live specs share a listener.
THEOREM SpecsAlwaysDistinct == Spec => []SpecsDistinct
  <1>1. IInv => SpecsDistinct
    <2> SUFFICES ASSUME IInv, NEW w1 \in WS, NEW w2 \in WS,
                        NEW s1 \in DOMAIN clients[w1], NEW s2 \in DOMAIN clients[w2],
                        Live(w1, s1), Live(w2, s2),
                        clients[w1][s1].index = clients[w2][s2].index,
                        clients[w1][s1].subrelay = clients[w2][s2].subrelay
                 PROVE  w1 = w2 /\ s1 = s2
      BY DEF SpecsDistinct
    <2>1. s1 \in LiveAt[w1] /\ s2 \in LiveAt[w2] /\ Distinct(clients, LiveAt)
      BY DEF LiveAt, IInv, Paired
    <2> QED
      BY <2>1, DistinctHere
  <1> QED
    BY <1>1, InvariantHolds, PTL

\* Every listener belongs to a live spec of a connected websocket: a client
\* that has gone leaves no listener behind (listener.go:101-133).
THEOREM ListenersAlwaysOwned == Spec => []ListenersOwned
  <1>1. IInv => ListenersOwned
    <2> SUFFICES ASSUME IInv, NEW r \in Relay, NEW i \in 1..len[r]
                 PROVE  LET w == backing[r][i].ws
                        IN  w \in connected /\ \E s \in DOMAIN clients[w] :
                                /\ Live(w, s)
                                /\ clients[w][s].index = i
                                /\ clients[w][s].subrelay = r
      BY DEF ListenersOwned
    <2> DEFINE w == backing[r][i].ws
    <2>1. /\ backing[r][i] \in Listener
          /\ \E s \in LiveAt[w] : clients[w][s].index = i /\ clients[w][s].subrelay = r
      BY DEF IInv, Paired, Owned
    <2>2. w \in WS
      BY <2>1 DEF Listener
    <2> HIDE DEF w
    <2>3. PICK s \in LiveAt[w] : clients[w][s].index = i /\ clients[w][s].subrelay = r
      BY <2>1
    <2>4. s \in DOMAIN clients[w] /\ Live(w, s)
      BY <2>2, <2>3 DEF LiveAt
    <2>5. DOMAIN <<>> = {}
      OBVIOUS
    <2>6. w \in connected
      BY <2>2, <2>4, <2>5 DEF IInv, LoopOK
    <2> QED
      BY <2>3, <2>4, <2>6 DEF w
  <1> QED
    BY <1>1, InvariantHolds, PTL

\* In every interleaving of subscribing, closing and leaving, specs and
\* listeners point at each other and no removal panics (listener.go:36-133).
THEOREM AlwaysConsistent == Spec => []RegistryConsistent
  <1> QED
    BY SpecsAlwaysPointHome, SpecsAlwaysDistinct, ListenersAlwaysOwned, NeverPanics, PTL
       DEF RegistryConsistent

-----------------------------------------------------------------------------
(* The refinement of module Subscriptions *)

\* The listeners of one subscription, and where they are in a slice.
Sub == [ws : WS, id : Id, relay : Relay, filter : Filter]
ListenerOf(x) == [ws |-> x.ws, id |-> x.id, filter |-> x.filter]
Spots(bk, ln, x) == {i \in 1..ln[x.relay] : bk[x.relay][i] = ListenerOf(x)}
SubAt(r, i) == [ws |-> backing[r][i].ws, id |-> backing[r][i].id,
                relay |-> r, filter |-> backing[r][i].filter]

\* A running removeListenerId has left no spec of its id behind it.
PassedAreOthers ==
    op.kind = "removeId" =>
        \A j \in DOMAIN clients[op.ws] : j > op.s => clients[op.ws][j].id # op.id

\* What happens to a slice when a swap-delete takes out position i0.
TakesOut(r0, i0) ==
    /\ len' = [len EXCEPT ![r0] = @ - 1]
    /\ \A r \in Relay : \A i \in 1..len'[r] :
           backing'[r][i] = IF r = r0 /\ i = i0 THEN backing[r0][len[r0]] ELSE backing[r][i]

\* The multiset counts positions of a slice, of which there are finitely many.
LEMMA SpotsAreFinite ==
    ASSUME TypeOK, NEW x \in Sub
    PROVE  /\ IsFiniteSet(Spots(backing, len, x))
           /\ Count[x] = Cardinality(Spots(backing, len, x))
           /\ Count[x] \in Nat
  <1>1. x.relay \in Relay /\ len[x.relay] \in Nat
    BY CapAssumption DEF Sub, TypeOK
  <1>2. IsFiniteSet(1..len[x.relay])
    BY <1>1, FS_Interval
  <1>3. IsFiniteSet(Spots(backing, len, x))
    BY <1>2, FS_Subset DEF Spots
  <1>4. Count[x] = Cardinality(Spots(backing, len, x))
    BY DEF Count, Spots, Sub, ListenerOf
  <1> QED
    BY <1>3, <1>4, FS_CardinalityType

\* Each listener in a slice is one occurrence of one subscription.
LEMMA SubOfListener ==
    ASSUME NEW r \in Relay, NEW i, backing[r][i] \in Listener
    PROVE  /\ SubAt(r, i) \in Sub
           /\ SubAt(r, i).relay = r /\ SubAt(r, i).ws = backing[r][i].ws
           /\ SubAt(r, i).id = backing[r][i].id
           /\ \A x \in Sub : x.relay = r =>
                 (ListenerOf(x) = backing[r][i] <=> x = SubAt(r, i))
  <1> DEFINE l == backing[r][i]
             y == SubAt(r, i)
  <1>1. l.ws \in WS /\ l.id \in Id /\ l.filter \in Filter
        /\ l = [ws |-> l.ws, id |-> l.id, filter |-> l.filter]
    BY DEF Listener
  <1>2. /\ y = [ws |-> l.ws, id |-> l.id, relay |-> r, filter |-> l.filter]
        /\ y \in Sub /\ y.relay = r /\ y.ws = l.ws /\ y.id = l.id /\ y.filter = l.filter
    BY <1>1 DEF SubAt, Sub
  <1> HIDE DEF y, l
  <1>3. ASSUME NEW x \in Sub, x.relay = r
        PROVE  ListenerOf(x) = l <=> x = y
    <2>1. x = [ws |-> x.ws, id |-> x.id, relay |-> r, filter |-> x.filter]
      BY <1>3 DEF Sub
    <2>2. CASE x = y
      BY <2>2, <1>1, <1>2 DEF ListenerOf
    <2>3. CASE ListenerOf(x) = l
      <3>1. x.ws = l.ws /\ x.id = l.id /\ x.filter = l.filter
        BY <2>3 DEF ListenerOf
      <3>2. [ws |-> x.ws, id |-> x.id, relay |-> r, filter |-> x.filter]
               = [ws |-> l.ws, id |-> l.id, relay |-> r, filter |-> l.filter]
        BY <3>1
      <3>3. x = y
        BY <3>2, <2>1, <1>2
      <3> QED
        BY <3>3, <2>3
    <2> QED
      BY <2>2, <2>3
  <1> QED
    BY <1>2, <1>3 DEF y, l

\* The multiset after a swap-delete: one less of the subscription at the
\* position taken out, although the last listener has moved.
LEMMA CountDrops ==
    ASSUME TypeOK, TypeOK', NEW r0 \in Relay, NEW i0 \in 1..len[r0],
           backing[r0][i0] \in Listener, TakesOut(r0, i0)
    PROVE  /\ SubAt(r0, i0) \in Sub
           /\ Count[SubAt(r0, i0)] > 0
           /\ Count' = [Count EXCEPT ![SubAt(r0, i0)] = @ - 1]
  <1> DEFINE y == SubAt(r0, i0)
             n == len[r0]
             last == backing[r0][n]
             gone == backing[r0][i0]
             A(x) == Spots(backing, len, x)
             B(x) == Spots(backing', len', x)
  <1>1. /\ n \in Nat /\ i0 \in 1..n /\ len \in [Relay -> Nat] /\ n - 1 \in Nat
        /\ \A r \in Relay : len'[r] = IF r = r0 THEN n - 1 ELSE len[r]
    BY CapAssumption DEF TypeOK, TakesOut
  <1>2. /\ y \in Sub /\ y.relay = r0
        /\ \A x \in Sub : x.relay = r0 => (ListenerOf(x) = gone <=> x = y)
    BY SubOfListener
  <1>3. \A x \in Sub : /\ IsFiniteSet(A(x)) /\ Count[x] = Cardinality(A(x)) /\ Count[x] \in Nat
    BY SpotsAreFinite
  <1>4. \A x \in Sub : Count'[x] = Cardinality(B(x))
    BY DEF Count, Sub, Spots, ListenerOf
  <1>5. \A i \in 1..(n - 1) : backing'[r0][i] = IF i = i0 THEN last ELSE backing[r0][i]
    BY <1>1 DEF TakesOut
  <1>6. \A x \in Sub : x.relay = r0 =>
            /\ A(x) = {i \in 1..n : backing[r0][i] = ListenerOf(x)}
            /\ B(x) = {i \in 1..(n - 1) : backing'[r0][i] = ListenerOf(x)}
    BY <1>1 DEF Spots
  <1>7. \A x \in Sub : x.relay # r0 => B(x) = A(x)
    <2> SUFFICES ASSUME NEW x \in Sub, x.relay # r0 PROVE B(x) = A(x)
      OBVIOUS
    <2>1. x.relay \in Relay /\ len'[x.relay] = len[x.relay]
      BY <1>1 DEF Sub
    <2>2. \A i \in 1..len[x.relay] : backing'[x.relay][i] = backing[x.relay][i]
      BY <2>1 DEF TakesOut
    <2> QED
      BY <2>1, <2>2 DEF Spots
  <1> HIDE DEF y, n, last, gone, A, B
  <1>8. ASSUME NEW x \in Sub, x.relay = r0, x # y
        PROVE  Cardinality(B(x)) = Cardinality(A(x))
    <2>1. i0 \notin A(x)
      BY <1>2, <1>6, <1>8 DEF gone
    <2>2. CASE last = ListenerOf(x)
      <3>1. n \in A(x) /\ n # i0
        BY <2>1, <2>2, <1>1, <1>6, <1>8 DEF last
      <3>2. i0 \in 1..(n - 1)
        BY <3>1, <1>1
      <3>3. B(x) = (A(x) \ {n}) \cup {i0}
        <4>1. ASSUME NEW i PROVE i \in B(x) <=> i \in (A(x) \ {n}) \cup {i0}
          <5>1. CASE i = i0
            BY <5>1, <2>2, <3>2, <1>5, <1>6, <1>8
          <5>2. CASE i # i0
            <6>1. i \in 1..n /\ i # n <=> i \in 1..(n - 1)
              BY <1>1
            <6> QED
              BY <5>2, <6>1, <1>5, <1>6, <1>8
          <5> QED
            BY <5>1, <5>2
        <4> QED
          BY <4>1
      <3>4. IsFiniteSet(A(x) \ {n}) /\ Cardinality(A(x) \ {n}) = Cardinality(A(x)) - 1
        BY <3>1, <1>3, FS_RemoveElement
      <3>5. Cardinality((A(x) \ {n}) \cup {i0}) = Cardinality(A(x) \ {n}) + 1
        BY <3>4, <2>1, FS_AddElement
      <3>6. Cardinality(A(x)) \in Nat
        BY <1>3
      <3> QED
        BY <3>3, <3>4, <3>5, <3>6
    <2>3. CASE last # ListenerOf(x)
      <3>1. n \notin A(x)
        BY <2>3, <1>6, <1>8 DEF last
      <3>2. B(x) = A(x)
        <4>1. ASSUME NEW i PROVE i \in B(x) <=> i \in A(x)
          <5>1. CASE i = i0
            BY <5>1, <2>1, <2>3, <1>5, <1>6, <1>8
          <5>2. CASE i # i0
            <6>1. i \in 1..n /\ i # n <=> i \in 1..(n - 1)
              BY <1>1
            <6> QED
              BY <5>2, <6>1, <3>1, <1>5, <1>6, <1>8
          <5> QED
            BY <5>1, <5>2
        <4> QED
          BY <4>1
      <3> QED
        BY <3>2
    <2> QED
      BY <2>2, <2>3
  <1>9. /\ Cardinality(A(y)) > 0
        /\ Cardinality(B(y)) = Cardinality(A(y)) - 1
    <2>1. ListenerOf(y) = gone
      BY <1>2
    <2>2. i0 \in A(y)
      BY <2>1, <1>1, <1>2, <1>6 DEF gone
    <2>3. /\ IsFiniteSet(A(y)) /\ Cardinality(A(y)) \in Nat
          /\ Cardinality(A(y) \ {i0}) = Cardinality(A(y)) - 1
          /\ Cardinality(A(y) \ {i0}) \in Nat
      BY <2>2, <1>2, <1>3, FS_RemoveElement, FS_CardinalityType
    <2>4. CASE last = gone
      <3>1. n \in A(y)
        BY <2>1, <2>2, <2>4, <1>1, <1>2, <1>6 DEF last
      <3>2. B(y) = A(y) \ {n}
        <4>1. ASSUME NEW i PROVE i \in B(y) <=> i \in A(y) \ {n}
          <5>1. i \in 1..n /\ i # n <=> i \in 1..(n - 1)
            BY <1>1
          <5>2. CASE i = i0
            BY <5>1, <5>2, <2>1, <2>2, <2>4, <1>2, <1>5, <1>6
          <5>3. CASE i # i0
            BY <5>1, <5>3, <1>2, <1>5, <1>6
          <5> QED
            BY <5>2, <5>3
        <4> QED
          BY <4>1
      <3>3. Cardinality(A(y) \ {n}) = Cardinality(A(y)) - 1
        BY <3>1, <2>3, FS_RemoveElement
      <3> QED
        BY <3>2, <3>3, <2>3
    <2>5. CASE last # gone
      <3>1. n \notin A(y)
        BY <2>1, <2>5, <1>2, <1>6 DEF last
      <3>2. B(y) = A(y) \ {i0}
        <4>1. ASSUME NEW i PROVE i \in B(y) <=> i \in A(y) \ {i0}
          <5>1. i \in 1..n /\ i # n <=> i \in 1..(n - 1)
            BY <1>1
          <5>2. CASE i = i0
            BY <5>2, <2>1, <2>5, <1>2, <1>5, <1>6
          <5>3. CASE i # i0
            BY <5>1, <5>3, <3>1, <1>2, <1>5, <1>6
          <5> QED
            BY <5>2, <5>3
        <4> QED
          BY <4>1
      <3> QED
        BY <3>2, <2>3
    <2> QED
      BY <2>4, <2>5
  <1>10. Count' = [Count EXCEPT ![y] = @ - 1]
    <2>1. Count' = [x \in Sub |-> Count'[x]] /\ Count = [x \in Sub |-> Count[x]]
      BY DEF Count, Sub
    <2>2. \A x \in Sub : Count'[x] = IF x = y THEN Count[x] - 1 ELSE Count[x]
      BY <1>2, <1>3, <1>4, <1>7, <1>8, <1>9
    <2> QED
      BY <2>1, <2>2, <1>2
  <1> QED
    BY <1>2, <1>3, <1>9, <1>10 DEF y

\* Unlist, when it finds the moved listener's spec, is such a swap-delete, and
\* no spec changes its id.
LEMMA UnlistTakesOut ==
    ASSUME NEW cs \in [WS -> Seq(ListenerSpec)], NEW L \in [WS -> SUBSET Nat],
           NEW r0 \in Relay, NEW i0 \in 1..len[r0], NEW next,
           TypeOK,
           Paired(cs, backing, len, L, {<<r0, i0>>}),
           Unlist(r0, i0, cs, next)
    PROVE  /\ TakesOut(r0, i0)
           /\ \A w \in WS : \A s \in DOMAIN cs[w] : clients'[w][s].id = cs[w][s].id
  <1> DEFINE n == len[r0]
  <1>1. /\ n \in 1..Cap /\ i0 \in Slot /\ Cap \in Nat
        /\ backing \in [Relay -> [Slot -> Listener \cup {NoListener}]]
        /\ len \in [Relay -> 0..Cap]
    BY CapAssumption DEF TypeOK, Slot
  <1>2. CASE i0 = n
    <2>1. clients' = cs /\ backing' = backing /\ len' = [len EXCEPT ![r0] = n - 1]
      BY <1>2 DEF Unlist
    <2>2. \A i \in 1..len'[r0] : i # i0
      BY <2>1, <1>1, <1>2
    <2> QED
      BY <2>1, <2>2 DEF TakesOut
  <1>3. CASE i0 # n
    <2> DEFINE m == Moved(r0).ws
    <2>1. PICK s0 \in L[m] :
             /\ Moved(r0) \in Listener
             /\ s0 \in DOMAIN cs[m]
             /\ At(cs[m], r0, n) = {s0}
             /\ First(At(cs[m], r0, n)) = s0
      <3>1. /\ Moved(r0) \in Listener
            /\ \E s1 \in L[Moved(r0).ws] :
                  /\ s1 \in DOMAIN cs[Moved(r0).ws]
                  /\ cs[Moved(r0).ws][s1].index = len[r0]
                  /\ cs[Moved(r0).ws][s1].subrelay = r0
                  /\ At(cs[Moved(r0).ws], r0, len[r0]) = {s1}
                  /\ First(At(cs[Moved(r0).ws], r0, len[r0])) = s1
        BY <1>3, FoundIsOwner
      <3> QED
        BY <3>1
    <2>2. /\ clients' = SetIndex(cs, m, s0, i0)
          /\ backing' = [backing EXCEPT ![r0][i0] = Moved(r0)]
          /\ len' = [len EXCEPT ![r0] = n - 1]
      BY <1>3, <2>1 DEF Unlist, Moved
    <2>3. OnlyIndex(clients', cs, m, s0, i0)
      <3>1. m \in WS /\ i0 \in 0..Cap
        BY <2>1, <1>1 DEF Listener, Slot
      <3> HIDE DEF m
      <3> QED
        BY <3>1, <2>1, <2>2, SetIndexProperties
    <2>4. \A r \in Relay : \A i \in 1..len'[r] : i \in Slot
      BY <2>2, <1>1 DEF Slot
    <2>5. \A r \in Relay : \A i \in Slot :
             backing'[r][i] = IF r = r0 /\ i = i0 THEN Moved(r0) ELSE backing[r][i]
      BY <2>2, <1>1
    <2>6. TakesOut(r0, i0)
      BY <2>2, <2>4, <2>5 DEF TakesOut, Moved
    <2> QED
      BY <2>3, <2>6 DEF OnlyIndex
  <1> QED
    BY <1>2, <1>3

\* Subscribing adds one to the multiset, at the subscription it names.
LEMMA AddListenerRefines ==
    ASSUME IInv, NEW q \in Request, NEW r \in Relay, NEW f \in Filter,
           AddListener(q, r, f), IInv'
    PROVE  \E x \in Sub : Abstract!Subscribe(x)
  <1> DEFINE y == [ws |-> q.ws, id |-> q.id, relay |-> r, filter |-> f]
             n == len[r]
             A(x) == Spots(backing, len, x)
             B(x) == Spots(backing', len', x)
  <1>1. q.ws \in WS /\ q.id \in Id
    BY RequestAssumption
  <1>2. y \in Sub /\ y.ws = q.ws /\ y.relay = r
    BY <1>1 DEF Sub
  <1>3. /\ n \in Nat /\ n + 1 \in Slot
        /\ len \in [Relay -> 0..Cap]
        /\ backing \in [Relay -> [Slot -> Listener \cup {NoListener}]]
        /\ backing' = [backing EXCEPT ![r][n + 1] = ListenerOf(y)]
        /\ len' = [len EXCEPT ![r] = n + 1]
    <2>1. n < Room[r] /\ Room[r] \in 1..Cap /\ Cap \in Nat /\ n \in 0..Cap
      BY CapAssumption, RoomAssumption DEF AddListener, IInv, TypeOK
    <2>2. n \in Nat /\ n + 1 \in Slot
      BY <2>1 DEF Slot
    <2> QED
      BY <2>2 DEF AddListener, IInv, TypeOK, ListenerOf
  <1>4. /\ \A k \in Relay : len'[k] = IF k = r THEN n + 1 ELSE len[k]
        /\ \A k \in Relay, i \in Slot :
              backing'[k][i] = IF k = r /\ i = n + 1 THEN ListenerOf(y) ELSE backing[k][i]
    BY <1>3
  <1>5. \A k \in Relay : \A i \in 1..len[k] : i \in Slot
    BY <1>3, CapAssumption DEF Slot
  <1>6. \A x \in Sub : x.relay = r => (ListenerOf(x) = ListenerOf(y) <=> x = y)
    <2> SUFFICES ASSUME NEW x \in Sub, x.relay = r, ListenerOf(x) = ListenerOf(y)
                 PROVE  x = y
      OBVIOUS
    <2>1. x.ws = y.ws /\ x.id = y.id /\ x.filter = y.filter
      BY DEF ListenerOf
    <2>2. [ws |-> x.ws, id |-> x.id, relay |-> x.relay, filter |-> x.filter]
           = [ws |-> y.ws, id |-> y.id, relay |-> y.relay, filter |-> y.filter]
      BY <2>1, <1>2
    <2>3. x = [ws |-> x.ws, id |-> x.id, relay |-> x.relay, filter |-> x.filter]
      BY DEF Sub
    <2> QED
      BY <2>2, <2>3
  <1>7. \A x \in Sub : /\ IsFiniteSet(A(x)) /\ Count[x] = Cardinality(A(x)) /\ Count[x] \in Nat
    BY SpotsAreFinite DEF IInv
  <1>8. \A x \in Sub : Count'[x] = Cardinality(B(x))
    BY DEF Count, Sub, Spots, ListenerOf
  <1> HIDE DEF y, n
  <1>9. ASSUME NEW x \in Sub, x # y PROVE B(x) = A(x)
    <2>1. x.relay \in Relay
      BY DEF Sub
    <2>2. CASE x.relay # r
      BY <2>1, <2>2, <1>4, <1>5 DEF Spots
    <2>3. CASE x.relay = r
      <3>1. ASSUME NEW i PROVE i \in B(x) <=> i \in A(x)
        <4>1. n \in Nat
          BY <1>3
        <4>2. i \in 1..(n + 1) <=> i \in 1..n \/ i = n + 1
          BY <4>1
        <4>3. i = n + 1 => i \notin 1..n
          BY <4>1
        <4> QED
          BY <4>2, <4>3, <2>1, <2>3, <1>3, <1>4, <1>5, <1>6, <1>9 DEF Spots, n
      <3> QED
        BY <3>1
    <2> QED
      BY <2>2, <2>3
  <1>10. B(y) = A(y) \cup {n + 1} /\ n + 1 \notin A(y)
    <2>1. n + 1 \notin 1..n
      BY <1>3
    <2>2. ASSUME NEW i PROVE i \in B(y) <=> i \in A(y) \cup {n + 1}
      <3>1. i \in 1..(n + 1) <=> i \in 1..n \/ i = n + 1
        BY <1>3
      <3> QED
        BY <3>1, <2>1, <1>2, <1>3, <1>4, <1>5 DEF Spots, n
    <2>3. n + 1 \notin A(y)
      BY <2>1, <1>2 DEF Spots, n
    <2> QED
      BY <2>2, <2>3
  <1>11. Cardinality(B(y)) = Cardinality(A(y)) + 1
    BY <1>2, <1>7, <1>10, FS_AddElement
  <1> HIDE DEF A, B
  <1>12. Count' = [Count EXCEPT ![y] = @ + 1]
    <2>1. Count' = [x \in Sub |-> Count'[x]] /\ Count = [x \in Sub |-> Count[x]]
      BY DEF Count, Sub
    <2>2. \A x \in Sub : Count'[x] = IF x = y THEN Count[x] + 1 ELSE Count[x]
      BY <1>2, <1>7, <1>8, <1>9, <1>11
    <2> QED
      BY <2>1, <2>2, <1>2
  <1>13. /\ q.ws \in connected /\ connected' = connected
         /\ Removing = {} /\ Removing' = {}
    BY DEF AddListener, Removing, Idle
  <1>14. Abstract!Subscribe(y)
    BY <1>2, <1>12, <1>13 DEF Abstract!Subscribe, Abstract!Nobody
  <1> QED
    BY <1>2, <1>14

\* One iteration of a removal takes one subscription out of the multiset, of
\* the websocket and id being removed.
LEMMA UnlistRefines ==
    ASSUME IInv, IInv', NEW r0 \in Relay, NEW i0 \in 1..len[r0],
           backing[r0][i0] \in Listener, TakesOut(r0, i0),
           <<backing[r0][i0].ws, backing[r0][i0].id>> \in Removing,
           Removing' = Removing, connected' = connected
    PROVE  \E x \in Sub : Abstract!RemoveOne(x)
  <1> DEFINE y == SubAt(r0, i0)
  <1>1. y \in Sub /\ Count[y] > 0 /\ Count' = [Count EXCEPT ![y] = @ - 1]
    BY CountDrops DEF IInv
  <1>2. y.ws = backing[r0][i0].ws /\ y.id = backing[r0][i0].id
    BY SubOfListener
  <1> HIDE DEF y
  <1>3. Abstract!RemoveOne(y)
    BY <1>1, <1>2 DEF Abstract!RemoveOne
  <1> QED
    BY <1>1, <1>3

\* An iteration of removeListenerId takes out one subscription of the closed id,
\* and the spec that moves into the freed position is one already passed
\* (listener.go:71-97).
LEMMA RemoveIdMatchRefines ==
    ASSUME IInv, IInv', PassedAreOthers, RemoveIdMatch
    PROVE  /\ \E x \in Sub : Abstract!RemoveOne(x)
           /\ PassedAreOthers'
  <1> DEFINE w0 == op.ws
             s0 == op.s
             r0 == clients[w0][s0].subrelay
             i0 == clients[w0][s0].index
             cs == Dropped(w0, s0)
             next == [op EXCEPT !.s = @ - 1]
             L == Positions(cs)
  <1>1. /\ op.kind = "removeId" /\ w0 \in WS /\ s0 \in Nat
        /\ op \in [kind : {"removeId"}, ws : WS, id : Id, s : Nat]
        /\ clients \in [WS -> Seq(ListenerSpec)]
    BY DEF IInv, TypeOK, OpOK, RemoveIdMatch, Idle, Panicked
  <1>2. s0 \in 1..Len(clients[w0]) /\ Len(clients[w0]) \in Nat
        /\ DOMAIN clients[w0] = 1..Len(clients[w0])
    <2>1. Len(clients[w0]) \in Nat /\ DOMAIN clients[w0] = 1..Len(clients[w0])
      BY <1>1
    <2> QED
      BY <1>1, <2>1 DEF IInv, LoopOK, RemoveIdMatch
  <1>3. next.kind = "removeId" /\ next.ws = w0 /\ next.s = s0 - 1 /\ next.id = op.id
    BY <1>1
  <1>4. /\ connected' = connected /\ clients[w0][s0].id = op.id
        /\ Unlist(r0, i0, cs, next)
    BY DEF RemoveIdMatch, Dropped
  <1>5. /\ Holed(cs, L, r0, i0)
        /\ Len(cs[w0]) = Len(clients[w0]) - 1
        /\ \A w \in WS \ {w0} : cs[w] = clients[w]
    BY <1>1, <1>2, DropSpecMakesHole
  <1>6. \A i \in 1..(Len(clients[w0]) - 1) :
            cs[w0][i] = IF i = s0 THEN clients[w0][Len(clients[w0])] ELSE clients[w0][i]
    <2>1. cs[w0] = SwapDelete(clients[w0], s0)
      BY <1>1 DEF Dropped
    <2>2. clients[w0] \in Seq(ListenerSpec) /\ s0 \in 1..Len(clients[w0])
      BY <1>1, <1>2
    <2> HIDE DEF w0, s0, cs
    <2> DEFINE specs == clients[w0]
    <2>3. specs \in Seq(ListenerSpec) /\ s0 \in 1..Len(specs)
      BY <2>2
    <2> HIDE DEF specs
    <2>4. \A i \in 1..(Len(specs) - 1) :
             SwapDelete(specs, s0)[i] = IF i = s0 THEN specs[Len(specs)] ELSE specs[i]
      BY <2>3, SwapDeleteProperties
    <2> QED
      BY <2>1, <2>4 DEF specs
  <1>7. /\ backing[r0][i0] \in Listener
        /\ backing[r0][i0].ws = w0 /\ backing[r0][i0].id = op.id
    <2>1. s0 \in LiveAt[w0]
      BY <1>1, <1>2 DEF LiveAt, Live
    <2>2. i0 \in 1..len[r0] /\ backing[r0][i0].ws = w0 /\ backing[r0][i0].id = clients[w0][s0].id
      <3>1. Homes(clients, backing, len, LiveAt, {}) /\ w0 \in WS
        BY <1>1 DEF IInv, Paired
      <3>2. clients[w0][s0].index \in 1..len[clients[w0][s0].subrelay]
            /\ backing[clients[w0][s0].subrelay][clients[w0][s0].index].ws = w0
            /\ backing[clients[w0][s0].subrelay][clients[w0][s0].index].id = clients[w0][s0].id
        BY ONLY <3>1, <2>1 DEF Homes
      <3> QED
        BY <3>2
    <2>3. r0 \in Relay
      BY <1>5 DEF Holed
    <2>4. backing[r0][i0] \in Listener
      BY <2>2, <2>3 DEF IInv, Paired, Owned
    <2> QED
      BY <2>2, <2>4, <1>4
  <1> HIDE DEF cs, r0, i0, next, L
  <1>8. TypeOK
    BY DEF IInv
  <1>9. op' = next /\ \A w \in WS : Len(clients'[w]) = Len(cs[w])
    BY <1>4, <1>5, <1>8, UnlistClosesHole DEF Holed
  <1>10. /\ TakesOut(r0, i0)
         /\ \A w \in WS : \A s \in DOMAIN cs[w] : clients'[w][s].id = cs[w][s].id
    BY <1>4, <1>5, <1>8, UnlistTakesOut DEF Holed
  <1>11. Removing = {<<w0, op.id>>} /\ Removing' = {<<w0, op.id>>}
    BY <1>1, <1>3, <1>9 DEF Removing
  <1>12. \E x \in Sub : Abstract!RemoveOne(x)
    <2>1. <<backing[r0][i0].ws, backing[r0][i0].id>> \in Removing /\ Removing' = Removing
      BY <1>7, <1>11
    <2> HIDE DEF w0
    <2> QED
      BY <2>1, <1>4, <1>5, <1>7, <1>10, UnlistRefines DEF Holed
  <1>13. PassedAreOthers'
    <2>1. op'.ws = w0 /\ op'.s = s0 - 1 /\ op'.id = op.id
      BY <1>3, <1>9
    <2>2. DOMAIN clients'[w0] = 1..(Len(clients[w0]) - 1)
          /\ DOMAIN cs[w0] = 1..(Len(clients[w0]) - 1)
      <3>1. Len(clients'[w0]) = Len(clients[w0]) - 1
        BY <1>1, <1>5, <1>9
      <3>2. clients' \in [WS -> Seq(ListenerSpec)] /\ cs \in [WS -> Seq(ListenerSpec)]
        BY <1>5 DEF IInv, TypeOK, Holed
      <3>3. DOMAIN clients'[w0] = 1..Len(clients'[w0]) /\ DOMAIN cs[w0] = 1..Len(cs[w0])
        BY <3>2, <1>1
      <3> QED
        BY <3>1, <3>3, <1>5
    <2>3. ASSUME NEW j \in 1..(Len(clients[w0]) - 1), j > s0 - 1
          PROVE  clients'[w0][j].id # op.id
      <3>1. clients'[w0][j].id = cs[w0][j].id
        BY <2>2, <1>1, <1>10
      <3>2. CASE j = s0
        <4>1. cs[w0][j] = clients[w0][Len(clients[w0])]
          BY <3>2, <1>6
        <4>2. Len(clients[w0]) \in DOMAIN clients[w0] /\ Len(clients[w0]) > s0
          BY <3>2, <1>2
        <4> QED
          BY <3>1, <4>1, <4>2, <1>1 DEF PassedAreOthers
      <3>3. CASE j # s0
        <4>1. cs[w0][j] = clients[w0][j]
          BY <3>3, <1>6
        <4>2. j \in DOMAIN clients[w0] /\ j > s0
          BY <2>3, <3>3, <1>2
        <4> QED
          BY <3>1, <4>1, <4>2, <1>1 DEF PassedAreOthers
      <3> QED
        BY <3>2, <3>3
    <2> QED
      BY <2>1, <2>2, <2>3 DEF PassedAreOthers
  <1> QED
    BY <1>12, <1>13

\* An iteration of removeClientAndListeners takes out one subscription of the
\* websocket that leaves (listener.go:106-129).
LEMMA RemoveClientStepRefines ==
    ASSUME IInv, IInv', RemoveClientStep
    PROVE  /\ \E x \in Sub : Abstract!RemoveOne(x)
           /\ PassedAreOthers'
  <1> DEFINE w0 == op.ws
             s0 == op.s
             r0 == clients[w0][s0].subrelay
             i0 == clients[w0][s0].index
             cs == Passed(w0, s0)
             next == [op EXCEPT !.s = @ + 1]
             L == LiveBut(w0, s0)
  <1>1. /\ op.kind = "removeClient" /\ w0 \in WS /\ s0 \in Nat
        /\ op \in [kind : {"removeClient"}, ws : WS, s : Nat]
        /\ clients \in [WS -> Seq(ListenerSpec)]
    BY DEF IInv, TypeOK, OpOK, RemoveClientStep, Idle, Panicked
  <1>2. s0 \in DOMAIN clients[w0]
    <2>1. Len(clients[w0]) \in Nat /\ DOMAIN clients[w0] = 1..Len(clients[w0])
      BY <1>1
    <2> QED
      BY <1>1, <2>1 DEF IInv, LoopOK, RemoveClientStep
  <1>3. next.kind = "removeClient" /\ next.ws = w0
    BY <1>1
  <1>4. connected' = connected /\ Unlist(r0, i0, cs, next)
    BY DEF RemoveClientStep, Passed
  <1>5. s0 \in LiveAt[w0]
    BY <1>1, <1>2 DEF LiveAt, Live
  <1>6. Holed(cs, L, r0, i0)
    BY <1>1, <1>5, PassSpecMakesHole
  <1>7. /\ backing[r0][i0] \in Listener
        /\ backing[r0][i0].ws = w0
    <2>1. i0 \in 1..len[r0] /\ backing[r0][i0].ws = w0
      <3>1. Homes(clients, backing, len, LiveAt, {}) /\ w0 \in WS
        BY <1>1 DEF IInv, Paired
      <3>2. clients[w0][s0].index \in 1..len[clients[w0][s0].subrelay]
            /\ backing[clients[w0][s0].subrelay][clients[w0][s0].index].ws = w0
        BY ONLY <3>1, <1>5 DEF Homes
      <3> QED
        BY <3>2
    <2>2. r0 \in Relay
      BY <1>6 DEF Holed
    <2>3. backing[r0][i0] \in Listener
      BY <2>1, <2>2 DEF IInv, Paired, Owned
    <2> QED
      BY <2>1, <2>3
  <1> HIDE DEF cs, r0, i0, next, L
  <1>8. TypeOK
    BY DEF IInv
  <1>9. op' = next
    BY <1>4, <1>6, <1>8, UnlistClosesHole DEF Holed
  <1>10. TakesOut(r0, i0)
    BY <1>4, <1>6, <1>8, UnlistTakesOut DEF Holed
  <1>11. Removing = {w0} \X Id /\ Removing' = {w0} \X Id
    BY <1>1, <1>3, <1>9 DEF Removing
  <1>12. \E x \in Sub : Abstract!RemoveOne(x)
    <2>1. <<backing[r0][i0].ws, backing[r0][i0].id>> \in Removing /\ Removing' = Removing
      BY <1>7, <1>11 DEF Listener
    <2> HIDE DEF w0
    <2> QED
      BY <2>1, <1>4, <1>6, <1>7, <1>10, UnlistRefines DEF Holed
  <1> QED
    BY <1>3, <1>9, <1>12 DEF PassedAreOthers

\* At the end of a removal none of the subscriptions it names is left.
LEMMA RemoveIdReturnRefines ==
    ASSUME IInv, PassedAreOthers, RemoveIdReturn
    PROVE  Abstract!EndClose
  <1>1. /\ op.kind = "removeId" /\ op.s = 0 /\ op.ws \in WS /\ op.id \in Id
        /\ op' = Idle /\ UNCHANGED <<connected, clients, backing, len>>
        /\ clients \in [WS -> Seq(ListenerSpec)]
    BY DEF IInv, TypeOK, OpOK, RemoveIdReturn, Idle, Panicked
  <1>2. Removing = {<<op.ws, op.id>>} /\ Removing' = {} /\ Count' = Count
    BY <1>1 DEF Removing, Idle, Count
  <1>3. ASSUME NEW x \in Sub, x.ws = op.ws, x.id = op.id
        PROVE  Count[x] = 0
    <2>1. ASSUME NEW i \in Spots(backing, len, x) PROVE FALSE
      <3>1. /\ x.relay \in Relay /\ i \in 1..len[x.relay]
            /\ backing[x.relay][i].ws = op.ws /\ backing[x.relay][i].id = op.id
        BY <1>3, <2>1 DEF Spots, Sub, ListenerOf
      <3>2. PICK s \in LiveAt[op.ws] :
               clients[op.ws][s].index = i /\ clients[op.ws][s].subrelay = x.relay
        BY <3>1 DEF IInv, Paired, Owned
      <3>3. s \in DOMAIN clients[op.ws] /\ clients[op.ws][s].id = op.id
        BY <3>1, <3>2, <1>1 DEF IInv, Paired, Homes
      <3>4. s > op.s
        BY <3>3, <1>1
      <3> QED
        BY <3>3, <3>4, <1>1 DEF PassedAreOthers
    <2>2. Spots(backing, len, x) = {}
      BY <2>1
    <2> QED
      BY <2>2, SpotsAreFinite, FS_EmptySet DEF IInv
  <1>4. Abstract!Drained
    BY <1>2, <1>3 DEF Abstract!Drained, Abstract!Subscription, Sub
  <1> QED
    BY <1>1, <1>2, <1>4 DEF Abstract!EndClose, Abstract!Nobody

\* When the client is deleted no subscription of its websocket is left.
LEMMA RemoveClientReturnRefines ==
    ASSUME IInv, RemoveClientReturn
    PROVE  Abstract!EndLeave
  <1>1. /\ op.kind = "removeClient" /\ op.ws \in WS /\ op.s \in Nat /\ op.s > Len(clients[op.ws])
        /\ op' = Idle /\ UNCHANGED <<backing, len>> /\ connected' = connected \ {op.ws}
        /\ clients \in [WS -> Seq(ListenerSpec)]
    BY DEF IInv, TypeOK, OpOK, RemoveClientReturn, Idle, Panicked
  <1>2. Removing = {op.ws} \X Id /\ Removing' = {} /\ Count' = Count
    BY <1>1 DEF Removing, Idle, Count
  <1>3. LiveAt[op.ws] = {}
    <2>1. DOMAIN clients[op.ws] = 1..Len(clients[op.ws]) /\ Len(clients[op.ws]) \in Nat
      BY <1>1
    <2> QED
      BY <1>1, <2>1 DEF LiveAt, Live
  <1>4. ASSUME NEW x \in Sub, x.ws = op.ws
        PROVE  Count[x] = 0
    <2>1. ASSUME NEW i \in Spots(backing, len, x) PROVE FALSE
      <3>1. x.relay \in Relay /\ i \in 1..len[x.relay] /\ backing[x.relay][i].ws = op.ws
        BY <1>4, <2>1 DEF Spots, Sub, ListenerOf
      <3> QED
        BY <3>1, <1>3 DEF IInv, Paired, Owned
    <2>2. Spots(backing, len, x) = {}
      BY <2>1
    <2> QED
      BY <2>2, SpotsAreFinite, FS_EmptySet DEF IInv
  <1>5. Abstract!Drained
    BY <1>2, <1>4 DEF Abstract!Drained, Abstract!Subscription, Sub
  <1> QED
    BY <1>1, <1>2, <1>5 DEF Abstract!EndLeave, Abstract!Nobody

\* Every step of the registry is a step of the multiset, or changes nothing it shows.
LEMMA NextRefines ==
    ASSUME IInv, IInv', PassedAreOthers, [Next]_vars
    PROVE  [Abstract!SubsNext]_(Abstract!subVars) /\ PassedAreOthers'
  <1>1. CASE UNCHANGED vars
    <2>1. UNCHANGED <<connected, clients, backing, len, op>>
      BY <1>1 DEF vars
    <2>2. Count' = Count /\ Removing' = Removing
      BY <2>1 DEF Count, Removing
    <2> QED
      BY <2>1, <2>2 DEF Abstract!subVars, PassedAreOthers
  <1>2. ASSUME NEW w \in WS, Connect(w)
        PROVE  Abstract!Arrive(w) /\ PassedAreOthers'
    <2>1. /\ op = Idle /\ op' = Idle /\ UNCHANGED <<backing, len>>
          /\ w \notin connected /\ connected' = connected \cup {w}
      BY <1>2 DEF Connect
    <2>2. Count' = Count /\ Removing = {} /\ Removing' = {}
      BY <2>1 DEF Count, Removing, Idle
    <2> QED
      BY <2>1, <2>2 DEF Abstract!Arrive, Abstract!Nobody, PassedAreOthers, Idle
  <1>3. ASSUME NEW q \in Request, NEW r \in Relay, NEW f \in Filter, AddListener(q, r, f)
        PROVE  (\E x \in Sub : Abstract!Subscribe(x)) /\ PassedAreOthers'
    BY <1>3, AddListenerRefines DEF AddListener, PassedAreOthers, Idle
  <1>4. ASSUME NEW w \in WS, NEW id \in Id, RemoveListenerId(w, id)
        PROVE  Abstract!BeginClose(w, id) /\ PassedAreOthers'
    <2>1. /\ op = Idle /\ op' = RemovingId(w, id, Len(clients[w])) /\ w \in connected
          /\ UNCHANGED <<connected, clients, backing, len>>
      BY <1>4 DEF RemoveListenerId
    <2>2. Count' = Count /\ Removing = {} /\ Removing' = {<<w, id>>}
      BY <2>1 DEF Count, Removing, RemovingId, Idle
    <2>3. DOMAIN clients[w] = 1..Len(clients[w]) /\ Len(clients[w]) \in Nat
      <3>1. clients[w] \in Seq(ListenerSpec)
        BY DEF IInv, TypeOK
      <3> QED
        BY <3>1
    <2>4. PassedAreOthers'
      BY <2>1, <2>3 DEF PassedAreOthers, RemovingId
    <2> QED
      BY <2>1, <2>2, <2>4 DEF Abstract!BeginClose, Abstract!Nobody
  <1>5. ASSUME RemoveIdSkip
        PROVE  UNCHANGED Abstract!subVars /\ PassedAreOthers'
    <2>1. /\ op.kind = "removeId" /\ op \in [kind : {"removeId"}, ws : WS, id : Id, s : Nat]
          /\ op' = [op EXCEPT !.s = @ - 1] /\ op.s > 0
          /\ clients[op.ws][op.s].id # op.id
          /\ UNCHANGED <<connected, clients, backing, len>>
      BY <1>5 DEF IInv, TypeOK, OpOK, RemoveIdSkip, Idle, Panicked
    <2>2. op'.kind = "removeId" /\ op'.ws = op.ws /\ op'.id = op.id /\ op'.s = op.s - 1 /\ op.s \in Nat
      BY <2>1
    <2>3. Count' = Count /\ Removing' = Removing
      BY <2>1, <2>2 DEF Count, Removing
    <2>4. DOMAIN clients[op.ws] \subseteq Nat
      <3>1. clients[op.ws] \in Seq(ListenerSpec)
        BY <2>1 DEF IInv, TypeOK
      <3> QED
        BY <3>1
    <2>5. ASSUME NEW j \in DOMAIN clients[op.ws], j > op.s - 1
          PROVE  clients[op.ws][j].id # op.id
      <3>1. j = op.s \/ j > op.s
        BY <2>2, <2>4, <2>5
      <3> QED
        BY <3>1, <2>1 DEF PassedAreOthers
    <2>6. PassedAreOthers'
      BY <2>1, <2>2, <2>5 DEF PassedAreOthers
    <2> QED
      BY <2>1, <2>3, <2>6 DEF Abstract!subVars
  <1>6. ASSUME NEW w \in WS, RemoveClientAndListeners(w)
        PROVE  Abstract!BeginLeave(w) /\ PassedAreOthers'
    <2>1. /\ op = Idle /\ op' = RemovingClient(w, 1) /\ w \in connected
          /\ UNCHANGED <<connected, backing, len>>
      BY <1>6 DEF RemoveClientAndListeners
    <2>2. Count' = Count /\ Removing = {} /\ Removing' = {w} \X Id
      BY <2>1 DEF Count, Removing, RemovingClient, Idle
    <2> QED
      BY <2>1, <2>2 DEF Abstract!BeginLeave, Abstract!Nobody, PassedAreOthers, RemovingClient
  <1>7. ASSUME RemoveIdReturn PROVE Abstract!EndClose /\ PassedAreOthers'
    BY <1>7, RemoveIdReturnRefines DEF RemoveIdReturn, PassedAreOthers, Idle
  <1>8. ASSUME RemoveClientReturn PROVE Abstract!EndLeave /\ PassedAreOthers'
    BY <1>8, RemoveClientReturnRefines DEF RemoveClientReturn, PassedAreOthers, Idle
  <1>9. Sub = Abstract!Subscription
    BY DEF Sub, Abstract!Subscription
  <1>10. ASSUME Next PROVE [Abstract!SubsNext]_(Abstract!subVars) /\ PassedAreOthers'
    BY <1>10, <1>2, <1>3, <1>4, <1>5, <1>6, <1>7, <1>8, <1>9, RemoveIdMatchRefines,
       RemoveClientStepRefines DEF Next, Abstract!SubsNext
  <1> QED
    BY <1>1, <1>10

\* The slices and positions of the registry implement a multiset of
\* subscriptions: a removal takes exactly the listeners of the websocket and
\* id it names, one at a time, and nobody else's (listener.go:36-133).
THEOREM RegistryImplementsSubscriptions == Spec => ImplementsSubscriptions
  <1>1. Init => Abstract!SubsInit /\ PassedAreOthers
    <2> SUFFICES ASSUME Init PROVE Abstract!SubsInit /\ PassedAreOthers
      OBVIOUS
    <2>1. Removing = {} /\ PassedAreOthers
      BY DEF Init, Removing, PassedAreOthers, Idle
    <2>2. ASSUME NEW x \in Sub PROVE Count[x] = 0
      <3>1. TypeOK /\ len[x.relay] = 0
        BY InitIInv DEF IInv, Init, Sub
      <3>2. Spots(backing, len, x) = {}
        BY <3>1 DEF Spots
      <3> QED
        BY <3>1, <3>2, SpotsAreFinite, FS_EmptySet
    <2>3. Count = [x \in Sub |-> Count[x]]
      BY DEF Count, Sub
    <2> QED
      BY <2>1, <2>2, <2>3 DEF Init, Abstract!SubsInit, Abstract!Nobody, Abstract!Subscription, Sub
  <1>2. IInv /\ IInv' /\ PassedAreOthers /\ [Next]_vars
        => [Abstract!SubsNext]_(Abstract!subVars) /\ PassedAreOthers'
    BY NextRefines
  <1> QED
    BY <1>1, <1>2, InvariantHolds, PTL DEF Spec, ImplementsSubscriptions, Abstract!SubsSpec

-----------------------------------------------------------------------------
(* How many listeners are sent the event *)

Hit(l, e, x) ==
    /\ l.ws = x[1] /\ l.id = x[2]
    /\ <<l.filter, e>> \in Match
    /\ <<l.ws, e>> \notin Prevented

Hits(b, n, e, x) == {i \in 1..n : Hit(b[i], e, x)}

\* What a walk should send is the number of a subscription's places in the slice.
LEMMA HitsFinite ==
    ASSUME NEW b, NEW n \in Nat, NEW e, NEW x
    PROVE  /\ IsFiniteSet(Hits(b, n, e, x))
           /\ Wanted(b, n, e, x) = Cardinality(Hits(b, n, e, x))
           /\ Wanted(b, n, e, x) \in Nat
  <1>1. IsFiniteSet(1..n)
    BY FS_Interval
  <1>2. Hits(b, n, e, x) \in SUBSET (1..n)
    BY DEF Hits
  <1>3. IsFiniteSet(Hits(b, n, e, x))
    BY <1>1, <1>2, FS_Subset
  <1>4. Wanted(b, n, e, x) = Cardinality(Hits(b, n, e, x))
    BY DEF Wanted, Hits, Hit
  <1> QED
    BY <1>3, <1>4, FS_CardinalityType

\* A walk that has not begun should have sent nothing.
LEMMA WantedNone ==
    ASSUME NEW b, NEW e, NEW x
    PROVE  Wanted(b, 0, e, x) = 0
  <1>1. Hits(b, 0, e, x) = {}
    BY DEF Hits
  <1> QED
    BY <1>1, HitsFinite, FS_EmptySet

\* A walk that has passed one place more should have sent what that place wants.
LEMMA WantedNext ==
    ASSUME NEW b, NEW n \in Nat, NEW e, NEW x
    PROVE  Wanted(b, n + 1, e, x) = Wanted(b, n, e, x) + (IF Hit(b[n + 1], e, x) THEN 1 ELSE 0)
  <1>1. CASE Hit(b[n + 1], e, x)
    <2>1. /\ Hits(b, n + 1, e, x) = Hits(b, n, e, x) \cup {n + 1}
          /\ n + 1 \notin Hits(b, n, e, x)
      BY <1>1 DEF Hits
    <2> QED
      BY <1>1, <2>1, HitsFinite, FS_AddElement
  <1>2. CASE ~Hit(b[n + 1], e, x)
    <2>1. Hits(b, n + 1, e, x) = Hits(b, n, e, x)
      <3>1. \A i \in 1..(n + 1) : i \in 1..n \/ i = n + 1
        OBVIOUS
      <3> QED
        BY <1>2, <3>1 DEF Hits
    <2> QED
      BY <1>2, <2>1, HitsFinite
  <1> QED
    BY <1>1, <1>2

\* What a walk should have sent depends on the places it has passed only.
LEMMA WantedSame ==
    ASSUME NEW b, NEW c, NEW n \in Nat, \A i \in 1..n : b[i] = c[i], NEW e, NEW x
    PROVE  Wanted(b, n, e, x) = Wanted(c, n, e, x)
  <1>1. Hits(b, n, e, x) = Hits(c, n, e, x)
    BY DEF Hits
  <1> QED
    BY <1>1, HitsFinite

-----------------------------------------------------------------------------
(* What the registry writes *)

\* A removal in progress works on a listener inside the slice.
LEMMA SpecInSlice ==
    ASSUME IInv, NEW w \in WS, NEW s \in LiveAt[w]
    PROVE  /\ clients[w][s].subrelay \in Relay
           /\ clients[w][s].index \in 1..len[clients[w][s].subrelay]
  <1>1. /\ s \in DOMAIN clients[w] /\ clients[w] \in Seq(ListenerSpec)
        /\ clients[w][s].index \in 1..len[clients[w][s].subrelay]
    BY DEF IInv, Paired, Homes, TypeOK
  <1>2. clients[w][s] \in ListenerSpec
    BY <1>1
  <1> QED
    BY <1>1, <1>2 DEF ListenerSpec

\* Unlist writes one slot at most, and one of the slice it leaves.
LEMMA UnlistWrites ==
    ASSUME TypeOK, NEW r0 \in Relay, NEW i0 \in 1..len[r0], NEW cs, NEW next,
           Unlist(r0, i0, cs, next)
    PROVE  \A r \in Relay : \A i \in Slot : backing'[r][i] = backing[r][i] \/ i \in 1..len'[r]
  <1>1. /\ len \in [Relay -> 0..Cap] /\ Cap \in Nat
        /\ backing \in [Relay -> [Slot -> Listener \cup {NoListener}]]
    BY CapAssumption DEF TypeOK
  <1>2. i0 \in Slot
    BY <1>1 DEF Slot
  <1>3. CASE i0 = len[r0]
    BY <1>3 DEF Unlist
  <1>4. CASE i0 # len[r0]
    <2>1. /\ backing' = [backing EXCEPT ![r0][i0] = backing[r0][len[r0]]]
          /\ len' = len \/ len' = [len EXCEPT ![r0] = len[r0] - 1]
      BY <1>4 DEF Unlist
    <2>2. \A r \in Relay : \A i \in Slot : r # r0 \/ i # i0 => backing'[r][i] = backing[r][i]
      BY <1>1, <1>2, <2>1
    <2>3. i0 \in 1..len'[r0]
      <3>1. len[r0] \in Nat /\ i0 \in Nat /\ 1 <= i0 /\ i0 <= len[r0]
        BY <1>1
      <3>2. len'[r0] = len[r0] \/ len'[r0] = len[r0] - 1
        BY <1>1, <2>1
      <3> QED
        BY <1>4, <3>1, <3>2
    <2> QED
      BY <2>2, <2>3
  <1> QED
    BY <1>3, <1>4

\* What any step of the registry writes is inside the slice afterwards.
LEMMA WritesInside ==
    ASSUME IInv, Next
    PROVE  \A r \in Relay : \A i \in Slot : backing'[r][i] = backing[r][i] \/ i \in 1..len'[r]
  <1>1. /\ TypeOK /\ len \in [Relay -> 0..Cap] /\ Cap \in Nat
        /\ backing \in [Relay -> [Slot -> Listener \cup {NoListener}]]
        /\ RequestAssumption /\ RoomAssumption
    BY CapAssumption, RequestAssumption, RoomAssumption DEF IInv, TypeOK
  <1>2. CASE UNCHANGED backing
    BY <1>2
  <1>3. ASSUME NEW q \in Request, NEW r \in Relay, NEW f \in Filter, AddListener(q, r, f)
        PROVE  \A p \in Relay : \A i \in Slot : backing'[p][i] = backing[p][i] \/ i \in 1..len'[p]
    <2> DEFINE l == [ws |-> q.ws, id |-> q.id, filter |-> f]
    <2>1. /\ len[r] + 1 \in Slot
          /\ len' = [len EXCEPT ![r] = @ + 1]
          /\ backing' = [backing EXCEPT ![r][len[r] + 1] = l]
      <3>1. len[r] < Room[r] /\ Room[r] \in 1..Cap /\ len[r] \in Nat
        BY <1>1, <1>3 DEF AddListener, RoomAssumption
      <3> QED
        BY <1>1, <1>3, <3>1 DEF AddListener, Slot
    <2> HIDE DEF l
    <2>2. \A p \in Relay : \A i \in Slot : p # r \/ i # len[r] + 1 => backing'[p][i] = backing[p][i]
      BY <1>1, <2>1
    <2>3. len[r] + 1 \in 1..len'[r]
      BY <1>1, <2>1
    <2> QED
      BY <2>2, <2>3
  <1>4. CASE RemoveIdMatch
    <2>1. op.kind = "removeId" /\ op.ws \in WS /\ op.s \in Nat /\ op.s > 0 /\ op.s <= Len(clients[op.ws])
      BY <1>4 DEF IInv, TypeOK, OpOK, LoopOK, RemoveIdMatch, Idle, Panicked
    <2>2. op.s \in LiveAt[op.ws]
      BY <2>1 DEF LiveAt, Live, IInv, TypeOK
    <2> DEFINE spec == clients[op.ws][op.s]
    <2>3. spec.subrelay \in Relay /\ spec.index \in 1..len[spec.subrelay]
      BY <2>1, <2>2, SpecInSlice
    <2>4. Unlist(spec.subrelay, spec.index,
                 [clients EXCEPT ![op.ws] = SwapDelete(@, op.s)], [op EXCEPT !.s = @ - 1])
      BY <1>4 DEF RemoveIdMatch
    <2> HIDE DEF spec
    <2> QED
      BY <1>1, <2>3, <2>4, UnlistWrites
  <1>5. CASE RemoveClientStep
    <2>1. op.kind = "removeClient" /\ op.ws \in WS /\ op.s \in 1..Len(clients[op.ws])
      BY <1>5 DEF IInv, TypeOK, OpOK, LoopOK, RemoveClientStep, Idle, Panicked
    <2>2. op.s \in LiveAt[op.ws]
      BY <2>1 DEF LiveAt, Live, IInv, TypeOK
    <2> DEFINE spec == clients[op.ws][op.s]
    <2>3. spec.subrelay \in Relay /\ spec.index \in 1..len[spec.subrelay]
      BY <2>1, <2>2, SpecInSlice
    <2>4. Unlist(spec.subrelay, spec.index,
                 IF spec.index = len[spec.subrelay] THEN clients
                 ELSE SetIndex(clients, op.ws, op.s, 0), [op EXCEPT !.s = @ + 1])
      BY <1>5 DEF RemoveClientStep
    <2> HIDE DEF spec
    <2> QED
      BY <1>1, <2>3, <2>4, UnlistWrites
  <1> QED
    BY <1>2, <1>3, <1>4, <1>5 DEF Next, Connect, RemoveListenerId, RemoveIdSkip, RemoveIdReturn,
                                  RemoveClientAndListeners, RemoveClientReturn

\* While no removal runs, nothing inside a slice changes.
LEMMA SlotsKept ==
    ASSUME IInv, Next, op = Idle, op' = Idle
    PROVE  \A r \in Relay : /\ len[r] <= len'[r]
                            /\ \A i \in 1..len[r] : backing'[r][i] = backing[r][i]
  <1>1. /\ len \in [Relay -> 0..Cap] /\ Cap \in Nat
        /\ backing \in [Relay -> [Slot -> Listener \cup {NoListener}]]
        /\ RequestAssumption /\ RoomAssumption
    BY CapAssumption, RequestAssumption, RoomAssumption DEF IInv, TypeOK
  <1>2. CASE UNCHANGED <<backing, len>>
    BY <1>1, <1>2
  <1>3. ASSUME NEW q \in Request, NEW r \in Relay, NEW f \in Filter, AddListener(q, r, f)
        PROVE  \A p \in Relay : /\ len[p] <= len'[p]
                                /\ \A i \in 1..len[p] : backing'[p][i] = backing[p][i]
    <2> DEFINE l == [ws |-> q.ws, id |-> q.id, filter |-> f]
    <2>1. /\ len[r] + 1 \in Slot
          /\ len' = [len EXCEPT ![r] = @ + 1]
          /\ backing' = [backing EXCEPT ![r][len[r] + 1] = l]
      <3>1. len[r] < Room[r] /\ Room[r] \in 1..Cap /\ len[r] \in Nat
        BY <1>1, <1>3 DEF AddListener, RoomAssumption
      <3> QED
        BY <1>1, <1>3, <3>1 DEF AddListener, Slot
    <2> HIDE DEF l
    <2>2. \A p \in Relay : \A i \in Slot : p # r \/ i # len[r] + 1 => backing'[p][i] = backing[p][i]
      BY <1>1, <2>1
    <2>3. \A p \in Relay : \A i \in 1..len[p] : i \in Slot
      BY <1>1 DEF Slot
    <2>4. \A i \in 1..len[r] : i # len[r] + 1
      BY <1>1
    <2>5. \A p \in Relay : len[p] <= len'[p]
      BY <1>1, <2>1
    <2> QED
      BY <2>2, <2>3, <2>4, <2>5
  <1>4. ~RemoveIdMatch /\ ~RemoveIdSkip /\ ~RemoveIdReturn /\ ~RemoveClientStep /\ ~RemoveClientReturn
    BY DEF RemoveIdMatch, RemoveIdSkip, RemoveIdReturn, RemoveClientStep, RemoveClientReturn, Idle
  <1> QED
    BY <1>2, <1>3, <1>4 DEF Next, Connect, RemoveListenerId, RemoveClientAndListeners

-----------------------------------------------------------------------------
(* The walk *)

Walking == [pc : {"next", "copying", "done"}, left : Nat, relay : Relay, event : Event,
            size : 0..Cap, i : Nat, copy : Listener \cup {NoListener, NoCopy}, count : Nat]

Inside == walk.pc \in {"next", "copying"}

WalkOK ==
    /\ sent \in [Subscriber -> Nat]
    /\ history.began \in [Subscriber -> Nat]
    /\ \/ walk.pc = "rest" /\ walk.left \in Nat
       \/ /\ walk \in Walking
          /\ walk.i \in 1..(walk.size + 1)
          /\ walk.pc = "copying" => walk.i <= walk.size

\* A walk that no removal disturbs finds in every slot what was there when it
\* began, and has sent what the slots behind it ask for.
QuietWalk ==
    Inside /\ ~history.removed =>
        /\ op = Idle
        /\ walk.size <= len[walk.relay]
        /\ walk.pc = "copying" => walk.copy = backing[walk.relay][walk.i]
        /\ walk.count = 0 <=> \A x \in Subscriber : sent[x] = 0
        /\ \A x \in Subscriber :
               /\ history.began[x] = Wanted(backing[walk.relay], walk.size, walk.event, x)
               /\ sent[x] = Wanted(backing[walk.relay], walk.i - 1, walk.event, x)

\* Whoever is in a slot the walk has yet to read was a listener while it ran.
WalkSeen ==
    Inside =>
        /\ \A i \in 1..walk.size : backing[walk.relay][i].ws \in history.seen
        /\ \A i \in 1..len[walk.relay] : backing[walk.relay][i].ws \in history.seen
        /\ walk.pc = "copying" => walk.copy.ws \in history.seen

BIInv == IInv /\ WalkOK /\ QuietWalk /\ QuietIsExact /\ WalkSeen /\ OnlySeenSockets

\* notifyListeners begins.
LEMMA BeginIInv ==
    ASSUME BIInv, NEW r \in Relay, NEW e \in Event, BeginBroadcast(r, e), IInv'
    PROVE  BIInv'
  <1>1. /\ len[r] \in 0..Cap /\ Cap \in Nat
        /\ backing \in [Relay -> [Slot -> Listener \cup {NoListener}]]
    BY CapAssumption DEF BIInv, IInv, TypeOK
  <1> DEFINE now == [x \in Subscriber |-> Wanted(backing[r], len[r], e, x)]
  <1>2. /\ walk.pc = "rest" /\ walk.left \in Nat /\ walk.left > 0
        /\ walk' = [pc |-> "next", left |-> walk.left - 1, relay |-> r, event |-> e,
                    size |-> len[r], i |-> 1, copy |-> NoCopy, count |-> 0]
        /\ sent' = [x \in Subscriber |-> 0]
        /\ history'.removed = (op # Idle)
        /\ history'.began = now
        /\ history'.seen = {backing[r][i].ws : i \in 1..len[r]}
        /\ UNCHANGED <<connected, clients, backing, len, cancelled, op>>
    BY DEF BeginBroadcast, vars, BIInv, WalkOK, Walking
  <1>3. now \in [Subscriber -> Nat]
    BY <1>1, HitsFinite
  <1>4. \A x \in Subscriber : now[x] = Wanted(backing[r], len[r], e, x)
    OBVIOUS
  <1> HIDE DEF now
  <1>5. WalkOK'
    <2>1. walk' \in Walking
      BY <1>1, <1>2 DEF Walking, NoCopy, NoListener
    <2>2. walk'.i \in 1..(walk'.size + 1) /\ walk'.pc # "copying"
      BY <1>1, <1>2
    <2>3. sent' \in [Subscriber -> Nat] /\ history'.began \in [Subscriber -> Nat]
      BY <1>2, <1>3
    <2> QED
      BY <2>1, <2>2, <2>3 DEF WalkOK
  <1>6. QuietWalk'
    <2>1. \A x \in Subscriber : Wanted(backing[r], 0, e, x) = 0 /\ sent'[x] = 0
      BY <1>2, WantedNone
    <2>2. walk'.i - 1 = 0 /\ walk'.size = len[r] /\ walk'.relay = r /\ walk'.event = e
          /\ walk'.count = 0 /\ walk'.pc = "next"
      BY <1>2
    <2>3. op # Idle => history'.removed
      BY <1>2
    <2> QED
      BY <1>1, <1>2, <1>4, <2>1, <2>2, <2>3 DEF QuietWalk
  <1>7. QuietIsExact' /\ OnlySeenSockets'
    BY <1>2 DEF QuietIsExact, OnlySeenSockets
  <1>8. WalkSeen'
    BY <1>2 DEF WalkSeen
  <1> QED
    BY <1>5, <1>6, <1>7, <1>8 DEF BIInv

\* notifyListeners reads a place of the slice.
LEMMA ReadIInv ==
    ASSUME BIInv, ReadListener, IInv'
    PROVE  BIInv'
  <1>1. /\ len \in [Relay -> 0..Cap] /\ Cap \in Nat
        /\ backing \in [Relay -> [Slot -> Listener \cup {NoListener}]]
    BY CapAssumption DEF BIInv, IInv, TypeOK
  <1>2. /\ walk.pc = "next" /\ walk.i <= walk.size /\ walk \in Walking
        /\ walk.i \in 1..(walk.size + 1)
        /\ walk' = [walk EXCEPT !.pc = "copying", !.copy = backing[walk.relay][walk.i]]
        /\ UNCHANGED <<connected, clients, backing, len, cancelled, op, sent, history>>
    BY DEF ReadListener, vars, BIInv, WalkOK
  <1>3. walk.relay \in Relay /\ walk.size \in 0..Cap /\ walk.i \in Slot /\ walk.i \in 1..walk.size
    BY <1>1, <1>2 DEF Walking, Slot
  <1>4. /\ walk' \in Walking /\ walk'.pc = "copying" /\ walk'.copy = backing[walk.relay][walk.i]
        /\ walk'.i = walk.i /\ walk'.size = walk.size /\ walk'.relay = walk.relay
        /\ walk'.event = walk.event /\ walk'.count = walk.count
    <2> DEFINE l == backing[walk.relay][walk.i]
    <2>1. l \in Listener \cup {NoListener, NoCopy}
      BY <1>1, <1>3
    <2>2. walk' = [walk EXCEPT !.pc = "copying", !.copy = l]
      BY <1>2
    <2> HIDE DEF l
    <2>3. walk' \in Walking
      BY <1>2, <2>1, <2>2 DEF Walking
    <2>4. /\ walk'.pc = "copying" /\ walk'.copy = l
          /\ walk'.i = walk.i /\ walk'.size = walk.size /\ walk'.relay = walk.relay
          /\ walk'.event = walk.event /\ walk'.count = walk.count
      BY <1>2, <2>2 DEF Walking
    <2> QED
      BY <2>3, <2>4 DEF l
  <1>5. WalkOK'
    BY <1>2, <1>4 DEF BIInv, WalkOK
  <1>6. QuietWalk'
    BY <1>2, <1>4 DEF BIInv, QuietWalk, Inside
  <1>7. QuietIsExact' /\ OnlySeenSockets'
    BY <1>2, <1>4 DEF BIInv, QuietIsExact, OnlySeenSockets
  <1>8. WalkSeen'
    BY <1>2, <1>3, <1>4 DEF BIInv, WalkSeen, Inside
  <1> QED
    BY <1>5, <1>6, <1>7, <1>8 DEF BIInv

\* notifyListeners sends to the listener it has read.
LEMMA NotifyIInv ==
    ASSUME BIInv, NotifyListener, IInv'
    PROVE  BIInv'
  <1>1. /\ len \in [Relay -> 0..Cap] /\ Cap \in Nat
        /\ backing \in [Relay -> [Slot -> Listener \cup {NoListener}]]
    BY CapAssumption DEF BIInv, IInv, TypeOK
  <1>2. /\ walk.pc = "copying" /\ walk \in Walking /\ walk.i \in 1..walk.size
        /\ UNCHANGED <<connected, clients, backing, len, cancelled, op, history>>
    BY DEF NotifyListener, vars, BIInv, WalkOK, Walking
  <1> DEFINE there == backing[walk.relay][walk.i]
             Sends(l) == <<l.filter, walk.event>> \in Match /\ <<l.ws, walk.event>> \notin Prevented
  <1>3. PICK l \in Torn(walk.copy, there) :
            /\ sent' = IF Sends(l) THEN [sent EXCEPT ![<<l.ws, l.id>>] = @ + 1] ELSE sent
            /\ walk' = [walk EXCEPT !.pc = "next", !.i = @ + 1, !.copy = NoCopy,
                                    !.count = IF Sends(l) THEN @ + 1 ELSE @]
    BY DEF NotifyListener
  <1>4. /\ l.ws \in {walk.copy.ws, there.ws} /\ l.id \in {walk.copy.id, there.id}
        /\ l.filter \in {walk.copy.filter, there.filter}
    BY DEF Torn
  <1>5. walk.relay \in Relay /\ walk.size \in 0..Cap /\ walk.i \in Slot /\ walk.count \in Nat
    BY <1>1, <1>2 DEF Walking, Slot
  <1>6. /\ walk' \in Walking /\ walk'.pc = "next" /\ walk'.i = walk.i + 1
        /\ walk'.size = walk.size /\ walk'.relay = walk.relay /\ walk'.event = walk.event
        /\ walk'.count = IF Sends(l) THEN walk.count + 1 ELSE walk.count
    <2> DEFINE n == IF Sends(l) THEN walk.count + 1 ELSE walk.count
    <2>1. n \in Nat /\ walk' = [walk EXCEPT !.pc = "next", !.i = walk.i + 1,
                                             !.copy = NoCopy, !.count = n]
      <3> HIDE DEF Sends
      <3> QED
        BY <1>2, <1>3, <1>5 DEF Walking
    <2> HIDE DEF n
    <2>2. walk.i + 1 \in Nat
      BY <1>2 DEF Walking
    <2>3. walk' \in Walking
      BY <1>2, <2>1, <2>2 DEF Walking
    <2>4. /\ walk'.pc = "next" /\ walk'.i = walk.i + 1 /\ walk'.count = n
          /\ walk'.size = walk.size /\ walk'.relay = walk.relay /\ walk'.event = walk.event
      BY <1>2, <2>1 DEF Walking
    <2> QED
      BY <2>3, <2>4 DEF n
  <1>7. /\ sent \in [Subscriber -> Nat] /\ sent' \in [Subscriber -> Nat]
        /\ \A x \in Subscriber :
               sent'[x] = IF Sends(l) /\ x = <<l.ws, l.id>> THEN sent[x] + 1 ELSE sent[x]
    <2>1. sent \in [Subscriber -> Nat]
      BY DEF BIInv, WalkOK
    <2> HIDE DEF Sends
    <2> DEFINE k == <<l.ws, l.id>>
    <2>2. sent' = IF Sends(l) THEN [sent EXCEPT ![k] = @ + 1] ELSE sent
      BY <1>3
    <2> HIDE DEF k
    <2>3. /\ sent' \in [Subscriber -> Nat]
          /\ \A x \in Subscriber : sent'[x] = IF Sends(l) /\ x = k THEN sent[x] + 1 ELSE sent[x]
      <3>1. CASE Sends(l)
        <4>1. sent' = [sent EXCEPT ![k] = sent[k] + 1]
          BY <2>2, <3>1
        <4>2. CASE k \in Subscriber
          BY <2>1, <3>1, <4>1, <4>2
        <4>3. CASE k \notin Subscriber
          BY <2>1, <3>1, <4>1, <4>3
        <4> QED
          BY <4>2, <4>3
      <3>2. CASE ~Sends(l)
        BY <2>1, <2>2, <3>2
      <3> QED
        BY <3>1, <3>2
    <2> QED
      BY <2>1, <2>3 DEF k
  <1> HIDE DEF there, Sends
  <1>8. WalkOK'
    BY <1>2, <1>5, <1>6, <1>7 DEF BIInv, WalkOK
  <1>9. WalkSeen' /\ there.ws \in history.seen /\ walk.copy.ws \in history.seen
    BY <1>2, <1>5, <1>6 DEF BIInv, WalkSeen, Inside, there
  <1>10. OnlySeenSockets'
    <2> SUFFICES ASSUME NEW x \in Subscriber, sent'[x] > 0
                 PROVE  x[1] \in history.seen
      BY <1>2 DEF OnlySeenSockets
    <2>1. CASE sent'[x] = sent[x]
      BY <2>1 DEF BIInv, OnlySeenSockets
    <2>2. CASE sent'[x] # sent[x]
      <3>1. x[1] = l.ws
        BY <1>7, <2>2
      <3> QED
        BY <3>1, <1>4, <1>9
    <2> QED
      BY <2>1, <2>2
  <1>11. QuietWalk'
    <2> SUFFICES ASSUME ~history.removed
                 PROVE  /\ op = Idle
                        /\ walk.size <= len[walk.relay]
                        /\ walk'.count = 0 <=> \A x \in Subscriber : sent'[x] = 0
                        /\ \A x \in Subscriber :
                             /\ history.began[x] =
                                  Wanted(backing[walk.relay], walk.size, walk.event, x)
                             /\ sent'[x] =
                                  Wanted(backing[walk.relay], walk'.i - 1, walk.event, x)
      BY <1>2, <1>6 DEF QuietWalk
    <2>1. /\ op = Idle /\ walk.size <= len[walk.relay] /\ walk.copy = there
          /\ walk.count = 0 <=> \A x \in Subscriber : sent[x] = 0
          /\ \A x \in Subscriber :
               /\ history.began[x] = Wanted(backing[walk.relay], walk.size, walk.event, x)
               /\ sent[x] = Wanted(backing[walk.relay], walk.i - 1, walk.event, x)
      BY <1>2 DEF BIInv, QuietWalk, Inside, there
    <2>2. l.ws = there.ws /\ l.id = there.id /\ l.filter = there.filter
      BY <1>4, <2>1
    <2>3. <<l.ws, l.id>> \in Subscriber
      <3>1. walk.i \in 1..len[walk.relay]
        BY <1>1, <1>2, <1>5, <2>1
      <3>2. there \in Listener
        BY <3>1, <1>5 DEF BIInv, IInv, Paired, Owned, there
      <3> QED
        BY <2>2, <3>2 DEF Subscriber, Listener
    <2>4. ASSUME NEW x \in Subscriber
          PROVE  sent'[x] = Wanted(backing[walk.relay], walk'.i - 1, walk.event, x)
      <3>1. walk.i - 1 \in Nat /\ (walk.i - 1) + 1 = walk.i /\ walk'.i - 1 = walk.i
        BY <1>2, <1>6
      <3>2. Wanted(backing[walk.relay], walk.i, walk.event, x) =
                Wanted(backing[walk.relay], walk.i - 1, walk.event, x)
                + (IF Hit(there, walk.event, x) THEN 1 ELSE 0)
        BY <3>1, WantedNext DEF there
      <3>3. Hit(there, walk.event, x) <=> Sends(l) /\ x = <<l.ws, l.id>>
        <4>1. x = <<x[1], x[2]>>
          BY DEF Subscriber
        <4> QED
          BY <2>2, <4>1 DEF Hit, Sends
      <3>4. sent[x] \in Nat
        BY <1>7
      <3> QED
        BY <3>1, <3>2, <3>3, <3>4, <1>7, <2>1
    <2>5. walk'.count = 0 <=> \A x \in Subscriber : sent'[x] = 0
      <3>1. CASE Sends(l)
        <4>1. sent'[<<l.ws, l.id>>] = sent[<<l.ws, l.id>>] + 1 /\ sent[<<l.ws, l.id>>] \in Nat
          BY <1>7, <2>3, <3>1
        <4> QED
          BY <1>5, <1>6, <2>3, <3>1, <4>1
      <3>2. CASE ~Sends(l)
        BY <1>6, <1>7, <2>1, <3>2
      <3> QED
        BY <3>1, <3>2
    <2> QED
      BY <2>1, <2>4, <2>5
  <1>12. QuietIsExact'
    BY <1>6 DEF QuietIsExact
  <1> QED
    BY <1>8, <1>9, <1>10, <1>11, <1>12 DEF BIInv

\* notifyListeners returns, and the next broadcast may begin.
LEMMA ReturnIInv ==
    ASSUME BIInv, ReturnCount \/ Rest, IInv'
    PROVE  BIInv'
  <1>1. CASE ReturnCount
    <2>1. /\ walk.pc = "next" /\ walk \in Walking /\ walk.i = walk.size + 1
          /\ walk' = [walk EXCEPT !.pc = "done"]
          /\ UNCHANGED <<connected, clients, backing, len, cancelled, op, sent, history>>
      BY <1>1 DEF ReturnCount, vars, BIInv, WalkOK, Walking
    <2>2. /\ walk' \in Walking /\ walk'.pc = "done" /\ walk'.i = walk.i
          /\ walk'.size = walk.size /\ walk'.count = walk.count
      BY <2>1 DEF Walking
    <2>3. WalkOK'
      BY <2>1, <2>2 DEF BIInv, WalkOK
    <2>4. QuietIsExact'
      <3> SUFFICES ASSUME ~history.removed
                   PROVE  /\ sent = history.began
                          /\ walk.count = 0 <=> \A x \in Subscriber : history.began[x] = 0
        BY <2>1, <2>2 DEF QuietIsExact
      <3>1. walk.i - 1 = walk.size
        BY <2>1 DEF Walking
      <3>2. /\ walk.count = 0 <=> \A x \in Subscriber : sent[x] = 0
            /\ \A x \in Subscriber : sent[x] = history.began[x]
        BY <2>1, <3>1 DEF BIInv, QuietWalk, Inside
      <3>3. sent = history.began
        BY <3>2 DEF BIInv, WalkOK
      <3> QED
        BY <3>2, <3>3
    <2> QED
      BY <2>1, <2>2, <2>3, <2>4 DEF BIInv, QuietWalk, WalkSeen, Inside, OnlySeenSockets
  <1>2. CASE Rest
    <2>1. /\ walk.pc = "done" /\ walk \in Walking
          /\ walk' = [Resting EXCEPT !.left = walk.left]
          /\ sent' = [x \in Subscriber |-> 0]
          /\ history'.began = [x \in Subscriber |-> 0]
      BY <1>2 DEF Rest, BIInv, WalkOK
    <2>2. walk'.pc = "rest" /\ walk'.left \in Nat
      BY <2>1 DEF Resting, Walking
    <2> QED
      BY <2>1, <2>2 DEF BIInv, WalkOK, QuietWalk, WalkSeen, Inside, OnlySeenSockets, QuietIsExact
  <1> QED
    BY <1>1, <1>2

\* The registry changes beside the walk.
LEMMA RegistryIInv ==
    ASSUME BIInv, Registry, IInv'
    PROVE  BIInv'
  <1>1. UNCHANGED <<walk, sent>> /\ Next
    BY DEF Registry
  <1>2. CASE ~Inside
    <2>1. UNCHANGED history
      BY <1>2 DEF Registry, Inside
    <2> QED
      BY <1>1, <1>2, <2>1 DEF BIInv, WalkOK, QuietWalk, WalkSeen, Inside, OnlySeenSockets,
                              QuietIsExact
  <1>3. CASE Inside
    <2> DEFINE r == walk.relay
    <2>1. /\ history'.removed = (history.removed \/ op' # Idle)
          /\ history'.began = history.began
          /\ history'.seen = history.seen \cup {backing'[r][i].ws : i \in 1..len'[r]}
      BY <1>3 DEF Registry, Inside
    <2>2. /\ walk \in Walking /\ walk.i \in 1..(walk.size + 1)
          /\ walk.pc = "copying" => walk.i <= walk.size
      BY <1>3 DEF BIInv, WalkOK, Inside
    <2>3. /\ r \in Relay /\ walk.size \in 0..Cap /\ Cap \in Nat /\ len \in [Relay -> 0..Cap]
      BY <2>2, CapAssumption DEF Walking, BIInv, IInv, TypeOK
    <2>4. WalkOK'
      BY <1>1, <2>1 DEF BIInv, WalkOK
    <2>5. WalkSeen' /\ OnlySeenSockets'
      <3>1. \A i \in 1..walk.size : i \in Slot
        BY <2>3 DEF Slot
      <3>2. \A i \in 1..walk.size : backing'[r][i] = backing[r][i] \/ i \in 1..len'[r]
        BY <1>1, <2>3, <3>1, WritesInside DEF BIInv
      <3>3. \A i \in 1..len'[r] : backing'[r][i].ws \in history'.seen
        BY <2>1
      <3> QED
        BY <1>1, <1>3, <2>1, <3>2, <3>3 DEF BIInv, WalkSeen, Inside, OnlySeenSockets
    <2>6. QuietWalk'
      <3> SUFFICES ASSUME ~history.removed, op' = Idle
                   PROVE  QuietWalk'
        BY <1>3, <2>1 DEF QuietWalk
      <3>1. /\ op = Idle /\ walk.size <= len[r]
            /\ walk.pc = "copying" => walk.copy = backing[r][walk.i]
            /\ walk.count = 0 <=> \A x \in Subscriber : sent[x] = 0
            /\ \A x \in Subscriber :
                 /\ history.began[x] = Wanted(backing[r], walk.size, walk.event, x)
                 /\ sent[x] = Wanted(backing[r], walk.i - 1, walk.event, x)
        BY <1>3 DEF BIInv, QuietWalk
      <3>2. len[r] <= len'[r] /\ \A i \in 1..len[r] : backing'[r][i] = backing[r][i]
        BY <1>1, <2>3, <3>1, SlotsKept DEF BIInv
      <3>3. len'[r] \in Nat
        BY <2>3 DEF IInv, TypeOK
      <3>4. \A i \in 1..walk.size : backing'[r][i] = backing[r][i]
        BY <2>3, <3>1, <3>2
      <3>5. walk.size \in Nat /\ walk.i - 1 \in Nat /\ walk.i - 1 <= walk.size
        BY <2>2, <2>3
      <3>6. \A x \in Subscriber :
               /\ Wanted(backing'[r], walk.size, walk.event, x) =
                      Wanted(backing[r], walk.size, walk.event, x)
               /\ Wanted(backing'[r], walk.i - 1, walk.event, x) =
                      Wanted(backing[r], walk.i - 1, walk.event, x)
        <4>1. \A i \in 1..(walk.i - 1) : backing'[r][i] = backing[r][i]
          BY <3>4, <3>5
        <4>2. TAKE x \in Subscriber
        <4>3. Wanted(backing'[r], walk.size, walk.event, x) =
                  Wanted(backing[r], walk.size, walk.event, x)
          <5> DEFINE n == walk.size
                     b == backing'[r]
                     c == backing[r]
          <5>1. n \in Nat /\ \A i \in 1..n : b[i] = c[i]
            BY <3>4, <3>5
          <5> HIDE DEF n, b, c
          <5>2. Wanted(b, n, walk.event, x) = Wanted(c, n, walk.event, x)
            BY <5>1, WantedSame
          <5> QED
            BY <5>2 DEF n, b, c
        <4>4. Wanted(backing'[r], walk.i - 1, walk.event, x) =
                  Wanted(backing[r], walk.i - 1, walk.event, x)
          BY <3>5, <4>1, WantedSame
        <4> QED
          BY <4>3, <4>4
      <3>7. walk.size <= len'[r]
        BY <2>3, <3>1, <3>2, <3>3
      <3>8. walk.pc = "copying" => walk.copy = backing'[r][walk.i]
        BY <2>2, <2>3, <3>1, <3>4
      <3> QED
        BY <1>1, <2>1, <3>1, <3>6, <3>7, <3>8 DEF QuietWalk
    <2> QED
      BY <1>1, <1>3, <2>4, <2>5, <2>6 DEF BIInv, QuietIsExact, Inside
  <1> QED
    BY <1>2, <1>3

\* The invariant of the broadcasts holds of every state.
LEMMA BInvariantHolds == BSpec => []BIInv
  <1>1. BInit => BIInv
    <2> SUFFICES ASSUME BInit PROVE BIInv
      OBVIOUS
    <2>1. IInv
      BY InitIInv DEF BInit
    <2> QED
      BY <2>1, BroadcastsAssumption DEF BInit, BIInv, Resting, WalkOK, QuietWalk, WalkSeen, Inside,
                                        OnlySeenSockets, QuietIsExact
  <1>2. BIInv /\ [BNext]_allVars => BIInv'
    <2> SUFFICES ASSUME BIInv, [BNext]_allVars PROVE BIInv'
      OBVIOUS
    <2>1. [Next]_vars
      BY DEF BNext, BeginBroadcast, ReadListener, NotifyListener, ReturnCount, Rest, Registry, allVars
    <2>2. IInv'
      BY <2>1, NextIInv DEF BIInv
    <2>3. CASE UNCHANGED allVars
      BY <2>2, <2>3 DEF allVars, vars, bvars, BIInv, WalkOK, QuietWalk, WalkSeen, Inside,
                        OnlySeenSockets, QuietIsExact
    <2> QED
      BY <2>2, <2>3, BeginIInv, ReadIInv, NotifyIInv, ReturnIInv, RegistryIInv DEF BNext
  <1> QED
    BY <1>1, <1>2, PTL DEF BSpec

\* If no removal overlaps a broadcast, every subscriber gets the event once for
\* each matching listener it had when the broadcast began and no other does,
\* and the count that decides the "mute" answer is zero exactly if nobody
\* listened (listener.go:135-151, handlers.go:294).
THEOREM QuietAlwaysExact == BSpec => []QuietIsExact
  <1>1. BIInv => QuietIsExact
    BY DEF BIInv
  <1> QED
    BY <1>1, BInvariantHolds, PTL

\* Whatever is removed or added while a broadcast walks, it writes the event
\* only to websockets that had a listener on the relay meanwhile.
THEOREM OnlySeenAlways == BSpec => []OnlySeenSockets
  <1>1. BIInv => OnlySeenSockets
    BY DEF BIInv
  <1> QED
    BY <1>1, BInvariantHolds, PTL

=============================================================================
