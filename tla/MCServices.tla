----------------------------- MODULE MCServices -----------------------------
(***************************************************************************)
(* Services on small instances of its parts.                               *)
(***************************************************************************)
EXTENDS Services, TLC

CONSTANTS
    o1, o2, m1, m2, c1      \* messages of negentropy sessions

Tag(key, value) == [key |-> key, value |-> value]
Ev(id, author, kind, time, tags, words) ==
    [id |-> id, author |-> author, kind |-> kind, time |-> time, tags |-> tags, words |-> words]

AnyEvent == [id |-> Nil, author |-> Nil, kind |-> Nil, tags |-> <<>>, since |-> -1, until |-> -1,
             search |-> Nil, limit |-> 0, limitZero |-> FALSE]
Tagged(tags) == [AnyEvent EXCEPT !.tags = tags]

\* Values shared by tags of different keys; a filter at and beyond each limit; searches.
MCEvent ==
    {Ev(1, 1, 1, 1, {Tag("e", 7)}, {"red"}),
     Ev(2, 1, 2, 2, {Tag("p", 7), Tag("e", 8)}, {"red", "bean"}),
     Ev(3, 2, 1, 2, {Tag("title", 7), Tag("p", 8)}, {"bean"})}
MCFilter ==
    {AnyEvent,
     [AnyEvent EXCEPT !.limitZero = TRUE],
     [AnyEvent EXCEPT !.limit = 1],
     [AnyEvent EXCEPT !.since = 2, !.limit = 9],
     [AnyEvent EXCEPT !.until = 2, !.kind = {1}],
     [AnyEvent EXCEPT !.author = {1, 2}, !.until = 1],
     [AnyEvent EXCEPT !.search = {"red"}, !.limit = 1],
     [AnyEvent EXCEPT !.search = {"red", "bean"}, !.until = 2],
     [AnyEvent EXCEPT !.search = {}],
     [AnyEvent EXCEPT !.id = {}],
     [AnyEvent EXCEPT !.id = {1, 2, 3}],
     Tagged("e" :> {7}), Tagged("e" :> {}), Tagged("e" :> {8} @@ "p" :> {7}),
     Tagged("e" :> {7, 8} @@ "p" :> {7, 8}), Tagged("title" :> {7}),
     [Tagged("e" :> {7} @@ "p" :> {7} @@ "title" :> {7}) EXCEPT !.kind = {1, 2}]}

\* The events of a relay are alike: it is enough to take them in one order.
MCStamps == {s \in [PageEvent -> 1..MaxTime] : \A e, f \in PageEvent : e < f => s[e] >= s[f]}

\* No limit is -1.
MCLimits == {-1, 0, 2, 4}

\* Batches of one id, whose lists are given back while others are grabbed; and of
\* two ids, the last of which is not full, in both directions.
MCSyncs ==
    {[found |-> "up" :> <<1, 2, 1, 3>> @@ "down" :> <<>>, batch |-> 1],
     [found |-> "up" :> <<1, 2, 1, 3>> @@ "down" :> <<4>>, batch |-> 2]}

=============================================================================
