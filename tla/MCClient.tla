------------------------------ MODULE MCClient ------------------------------
(***************************************************************************)
(* Client with two publications of one event, and with one subscription.   *)
(***************************************************************************)
EXTENDS Client, TLC

CONSTANTS p1, p2, e, s

MCIdOf == [p \in {p1, p2} |-> e]

\* Events before EOSE, after it, and a refusal; a count that is answered twice.
MCScript ==
    [req |-> {<<"event", "event", "eose">>, <<"event", "eose", "event">>, <<"event", "closed">>},
     count |-> {<<"count", "count">>}]

=============================================================================
