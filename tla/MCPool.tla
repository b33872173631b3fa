------------------------------- MODULE MCPool -------------------------------
(***************************************************************************)
(* Pool on small instances of its parts.                                   *)
(***************************************************************************)
EXTENDS Pool, TLC

CONSTANTS r1, r2, t1, t2, t3, w1, w2

\* A list without and with a duplicate.
MCLists == {<<"x", "y">>, <<"x", "y", "x">>}

Copy(id, key, time, good) == [id |-> id, key |-> key, time |-> time, good |-> good]
Old == Copy(1, "k", 1, TRUE)
New == Copy(2, "k", 2, TRUE)
Forged == Copy(1, "k", 1, FALSE)

\* Two relays have one event in common; one of its copies is forged.
MCStored == r1 :> <<New, Old>> @@ r2 :> <<Old>>
MCLive == r1 :> <<Forged>> @@ r2 :> <<New>>

=============================================================================
