----------------------------- MODULE MCRequests -----------------------------
(***************************************************************************)
(* Requests on small instances.                                            *)
(***************************************************************************)
EXTENDS Requests, TLC

CONSTANTS q1, q2, c1, a, e1, e2

\* Two REQs, the second of which uses the id again, and one CLOSE of it.
MCSameId == q1 :> a @@ q2 :> a @@ c1 :> a
MCTwoAndOne == q1 :> 2 @@ q2 :> 1

=============================================================================
