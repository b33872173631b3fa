----------------------------- MODULE MCListeners -----------------------------
(***************************************************************************)
(* The listener registry and the broadcasts beside it on small instances:  *)
(* a larger registry without a broadcast, or a smaller one, with a filter  *)
(* that matches and one that does not, beside a broadcast.                 *)
(***************************************************************************)
EXTENDS Broadcast, TLC

CONSTANTS w1, w2, a, b, r1, r2, hit, miss, e1

VARIABLE scene

\* Two subscriptions of one websocket, one of another that reuses an id.
MCRequest == {[ws |-> w1, id |-> a, n |-> 1],
              [ws |-> w1, id |-> b, n |-> 1],
              [ws |-> w2, id |-> a, n |-> 1]}

\* Three listeners on one relay, where a removal moves one past another, and
\* two on a second relay, whose positions overlap with the first's.
MCRoom == r1 :> 3 @@ r2 :> 2

MCMatch == {<<hit, e1>>}
MCNoneStopped == {}

\* What is listened to on relay r.
On(r) == {backing[r][i] : i \in 1..len[r]}

\* One filter, three subscriptions and two relays, and no broadcast.
Larger ==
    /\ Next
    /\ \A r \in Relay : \A l \in On(r)' : l.filter = hit
    /\ UNCHANGED bvars

\* Two filters, one subscription of each client and two places on one relay.
Smaller ==
    /\ BNext
    /\ len'[r1] <= 2 /\ len'[r2] = 0
    /\ \A l \in On(r1)' : l.id = a

SceneInit == BInit /\ scene \in {"larger", "smaller"}

SceneNext ==
    /\ UNCHANGED scene
    /\ \/ scene = "larger" /\ Larger
       \/ scene = "smaller" /\ Smaller

SceneSpec == SceneInit /\ [][SceneNext]_<<allVars, scene>>

=============================================================================
