------------------------------- MODULE Client -------------------------------
(***************************************************************************)
(* The client on one relay: publications (RelayClient) or subscriptions    *)
(* and counts (RelaySubscription).  A behaviour is one of the two parts;   *)
(* the other is off, with panicked set, so that it takes no step and is    *)
(* due none.                                                               *)
(***************************************************************************)
EXTENDS Integers, Sequences, FiniteSets

CONSTANTS
    Publisher, Id, IdOf,        \* of RelayClient
    Sub, Script, MaxEvents      \* of RelaySubscription

VARIABLES
    part,
    \* RelayClient
    peer, oks, verdict, cause, connection, websocket, closer, closeMutex, writer,
    readerOfRelay, okCallbacks, pub, panickedRelay,
    \* RelaySubscription
    link, reader, kind, known, sub, caller, unsubs, inbox, event, eose, panicked, lateFire

relayVars == <<peer, oks, verdict, cause, connection, websocket, closer, closeMutex, writer,
               readerOfRelay, okCallbacks, pub, panickedRelay>>
subVars == <<link, reader, kind, known, sub, caller, unsubs, inbox, event, eose, panicked, lateFire>>
vars == <<part, relayVars, subVars>>

C == INSTANCE RelayClient WITH reader <- readerOfRelay, panicked <- panickedRelay
S == INSTANCE RelaySubscription

ASSUME InstancesAssumption ==
    C!IdAssumption /\ C!PublisherAssumption /\ S!ScriptAssumption /\ S!EventsAssumption

Init ==
    \/ /\ part = "relay"
       /\ C!Init
       /\ S!Connected /\ kind = [s \in Sub |-> "count"] /\ panicked = TRUE
    \/ /\ part = "subscription"
       /\ S!Init
       /\ C!Connected /\ panickedRelay = TRUE

Next ==
    \/ part = "relay" /\ C!Next /\ UNCHANGED <<part, subVars>>
    \/ part = "subscription" /\ S!Next /\ UNCHANGED <<part, relayVars>>

Spec == Init /\ [][Next]_vars
FairSpec == Spec /\ C!Fairness /\ S!Fairness

\* The results of publish are the relay's verdicts: see RelayClient.
ResultIsVerdict == part = "relay" => C!ResultIsVerdict

\* Publish returns nil for accepted events only (relay.go:328): see RelayClient.
NilIsAccepted == part = "relay" => C!NilIsAccepted

\* Every publish returns: see RelayClient.
PublishEnds == C!PublishEnds

\* EndOfStoredEvents comes after the stored events: see RelaySubscription.
EoseAfterStored == part = "subscription" => S!EoseAfterStored

\* Only a late Fire sends on a closed channel: see RelaySubscription.
OnlyLateFirePanics == part = "subscription" => S!OnlyLateFirePanics

\* The caller of a subscription that ends is let go: see RelaySubscription.
CallerFreed == S!CallerFreed

=============================================================================
