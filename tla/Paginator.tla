------------------------------ MODULE Paginator ------------------------------
(***************************************************************************)
(* The events of one relay, page by page (nostr/paginator.go): each round  *)
(* asks for events no newer than the oldest one delivered, and skips those *)
(* of the previous round.                                                  *)
(*                                                                         *)
(*   stamps      the events of the relay and when each was created         *)
(*   wanted      those no newer than the until of the caller's filter      *)
(*   atMost      the Limit of the caller's filter, NoLimit without one     *)
(*   page        what of this round's answer has not been read yet         *)
(*   cut, lost   history: the page of this round was cut off; what the     *)
(*               pages that were cut off did not bring                     *)
(*   globalCh    the events that were delivered                            *)
(*                                                                         *)
(* nextRepeatedCache is repeatedCache[:0], so that both use one array and  *)
(* what is kept for the next round overwrites what is compared in this     *)
(* one.  filter.Until points to nextUntil and moves with it.  The channel  *)
(* of a round closes in the same way be the answer whole or not.           *)
(***************************************************************************)
EXTENDS Integers, Sequences, FiniteSets

CONSTANTS
    Event,          \* the events of the relay
    MaxTime,
    Stamps,         \* when they may have been created: functions to 1..MaxTime
    Cap,            \* how many events the relay answers with at most
    Limits          \* the values of filter.Limit, zero with LimitZero

NoLimit == -1

PagesAssumption ==
    /\ {MaxTime, Cap} \subseteq Nat \ {0} /\ Limits \subseteq Nat \cup {NoLimit}
    /\ IsFiniteSet(Event) /\ Stamps \subseteq [Event -> 1..MaxTime]

VARIABLES stamps, wanted, atMost, nextUntil, repeatedCache, nextRepeatedCache, page, cut, lost,
          keepGoing, globalCh, globalCount, pager

pageVars == <<stamps, wanted, atMost, nextUntil, repeatedCache, nextRepeatedCache, page, cut, lost,
              keepGoing, globalCh, globalCount, pager>>

Elements(s) == {s[i] : i \in DOMAIN s}

-----------------------------------------------------------------------------
(* The relay *)

UpTo(time) == {e \in Event : stamps[e] <= time}

Size == IF atMost \in 0..Cap THEN atMost ELSE Cap

\* The newest events the filter lets through; which of one second, is up to the relay.
Answers(time) ==
    {p \in SUBSET UpTo(time) :
        /\ Cardinality(p) = Size \/ (p = UpTo(time) /\ Cardinality(p) < Size)
        /\ \A e \in p, f \in UpTo(time) \ p : stamps[e] >= stamps[f]}

-----------------------------------------------------------------------------
(* PaginatorWithInterval *)

PagesInit ==
    /\ stamps \in Stamps
    /\ atMost \in Limits
    /\ nextUntil \in 1..MaxTime
    /\ wanted = UpTo(nextUntil)
    /\ repeatedCache = <<>> /\ nextRepeatedCache = <<>> /\ page = {} /\ keepGoing = FALSE
    /\ cut = FALSE /\ lost = {}
    /\ globalCh = {} /\ globalCount = 0
    /\ pager = "asks"

\* FetchMany: its channel closes after the answer, or before it if the relay
\* cannot be reached, ends the subscription or is lost.
Fetch ==
    /\ pager = "asks"
    /\ \E answer \in Answers(nextUntil) :
        /\ page' \in SUBSET answer
        /\ cut' = (page' # answer)
        /\ lost' = lost \cup (answer \ page')
    /\ pager' = "reads"
    /\ keepGoing' = FALSE
    /\ UNCHANGED <<stamps, wanted, atMost, nextUntil, repeatedCache, nextRepeatedCache, globalCh,
                   globalCount>>

SkipRepeated(e) ==
    /\ e \in Elements(repeatedCache)
    /\ UNCHANGED <<nextUntil, repeatedCache, nextRepeatedCache, keepGoing, globalCh, globalCount,
                   pager>>

\* A plausible fault: the next page begins below the oldest event.
LowerBelow(e) == IF stamps[e] < nextUntil THEN stamps[e] - 1 ELSE nextUntil

Lower(e) == IF stamps[e] < nextUntil THEN stamps[e] ELSE nextUntil

\* Without a limit the count is compared with 2^64 - 1, and left out.
DeliverEvent(e) ==
    /\ e \notin Elements(repeatedCache)
    /\ keepGoing' = TRUE
    /\ nextRepeatedCache' = Append(nextRepeatedCache, e)
    /\ repeatedCache' = [i \in DOMAIN repeatedCache |->
                            IF i = Len(nextRepeatedCache) + 1 THEN e ELSE repeatedCache[i]]
    /\ globalCh' = globalCh \cup {e}
    /\ globalCount' = IF atMost = NoLimit THEN 0 ELSE globalCount + 1
    /\ IF atMost # NoLimit /\ globalCount' >= atMost
          THEN pager' = "full" /\ UNCHANGED nextUntil
          ELSE nextUntil' = Lower(e) /\ UNCHANGED pager

\* Events of one answer come in any order: each is dispatched by a goroutine of its own.
Read ==
    /\ pager = "reads"
    /\ \E e \in page : page' = page \ {e} /\ (SkipRepeated(e) \/ DeliverEvent(e))
    /\ UNCHANGED <<stamps, wanted, atMost, cut, lost>>

EndPage ==
    /\ pager = "reads" /\ page = {}
    /\ IF keepGoing
          THEN /\ pager' = "asks"
               /\ repeatedCache' = nextRepeatedCache
               /\ nextRepeatedCache' = <<>>
          ELSE /\ pager' = "ended"
               /\ UNCHANGED <<repeatedCache, nextRepeatedCache>>
    /\ UNCHANGED <<stamps, wanted, atMost, nextUntil, page, cut, lost, keepGoing, globalCh,
                   globalCount>>

PagesNext == Fetch \/ Read \/ EndPage

-----------------------------------------------------------------------------
(* Properties *)

\* As many events of one second as a page holds hide the older ones.  (A page
\* that is to hold none is always crowded.)
Crowded == \E t \in 1..MaxTime : Cardinality({e \in Event : stamps[e] = t}) >= Size

\* Between two pages nothing is lost but what pages that were cut off did not bring:
\* whatever else is newer than the next page was delivered, and so was every other event
\* when the paginator ends by itself, unless those of one second fill a page.  The exception
\* is a last page that was cut off: one that brings nothing new is taken for the end
\* (paginator.go:57), and all that is older is lost.
PagesAreComplete ==
    /\ pager = "asks" => {e \in wanted : stamps[e] > nextUntil} \subseteq globalCh \cup lost
    /\ pager = "ended" /\ ~cut /\ ~Crowded => wanted \subseteq globalCh \cup lost

=============================================================================
