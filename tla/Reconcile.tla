----------------------------- MODULE Reconcile -----------------------------
(***************************************************************************)
(* Negentropy set reconciliation                                           *)
(* (src/internal/nostr/nip77/negentropy/negentropy.go, encoding.go, and    *)
(* storage/vector/vector.go): two parties find out what one has and the    *)
(* other has not, by exchanging messages of ranges.                        *)
(*                                                                         *)
(* Items are numbers, in the order of ItemCompare.  A range goes from the  *)
(* bound of the one before it up to its own.  A fingerprint stands for the *)
(* set it is computed from.  An action is one round of the loop of         *)
(* reconcileAux, over one range of the message that was received.          *)
(***************************************************************************)
EXTENDS Integers, Sequences, FiniteSets

CONSTANTS
    MaxItem,    \* items are 1 .. MaxItem
    Buckets,    \* the constant buckets, 16 in the code
    FrameLimit  \* ranges and ids that fit in a message

\* Any range that is split, and a skip before it, fit in an empty message: a frame has
\* 4096 bytes at least, and the ids of a range that is not split take about 1000.
ReconcileAssumption ==
    /\ MaxItem \in Nat
    /\ Buckets \in Nat \ {0}
    /\ FrameLimit \in Nat /\ FrameLimit > 2 * Buckets

VARIABLES
    items,    \* items[p]: the sealed vector of the client, of the server
    turn,     \* whose Reconcile runs; "done" when the client has no more to ask
    reader,   \* the ranges of the message still to be read
    output,   \* fullOutput
    prev,     \* prevBound; prevIndex is the first item at or above it
    skipping,
    haves,    \* what the client has found that the server has not
    haveNots, \* and the other way round
    hidden    \* history: a frame was full at a fingerprint of nothing (see HidesTail)

syncVars == <<items, turn, reader, output, prev, skipping, haves, haveNots, hidden>>

-----------------------------------------------------------------------------

Infinite == MaxItem + 1
Skip(bound) == [bound |-> bound, mode |-> "skip", content |-> {}]
Fingerprint(bound, s) == [bound |-> bound, mode |-> "fingerprint", content |-> s]
IdList(bound, s) == [bound |-> bound, mode |-> "ids", content |-> s]

\* The items of the party whose turn it is, from lower up to upper.
Between(lower, upper) == {x \in items[turn] : lower <= x /\ x < upper}

\* How many items of s are below a bound: the index of the first that is not.
Index(s, bound) == Cardinality({x \in s : x < bound})

\* The ids of a message: the lists of two ranges have none in common.
Ids(message) == UNION {message[i].content : i \in {j \in 1 .. Len(message) : message[j].mode = "ids"}}

\* A range takes room, and so does each id.
Size(message) == Len(message) + Cardinality(Ids(message))

-----------------------------------------------------------------------------
(* SplitRange: all the messages it may write, for every minimal bound that *)
(* getMinimalBound may find between two neighbours.                        *)

\* How many of n items are in the first i buckets.
Cut(n, i) ==
    LET Extra == n % Buckets
    IN  i * (n \div Buckets) + (IF i < Extra THEN i ELSE Extra)

\* A bucket has the items of its indices; its bound is between its last item and the next.
Split(s, upperBound) ==
    LET n == Cardinality(s)
        Bucket(i) == {x \in s : Cut(n, i - 1) <= Index(s, x) /\ Index(s, x) < Cut(n, i)}
        Bounds == {b \in [1 .. Buckets -> 1 .. Infinite] :
                     /\ b[Buckets] = upperBound
                     /\ \A i \in 1 .. Buckets - 1 : Index(s, b[i]) = Cut(n, i)}
    IN  {[i \in 1 .. Buckets |-> Fingerprint(b[i], Bucket(i))] : b \in Bounds}

SplitRange(s, upperBound) ==
    IF Cardinality(s) < 2 * Buckets THEN {<<IdList(upperBound, s)>>} ELSE Split(s, upperBound)

-----------------------------------------------------------------------------

SyncStart(client, server) ==
    /\ items = [client |-> client, server |-> server]
    /\ turn = "server"
    /\ reader \in SplitRange(client, Infinite)
    /\ output = <<>>
    /\ prev = 0
    /\ skipping = FALSE
    /\ haves = {}
    /\ haveNots = {}
    /\ hidden = FALSE

SyncInit == \E client, server \in SUBSET (1 .. MaxItem) : SyncStart(client, server)

Reading(mode) == turn # "done" /\ reader # <<>> /\ Head(reader).mode = mode
Bound == Head(reader).bound
Ours == Between(prev, Bound)
Theirs == Head(reader).content

\* A range that is not skipped is preceded by those that were.
FinishSkip == IF skipping THEN <<Skip(prev)>> ELSE <<>>

Full(full, partial) == Size(full \o partial) > FrameLimit

\* The output of a range is appended to the message when it fits; otherwise the
\* message ends with a fingerprint of all the items from upper on.
Emit(full, partial, upper) ==
    IF Full(full, partial)
    THEN /\ output' = Append(full, Fingerprint(Infinite, Between(upper, Infinite)))
         /\ reader' = <<>>
    ELSE /\ output' = full \o partial
         /\ reader' = Tail(reader)

Advance == prev' = Bound

ReadSkip ==
    /\ Reading("skip")
    /\ skipping' = TRUE
    /\ reader' = Tail(reader)
    /\ Advance
    /\ UNCHANGED <<items, turn, output, haves, haveNots, hidden>>

ReadEqual ==
    /\ Reading("fingerprint")
    /\ Theirs = Ours
    /\ skipping' = TRUE
    /\ reader' = Tail(reader)
    /\ Advance
    /\ UNCHANGED <<items, turn, output, haves, haveNots, hidden>>

\* The other party has nothing in the range, and neither the items of this one nor their
\* fingerprints fit: the message ends without them, and its fingerprint is of what comes
\* after, which is nothing either.
HidesTail(partial) == Theirs = {} /\ Full(output, partial)

\* Faulty: ranges that were skipped are not written before one that is not.
ReadDifferentNoSkip ==
    /\ Reading("fingerprint")
    /\ Theirs # Ours
    /\ \E split \in SplitRange(Ours, Bound) :
          /\ Emit(output, split, Bound)
          /\ hidden' = (hidden \/ HidesTail(split))
    /\ skipping' = FALSE
    /\ Advance
    /\ UNCHANGED <<items, turn, haves, haveNots>>

ReadDifferent ==
    /\ Reading("fingerprint")
    /\ Theirs # Ours
    /\ \E split \in SplitRange(Ours, Bound) :
          /\ Emit(output, FinishSkip \o split, Bound)
          /\ hidden' = (hidden \/ HidesTail(FinishSkip \o split))
    /\ skipping' = FALSE
    /\ Advance
    /\ UNCHANGED <<items, turn, haves, haveNots>>

\* The client has what it wanted to know of the range.
ReadIdsAsClient ==
    /\ Reading("ids")
    /\ turn = "client"
    /\ haves' = haves \cup (Ours \ Theirs)
    /\ haveNots' = haveNots \cup (Theirs \ Ours)
    /\ skipping' = TRUE
    /\ reader' = Tail(reader)
    /\ Advance
    /\ UNCHANGED <<items, turn, output, hidden>>

\* The server answers with its ids of the range, as many as fit, and the one with which the
\* message is full.
ReadIdsAsServer ==
    /\ Reading("ids")
    /\ turn = "server"
    /\ LET many == FrameLimit - Size(output) + 1
           ends == IF Cardinality(Ours) > many THEN {x \in Ours : Index(Ours, x) = many} ELSE {Bound}
       IN  \E end \in ends :
              Emit(output \o FinishSkip \o <<IdList(end, Between(prev, end))>>, <<>>, end)
    /\ skipping' = FALSE
    /\ Advance
    /\ UNCHANGED <<items, turn, haves, haveNots, hidden>>

\* Faulty: the client goes on when it has nothing to ask.
ReplyAlways ==
    /\ turn # "done"
    /\ reader = <<>>
    /\ turn' = IF turn = "server" THEN "client" ELSE "server"
    /\ reader' = output
    /\ output' = <<>>
    /\ prev' = 0
    /\ skipping' = FALSE
    /\ UNCHANGED <<items, haves, haveNots, hidden>>

\* The message has been read: the other party gets the output, unless the client has
\* nothing left to ask.
Reply ==
    /\ turn # "done"
    /\ reader = <<>>
    /\ turn' = IF turn = "server" THEN "client" ELSE IF output = <<>> THEN "done" ELSE "server"
    /\ reader' = output
    /\ output' = <<>>
    /\ prev' = 0
    /\ skipping' = FALSE
    /\ UNCHANGED <<items, haves, haveNots, hidden>>

SyncNext ==
    ReadSkip \/ ReadEqual \/ ReadDifferent \/ ReadIdsAsClient \/ ReadIdsAsServer \/ Reply

SyncSpec == SyncInit /\ [][SyncNext]_syncVars

\* Messages arrive, and Reconcile reads to their ends.
SyncFairness == WF_syncVars(SyncNext)

-----------------------------------------------------------------------------
(* Properties *)

\* What the client has found is so, and when it is done it has found all: the coroutines that
\* query and publish (nip77.go:92-156) rely on both.  The frame limit, skipped ranges and
\* remainders of splits leave no gap, but in one case: see HidesTail.
SyncIsExact ==
    /\ haves \subseteq items.client \ items.server
    /\ haveNots \subseteq items.server \ items.client
    /\ turn = "done" /\ ~hidden =>
          haves = items.client \ items.server /\ haveNots = items.server \ items.client

\* Does not hold: after the reconciliation both sides have the same items, whatever the frame
\* limit is (fuzz_test.go:113, require.ElementsMatch(t, l1, l2)).
SyncFindsAll ==
    turn = "done" => haves = items.client \ items.server /\ haveNots = items.server \ items.client

\* The exchange ends: every message that is sent tells something, also when it is full.
SyncEnds == <>(turn = "done")

=============================================================================
