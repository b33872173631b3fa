------------------------------ MODULE NegSync ------------------------------
(***************************************************************************)
(* NegentropySync of the client library (src/internal/nostr/nip77/nip77.go *)
(* and idlistpool.go): the ids that two sides do not share are copied in   *)
(* batches, while they are still being found.                              *)
(*                                                                         *)
(* The connection's reader reconciles and puts ids into two channels.  One *)
(* goroutine for each direction takes them out, and starts a goroutine     *)
(* (doSync) for each full batch; the last batch it runs itself.  The list  *)
(* of a batch is borrowed from a pool, whose grab takes a lock that        *)
(* giveback does not take: each of them reads and writes the pool in two   *)
(* steps.  All errors and the end come through one unbuffered channel, of  *)
(* which the first message is read; the goroutines that a return leaves    *)
(* behind are not followed.                                                *)
(***************************************************************************)
EXTENDS Integers, Sequences, SequencesExt, FiniteSets

CONSTANTS
    Syncs,    \* what may be synchronized: the ids found, and how many go to a batch
    ChanLimit \* places in neg.Haves and in neg.HaveNots

Dir == {"up", "down"}

SyncAssumption ==
    /\ Syncs \subseteq [found : [Dir -> Seq(Nat)], batch : Nat \ {0}]
    /\ ChanLimit \in Nat \ {0}

VARIABLES
    syncing,  \* the member of Syncs
    used,     \* the directions asked for
    found,    \* found[d]: what is still to be reported
    reader,   \* "push", "closed" (both channels are), "failed" or "gone"
    chan,     \* chan[d]
    loop,     \* loop[d]: the goroutine of d: its step, its list, the list's length, the pool read
    seen,     \* seen[d]
    lists,    \* lists[n]: the array of list n
    pool,     \* the lists in the pool
    batches,  \* the doSync calls: direction, list, length, step, the pool read
    asked,    \* asked[d][id]: how often the source of d was queried for id
    result,   \* what NegentropySync returns, "" as long as it runs
    shared    \* history: a list was grabbed while another held it

syncVars == <<syncing, used, found, reader, chan, loop, seen, lists, pool, batches, asked, result,
              shared>>

\* Found[d]: the ids that reconciliation reports, some perhaps again.
Found == syncing.found
Batch == syncing.batch

Ids == Range(Found["up"]) \cup Range(Found["down"])

-----------------------------------------------------------------------------

SyncInit ==
    /\ syncing \in Syncs
    /\ used \in {{"up"}, {"down"}, Dir}
    /\ found = Found
    /\ reader = "push"
    /\ chan = [d \in Dir |-> <<>>]
    /\ loop = [d \in Dir |-> [pc |-> IF d \in used THEN "grab" ELSE "done",
                              list |-> 0, length |-> 0, read |-> <<>>]]
    /\ seen = [d \in Dir |-> {}]
    /\ lists = << <<>> >>
    /\ pool = <<1>>
    /\ batches = <<>>
    /\ asked = [d \in Dir |-> [id \in Ids |-> 0]]
    /\ result = ""
    /\ shared = FALSE

-----------------------------------------------------------------------------
(* The reader *)

Push(d) ==
    /\ reader = "push"
    /\ found[d] # <<>>
    /\ Len(chan[d]) < ChanLimit
    /\ chan' = [chan EXCEPT ![d] = Append(@, Head(found[d]))]
    /\ found' = [found EXCEPT ![d] = Tail(@)]
    /\ UNCHANGED <<used, reader, loop, seen, lists, pool, batches, asked, result, shared>>

CloseChannels ==
    /\ reader = "push"
    /\ \A d \in Dir : found[d] = <<>>
    /\ reader' = "closed"
    /\ UNCHANGED <<used, found, chan, loop, seen, lists, pool, batches, asked, result, shared>>

\* An unexpected message or one that cannot be reconciled; the channels stay open.
ReaderFails ==
    /\ reader = "push"
    /\ reader' = "failed"
    /\ result' = "error"
    /\ UNCHANGED <<used, found, chan, loop, seen, lists, pool, batches, asked, shared>>

\* The connection ends, which nobody here watches.
ReaderGone ==
    /\ reader = "push"
    /\ reader' = "gone"
    /\ UNCHANGED <<used, found, chan, loop, seen, lists, pool, batches, asked, result, shared>>

-----------------------------------------------------------------------------
(* A direction *)

\* grab: under the lock, so that one direction is between its two steps.
GrabReads(d) ==
    /\ loop[d].pc = "grab"
    /\ \A e \in Dir : loop[e].pc # "grabbing"
    /\ loop' = [loop EXCEPT ![d].pc = "grabbing", ![d].read = pool]
    /\ UNCHANGED <<used, found, reader, chan, seen, lists, pool, batches, asked, result, shared>>

Holders(list) ==
    {e \in Dir : loop[e].pc = "range" /\ loop[e].list = list}
    \cup {b \in DOMAIN batches : batches[b].list = list /\ batches[b].pc = "query"}

GrabWrites(d) ==
    /\ loop[d].pc = "grabbing"
    /\ LET read == loop[d].read
           list == IF read = <<>> THEN Len(lists) + 1 ELSE Last(read)
       IN  /\ loop' = [loop EXCEPT ![d] = [pc |-> "range", list |-> list, length |-> 0,
                                           read |-> <<>>]]
           /\ IF read = <<>> THEN lists' = Append(lists, <<>>) /\ UNCHANGED pool
              ELSE pool' = Front(read) /\ UNCHANGED lists
           /\ shared' = (shared \/ Holders(list) # {})
    /\ UNCHANGED <<used, found, reader, chan, seen, batches, asked, result>>

Skip(d) ==
    /\ loop[d].pc = "range"
    /\ chan[d] # <<>>
    /\ Head(chan[d]) \in seen[d]
    /\ chan' = [chan EXCEPT ![d] = Tail(@)]
    /\ UNCHANGED <<used, found, reader, loop, seen, lists, pool, batches, asked, result, shared>>

Batched(d, list, length) ==
    batches' = Append(batches, [dir |-> d, list |-> list, length |-> length, pc |-> "query",
                                read |-> <<>>])

\* Faulty: the list of a batch is used again at once.
TakeReuses(d) ==
    /\ loop[d].pc = "range"
    /\ chan[d] # <<>>
    /\ LET id == Head(chan[d])
           list == loop[d].list
           n == loop[d].length + 1
           array == lists[list]
       IN  /\ id \notin seen[d]
           /\ seen' = [seen EXCEPT ![d] = @ \cup {id}]
           /\ lists' = [lists EXCEPT ![list] =
                           IF n > Len(array) THEN Append(array, id) ELSE [array EXCEPT ![n] = id]]
           /\ IF n = Batch THEN Batched(d, list, n) /\ loop' = [loop EXCEPT ![d].length = 0]
              ELSE loop' = [loop EXCEPT ![d].length = n] /\ UNCHANGED batches
    /\ chan' = [chan EXCEPT ![d] = Tail(@)]
    /\ UNCHANGED <<used, found, reader, pool, asked, result, shared>>

\* The list is a slice of its own array: who shares it writes to the same places.
Take(d) ==
    /\ loop[d].pc = "range"
    /\ chan[d] # <<>>
    /\ LET id == Head(chan[d])
           list == loop[d].list
           n == loop[d].length + 1
           array == lists[list]
       IN  /\ id \notin seen[d]
           /\ seen' = [seen EXCEPT ![d] = @ \cup {id}]
           /\ lists' = [lists EXCEPT ![list] =
                           IF n > Len(array) THEN Append(array, id) ELSE [array EXCEPT ![n] = id]]
           /\ IF n = Batch THEN Batched(d, list, n) /\ loop' = [loop EXCEPT ![d].pc = "grab"]
              ELSE loop' = [loop EXCEPT ![d].length = n] /\ UNCHANGED batches
    /\ chan' = [chan EXCEPT ![d] = Tail(@)]
    /\ UNCHANGED <<used, found, reader, pool, asked, result, shared>>

LastBatch(d) ==
    /\ loop[d].pc = "range"
    /\ chan[d] = <<>> /\ reader = "closed"
    /\ Batched(d, loop[d].list, loop[d].length)
    /\ loop' = [loop EXCEPT ![d].pc = "done"]
    /\ UNCHANGED <<used, found, reader, chan, seen, lists, pool, asked, result, shared>>

-----------------------------------------------------------------------------
(* doSync *)

At(b, l) == batches' = [batches EXCEPT ![b].pc = l]

\* The ids that are in the list by now are queried; errors of Publish are dropped.
Copy(b) ==
    /\ batches[b].pc = "query"
    /\ LET ids == {lists[batches[b].list][i] : i \in 1 .. batches[b].length}
       IN  asked' = [asked EXCEPT ![batches[b].dir] =
                        [id \in Ids |-> @[id] + (IF id \in ids THEN 1 ELSE 0)]]
    /\ At(b, "giveback")
    /\ UNCHANGED <<used, found, reader, chan, loop, seen, lists, pool, result, shared>>

CopyFails(b) ==
    /\ batches[b].pc = "query"
    /\ batches[b].length > 0
    /\ result' = "error"
    /\ UNCHANGED <<used, found, reader, chan, loop, seen, lists, pool, batches, asked, shared>>

GivebackReads(b) ==
    /\ batches[b].pc = "giveback"
    /\ batches' = [batches EXCEPT ![b].pc = "giving", ![b].read = pool]
    /\ UNCHANGED <<used, found, reader, chan, loop, seen, lists, pool, asked, result, shared>>

GivebackWrites(b) ==
    /\ batches[b].pc = "giving"
    /\ pool' = Append(batches[b].read, batches[b].list)
    /\ batches' = [batches EXCEPT ![b].pc = "done", ![b].read = <<>>, ![b].list = 0]
    /\ UNCHANGED <<used, found, reader, chan, loop, seen, lists, asked, result, shared>>

\* wg.Wait
AllDone ==
    /\ \A d \in Dir : loop[d].pc = "done"
    /\ \A b \in DOMAIN batches : batches[b].pc = "done"
    /\ result' = "nil"
    /\ UNCHANGED <<used, found, reader, chan, loop, seen, lists, pool, batches, asked, shared>>

-----------------------------------------------------------------------------

SyncNext ==
    /\ result = ""
    /\ UNCHANGED syncing
    /\ \/ CloseChannels \/ ReaderFails \/ ReaderGone \/ AllDone
       \/ \E d \in Dir :
           Push(d) \/ GrabReads(d) \/ GrabWrites(d) \/ Skip(d) \/ Take(d) \/ LastBatch(d)
       \/ \E b \in DOMAIN batches :
           Copy(b) \/ CopyFails(b) \/ GivebackReads(b) \/ GivebackWrites(b)

SyncSpec == SyncInit /\ [][SyncNext]_syncVars

-----------------------------------------------------------------------------

(***************************************************************************)
(* No id is asked for twice or in the wrong direction, and a sync that     *)
(* returns no error has asked for every id of its directions: ids reported *)
(* again, full batches and the last one included.  Only a pool that was    *)
(* read and written at once, and has lent one list twice, breaks this.     *)
(***************************************************************************)
CopiesAll ==
    ~shared =>
        /\ \A d \in Dir : \A id \in Ids : asked[d][id] <= (IF id \in Range(Found[d]) THEN 1 ELSE 0)
        /\ result = "nil" => \A d \in used : \A id \in Range(Found[d]) : asked[d][id] = 1

=============================================================================
