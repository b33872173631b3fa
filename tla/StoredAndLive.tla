--------------------------- MODULE StoredAndLive ---------------------------
(***************************************************************************)
(* What a subscriber gets of the events that match its filter: the stored  *)
(* ones, which SQL selects (queryEventsSql in                              *)
(* src/internal/storage/postgres/query.go), and the live ones, which the   *)
(* relay selects (Filter.Matches in src/internal/nostr/filter.go).         *)
(*                                                                         *)
(* One REQ with one filter, beside the EVENTs that are stored and then     *)
(* broadcast.  The query has its snapshot when it begins, and the listener *)
(* is added when handleRequest has returned.                               *)
(***************************************************************************)
EXTENDS Integers, Sequences, FiniteSets, FiniteSetsExt

CONSTANTS
    Event,      \* records of id, author, kind, time, tags, a set of [key, value], and words,
                \* the lexemes of that part of the content which is searched
    Filter,     \* records of the lists id, author and kind, and of tags, since, until,
                \* search, the lexemes of the text, limit and limitZero
    Nil,        \* a list or a text that a filter does not have; a list that it has may be
                \* empty, and a text may have no lexemes
    Letter,     \* the keys of one letter, which are indexed
    ListLimit,  \* QueryIDsLimit, QueryAuthorsLimit and QueryKindsLimit
    TagsLimit,  \* QueryTagsLimit
    QueryLimit

None == -1
Fields == {"id", "author", "kind"}

FilterAssumption ==
    /\ \A f \in Filter : f.limitZero \in BOOLEAN /\ {f.since, f.until, f.limit} \subseteq Int
    /\ {ListLimit, TagsLimit, QueryLimit} \subseteq Nat
    /\ IsFiniteSet(Event) /\ \A e \in Event : {e.time, e.id} \subseteq Int

VARIABLES
    filter,     \* the REQ's
    req,        \* "sent", "queried", "live" or "closed"
    table,      \* the events that are stored
    notified,   \* the events whose broadcast is over
    got,        \* what the subscriber has been sent
    early,      \* history: the events in the snapshot
    late        \* history: the events broadcast after the listener was added

subVars == <<filter, req, table, notified, got, early, late>>

-----------------------------------------------------------------------------
(* Filter.Matches, which does not look at a search *)

InList(list, x) == list = Nil \/ x \in list

\* Tags.ContainsAny
ContainsAny(tags, key, values) == \E tag \in tags : tag.key = key /\ tag.value \in values

MatchesIgnoringTimestampConstraints(f, e) ==
    /\ \A field \in Fields : InList(f[field], e[field])
    /\ \A key \in DOMAIN f.tags : ContainsAny(e.tags, key, f.tags[key])

Matches(f, e) ==
    /\ MatchesIgnoringTimestampConstraints(f, e)
    /\ f.since = None \/ e.time >= f.since
    /\ f.until = None \/ e.time <= f.until

-----------------------------------------------------------------------------
(* The query *)

Long(list, limit) == list # Nil /\ Cardinality(list) > limit

TagValues(f) == MapThenSumSet(LAMBDA key : Cardinality(f.tags[key]), DOMAIN f.tags)

\* The filters that queryEventsSql refuses.
Refused(f) ==
    \/ \E field \in Fields : Long(f[field], ListLimit)
    \/ \E key \in DOMAIN f.tags : f.tags[key] = {}
    \/ TagValues(f) > TagsLimit

\* An empty list is no condition.
InColumn(list, x) == list = Nil \/ list = {} \/ x \in list

\* The generated column tagvalues: the values, whatever letter they belong to.
tagvalues(e) == {tag.value : tag \in {t \in e.tags : t.key \in Letter}}

\* plainto_tsquery wants all its lexemes; one of none matches nothing.
Found(f, e) == f.search = Nil \/ (f.search # {} /\ f.search \subseteq e.words)

\* Faulty: the condition on the end of the period is strict.
BeforeUntil(f, e) ==
    /\ \A field \in Fields : InColumn(f[field], e[field])
    /\ \A key \in DOMAIN f.tags : tagvalues(e) \cap f.tags[key] # {}
    /\ f.since = None \/ e.time >= f.since
    /\ f.until = None \/ e.time < f.until
    /\ Found(f, e)

Where(f, e) ==
    /\ \A field \in Fields : InColumn(f[field], e[field])
    /\ \A key \in DOMAIN f.tags : tagvalues(e) \cap f.tags[key] # {}
    /\ f.since = None \/ e.time >= f.since
    /\ f.until = None \/ e.time <= f.until
    /\ Found(f, e)

\* ORDER BY created_at DESC, id
Sooner(d, e) == d.time > e.time \/ (d.time = e.time /\ d.id < e.id)

Limit(f) == IF f.limit < 1 \/ f.limit > QueryLimit THEN QueryLimit ELSE f.limit

Selected(f, t) == {e \in t : Where(f, e)}

Rows(f, t) ==
    {e \in Selected(f, t) : Cardinality({d \in Selected(f, t) : Sooner(d, e)}) < Limit(f)}

\* policies.NoComplexFilters, the filter policy of this relay.
NoComplexFilters(f) ==
    LET kinds == IF f.kind = Nil THEN 0 ELSE Cardinality(f.kind)
        tags == Cardinality(DOMAIN f.tags)
    IN  tags + kinds > 4 /\ tags > 2

-----------------------------------------------------------------------------

SubInit ==
    /\ filter \in Filter
    /\ req = "sent"
    /\ table = {}
    /\ notified = {}
    /\ got = {}
    /\ early = {}
    /\ late = {}

\* A filter with limit 0 is not looked at any further.
QueryStored ==
    /\ req = "sent"
    /\ IF filter.limitZero
       THEN req' = "queried" /\ UNCHANGED got
       ELSE IF NoComplexFilters(filter)
       THEN req' = "closed" /\ UNCHANGED got
       ELSE /\ req' = "queried"
            /\ got' = IF Refused(filter) THEN {} ELSE Rows(filter, table)
    /\ early' = table
    /\ UNCHANGED <<filter, table, notified, late>>

AddListener ==
    /\ req = "queried"
    /\ req' = "live"
    /\ UNCHANGED <<filter, table, notified, got, early, late>>

StoreEvent(e) ==
    /\ e \notin table
    /\ table' = table \cup {e}
    /\ UNCHANGED <<filter, req, notified, got, early, late>>

NotifyListeners(e) ==
    /\ e \in table \ notified
    /\ notified' = notified \cup {e}
    /\ got' = IF req = "live" /\ Matches(filter, e) THEN got \cup {e} ELSE got
    /\ late' = IF req = "live" THEN late \cup {e} ELSE late
    /\ UNCHANGED <<filter, req, table, early>>

SubNext ==
    \/ QueryStored \/ AddListener
    \/ \E e \in Event : StoreEvent(e) \/ NotifyListeners(e)

SubSpec == SubInit /\ [][SubNext]_subVars

-----------------------------------------------------------------------------

\* As Matches, but any key will do for a value, and an empty list for any list.
MatchesLoosely(f, e) ==
    /\ \A field \in Fields : f[field] = Nil \/ f[field] = {} \/ e[field] \in f[field]
    /\ \A key \in DOMAIN f.tags : \E tag \in e.tags : tag.value \in f.tags[key]
    /\ f.since = None \/ f.since <= e.time
    /\ f.until = None \/ e.time <= f.until

(***************************************************************************)
(* An event that matches the filter reaches the subscriber, be it stored   *)
(* before the query or broadcast after the listener was added: the SQL     *)
(* finds all that Matches would, and cuts off the oldest only.  Lost are   *)
(* events stored after the snapshot and broadcast before the listener is   *)
(* there, the filters that the storage refuses, keys of more than one      *)
(* letter, which are not indexed, and stored events that a search does not *)
(* find; live ones are sent without regard to it, as nothing keeps         *)
(* searches away from this relay (instance.go:86-94).  And what is sent    *)
(* matches, but for the keys of tags and for empty lists, which the SQL    *)
(* does not look at, and the search if it is live.                         *)
(***************************************************************************)
MatchesAreSent ==
    /\ req \in {"queried", "live"} /\ ~filter.limitZero /\ ~Refused(filter)
       /\ DOMAIN filter.tags \subseteq Letter =>
          \A e \in early : Matches(filter, e) /\ Found(filter, e) =>
              e \in got \/ Cardinality({d \in got : Sooner(d, e)}) >= Limit(filter)
    /\ \A e \in late : Matches(filter, e) => e \in got
    /\ \A e \in got : MatchesLoosely(filter, e)
    /\ \A e \in got \ early : Matches(filter, e)
    /\ \A e \in got \ late : Found(filter, e)

=============================================================================
