------------------------------- MODULE MCEnds -------------------------------
(***************************************************************************)
(* Ends on small instances of its parts.                                   *)
(***************************************************************************)
EXTENDS Ends, TLC

CONSTANTS
    q1, c1, a, e1,          \* REQs
    m1, m2, alice, x,       \* EVENTs
    x1, x2,                 \* events that expire
    op1, op2, http          \* database operations and an HTTP request

\* A REQ of two filters, and a CLOSE of it.
MCIdOf == q1 :> a @@ c1 :> a
MCFilters == q1 :> 2

Ev(id, class, time, d, values, tags) ==
    [id |-> id, class |-> class, author |-> alice, time |-> time, d |-> d,
     values |-> values, tags |-> tags]

Old == Ev(1, "addressable", 1, x, {x}, <<>>)
New == Ev(2, "addressable", 2, x, {x}, <<>>)
Erase == Ev(3, "deletion", 2, "", {}, <<[name |-> "e", id |-> 1],
                                        [name |-> "a", class |-> "addressable",
                                         author |-> alice, d |-> x]>>)

\* Two versions of an address, one with a deletion of it; a message with a failing statement
\* or a broken scan waits for the mutex or makes the other wait.
MCSubmitted == {Old, New, Erase}
MCWorkload == {m1 :> Old @@ m2 :> New, m1 :> New @@ m2 :> Erase}

ExpTag(name, value) == [name |-> name, value |-> value]

\* Of a later event and an earlier one, which is expired already, the first scan sees only
\* the later; a tag before the expiration, and a second expiration, which is not read.
MCTags == x1 :> <<ExpTag("p", {}), ExpTag("expiration", {0})>>
          @@ x2 :> <<ExpTag("expiration", {1}), ExpTag("expiration", {})>>
MCCreatedAt == x1 :> 1 @@ x2 :> 2

\* More rows than the queue holds.
MCRows == <<1, 2, 3, 4>>

=============================================================================
