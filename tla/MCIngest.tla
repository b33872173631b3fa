------------------------------ MODULE MCIngest ------------------------------
(***************************************************************************)
(* Ingest on small sets of events and messages.                            *)
(***************************************************************************)
EXTENDS Ingest, TLC

CONSTANTS m1, m2, m3, m4, alice, bob, x, y

Ev(id, class, author, time, d, values, tags) ==
    [id |-> id, class |-> class, author |-> author, time |-> time, d |-> d,
     values |-> values, tags |-> tags]
E(id) == [name |-> "e", id |-> id]
A(author, d) == [name |-> "a", class |-> "addressable", author |-> author, d |-> d]

Note == Ev(1, "regular", alice, 1, "", {}, <<>>)
Old == Ev(2, "addressable", alice, 1, x, {x}, <<>>)
New == Ev(4, "addressable", alice, 2, x, {x}, <<>>)
Tie == Ev(3, "addressable", alice, 2, x, {x}, <<>>)      \* New's second, lower id
Erase == Ev(6, "deletion", alice, 2, "", {}, <<E(1), A(alice, x)>>)
Foreign == Ev(7, "deletion", bob, 2, "", {}, <<E(1)>>)
Undo == Ev(8, "deletion", alice, 3, "", {}, <<E(6)>>)    \* deletes Erase

\* Of another author, whose address y has an event with a "t" tag x.
Other == Ev(5, "addressable", bob, 1, y, {y, x}, <<>>)
Foreigner == Ev(14, "addressable", bob, 2, x, {x}, <<>>)

\* Without a "d" tag; of a replaceable kind; and a deletion of both addresses.
Bare == Ev(9, "addressable", alice, 1, "", {}, <<>>)
BareNew == Ev(10, "addressable", alice, 2, "", {}, <<>>)
Profile == Ev(11, "replaceable", alice, 1, "", {}, <<>>)
ProfileNew == Ev(12, "replaceable", alice, 2, "", {x}, <<>>)
EraseBare ==
    Ev(13, "deletion", alice, 2, "", {},
       <<A(alice, ""), [A(alice, "") EXCEPT !.class = "replaceable"]>>)

MCEvent == {Note, Old, New, Tie, Other, Erase, Foreign, Undo, Bare, BareNew,
            Profile, ProfileNew, EraseBare, Foreigner}

\* Three versions of one address, one of them twice.
MCVersions == m1 :> Old @@ m2 :> New @@ m3 :> Tie @@ m4 :> New
\* A note sent twice, and two deletions of it.
MCDeletions == m1 :> Note @@ m2 :> Note @@ m3 :> Erase @@ m4 :> Foreign
\* Two versions of an address, and a deletion of it.
MCAddressDeletion == m1 :> Old @@ m2 :> New @@ m3 :> Erase @@ m4 :> None
\* A note, a deletion of it, and one of the deletion.
MCUndone == m1 :> Note @@ m2 :> Erase @@ m3 :> Undo @@ m4 :> None
\* Two addresses that share a tag value.
MCShared == m1 :> Other @@ m2 :> Foreigner @@ m3 :> None @@ m4 :> None
\* Two versions of an event without a "d" tag, or of a replaceable kind, and the deletion.
MCBare == m1 :> Bare @@ m2 :> BareNew @@ m3 :> EraseBare @@ m4 :> None
MCProfiles == m1 :> Profile @@ m2 :> ProfileNew @@ m3 :> EraseBare @@ m4 :> None

MCWorkload == {MCVersions, MCDeletions, MCAddressDeletion, MCUndone, MCShared, MCBare, MCProfiles}
MCSharedWorkload == {MCShared}

=============================================================================
