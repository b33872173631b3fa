SPECIFICATION FairSpec
CONSTANTS
    p1 = p1
    p2 = p2
    e = e
    s = s
    Publisher = {p1, p2}
    Id = {e}
    IdOf <- MCIdOf
    Sub = {s}
    Script <- MCScript
    MaxEvents = 2
CHECK_DEADLOCK FALSE
INVARIANTS
    NilIsAccepted
