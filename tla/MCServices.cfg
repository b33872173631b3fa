SPECIFICATION FairSpec
CONSTANTS
    o1 = o1
    o2 = o2
    m1 = m1
    m2 = m2
    c1 = c1
    Nil = Nil
    \* A probe and its retry and an alert may together take longer than a slot.
    Interval = 2
    RemindInterval = 3
    MaxAge = 1
    Retries = 1
    MaxClock = 5
    MaxDelay = 1
    \* Two buckets: sets of four items are split, and a split may be split again;
    \* a frame has room for a split and a skip before it, and no more.
    MaxItem = 7
    Buckets = 2
    FrameLimit = 5
    Open = {o1, o2}
    Msg = {m1, m2}
    Close = {c1}
    Prompt = TRUE
    Event <- MCEvent
    Filter <- MCFilter
    Letter = {"e", "p"}
    ListLimit = 2
    TagsLimit = 3
    QueryLimit = 2
    Syncs <- MCSyncs
    ChanLimit = 1
    \* Pages of three events: some of one second fall on two pages, or fill one;
    \* a limit ends a second page; limit 0 asks for none.  No limit is -1.
    PageEvent = {1, 2, 3, 4}
    MaxTime = 3
    Stamps <- MCStamps
    Cap = 3
    Limits <- MCLimits
CHECK_DEADLOCK FALSE
INVARIANTS
    ToldIsCurrent
    SyncIsExact
    SessionsExpire
    RepliesAreWhole
    MatchesAreSent
    CopiesAll
    PagesAreComplete
PROPERTIES
    SyncEnds
