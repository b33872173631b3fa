SPECIFICATION FairSpec
CONSTANTS
    r1 = r1
    r2 = r2
    w1 = w1
    w2 = w2
    t1 = t1
    t2 = t2
    t3 = t3
    Lists <- MCLists
    MaxTries = 1
    Relay = {r1, r2}
    Stored <- MCStored
    Live <- MCLive
    Task = {t1, t2, t3}
    MaxConnects = 3
    Writer = {w1, w2}
CHECK_DEADLOCK FALSE
INVARIANTS
    LatestIsKept
