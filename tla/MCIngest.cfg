SPECIFICATION Spec
CONSTANTS
    m1 = m1
    m2 = m2
    m3 = m3
    m4 = m4
    alice = alice
    bob = bob
    x = x
    y = y
    Event <- MCEvent
    Msg = {m1, m2, m3, m4}
    Workload <- MCWorkload
    Faults = 1
    Breaks = 1
    Crashes = 1
CHECK_DEADLOCK FALSE
INVARIANTS
    OnePerAddress
    NewestWins
    AcceptedIsKept
    DeletedIsGone
    BroadcastIsNew
