SPECIFICATION Spec
CONSTANTS
    m1 = m1
    m2 = m2
    m3 = m3
    m4 = m4
    alice = alice
    bob = bob
    x = x
    y = y
    Event <- MCEvent
    Msg = {m1, m2, m3, m4}
    Workload <- MCSharedWorkload
    Faults = 0
    Breaks = 0
    Crashes = 0
CHECK_DEADLOCK FALSE
PROPERTIES
    ReplacesOwnAddress
