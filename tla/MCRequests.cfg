SPECIFICATION Spec
CONSTANTS
    q1 = q1
    q2 = q2
    c1 = c1
    a = a
    e1 = e1
    e2 = e2
    Req = {q1, q2}
    Close = {c1}
    IdOf <- MCSameId
    Filters <- MCTwoAndOne
    Hooks = 1
    Event = {e1}
    ScanErrors = TRUE
CHECK_DEADLOCK FALSE
INVARIANTS
    EoseIsLast
    EoseIsComplete
    EoseIsSubscribed
    CloseIsFinal
    
