SPECIFICATION FairSpec
CONSTANTS
    q1 = q1
    c1 = c1
    a = a
    e1 = e1
    m1 = m1
    m2 = m2
    alice = alice
    x = x
    x1 = x1
    x2 = x2
    op1 = op1
    op2 = op2
    http = http
    Req = {q1}
    Close = {c1}
    IdOf <- MCIdOf
    Filters <- MCFilters
    Hooks = 1
    LiveEvent = {e1}
    ScanErrors = TRUE
    Submitted <- MCSubmitted
    Msg = {m1, m2}
    Workload <- MCWorkload
    Faults = 1
    Breaks = 1
    Crashes = 0
    ExpEvent = {x1, x2}
    Tags <- MCTags
    CreatedAt <- MCCreatedAt
    QueryLimit = 1
    MaxNow = 1
    Publications = 1
    SaveFaults = 1
    Restarts = 1
    Rows <- MCRows
    QueueLimit = 2
    Takes = {"all", "first"}
    Op = {op1, op2}
    Request = {http}
CHECK_DEADLOCK FALSE
INVARIANTS
    StoredIsTracked
    RowsInOrder
    ExitTellsWhy
PROPERTIES
    HandlersEnd
    ExpiredGoes
    PipeEnds
    FailureEnds
