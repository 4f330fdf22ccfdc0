SPECIFICATION MCSpec
CONSTANTS
    s1 = s1
    c1 = c1
    Reads = {}
    Shutdowns = {s1}
    Backs = {}
    Clients = {c1}
    Scenarios = {{s1, c1}}
    RequestCap = 1
    CtlCap = 1
    MaxPhase = 4
    MaxMark = 1
INVARIANTS CollectedIsPolled
CHECK_DEADLOCK FALSE
