SPECIFICATION MCSpec
CONSTANTS
    r1 = r1
    s1 = s1
    b1 = b1
    c1 = c1
    c2 = c2
    Reads = {r1}
    Shutdowns = {s1}
    Backs = {b1}
    Clients = {c1, c2}
    Scenarios = {{r1, b1}, {s1}, {c1, c2}}
    RequestCap = 1
    CtlCap = 1
    MaxPhase = 4
    MaxMark = 2
INVARIANTS
    RequestNotStranded
    OwnerNotStranded
    CollectedIsPolled
    PhaseCollectedFirst
    AcceptedIsRun
CHECK_DEADLOCK FALSE
