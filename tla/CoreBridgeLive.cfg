SPECIFICATION CalmFairSpec
CONSTANTS
    r1 = r1
    b1 = b1
    Reads = {r1}
    Shutdowns = {}
    Backs = {b1}
    Clients = {}
    Scenarios = {{r1, b1}}
    RequestCap = 1
    CtlCap = 1
    MaxPhase = 3
    MaxMark = 0
PROPERTIES
    RequestsAnswered
    RefusedRunsAgain
CHECK_DEADLOCK FALSE
