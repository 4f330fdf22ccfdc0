CONSTANTS
    r1 = r1
    s = s
    Routes = {r1}
    Sessions = {s}
    SessionOf <- OneSession
    Capacity = 1
    MaxKeys = 1
    MaxErrs = 1
SPECIFICATION Spec
INVARIANT RefusedDetachStillReports
