CONSTANTS
    r1 = r1
    r2 = r2
    s = s
    Routes = {r1, r2}
    Sessions = {s}
    SessionOf <- OneSession
    Capacity = 1
    MaxKeys = 1
    MaxErrs = 1
SPECIFICATION Spec
INVARIANTS  EndedInSilence LostWorkerReported
PROPERTY ReportedAsClosed
SYMMETRY RouteSymmetry
