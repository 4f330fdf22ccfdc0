SPECIFICATION Spec
CONSTANTS
    Clients = {u1, u2}
    Grants = {g1, g2}
    Routes = {r1}
    Present <- MCPairs
    RouteLimit = 1
    ChannelLimit = 1
    MaxAttaches = 2
    MaxAsks = 1
    MaxEvents = 1
SYMMETRY MCSymmetry
INVARIANTS
    AttachmentKept
    NoOrphanRoute
    RoutesHeld
    OwnersLeaveNothing
    BoundOnce
CHECK_DEADLOCK FALSE
