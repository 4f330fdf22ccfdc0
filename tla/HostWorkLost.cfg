SPECIFICATION GitSpec
CONSTANTS
  Waiters = {1, 2, 3, 4}
  Loads <- LostLoads
  Permits = 3
INVARIANT NoneStranded
CHECK_DEADLOCK FALSE
