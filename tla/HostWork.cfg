SPECIFICATION GitSpec
CONSTANTS
  Waiters = {1, 2, 3, 4}
  Loads <- AllLoads
  Permits = 3
INVARIANTS
  WriterHoldsDocument
  AcknowledgedChangeKept
  ViewMatchesDisk
  MutationsAnswered
  StrandedIsResolvable
  
PROPERTIES
  UncertainStopsWrites
CHECK_DEADLOCK FALSE
