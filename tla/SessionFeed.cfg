SPECIFICATION Spec
CONSTANTS
  Sessions = {1, 2}
  JournalKeep = 1
  PageMax = 2
  FanoutMax = 2
  FamilyMax = 2
  ChunkMax = 1
  EngineMax = 1
  DeliveryMax = 2
  QueueMax = 1
  Scenarios <- MCScenarios
INVARIANTS
  MirrorsClient
  SequenceIncreases
  FamilyMirrors
PROPERTIES
  SnapshotAuthoritative
  
  FamilyConverges
CHECK_DEADLOCK FALSE
