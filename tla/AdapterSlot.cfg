SPECIFICATION FairSpec
CONSTANTS
  Closers = {h1}
  CoreReasons = {}
  Core = core
  Driver = driver
  MaxFrames = 2
INVARIANTS
  CompletesWhatItWrote
  FramesInOrder
  CoreNotStranded
  WriterNotStranded
  OneReport
PROPERTIES
  CloseEndsWriter
