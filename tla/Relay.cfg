SPECIFICATION RelaySpec
CONSTANTS
  Item = {x, y}
  InitCap = 2
  MaxQueued = 5
  Garbage = Garbage
  Capacity = 2
  Messages = 6
  Faults = 2
  Pipe = 1
  Chunk = 2
  BailoutN = 2
  BailoutWin = 2
  Lifetimes = {0, 2}
  MaxInput = 3
  MaxCrashes = 1
  MaxMishaps = 1
  Calls = {"initialize", "hover"}
INVARIANTS QueueKept DrainedAtEof RelayExact BreakerExact FramesKept
PROPERTIES ImplementsList WriterServes RelayServes
CHECK_DEADLOCK FALSE
