\* The instances are in the module; the constants are names.
SPECIFICATION UnitSpec
CONSTANTS
  QUEUE_SIZE = 3
  Elements <- MCElements
  p1 = p1
  p2 = p2
  c1 = c1
  c2 = c2
  None = None
INVARIANTS FramesInOrder CountedOnce LocksProtect MemoryAccounted HeapSound FilesKeepBytes WriteFits NamesResolve ArgumentsInside PacketsReadable GrepPrintsMatches
PROPERTIES QueueImplementsFifo TransferIsStream LinesReachReaders
CHECK_DEADLOCK FALSE
