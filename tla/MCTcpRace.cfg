\* A payload of two segments; nothing is lost or duplicated.
SPECIFICATION FairSpec
CONSTANTS
  QUEUE_SIZE = 2
  WINDOW_LENGTH = 2
  MSS = 2
  Byte <- Bytes
  Writes <- OneLong
  Garbage = {}
  Dup = FALSE
  Lossy = FALSE
  MaxSeq = 6
PROPERTY WriteReturns
CHECK_DEADLOCK FALSE
