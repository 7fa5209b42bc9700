\* A payload of two segments.
SPECIFICATION Spec
CONSTANTS
  QUEUE_SIZE = 2
  WINDOW_LENGTH = 2
  MSS = 2
  Byte <- Bytes
  Writes <- OneLong
  Garbage = {}
  Dup = TRUE
  Lossy = FALSE
  MaxSeq = 6
INVARIANT ReceivedIsWritten
CHECK_DEADLOCK FALSE
