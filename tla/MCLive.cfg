\* The message of TcpTransfer; names for the instances in the module.
SPECIFICATION LiveSpec
CONSTANTS
  QUEUE_SIZE = 2
  WINDOW_LENGTH = 2
  MSS = 2
  Byte = {"a"}
  Writes <- OneShort
  Garbage <- AnySize
  Dup = TRUE
  Lossy = TRUE
  MaxSeq = 2
  p1 = p1
  p2 = p2
  Idle = Idle
  Nic = Nic
  NoMac = NoMac
  k1 = k1
  k2 = k2
  None = None
PROPERTIES ResolveReturns WriteReturns IoReturns
CHECK_DEADLOCK FALSE
