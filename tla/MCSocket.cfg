\* Two processes, two peers, a lossy network.
SPECIFICATION MCSpec
CONSTANTS
  p1 = p1
  p2 = p2
  Procs = {p1, p2}
  NSOCKETS = 3
  NPORTS = 2
  FIRST = 1
  Servers = {p1, p2}
  BindPorts <- ServerPorts
  Clients = {p2}
  Limit <- Descriptors
  QUEUE_SIZE = 2
  MAXREQ = 2
  Peers = {c1, c2}
  Remote = {c2}
  Isn <- PeerIsn
  MaxData <- PeerData
  None = None
INVARIANTS TablesSound  
CHECK_DEADLOCK FALSE
