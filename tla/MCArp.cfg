\* Two processes and the interrupt handler compete for two entries, which age.
SPECIFICATION Spec
CONSTANTS
  ARP_CACHE_SIZE = 2
  ARP_TTL_TICKS = 0
  Procs = {p1, p2}
  Ips <- Hosts
  GATEWAY <- Router
  OnSubnet <- SameNet
  Learned <- Masked
  Idle = Idle
  Nic = Nic
  NoMac = NoMac
  MaxTicks = 1
  Lossy = TRUE
SYMMETRY Perms
INVARIANTS OneEntryPerIp SleeperEntryPending
PROPERTY WokenByAnswer
CHECK_DEADLOCK FALSE
