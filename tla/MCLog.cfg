\* Three processes, calls of up to two blocks, room for two calls at most.
SPECIFICATION Spec
CONSTANTS
  Procs = {p1, p2, p3}
  Blocks = {b1, b2}
  Values = {0, 1}
  MAXOPBLOCKS = 4
  OpBlocks = 2
  LOGSIZE = 9
  NLOG = 9
SYMMETRY Perms
INVARIANTS ReservationHolds SleeperHasWaker
PROPERTY LogImplementsStore
