\* Three users (a process with two buffers and another with one) and one block kept
\* dirty share two buffers for four blocks, so that bget may find none.
SPECIFICATION Spec
CONSTANTS
  Procs = {p1, p2, p3}
  Blocks = {k1, k2, k3, k4}
  Values = {0, 1}
  NBUF = 2
  None = None
  MaxPinned = 1
INVARIANTS BuffersSound SleeperHasWaker
PROPERTY DiskImplementsStore
SYMMETRY Perms
