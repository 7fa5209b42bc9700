\* Three slots and two CPUs; memory for three processes that have not grown.
SPECIFICATION Spec
CONSTANTS
  Procs = {p0, p1, p2}
  Cpus = {c1, c2}
  initproc = p0
  NPAGES = 6
  MaxPid = 3
  None = None
  Ticks = Ticks
  Timer = Timer
SYMMETRY Perms
INVARIANTS RunsOnce ParentLives ExitNoticed TickNoticed
