\* Two processes, three files, one page; pipes of two bytes whose counters wrap.
SPECIFICATION Spec
CONSTANTS
  Procs = {p1, p2}
  NFILE = 3
  NOFILE = 2
  Pages = {g1}
  PIPESIZE = 2
  UINT = 4
  Payloads <- MCPayloads
  Counts = {2}
  None = None
  MaxKills = 1
SYMMETRY Perms
INVARIANTS TableSound SleeperHasWaker
PROPERTY PipeIsFifo
CHECK_DEADLOCK FALSE
