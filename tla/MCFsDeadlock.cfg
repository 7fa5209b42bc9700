\* The instance of MCFs.cfg.
SPECIFICATION Spec
CONSTANTS
  Procs = {p1, p2}
  NINODES = 3
  Names = {"a", "b"}
  FilePaths <- MCFilePaths
  DirPaths <- MCDirPaths
  None = None
SYMMETRY Perms
INVARIANT NoCircularWait
CHECK_DEADLOCK FALSE
