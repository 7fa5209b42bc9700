\* Two processes and two names in a directory tree of two levels.
SPECIFICATION Spec
CONSTANTS
  Procs = {p1, p2}
  NINODES = 3
  Names = {"a", "b"}
  FilePaths <- MCFilePaths
  DirPaths <- MCDirPaths
  None = None
SYMMETRY Perms
INVARIANTS TreeSound OpenStays CacheIsDisk
CHECK_DEADLOCK FALSE
