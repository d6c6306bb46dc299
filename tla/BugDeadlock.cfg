\* A process that creates x and one that unlinks it, in the root directory.
SPECIFICATION Spec
CHECK_DEADLOCK FALSE
CONSTANTS
  Procs = {1, 2, 3}
  NOFILE = 3
  NFILE = 4
  NPIPE = 2
  Programs <- MCCross
  Image <- MCImage
  NINODE = 6
  ninodes = 6
  size = 20
  nmeta = 2
  BSIZE = 2
  NDIRECT = 1
  DIRSIZ = 2
INVARIANTS
  NoLockCycle
