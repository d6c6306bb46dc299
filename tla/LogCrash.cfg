SPECIFICATION Spec
CONSTANTS
  Threads = {1, 2}
  Blocks = {0, 1, 2, 3, 4, 5}
  HomeBlocks = {4, 5}
  NBUF = 5
  logstart = 0
  nlog = 4
  LOGSIZE = 4
  MAXOPBLOCKS = 2
  Budgets <- CrashBudgets
INVARIANTS
  
  OneBufferPerBlock
  RequestsQueued
  SleepersHaveWaker
  
PROPERTIES
  AtomicOps
  OpsFinish
