SPECIFICATION Spec
CONSTANTS
  Threads = {1, 2}
  Blocks = {0, 1, 2, 3, 4, 5, 6}
  HomeBlocks = {3, 4, 5, 6}
  NBUF = 3
  logstart = 0
  nlog = 3
  LOGSIZE = 3
  MAXOPBLOCKS = 1
  Budgets <- EvictBudgets
INVARIANTS
  Pinned
