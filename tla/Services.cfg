\* Files: two processes (and the child of a fork) on a file system of 6 inodes, with the
\* calls that meet on an inode, a directory or an open file.  The others: see the modules.
SPECIFICATION ServicesSpec
CHECK_DEADLOCK FALSE
CONSTANTS
  Procs = {1, 2, 3}
  NOFILE = 3
  NFILE = 4
  NPIPE = 2
  Programs <- MCPrograms
  Image <- MCImage
  NINODE = 6
  ninodes = 6
  size = 20
  nmeta = 2
  BSIZE = 2
  NDIRECT = 1
  DIRSIZ = 2
  PIPESIZE = 2
  UINTS = 4
  Writers = {"w1"}
  Readers = {"r1", "r2"}
  Bufs <- MCBufs
  Sizes = {2}
  INPUT_BUF = 3
  INDEXES = 6
  Clients = {"r1"}
  Wanted = {2}
  COLS = 2
  ROWS = 3
  CPUs = {"c1", "c2"}
  Kthreads = {"t1", "t2"}
  Machines <- MCMachines
  IrqLocks = {"tick"}
  Pages = {1, 2, 3, 4, 5, 6, 7, 8, 9, 10, 11}
  Tasks = {"p1", "p2"}
  PGSIZE = 2
  NPTENTRIES = 3
  UserPdes = 2
  KernPdes = 1
  WORD = 2
  Increments <- MCIncrements
  Images <- MCImages
  HeaderSize = 2
  NALLOC = 4
  HEAP = 10
  Requests = {3, 9, 15}
  UINT = 16
  MAXARGS = 2
  ShProcs = {1, 2, 3, 4, 5}
  ShPipes = {1, 2}
  ShFds = {0, 1, 2, 3, 4}
  Scripts <- MCScripts
  Commands <- MCCommands
INVARIANTS
  InodeRefs
  
  HeldInodesStay
  LinksCounted
  BlocksOwnedOnce
  PipeSleepersDue
  ConsoleSane
  LocksProtect
  InterruptsRestored
  PagesOwnedOnce
  ArgumentsInMemory
  
  ParsesBack
PROPERTIES
  PipeIsFifo
  PipeDelivers
  ConsoleIsLineInput
  ShellEnds
