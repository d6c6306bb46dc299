SPECIFICATION Spec
CONSTANTS
  NPROC = 3
  NCPU = 2
  IntMax = 127
  InitOps = {"fork", "wait"}
  UserOps <- FamilyOps
  KillArgs = {1, 2}
  TicketArgs = {}
  PolicyArgs = {}
  SleepArgs = {}
  BootPolicies = {0}
  MemFails = TRUE
  MaxPid = 3
  TickMod = 4
  MaxTicks = 0
  AcctMod = 1
INVARIANTS
  OnOneProcessor
  ParentAlive
  WaiterNotForgotten
  PidsDistinct
  EmbryoOwned
  NoZombieExit
PROPERTIES
  SlotLifeCycle
