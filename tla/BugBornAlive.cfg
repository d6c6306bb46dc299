SPECIFICATION Spec
CONSTANTS
  NPROC = 3
  NCPU = 1
  IntMax = 127
  InitOps = {"fork", "wait"}
  UserOps = {"fork", "kill"}
  KillArgs = {0}
  TicketArgs = {}
  PolicyArgs = {}
  SleepArgs = {}
  BootPolicies = {0}
  MemFails = FALSE
  MaxPid = 3
  TickMod = 4
  MaxTicks = 0
  AcctMod = 1
PROPERTIES
  BornAlive
