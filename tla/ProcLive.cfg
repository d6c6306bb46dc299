SPECIFICATION FairSpec
CONSTANTS
  NPROC = 3
  NCPU = 1
  IntMax = 127
  InitOps = {"fork", "wait"}
  UserOps <- LiveOps
  KillArgs = {2}
  TicketArgs = {}
  PolicyArgs = {}
  SleepArgs = {1}
  BootPolicies = {0}
  MemFails = FALSE
  MaxPid = 3
  TickMod = 1
  MaxTicks = 1
  AcctMod = 1
PROPERTIES
  NoStarvation
  
