SPECIFICATION Spec
CONSTANTS
  NPROC = 3
  NCPU = 1
  IntMax = 127
  InitOps = {"fork", "wait"}
  UserOps = {"exit"}
  KillArgs = {2}
  TicketArgs = {}
  PolicyArgs = {}
  SleepArgs = {}
  BootPolicies = {1}
  MemFails = FALSE
  MaxPid = 4
  TickMod = 4
  MaxTicks = 0
  AcctMod = 1
PROPERTIES
  FCFSFirstCome
