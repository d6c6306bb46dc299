SPECIFICATION CompletingSpec
CONSTANTS
  NPROC = 3
  NCPU = 1
  IntMax = 127
  InitOps = {"fork", "wait"}
  UserOps <- FCFSOps
  KillArgs = {2}
  TicketArgs = {}
  PolicyArgs = {}
  SleepArgs = {}
  BootPolicies = {1}
  MemFails = FALSE
  MaxPid = 3
  TickMod = 4
  MaxTicks = 2
  AcctMod = 1
PROPERTIES
  NoStarvation
  FCFSNoPreempt
