SPECIFICATION Spec
CONSTANTS
  NPROC = 2
  NCPU = 2
  IntMax = 127
  InitOps = {"fork", "waitx", "kill"}
  UserOps <- ClockOps
  KillArgs = {2}
  TicketArgs = {}
  PolicyArgs = {}
  SleepArgs <- ClockSleeps
  BootPolicies = {0}
  MemFails = FALSE
  MaxPid = 3
  TickMod = 4
  MaxTicks = 2
  AcctMod = 4
INVARIANTS
  SleeperNotForgotten
  ChargedOncePerTick
  WaitxAddsUp
