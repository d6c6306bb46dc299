SPECIFICATION Spec
CONSTANTS
  NPROC = 4
  NCPU = 1
  IntMax = 127
  InitOps = {"fork", "wait"}
  UserOps <- TicketOps
  KillArgs = {2}
  TicketArgs <- SomeTickets
  PolicyArgs <- AnyPolicy
  SleepArgs = {}
  BootPolicies = {2}
  MemFails = FALSE
  MaxPid = 4
  TickMod = 4
  MaxTicks = 0
  AcctMod = 1
INVARIANTS
  TypeOK
  LotteryProportional
