------------------------------- MODULE MCProc -------------------------------
(***************************************************************************)
(* Workloads for model checking Proc.                                      *)
(***************************************************************************)
EXTENDS SchedProps

\* processes that come and go: fork, exit, wait, kill (init included), faults
FamilyOps == {"fork", "exit", "wait", "waitx", "kill", "yield", "fault"}

\* sleeping, being killed and being charged, until waitx() reports it
ClockOps == {"fork", "exit", "sleep", "kill", "waitx", "getpinfo", "uptime"}
ClockSleeps == {-1, 0, 1}

\* programs that may run for ever, sleep for ever, and be killed
LiveOps == {"fork", "wait", "sleep", "kill"}

\* giving up the processor only voluntarily
FCFSOps == {"fork", "exit", "wait", "yield"}

\* changing one's tickets and everybody's policy
TicketOps == {"fork", "exit", "wait", "settickets", "setpolicy", "yield"}
SomeTickets == {0, 1}
AnyPolicy == -1 .. 3
=============================================================================
