--------------------------- MODULE ProcTypeProofs ---------------------------
(*****************************************************************************)
(* Proofs that every step of Proc keeps TypeOK and has one of the effects    *)
(* of ProcInv.                                                               *)
(*****************************************************************************)
EXTENDS ProcInv, TLAPS

USE DEF slotvars, timevars, tixvars, lockvars, cpuvars, locals, globals, vars

\* A null pointer is no slot and no processor; the channel &ticks is no slot; userinit()
\* has taken slot 0.
LEMMA Basics ==
  /\ NULL \notin Slots /\ NULL \notin CPUs /\ TICKS \notin Slots /\ TICKS # NULL
  /\ initproc \in Slots
BY NPROCAssumption DEF NULL, TICKS, Slots, CPUs, initproc

\* Under every policy scheduler() picks a RUNNABLE slot, and goes on inside the table.
LEMMA PicksRunnable ==
  ASSUME NEW ch \in Picks
  PROVE  ch[1] \in Runnable /\ ch[1] \in Slots /\ ch[2] \in 0 .. NPROC
<1>1. CASE scheduling_policy = FCFS
  BY <1>1, NPROCAssumption DEF Picks, Oldest
<1>2. CASE scheduling_policy # FCFS /\ scheduling_policy = LOTTERY
  <2>1. \A r : Winner(Runnable, tickets, r) \subseteq Runnable
    BY Zenon DEF Winner
  <2>2. PICK p \in UNION {Winner(Runnable, tickets, r) : r \in Draws(Runnable, tickets)} :
          ch = <<p, NPROC>>
    BY <1>2, Zenon DEF Picks
  <2>3. p \in Runnable
    BY <2>1, Zenon
  <2> QED BY <2>2, <2>3, NPROCAssumption DEF Runnable
<1>3. CASE scheduling_policy # FCFS /\ scheduling_policy # LOTTERY
  BY <1>3, NPROCAssumption DEF Picks, IsFirst, RRNext, Slots
<1> QED BY <1>1, <1>2, <1>3, Zenon

\* A step keeps the types; the system calls' arguments are checked (settickets(),
\* setpolicy()) and the clock and the counters wrap.
LEMMA TypeStep ==
  ASSUME TypeOK, CpuInv, NEW c \in CPUs, Step(c)
  PROVE  TypeOK'
<1>o. /\ Ops \subseteq Threads /\ "exit" \in Threads /\ InitOps \subseteq Ops
      /\ UserOps \subseteq Ops
  BY OpsAssumption, Zenon DEF Threads, Ops
<1>c. /\ cpc[c] \in {"run", "switched", "resumed", "preempt"} => cproc[c] \in Slots
      /\ cproc[c] # NULL => cproc[c] \in Slots
  BY Zenon DEF TypeOK, CpuTypes, CpuInv, CurrentInv, CurrentOK, OnProcess
<1>a. /\ SlotTypes /\ TimeTypes /\ TicketTypes /\ CpuTypes /\ ThreadTypes /\ GlobalTypes
      /\ initproc \in Slots
      /\ 0 \in 0 .. TickMod - 1 /\ 0 \in 0 .. AcctMod - 1
  BY NPROCAssumption, BoundAssumption DEF TypeOK, initproc, Slots
<1>1. CASE SchedPick(c)
  <2>1. SlotTypes'
    BY <1>a, <1>1, Zenon DEF SchedPick, Dispatch, SlotTypes, ProcState
  <2>2. CpuTypes'
    BY <1>a, <1>1, PicksRunnable DEF SchedPick, Dispatch, CpuTypes, Stages
  <2>3. TimeTypes' /\ TicketTypes' /\ ThreadTypes' /\ GlobalTypes'
    BY <1>a, <1>1 DEF SchedPick, Dispatch, TimeTypes, TicketTypes, ThreadTypes, GlobalTypes
  <2> QED BY <2>1, <2>2, <2>3, Zenon DEF TypeOK
<1>2. CASE SchedNext(c)
  <2>1. SlotTypes'
    BY <1>a, <1>2, Zenon DEF SchedNext, Dispatch, SlotTypes, ProcState
  <2>2. CpuTypes'
    BY <1>a, <1>2, NPROCAssumption DEF SchedNext, Dispatch, RRNext, CpuTypes, Stages, Slots
  <2>3. TimeTypes' /\ TicketTypes' /\ ThreadTypes' /\ GlobalTypes'
    BY <1>a, <1>2 DEF SchedNext, Dispatch, TimeTypes, TicketTypes, ThreadTypes, GlobalTypes
  <2> QED BY <2>1, <2>2, <2>3, Zenon DEF TypeOK
<1>3. CASE SchedRelease(c)
  <2>1. CpuTypes'
    BY <1>a, <1>3, NPROCAssumption DEF SchedRelease, CpuTypes, Stages
  <2>2. SlotTypes' /\ TimeTypes' /\ TicketTypes' /\ ThreadTypes' /\ GlobalTypes'
    BY <1>a, <1>3, Zenon
    DEF SchedRelease, SlotTypes, TimeTypes, TicketTypes, ThreadTypes, GlobalTypes
  <2> QED BY <2>1, <2>2, Zenon DEF TypeOK
<1>4. CASE ForkRet(c)
  <2>1. CpuTypes'
    BY <1>a, <1>4, Zenon DEF ForkRet, CpuTypes, Stages
  <2>2. ThreadTypes'
    BY <1>a, <1>4, Zenon DEF ForkRet, Goto, ThreadTypes, Threads
  <2>3. SlotTypes' /\ TimeTypes' /\ TicketTypes' /\ GlobalTypes'
    BY <1>a, <1>4, Zenon DEF ForkRet, SlotTypes, TimeTypes, TicketTypes, GlobalTypes
  <2> QED BY <2>1, <2>2, <2>3, Zenon DEF TypeOK
<1>5. CASE YieldReturn(c)
  <2>1. CpuTypes'
    BY <1>a, <1>5, Zenon DEF YieldReturn, CpuTypes, Stages
  <2>2. ThreadTypes'
    BY <1>a, <1>5, Zenon DEF YieldReturn, Goto, ThreadTypes, Threads, Ops
  <2>3. SlotTypes' /\ TimeTypes' /\ TicketTypes' /\ GlobalTypes'
    BY <1>a, <1>5, Zenon DEF YieldReturn, SlotTypes, TimeTypes, TicketTypes, GlobalTypes
  <2> QED BY <2>1, <2>2, <2>3, Zenon DEF TypeOK
<1>6. CASE NapReturn(c)
  <2>1. SlotTypes'
    BY <1>a, <1>6, Zenon DEF NapReturn, SlotTypes
  <2>2. CpuTypes'
    BY <1>a, <1>6, Zenon DEF NapReturn, CpuTypes, Stages
  <2>3. ThreadTypes'
    BY <1>a, <1>6, Zenon DEF NapReturn, Goto, ThreadTypes, Threads
  <2>4. TimeTypes' /\ TicketTypes' /\ GlobalTypes'
    BY <1>a, <1>6, Zenon DEF NapReturn, TimeTypes, TicketTypes, GlobalTypes
  <2> QED BY <2>1, <2>2, <2>3, <2>4, Zenon DEF TypeOK
<1>7. CASE SyscallReturn(c)
  <2>1. ThreadTypes'
    BY <1>a, <1>7, Zenon DEF SyscallReturn, Goto, ThreadTypes, Threads, Ops
  <2>2. SlotTypes' /\ TimeTypes' /\ TicketTypes' /\ CpuTypes' /\ GlobalTypes'
    BY <1>a, <1>7, Zenon
    DEF SyscallReturn, SlotTypes, TimeTypes, TicketTypes, CpuTypes, GlobalTypes
  <2> QED BY <2>1, <2>2, Zenon DEF TypeOK
<1>8. CASE ForkNoSlot(c)
  <2>1. ThreadTypes'
    BY <1>a, <1>8, Zenon DEF ForkNoSlot, Goto, ThreadTypes, Threads
  <2>2. SlotTypes' /\ TimeTypes' /\ TicketTypes' /\ CpuTypes' /\ GlobalTypes'
    BY <1>a, <1>8, Zenon
    DEF ForkNoSlot, SlotTypes, TimeTypes, TicketTypes, CpuTypes, GlobalTypes
  <2> QED BY <2>1, <2>2, Zenon DEF TypeOK
<1>9. CASE AllocSlot(c)
  <2>1. SlotTypes'
    BY <1>a, <1>9 DEF AllocSlot, SlotTypes, ProcState, GlobalTypes
  <2>2. ThreadTypes'
    BY <1>a, <1>c, <1>9 DEF AllocSlot, At, Goto, ThreadTypes, Threads
  <2>3. GlobalTypes'
    BY <1>a, <1>9 DEF AllocSlot, PidAfter, GlobalTypes
  <2>4. TimeTypes' /\ TicketTypes' /\ CpuTypes'
    BY <1>a, <1>9, Zenon DEF AllocSlot, TimeTypes, TicketTypes, CpuTypes
  <2> QED BY <2>1, <2>2, <2>3, <2>4, Zenon DEF TypeOK
<1>10. CASE ForkNoMemory(c)
  <2>1. SlotTypes'
    BY <1>a, <1>10, Zenon DEF ForkNoMemory, SlotTypes, ProcState
  <2>2. ThreadTypes'
    BY <1>a, <1>10, Zenon DEF ForkNoMemory, Goto, ThreadTypes, Threads
  <2>3. TimeTypes' /\ TicketTypes' /\ CpuTypes' /\ GlobalTypes'
    BY <1>a, <1>10, Zenon DEF ForkNoMemory, TimeTypes, TicketTypes, CpuTypes, GlobalTypes
  <2> QED BY <2>1, <2>2, <2>3, Zenon DEF TypeOK
<1>11. CASE AllocInit(c)
  <2>1. TimeTypes'
    BY <1>a, <1>11, Zenon DEF AllocInit, TimeTypes, GlobalTypes
  <2>2. TicketTypes'
    BY <1>a, <1>11, Zenon DEF AllocInit, DefaultTickets, TicketTypes
  <2>3. ThreadTypes'
    BY <1>a, <1>11, Zenon DEF AllocInit, ThreadTypes, Threads
  <2>4. SlotTypes' /\ CpuTypes' /\ GlobalTypes'
    BY <1>a, <1>11, Zenon DEF AllocInit, SlotTypes, CpuTypes, GlobalTypes
  <2> QED BY <2>1, <2>2, <2>3, <2>4, Zenon DEF TypeOK
<1>12. CASE ForkCopy(c)
  <2>1. SlotTypes'
    BY <1>a, <1>c, <1>12, Zenon DEF ForkCopy, SlotTypes
  <2>2. TicketTypes'
    BY <1>a, <1>c, <1>12, Zenon DEF ForkCopy, At, Tix, TicketTypes
  <2>3. ThreadTypes'
    BY <1>a, <1>12, Zenon DEF ForkCopy, Goto, ThreadTypes, Threads
  <2>4. TimeTypes' /\ CpuTypes' /\ GlobalTypes'
    BY <1>a, <1>12, Zenon DEF ForkCopy, TimeTypes, CpuTypes, GlobalTypes
  <2> QED BY <2>1, <2>2, <2>3, <2>4, Zenon DEF TypeOK
<1>13. CASE ForkReady(c)
  <2>1. SlotTypes'
    BY <1>a, <1>13, Zenon DEF ForkReady, SlotTypes, ProcState
  <2>2. ThreadTypes'
    BY <1>a, <1>13, Zenon DEF ForkReady, Goto, ThreadTypes, Threads
  <2>3. TimeTypes' /\ TicketTypes' /\ CpuTypes' /\ GlobalTypes'
    BY <1>a, <1>13, Zenon DEF ForkReady, TimeTypes, TicketTypes, CpuTypes, GlobalTypes
  <2> QED BY <2>1, <2>2, <2>3, Zenon DEF TypeOK
<1>14. CASE InitExit(c)
  <2>1. CpuTypes'
    BY <1>a, <1>14, Zenon DEF InitExit, CpuTypes, Stages
  <2>2. SlotTypes' /\ TimeTypes' /\ TicketTypes' /\ ThreadTypes' /\ GlobalTypes'
    BY <1>a, <1>14, Zenon
    DEF InitExit, SlotTypes, TimeTypes, TicketTypes, ThreadTypes, GlobalTypes
  <2> QED BY <2>1, <2>2, Zenon DEF TypeOK
<1>15. CASE Exit(c)
  <2>1. SlotTypes'
    BY <1>a, <1>15, Zenon DEF Exit, Adopt, ExitWakeups, Wakeup1, SlotTypes, ProcState
  <2>2. TimeTypes'
    BY <1>a, <1>15, Zenon DEF Exit, TimeTypes, GlobalTypes
  <2>3. CpuTypes'
    BY <1>a, <1>15, Zenon DEF Exit, Sched, CpuTypes, Stages
  <2>4. ThreadTypes'
    BY <1>a, <1>15, Zenon DEF Exit, Goto, ThreadTypes, Threads
  <2>5. TicketTypes' /\ GlobalTypes'
    BY <1>a, <1>15, Zenon DEF Exit, TicketTypes, GlobalTypes
  <2> QED BY <2>1, <2>2, <2>3, <2>4, <2>5, Zenon DEF TypeOK
<1>16. CASE WaitReap(c)
  <2>1. SlotTypes'
    BY <1>a, <1>c, <1>16 DEF WaitReap, InWait, At, SlotTypes, ProcState
  <2>2. CpuTypes'
    BY <1>a, <1>16, Zenon DEF WaitReap, CpuTypes, Stages
  <2>3. ThreadTypes'
    BY <1>a, <1>16, Zenon DEF WaitReap, ThreadTypes, Threads
  <2>4. TimeTypes' /\ TicketTypes' /\ GlobalTypes'
    BY <1>a, <1>16, Zenon DEF WaitReap, TimeTypes, TicketTypes, GlobalTypes
  <2> QED BY <2>1, <2>2, <2>3, <2>4, Zenon DEF TypeOK
<1>17. CASE WaitFail(c)
  <2>1. SlotTypes'
    BY <1>a, <1>17, Zenon DEF WaitFail, SlotTypes
  <2>2. CpuTypes'
    BY <1>a, <1>17, Zenon DEF WaitFail, CpuTypes, Stages
  <2>3. ThreadTypes'
    BY <1>a, <1>17, Zenon DEF WaitFail, Goto, ThreadTypes, Threads
  <2>4. TimeTypes' /\ TicketTypes' /\ GlobalTypes'
    BY <1>a, <1>17, Zenon DEF WaitFail, TimeTypes, TicketTypes, GlobalTypes
  <2> QED BY <2>1, <2>2, <2>3, <2>4, Zenon DEF TypeOK
<1>18. CASE WaitSleep(c)
  <2>1. SlotTypes'
    BY <1>a, <1>c, <1>18, Zenon DEF WaitSleep, SlotTypes, ProcState
  <2>2. CpuTypes'
    BY <1>a, <1>18, Zenon DEF WaitSleep, Sched, CpuTypes, Stages
  <2>3. ThreadTypes'
    BY <1>a, <1>18, Zenon DEF WaitSleep, Goto, ThreadTypes, Threads
  <2>4. TimeTypes' /\ TicketTypes' /\ GlobalTypes'
    BY <1>a, <1>18, Zenon DEF WaitSleep, TimeTypes, TicketTypes, GlobalTypes
  <2> QED BY <2>1, <2>2, <2>3, <2>4, Zenon DEF TypeOK
<1>19. CASE Nap(c)
  <2>1. CpuTypes'
    BY <1>a, <1>19, Zenon DEF Nap, NapTest, CpuTypes
  <2>2. ThreadTypes'
    BY <1>a, <1>19, ArgsAssumption DEF Nap, Goto, NapTest, ThreadTypes, Threads, GlobalTypes
  <2>3. SlotTypes' /\ TimeTypes' /\ TicketTypes' /\ GlobalTypes'
    BY <1>a, <1>19, Zenon DEF Nap, SlotTypes, TimeTypes, TicketTypes, GlobalTypes
  <2> QED BY <2>1, <2>2, <2>3, Zenon DEF TypeOK
<1>20. CASE NapAgain(c)
  <2>1. CpuTypes'
    BY <1>a, <1>20, Zenon DEF NapAgain, NapTest, CpuTypes
  <2>2. ThreadTypes'
    BY <1>a, <1>20 DEF NapAgain, Goto, NapTest, ThreadTypes, Threads
  <2>3. SlotTypes' /\ TimeTypes' /\ TicketTypes' /\ GlobalTypes'
    BY <1>a, <1>20, Zenon DEF NapAgain, SlotTypes, TimeTypes, TicketTypes, GlobalTypes
  <2> QED BY <2>1, <2>2, <2>3, Zenon DEF TypeOK
<1>21. CASE NapSleep(c)
  <2>1. SlotTypes'
    BY <1>a, <1>21, Zenon DEF NapSleep, SlotTypes, ProcState
  <2>2. CpuTypes'
    BY <1>a, <1>21, Zenon DEF NapSleep, Sched, CpuTypes, Stages
  <2>3. ThreadTypes'
    BY <1>a, <1>21, Zenon DEF NapSleep, Goto, ThreadTypes, Threads
  <2>4. TimeTypes' /\ TicketTypes' /\ GlobalTypes'
    BY <1>a, <1>21, Zenon DEF NapSleep, TimeTypes, TicketTypes, GlobalTypes
  <2> QED BY <2>1, <2>2, <2>3, <2>4, Zenon DEF TypeOK
<1>22. CASE Kill(c)
  <2>1. SlotTypes'
    BY <1>a, <1>22, Zenon DEF Kill, At, KillWakes, SlotTypes, ProcState
  <2>2. ThreadTypes'
    BY <1>a, <1>22, Zenon DEF Kill, Goto, ThreadTypes, Threads
  <2>3. TimeTypes' /\ TicketTypes' /\ CpuTypes' /\ GlobalTypes'
    BY <1>a, <1>22, Zenon DEF Kill, TimeTypes, TicketTypes, CpuTypes, GlobalTypes
  <2> QED BY <2>1, <2>2, <2>3, Zenon DEF TypeOK
<1>23. CASE Yield(c)
  <2>1. SlotTypes'
    BY <1>a, <1>23, Zenon DEF Yield, SlotTypes, ProcState
  <2>2. CpuTypes'
    BY <1>a, <1>23, Zenon DEF Yield, Sched, CpuTypes, Stages
  <2>3. ThreadTypes'
    BY <1>a, <1>23, Zenon DEF Yield, Goto, ThreadTypes, Threads
  <2>4. TimeTypes' /\ TicketTypes' /\ GlobalTypes'
    BY <1>a, <1>23, Zenon DEF Yield, TimeTypes, TicketTypes, GlobalTypes
  <2> QED BY <2>1, <2>2, <2>3, <2>4, Zenon DEF TypeOK
<1>24. CASE SetTickets(c)
  <2>1. TicketTypes'
    BY <1>a, <1>24, ArgsAssumption DEF SetTickets, TicketTypes
  <2>2. ThreadTypes'
    BY <1>a, <1>24, Zenon DEF SetTickets, Goto, ThreadTypes, Threads
  <2>3. SlotTypes' /\ TimeTypes' /\ CpuTypes' /\ GlobalTypes'
    BY <1>a, <1>24, Zenon DEF SetTickets, SlotTypes, TimeTypes, CpuTypes, GlobalTypes
  <2> QED BY <2>1, <2>2, <2>3, Zenon DEF TypeOK
<1>25. CASE SetPolicy(c)
  <2>1. ThreadTypes'
    BY <1>a, <1>25, Zenon DEF SetPolicy, Goto, ThreadTypes, Threads
  <2>2. GlobalTypes'
    BY <1>a, <1>25, Zenon DEF SetPolicy, PolicyAfter, GlobalTypes
  <2>3. SlotTypes' /\ TimeTypes' /\ TicketTypes' /\ CpuTypes'
    BY <1>a, <1>25, Zenon DEF SetPolicy, SlotTypes, TimeTypes, TicketTypes, CpuTypes
  <2> QED BY <2>1, <2>2, <2>3, Zenon DEF TypeOK
<1>26. CASE ReadOnlyCall(c)
  <2>1. ThreadTypes'
    BY <1>a, <1>26, Zenon DEF ReadOnlyCall, Goto, ThreadTypes, Threads
  <2>2. SlotTypes' /\ TimeTypes' /\ TicketTypes' /\ CpuTypes' /\ GlobalTypes'
    BY <1>a, <1>26, Zenon
    DEF ReadOnlyCall, SlotTypes, TimeTypes, TicketTypes, CpuTypes, GlobalTypes
  <2> QED BY <2>1, <2>2, Zenon DEF TypeOK
<1>27. CASE TimerTick(c)
  <2>1. CpuTypes'
    BY <1>a, <1>27, Zenon DEF TimerTick, CpuTypes, Stages
  <2>2. GlobalTypes'
    BY <1>a, <1>27, BoundAssumption DEF TimerTick, GlobalTypes
  <2>3. SlotTypes' /\ TimeTypes' /\ TicketTypes' /\ ThreadTypes'
    BY <1>a, <1>27, Zenon DEF TimerTick, SlotTypes, TimeTypes, TicketTypes, ThreadTypes
  <2> QED BY <2>1, <2>2, <2>3, Zenon DEF TypeOK
<1>28. CASE TimerWake(c)
  <2>1. SlotTypes'
    BY <1>a, <1>28, Zenon DEF TimerWake, Wakeup1, SlotTypes, ProcState
  <2>2. CpuTypes'
    BY <1>a, <1>28, Zenon DEF TimerWake, CpuTypes, Stages
  <2>3. TimeTypes' /\ TicketTypes' /\ ThreadTypes' /\ GlobalTypes'
    BY <1>a, <1>28, Zenon DEF TimerWake, TimeTypes, TicketTypes, ThreadTypes, GlobalTypes
  <2> QED BY <2>1, <2>2, <2>3, Zenon DEF TypeOK
<1>29. CASE TimerAccount(c)
  <2>1. TimeTypes'
    BY <1>a, <1>29, BoundAssumption DEF TimerAccount, Charge, TimeTypes
  <2>2. CpuTypes'
    BY <1>a, <1>29, Zenon DEF TimerAccount, CpuTypes, Stages
  <2>3. SlotTypes' /\ TicketTypes' /\ ThreadTypes' /\ GlobalTypes'
    BY <1>a, <1>29, Zenon DEF TimerAccount, SlotTypes, TicketTypes, ThreadTypes, GlobalTypes
  <2> QED BY <2>1, <2>2, <2>3, Zenon DEF TypeOK
<1>30. CASE TimerTail(c)
  <2>1. CpuTypes'
    BY <1>a, <1>c, <1>30, Zenon DEF TimerTail, CpuTypes, Stages
  <2>2. ThreadTypes'
    BY <1>a, <1>30, Zenon DEF TimerTail, Goto, ThreadTypes, Threads, Ops
  <2>3. SlotTypes' /\ TimeTypes' /\ TicketTypes' /\ GlobalTypes'
    BY <1>a, <1>30, Zenon DEF TimerTail, SlotTypes, TimeTypes, TicketTypes, GlobalTypes
  <2> QED BY <2>1, <2>2, <2>3, Zenon DEF TypeOK
<1>31. CASE SchedNone(c)
  <2>1. /\ SlotTypes' /\ TimeTypes' /\ TicketTypes' /\ CpuTypes' /\ ThreadTypes'
        /\ GlobalTypes'
    BY <1>a, <1>31, Zenon
    DEF SchedNone, SlotTypes, TimeTypes, TicketTypes, CpuTypes, ThreadTypes, GlobalTypes
  <2> QED BY <2>1, Zenon DEF TypeOK
<1>32. CASE Halted(c)
  <2>1. /\ SlotTypes' /\ TimeTypes' /\ TicketTypes' /\ CpuTypes' /\ ThreadTypes'
        /\ GlobalTypes'
    BY <1>a, <1>32, Zenon
    DEF Halted, SlotTypes, TimeTypes, TicketTypes, CpuTypes, ThreadTypes, GlobalTypes
  <2> QED BY <2>1, Zenon DEF TypeOK
<1>33. CASE Syscall(c)
  <2>1. ThreadTypes'
    BY <1>a, <1>c, <1>33, <1>o DEF Syscall, At, Goto, ThreadTypes
  <2>2. SlotTypes' /\ TimeTypes' /\ TicketTypes' /\ CpuTypes' /\ GlobalTypes'
    BY <1>a, <1>33, Zenon
    DEF Syscall, SlotTypes, TimeTypes, TicketTypes, CpuTypes, GlobalTypes
  <2> QED BY <2>1, <2>2, Zenon DEF TypeOK
<1>34. CASE UserFault(c)
  <2>1. SlotTypes'
    BY <1>a, <1>34, Zenon DEF UserFault, SlotTypes
  <2>2. ThreadTypes'
    BY <1>a, <1>34, Zenon DEF UserFault, Goto, ThreadTypes, Threads, Ops
  <2>3. TimeTypes' /\ TicketTypes' /\ CpuTypes' /\ GlobalTypes'
    BY <1>a, <1>34, Zenon DEF UserFault, TimeTypes, TicketTypes, CpuTypes, GlobalTypes
  <2> QED BY <2>1, <2>2, <2>3, Zenon DEF TypeOK
<1>35. CASE UserFaultFreezes(c)
  <2>1. CpuTypes'
    BY <1>a, <1>35, Zenon DEF UserFaultFreezes, CpuTypes
  <2>2. SlotTypes' /\ TimeTypes' /\ TicketTypes' /\ ThreadTypes' /\ GlobalTypes'
    BY <1>a, <1>35, Zenon
    DEF UserFaultFreezes, SlotTypes, TimeTypes, TicketTypes, ThreadTypes, GlobalTypes
  <2> QED BY <2>1, <2>2, Zenon DEF TypeOK
<1>36. CASE Timer(c)
  <2>1. CpuTypes'
    BY <1>a, <1>36, Zenon DEF Timer, CpuTypes, Stages
  <2>2. SlotTypes' /\ TimeTypes' /\ TicketTypes' /\ ThreadTypes' /\ GlobalTypes'
    BY <1>a, <1>36, Zenon
    DEF Timer, SlotTypes, TimeTypes, TicketTypes, ThreadTypes, GlobalTypes
  <2> QED BY <2>1, <2>2, Zenon DEF TypeOK
<1> QED
  BY <1>1, <1>2, <1>3, <1>4, <1>5, <1>6, <1>7, <1>8, <1>9, <1>10, <1>11, <1>12, <1>13,
    <1>14, <1>15, <1>16, <1>17, <1>18, <1>19, <1>20, <1>21, <1>22, <1>23, <1>24, <1>25,
    <1>26, <1>27, <1>28, <1>29, <1>30, <1>31, <1>32, <1>33, <1>34, <1>35, <1>36, Zenon
  DEF Step, Kernel

\* The types the other proofs use.
LEMMA Types ==
  ASSUME IInv
  PROVE  /\ state \in [Slots -> ProcState] /\ chan \in [Slots -> Slots \union {NULL, TICKS}]
         /\ parent \in [Slots -> Slots \union {NULL}] /\ killed \in [Slots -> BOOLEAN]
         /\ cproc \in [CPUs -> Slots \union {NULL}] /\ cpc \in [CPUs -> Stages]
         /\ pc \in [Slots -> Threads] /\ np \in [Slots -> Slots \union {NULL}]
BY Zenon DEF IInv, TypeOK, SlotTypes, CpuTypes, ThreadTypes

\* What IInv says of the processor that takes a step.
LEMMA Here ==
  ASSUME IInv, NEW c \in CPUs
  PROVE  /\ LockOK(c) /\ CurrentOK(c) /\ RunningOK(c) /\ PositionOK(c)
         /\ cpc[c] \in OnProcess => cproc[c] \in Slots
         /\ cproc[c] # NULL => cproc[c] \in Slots
BY Types, Zenon DEF IInv, CpuInv, LockInv, CurrentInv, RunningInv, PositionInv, CurrentOK

\* Every step has one of the effects, or changes nothing.
LEMMA EffectStep ==
  ASSUME IInv, NEW c \in CPUs, Step(c)
  PROVE  Effect(c) \/ UNCHANGED vars
<1>t. /\ cpc \in [CPUs -> Stages] /\ pc \in [Slots -> Threads]
      /\ chan \in [Slots -> Slots \union {NULL, TICKS}] /\ killed \in [Slots -> BOOLEAN]
  BY Types, Zenon
<1>c. /\ LockOK(c) /\ CurrentOK(c) /\ RunningOK(c) /\ PositionOK(c) /\ TickOK(c)
      /\ cpc[c] \in OnProcess => cproc[c] \in Slots
      /\ cproc[c] # NULL => cproc[c] \in Slots /\ SlotOK(cproc[c])
  BY Here, Zenon DEF IInv, TickInv, SlotInv
<1>o. \A op \in Ops : op \notin Parked /\ op \notin InFork /\ op # "doze"
  BY Zenon DEF Ops, Parked, InFork
<1>1. SchedPick(c) => Dispatches(c)
  BY PicksRunnable DEF SchedPick, Dispatches, Runnable
<1>2. SchedNext(c) => Dispatches(c)
  BY DEF SchedNext, Dispatches, Runnable, IsFirst, RRNext, Slots
<1>3. ForkRet(c) => MovesTo(c, "user", chan[cproc[c]])
  BY <1>t, Zenon DEF ForkRet, MovesTo, InFork, Parked
<1>4. NapReturn(c) => MovesTo(c, "renap", NULL)
  BY Zenon DEF NapReturn, MovesTo, InFork, Parked
<1>5. SyscallReturn(c) =>
        MovesTo(c, IF killed[cproc[c]] THEN "exit" ELSE "user", chan[cproc[c]])
  BY <1>t, Zenon DEF SyscallReturn, At, MovesTo, InFork, Parked
<1>6. ForkNoSlot(c) => MovesTo(c, "sysret", chan[cproc[c]])
  BY <1>t, Zenon DEF ForkNoSlot, At, MovesTo, InFork, Parked
<1>7. WaitFail(c) => MovesTo(c, "sysret", NULL)
  BY Zenon DEF WaitFail, InWait, At, MovesTo, InFork, Parked
<1>8. SetTickets(c) => MovesTo(c, "sysret", chan[cproc[c]])
  BY <1>t, Zenon DEF SetTickets, At, MovesTo, InFork, Parked
<1>9. SetPolicy(c) => MovesTo(c, "sysret", chan[cproc[c]])
  BY <1>t, Zenon DEF SetPolicy, At, MovesTo, InFork, Parked
<1>10. ReadOnlyCall(c) => MovesTo(c, "sysret", chan[cproc[c]])
  BY <1>t, Zenon DEF ReadOnlyCall, At, MovesTo, InFork, Parked
<1>11. UserFault(c) => MovesTo(c, "exit", chan[cproc[c]])
  BY <1>t, <1>c, Zenon DEF UserFault, At, MovesTo, InFork, Parked, OnProcess, PositionOK
<1>12. ASSUME YieldReturn(c) PROVE Moves(c)
  <2>1. cproc[c] \in Slots /\ pc[cproc[c]] \notin Parked /\ pc[cproc[c]] # "doze"
    BY <1>c, <1>12, Zenon
    DEF YieldReturn, OnProcess, CurrentOK, RunningOK, SlotOK, PositionOK, Parked
  <2>2. CASE DiesInUser(cproc[c])
    <3>1. MovesTo(c, "exit", chan[cproc[c]])
      BY <1>t, <1>12, <2>2, Zenon DEF YieldReturn, DiesInUser, MovesTo, InFork, Parked
    <3> QED BY <3>1, Zenon DEF Moves
  <2>3. CASE ~DiesInUser(cproc[c])
    <3>1. MovesTo(c, pc[cproc[c]], chan[cproc[c]])
      BY <1>t, <1>12, <2>1, <2>3, Zenon DEF YieldReturn, MovesTo
    <3> QED BY <3>1, Zenon DEF Moves
  <2> QED BY <2>2, <2>3, Zenon
<1>13. ASSUME Syscall(c) PROVE Moves(c)
  <2>1. PICK op \in Ops : Goto(c, IF killed[cproc[c]] THEN "exit" ELSE op)
    BY <1>13, OpsAssumption, Zenon DEF Syscall
  <2>2. MovesTo(c, IF killed[cproc[c]] THEN "exit" ELSE op, chan[cproc[c]])
    BY <1>t, <1>o, <1>13, <2>1, Zenon DEF Syscall, At, MovesTo, InFork, Parked
  <2> QED BY <2>2, Zenon DEF Moves
<1>14. InitExit(c) => InterruptsTo(c, "halted")
  BY <1>c, Zenon DEF InitExit, At, InterruptsTo, OnProcess, CurrentOK
<1>15. UserFaultFreezes(c) => InterruptsTo(c, "halted")
  BY <1>c, Zenon DEF UserFaultFreezes, At, InterruptsTo, OnProcess, CurrentOK
<1>16. Timer(c) => InterruptsTo(c, IF c = 0 THEN "tick" ELSE "tail")
  BY <1>c, Zenon DEF Timer, At, TickOK, InterruptsTo, OnProcess, PositionOK
<1>17. TimerAccount(c) => InterruptsTo(c, "tail")
  BY <1>c, Zenon DEF TimerAccount, InterruptsTo, OnProcess, PositionOK
<1>18. ASSUME TimerTail(c) PROVE Interrupts(c)
  <2>1. CASE cproc[c] = NULL
    <3>1. InterruptsTo(c, "idle")
      BY <1>18, <2>1, Zenon DEF TimerTail, InterruptsTo, OnProcess
    <3> QED BY <3>1, Zenon DEF Interrupts
  <2>2. CASE cproc[c] # NULL /\ DiesInUser(cproc[c])
    <3>1. InterruptsTo(c, "run")
      BY <1>18, <2>2, Zenon DEF TimerTail, InterruptsTo, DiesInUser
    <3> QED BY <3>1, Zenon DEF Interrupts
  <2>3. CASE cproc[c] # NULL /\ ~DiesInUser(cproc[c])
    <3>1. InterruptsTo(c, IF Preempts(cproc[c]) THEN "preempt" ELSE "run")
      BY <1>c, <1>18, <2>3, Zenon DEF TimerTail, InterruptsTo, PositionOK
    <3> QED BY <3>1, Zenon DEF Interrupts
  <2> QED BY <2>1, <2>2, <2>3, Zenon
<1>19. Nap(c) => NapTests(c) \/ Moves(c)
  <2>1. ticks \in 0 .. TickMod - 1 /\ SleepArgs \subseteq Int
    BY ArgsAssumption, Zenon DEF IInv, TypeOK, GlobalTypes
  <2>2. ASSUME Nap(c), NEW n \in SleepArgs, n < 0, Goto(c, "sysret"),
               UNCHANGED <<ticks0, nap, tickslock>>
        PROVE  Moves(c)
    <3>1. MovesTo(c, "sysret", chan[cproc[c]])
      BY <1>t, <2>2, Zenon DEF Nap, At, MovesTo, InFork, Parked
    <3> QED BY <3>1, Zenon DEF Moves
  <2>3. ASSUME Nap(c), NEW n \in SleepArgs, ~(n < 0), tickslock = NULL, NapTest(c, ticks, n)
        PROVE  NapTests(c)
    <3>1. n \in Nat
      BY <2>1, <2>3
    <3> QED BY <2>1, <2>3, <3>1, Zenon DEF Nap, NapTests
  <2>4. ASSUME Nap(c) PROVE NapTests(c) \/ Moves(c)
    <3>1. PICK n \in SleepArgs :
            IF n < 0 THEN Goto(c, "sysret") /\ UNCHANGED <<ticks0, nap, tickslock>>
            ELSE tickslock = NULL /\ NapTest(c, ticks, n)
      BY <2>4, Zenon DEF Nap
    <3>2. CASE n < 0
      BY <2>2, <2>4, <3>1, <3>2, Zenon
    <3>3. CASE ~(n < 0)
      BY <2>3, <2>4, <3>1, <3>3, Zenon
    <3> QED BY <3>2, <3>3, Zenon
  <2> QED BY <2>4, Zenon
<1>20. NapAgain(c) => NapTests(c)
  <2>1. ticks0 \in [Slots -> 0 .. TickMod - 1] /\ nap \in [Slots -> Nat]
    BY Zenon DEF IInv, TypeOK, ThreadTypes
  <2> QED BY <1>c, <2>1, Zenon DEF NapAgain, NapTests, At, OnProcess
<1>21. SchedNone(c) \/ Halted(c) => UNCHANGED vars
  BY Zenon DEF SchedNone, Halted
<1> QED
  BY <1>1, <1>2, <1>3, <1>4, <1>5, <1>6, <1>7, <1>8, <1>9, <1>10, <1>11, <1>12, <1>13,
    <1>14, <1>15, <1>16, <1>17, <1>18, <1>19, <1>20, <1>21, Zenon
  DEF Step, Kernel, Effect, Moves, Interrupts
=============================================================================
