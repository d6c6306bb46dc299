---------------------------- MODULE ProcTheorems ----------------------------
(*****************************************************************************)
(* The theorems: IInv is an invariant of Proc for any number of processors   *)
(* and slots, any workload and any argument, and the properties of           *)
(* ProcProps that follow from it.  First the parts of IInv on sleepers.      *)
(*****************************************************************************)
EXTENDS ProcSlotProofs

USE DEF slotvars, timevars, tixvars, lockvars, cpuvars, locals, globals, vars

\* A step keeps TickInv: tickslock is passed only between the timer interrupt of
\* processor 0 and sys_sleep().
LEMMA TickStep ==
  ASSUME IInv, NEW c \in CPUs, Effect(c)
  PROVE  TickInv'
<1> SUFFICES ASSUME NEW d \in CPUs PROVE TickOK(d)'
  BY Zenon DEF TickInv
<1>t. /\ cpc \in [CPUs -> Stages] /\ cproc \in [CPUs -> Slots \union {NULL}]
      /\ state \in [Slots -> ProcState] /\ pc \in [Slots -> Threads]
  BY Types, Zenon
<1>c. TickOK(c) /\ CurrentOK(c) /\ RunningOK(c) /\ PositionOK(c) /\ LockOK(c)
  BY Here, Zenon DEF IInv, TickInv
<1>d. TickOK(d) /\ CurrentOK(d) /\ RunningOK(d) /\ LockOK(d)
  BY Here, Zenon DEF IInv, TickInv
<1>a. d # c => cproc[d] # cproc[c] \/ cproc[d] = NULL
  BY Zenon DEF IInv, CpuInv, AloneInv, AloneOK
<1>n. cproc[c] # NULL => EmbryoOK(cproc[c]) /\ ForkingOK(cproc[c])
  BY <1>t, Zenon DEF IInv, ForkInv, EmbryoInv, ForkingInv
<1>1. CASE Dispatches(c)
  BY <1>d, <1>1 DEF TickOK, At, Dispatches, Dispatch
<1>2. CASE SchedRelease(c)
  BY <1>d, <1>2, <1>t, Zenon DEF TickOK, At, SchedRelease
<1>3. CASE Moves(c)
  BY <1>d, <1>3 DEF TickOK, At, Moves, MovesTo, Goto
<1>4. CASE Interrupts(c)
  BY <1>t, <1>d, <1>4 DEF TickOK, At, CurrentOK, OnProcess, Interrupts, InterruptsTo, Goto
<1>5. CASE NapTests(c)
  BY <1>t, <1>d, <1>a, Basics, <1>5, Zenon
  DEF TickOK, At, CurrentOK, OnProcess, NapTests, Goto, NapTest
<1>6. CASE AllocSlot(c)
  BY <1>d, <1>6, <1>t, Zenon DEF TickOK, At, AllocSlot, Goto, CurrentOK, OnProcess
<1>7. CASE ForkNoMemory(c)
  BY <1>d, <1>7, <1>t, Zenon DEF TickOK, At, ForkNoMemory, Goto, CurrentOK, OnProcess
<1>8. CASE AllocInit(c)
  BY <1>t, <1>c, <1>d, <1>n, <1>8, Zenon
  DEF TickOK, At, CurrentOK, OnProcess, AllocInit, EmbryoOK, RunningOK
<1>9. CASE ForkCopy(c)
  BY <1>d, <1>9, <1>t, Zenon DEF TickOK, At, ForkCopy, Goto, CurrentOK, OnProcess
<1>10. CASE ForkReady(c)
  BY <1>d, <1>10, <1>t, Zenon DEF TickOK, At, ForkReady, Goto, CurrentOK, OnProcess
<1>11. CASE Exit(c)
  BY <1>d, <1>11, <1>t, Zenon DEF TickOK, At, Exit, Goto, Sched, CurrentOK, OnProcess
<1>12. CASE WaitReap(c)
  BY <1>t, <1>d, <1>12, Zenon
  DEF TickOK, At, CurrentOK, OnProcess, WaitReap, InWait, IsFirst, ZombieChildren, RunningOK
<1>13. CASE WaitSleep(c)
  BY <1>d, <1>13, <1>t, Zenon
  DEF TickOK, At, WaitSleep, InWait, Goto, Sched, CurrentOK, OnProcess
<1>14. CASE NapSleep(c)
  BY <1>c, <1>d, Basics, <1>14, Types, Zenon
  DEF TickOK, At, NapSleep, Goto, Sched, CurrentOK, OnProcess
<1>15. CASE Kill(c)
  BY <1>d, <1>15, <1>t, Zenon DEF TickOK, At, Kill, Goto, CurrentOK, OnProcess
<1>16. CASE Yield(c)
  BY <1>t, <1>d, <1>16, Zenon DEF TickOK, At, CurrentOK, OnProcess, Yield, Goto, Sched
<1>17. CASE TimerTick(c)
  BY <1>t, <1>d, Basics, <1>17, Zenon DEF TickOK, At, TimerTick
<1>18. CASE TimerWake(c)
  BY <1>t, <1>c, <1>d, Basics, <1>18, Zenon DEF TickOK, At, TimerWake
<1> QED
  BY <1>1, <1>2, <1>3, <1>4, <1>5, <1>6, <1>7, <1>8, <1>9, <1>10, <1>11, <1>12, <1>13,
    <1>14, <1>15, <1>16, <1>17, <1>18, Zenon
  DEF Effect

\* A step keeps DueInv: ticks cannot change between sys_sleep()'s test and its sleep,
\* and every sleeper that a tick makes due is woken before tickslock is released.
LEMMA DueStep ==
  ASSUME IInv, NEW c \in CPUs, Effect(c)
  PROVE  DueInv'
<1> SUFFICES ASSUME NEW p \in Slots PROVE DueOK(p)'
  BY Zenon DEF DueInv
<1>t. /\ cpc \in [CPUs -> Stages] /\ cproc \in [CPUs -> Slots \union {NULL}]
      /\ state \in [Slots -> ProcState] /\ pc \in [Slots -> Threads]
      /\ chan \in [Slots -> Slots \union {NULL, TICKS}] /\ 0 \in CPUs
  BY Types, CPUAssumption DEF CPUs
<1>u. ticks0 \in [Slots -> 0 .. TickMod - 1] /\ nap \in [Slots -> Nat]
  BY Zenon DEF IInv, TypeOK, ThreadTypes
<1>c. /\ CurrentOK(c) /\ RunningOK(c) /\ PositionOK(c)
      /\ cpc[c] \in OnProcess => cproc[c] \in Slots
      /\ cproc[c] # NULL => cproc[c] \in Slots
  BY Here, Zenon
<1>d. DueOK(p) /\ SlotOK(p)
  BY Zenon DEF IInv, DueInv, SlotInv
<1>k. TickOK(c)
  BY Zenon DEF IInv, TickInv
<1>m. /\ ticks \in 0 .. TickMod - 1
      /\ \A t \in 0 .. TickMod - 1 : (ticks - t) % TickMod \in Nat
  BY BoundAssumption DEF IInv, TypeOK, GlobalTypes
<1>w. pc[p] = "doze" => tickslock # NULL
  <2> SUFFICES ASSUME pc[p] = "doze" PROVE tickslock # NULL
    OBVIOUS
  <2>1. state[p] = "RUNNING"
    BY <1>d, <1>t, Zenon DEF SlotOK, ProcState
  <2>2. PICK d \in CPUs : cproc[d] = p
    BY <2>1, Zenon DEF IInv, CpuInv, OwnedInv, OwnedOK
  <2>3. PositionOK(d) /\ TickOK(d)
    BY Here, Zenon DEF IInv, TickInv
  <2> QED BY <2>2, <2>3, Basics, Zenon DEF PositionOK, TickOK, At
<1>1. CASE Dispatches(c)
  BY <1>d, <1>1 DEF DueOK, NotDue, Dispatches, Dispatch
<1>2. CASE SchedRelease(c)
  BY <1>d, <1>2, <1>t, Zenon DEF DueOK, NotDue, SchedRelease
<1>3. CASE Moves(c)
  BY <1>c, <1>d, Basics, <1>3 DEF DueOK, NotDue, RunningOK, Moves, MovesTo, Goto
<1>4. CASE Interrupts(c)
  BY <1>t, <1>d, <1>4, Zenon DEF DueOK, NotDue, Interrupts, InterruptsTo, Goto
<1>5. CASE NapTests(c)
  BY <1>t, <1>u, <1>c, <1>d, Basics, <1>m, <1>5
  DEF DueOK, NotDue, RunningOK, NapTests, At, Goto, NapTest
<1>6. CASE AllocSlot(c)
  BY <1>d, <1>6, <1>t, Zenon DEF DueOK, NotDue, AllocSlot, Goto
<1>7. CASE ForkNoMemory(c)
  BY <1>d, <1>7, <1>t, Zenon DEF DueOK, NotDue, ForkNoMemory, Goto
<1>8. CASE AllocInit(c)
  BY <1>t, <1>d, <1>8, Zenon DEF DueOK, NotDue, AllocInit
<1>9. CASE ForkCopy(c)
  BY <1>d, <1>9, <1>t, Zenon DEF DueOK, NotDue, ForkCopy, Goto
<1>10. CASE ForkReady(c)
  BY <1>d, <1>10, <1>t, Zenon DEF DueOK, NotDue, ForkReady, Goto
<1>11. CASE Exit(c)
  BY <1>d, <1>11, <1>t, Zenon DEF DueOK, NotDue, Exit, At, Goto, Sched, ExitWakeups, Wakeup1
<1>12. CASE WaitReap(c)
  BY <1>t, <1>d, Basics, <1>12, Zenon DEF DueOK, NotDue, WaitReap, InWait, At
<1>13. CASE WaitSleep(c)
  BY <1>t, <1>d, Basics, <1>13, Zenon DEF DueOK, NotDue, WaitSleep, InWait, At, Goto, Sched
<1>14. CASE NapSleep(c)
  BY <1>d, <1>14, <1>t, Zenon DEF DueOK, NotDue, NapSleep, At, Goto, Sched
<1>15. CASE Kill(c)
  BY <1>t, <1>d, <1>15, Zenon DEF DueOK, NotDue, Kill, Goto, KillWakes
<1>16. CASE Yield(c)
  BY <1>t, <1>d, <1>16, Zenon DEF DueOK, NotDue, Yield, At, Goto, Sched
<1>17. CASE TimerTick(c)
  BY <1>t, <1>k, <1>w, <1>17, Zenon DEF DueOK, TimerTick, TickOK
<1>18. CASE TimerWake(c)
  BY <1>d, <1>18, Zenon DEF DueOK, NotDue, TimerWake, Wakeup1
<1> QED
  BY <1>1, <1>2, <1>3, <1>4, <1>5, <1>6, <1>7, <1>8, <1>9, <1>10, <1>11, <1>12, <1>13,
    <1>14, <1>15, <1>16, <1>17, <1>18, Zenon
  DEF Effect

\* A step keeps WaiterNotForgotten: exit() wakes the parent it leaves a ZOMBIE to, and
\* init when it leaves ZOMBIE children, under the lock wait() sleeps with.
LEMMA WaiterStep ==
  ASSUME IInv, NEW c \in CPUs, Effect(c)
  PROVE  WaiterNotForgotten'
<1> SUFFICES ASSUME NEW p \in Slots, state'[p] = "SLEEPING", chan'[p] = p
             PROVE  /\ \E q \in Slots : parent'[q] = p
                    /\ \A q \in Slots : parent'[q] = p => state'[q] # "ZOMBIE"
                    /\ ~killed'[p]
  BY Zenon DEF WaiterNotForgotten, Children, ZombieChildren
<1>t. /\ cproc \in [CPUs -> Slots \union {NULL}] /\ cpc \in [CPUs -> Stages]
      /\ state \in [Slots -> ProcState] /\ np \in [Slots -> Slots \union {NULL}]
      /\ parent \in [Slots -> Slots \union {NULL}] /\ killed \in [Slots -> BOOLEAN]
      /\ chan \in [Slots -> Slots \union {NULL, TICKS}]
  BY Types, Zenon
<1>c. /\ CurrentOK(c) /\ RunningOK(c) /\ PositionOK(c)
      /\ cpc[c] \in OnProcess => cproc[c] \in Slots
      /\ cproc[c] # NULL => cproc[c] \in Slots
  BY Here, Zenon
<1>d. state[p] = "SLEEPING" /\ chan[p] = p =>
        /\ \E q \in Slots : parent[q] = p
        /\ \A q \in Slots : parent[q] = p => state[q] # "ZOMBIE"
        /\ ~killed[p]
  BY Zenon DEF IInv, WaiterNotForgotten, Children, ZombieChildren
<1>f. InitInv /\ \A q \in Slots : FamilyOK(q)
  BY Zenon DEF IInv, FamilyInv
<1>n. cproc[c] # NULL => EmbryoOK(cproc[c]) /\ ForkingOK(cproc[c])
  BY <1>t, Zenon DEF IInv, ForkInv, EmbryoInv, ForkingInv
<1>1. CASE Dispatches(c)
  BY <1>d, <1>1 DEF Dispatches, Dispatch
<1>2. CASE Moves(c)
  BY <1>c, <1>d, Basics, <1>2, Types, <1>f, <1>n, Zenon DEF RunningOK, Moves, MovesTo
<1>3. CASE AllocSlot(c)
  BY <1>t, <1>c, <1>d, Basics, <1>3, Zenon
  DEF CurrentOK, OnProcess, AllocSlot, At, IsFirst, Unused
<1>4. CASE ForkNoMemory(c)
  BY <1>t, <1>d, <1>4, Zenon DEF ForkNoMemory
<1>5. CASE ForkCopy(c)
  BY <1>c, <1>d, Basics, <1>n, <1>5, Types, <1>t, <1>f, Zenon
  DEF OnProcess, ForkCopy, At, EmbryoOK
<1>6. CASE ForkReady(c)
  BY <1>t, <1>d, <1>6, Zenon DEF ForkReady
<1>7. CASE Exit(c)
  BY <1>d, <1>f, <1>7, Zenon
  DEF Exit, Adopt, ExitWakeups, Wakeup1, Children, ZombieChildren, FamilyOK
<1>8. CASE WaitReap(c)
  BY <1>d, Basics, <1>8 DEF WaitReap, IsFirst, ZombieChildren
<1>9. CASE WaitSleep(c)
  BY <1>d, <1>9, <1>t, Zenon DEF WaitSleep, ZombieChildren, Children
<1>10. CASE NapSleep(c)
  BY <1>t, <1>d, Basics, <1>10, Zenon DEF NapSleep
<1>11. CASE Kill(c)
  BY <1>t, <1>d, <1>11 DEF Kill, KillWakes, IsFirst
<1>12. CASE Yield(c)
  BY <1>t, <1>d, <1>12, Zenon DEF Yield
<1>13. CASE TimerWake(c)
  BY <1>d, <1>13, Zenon DEF TimerWake, Wakeup1
<1>14. CASE SchedRelease(c) \/ Interrupts(c) \/ NapTests(c) \/ AllocInit(c) \/ TimerTick(c)
  <2>1. UNCHANGED <<state, chan, parent, killed>>
    BY <1>14, Zenon
    DEF SchedRelease, Interrupts, NapTests, AllocInit, TimerTick, InterruptsTo
  <2> QED BY <1>d, <2>1, Zenon
<1> QED
  BY <1>1, <1>2, <1>3, <1>4, <1>5, <1>6, <1>7, <1>8, <1>9, <1>10, <1>11, <1>12, <1>13,
    <1>14, Zenon
  DEF Effect

\* The state main() leaves behind satisfies IInv.
LEMMA InitIInv ==
  ASSUME Init
  PROVE  IInv
<1>b. initproc \in Slots /\ 0 \in CPUs /\ 0 \in 0 .. TickMod - 1 /\ 0 \in 0 .. AcctMod - 1
      /\ NPROC \in 0 .. NPROC /\ BootPolicies \subseteq Policies
  BY NPROCAssumption, CPUAssumption, ArgsAssumption, BoundAssumption
  DEF initproc, Slots, CPUs, Policies
<1>1. TypeOK
  <2>1. SlotTypes
    BY Zenon DEF Init, SlotTypes, ProcState
  <2>2. TimeTypes /\ TicketTypes
    BY <1>b, Zenon DEF Init, TimeTypes, TicketTypes, DefaultTickets
  <2>3. CpuTypes
    BY <1>b, Zenon DEF Init, CpuTypes, Stages
  <2>4. ThreadTypes /\ GlobalTypes
    BY <1>b DEF Init, ThreadTypes, GlobalTypes, Threads
  <2> QED BY <2>1, <2>2, <2>3, <2>4, Zenon DEF TypeOK
<1>2. CpuInv
  BY Basics, Zenon
  DEF Init, CpuInv, LockInv, LockOK, CurrentInv, CurrentOK, OnProcess, RunningInv,
    RunningOK, AloneInv, AloneOK, OwnedInv, OwnedOK, PositionInv, PositionOK
<1>3. SlotInv
  BY Zenon DEF Init, SlotInv, SlotOK
<1>4. ForkInv
  BY Zenon
  DEF Init, ForkInv, ForkingInv, ForkingOK, InFork, EmbryoInv, EmbryoOK, OriginInv,
    OriginOK, OneForkInv, OneForkOK
<1>5. InitInv /\ FamilyInv
  BY Basics, Zenon DEF Init, InitInv, FamilyInv, FamilyOK, Live
<1>6. PidInv
  BY DEF Init, PidInv, PidOK, OnePidOK
<1>7. WaiterNotForgotten
  BY Zenon DEF Init, WaiterNotForgotten
<1>8. TickInv /\ DueInv
  BY Basics, Zenon DEF Init, TickInv, TickOK, At, DueInv, DueOK
<1> QED BY <1>1, <1>2, <1>3, <1>4, <1>5, <1>6, <1>7, <1>8, Zenon DEF IInv

\* Every step of every processor keeps IInv.
LEMMA StepIInv ==
  ASSUME IInv, [Next]_vars
  PROVE  IInv'
<1>1. ASSUME NEW c \in CPUs, Step(c), Effect(c) PROVE IInv'
  <2>1. TypeOK'
    BY <1>1, TypeStep, Zenon DEF IInv
  <2>2. CpuInv'
    BY <1>1, LockStep, CurrentStep, RunningStep, AloneStep, OwnedStep, PositionStep, Zenon
    DEF CpuInv
  <2>3. ForkInv'
    BY <1>1, ForkingStep, EmbryoStep, OriginStep, OneForkStep, Zenon DEF ForkInv
  <2> QED
    BY <1>1, <2>1, <2>2, <2>3, SlotStep, InitStep, FamilyStep, PidStep, WaiterStep,
      TickStep, DueStep, Zenon
    DEF IInv
<1>2. ASSUME UNCHANGED vars PROVE IInv'
  <2>1. TypeOK'
    BY <1>2, Zenon
    DEF IInv, TypeOK, SlotTypes, TimeTypes, TicketTypes, CpuTypes, ThreadTypes, GlobalTypes
  <2>2. CpuInv'
    BY <1>2
    DEF IInv, CpuInv, LockInv, LockOK, CurrentInv, CurrentOK, RunningInv, RunningOK,
      AloneInv, AloneOK, OwnedInv, OwnedOK, PositionInv, PositionOK
  <2>3. SlotInv' /\ ForkInv'
    BY <1>2, Zenon
    DEF IInv, SlotInv, SlotOK, ForkInv, ForkingInv, ForkingOK, EmbryoInv, EmbryoOK,
      OriginInv, OriginOK, OneForkInv, OneForkOK
  <2>4. InitInv' /\ FamilyInv' /\ PidInv'
    BY <1>2, Zenon DEF IInv, InitInv, FamilyInv, FamilyOK, Live, PidInv, PidOK, OnePidOK
  <2>5. WaiterNotForgotten'
    BY <1>2, Zenon DEF IInv, WaiterNotForgotten, Children, ZombieChildren
  <2>6. TickInv' /\ DueInv'
    BY <1>2, Zenon DEF IInv, TickInv, TickOK, At, DueInv, DueOK, NotDue
  <2> QED BY <2>1, <2>2, <2>3, <2>4, <2>5, <2>6, Zenon DEF IInv
<1> QED BY <1>1, <1>2, EffectStep, Zenon DEF Next

\* IInv is an invariant of Proc.
THEOREM Invariance == Spec => []IInv
<1>1. Init => IInv
  BY InitIInv, Zenon
<1>2. IInv /\ [Next]_vars => IInv'
  BY StepIInv, Zenon
<1> QED BY <1>1, <1>2, PTL DEF Spec

\* The process table, the clock and the accounting fields keep their types.
THEOREM TypeCorrect == Spec => []TypeOK
<1>1. IInv => TypeOK
  BY Zenon DEF IInv
<1> QED BY <1>1, Invariance, PTL

\* The lock handed over by swtch() keeps every process on at most one processor, and
\* every processor off freed slots.
THEOREM RunsOnOneProcessor == Spec => []OnOneProcessor
<1>1. ASSUME IInv PROVE OnOneProcessor
  <2>1. \A c, d \in CPUs : cproc[c] # NULL /\ cproc[c] = cproc[d] => c = d
    BY <1>1, Zenon DEF IInv, CpuInv, AloneInv, AloneOK
  <2>2. \A p \in Slots :
          state[p] = "RUNNING" <=> \E c \in CPUs : cproc[c] = p /\ cpc[c] # "resumed"
    BY <1>1, Basics, Zenon DEF IInv, CpuInv, OwnedInv, OwnedOK, RunningInv, RunningOK
  <2>3. \A c \in CPUs : cproc[c] # NULL => Live(cproc[c])
    BY <1>1, Zenon DEF IInv, CpuInv, RunningInv, RunningOK, Live
  <2> QED BY <2>1, <2>2, <2>3, Zenon DEF OnOneProcessor
<1> QED BY <1>1, Invariance, PTL

\* exit() never leaves a process whose parent is gone.
THEOREM ParentsLive == Spec => []ParentAlive
<1>1. ASSUME IInv PROVE ParentAlive
  BY <1>1, Zenon DEF IInv, FamilyInv, FamilyOK, ParentAlive, Live
<1> QED BY <1>1, Invariance, PTL

\* No exit() and no kill() slips past a process going to sleep in wait().
THEOREM WaitersWoken == Spec => []WaiterNotForgotten
<1>1. IInv => WaiterNotForgotten
  BY Zenon DEF IInv
<1> QED BY <1>1, Invariance, PTL

\* No tick slips past a process going to sleep in sys_sleep().
THEOREM SleepersWoken == Spec => []SleeperNotForgotten
<1>1. ASSUME IInv PROVE SleeperNotForgotten
  BY <1>1, Zenon DEF IInv, DueInv, DueOK, NotDue, SleeperNotForgotten
<1> QED BY <1>1, Invariance, PTL

\* allocproc() gives no two processes in the table the same pid.
THEOREM PidsUnique == Spec => []PidsDistinct
<1>1. ASSUME IInv PROVE PidsDistinct
  <2>1. pid \in [Slots -> Nat] /\ nextpid \in Nat
    BY <1>1, Zenon DEF IInv, TypeOK, SlotTypes, GlobalTypes
  <2>2. \A p \in Slots : PidOK(p) /\ \A q \in Slots : OnePidOK(p, q)
    BY <1>1, Zenon DEF IInv, PidInv
  <2> QED BY <2>1, <2>2 DEF PidsDistinct, PidOK, OnePidOK
<1> QED BY <1>1, Invariance, PTL

\* Every EMBRYO belongs to exactly one fork() in progress.
THEOREM EmbryosOwned == Spec => []EmbryoOwned
<1>1. ASSUME IInv PROVE EmbryoOwned
  <2>1. \A p, q \in Slots : np[p] # NULL /\ np[p] = np[q] => p = q
    BY <1>1, Zenon DEF IInv, ForkInv, OneForkInv, OneForkOK
  <2>2. \A q \in Slots : state[q] = "EMBRYO" <=> \E p \in Slots : np[p] = q
    BY <1>1, Basics DEF IInv, ForkInv, OriginInv, OriginOK, EmbryoInv, EmbryoOK
  <2> QED BY <2>1, <2>2, Zenon DEF EmbryoOwned
<1> QED BY <1>1, Invariance, PTL

\* panic("zombie exit") at the end of exit() is unreachable.
THEOREM ZombieExitUnreachable == Spec => []NoZombieExit
<1>1. ASSUME IInv PROVE NoZombieExit
  <2> SUFFICES ASSUME NEW c \in CPUs, cpc[c] = "switched" PROVE pc[cproc[c]] # "zombie"
    BY Zenon DEF NoZombieExit
  <2>1. cproc[c] \in Slots /\ cproc[c] # NULL /\ state[cproc[c]] = "RUNNING"
    BY <1>1, Here, Basics, Zenon DEF RunningOK, OnProcess
  <2> QED BY <1>1, <2>1, Zenon DEF IInv, SlotInv, SlotOK
<1> QED BY <1>1, Invariance, PTL

\* What IInv allows a step to do to a slot: of all the code that writes state, only
\* wait() frees a ZOMBIE, and only fork() makes a free slot RUNNABLE.
LEMMA LifeCycle ==
  ASSUME IInv, NEW c \in CPUs, Effect(c)
  PROVE  \A p \in Slots : LifeCycleStep(p)
<1> SUFFICES ASSUME NEW p \in Slots PROVE LifeCycleStep(p)
  OBVIOUS
<1>t. /\ cpc \in [CPUs -> Stages] /\ cproc \in [CPUs -> Slots \union {NULL}]
      /\ state \in [Slots -> ProcState] /\ pc \in [Slots -> Threads]
      /\ np \in [Slots -> Slots \union {NULL}] /\ parent \in [Slots -> Slots \union {NULL}]
  BY Types, Zenon
<1>c. /\ CurrentOK(c) /\ RunningOK(c)
      /\ cpc[c] \in OnProcess => cproc[c] \in Slots
      /\ cproc[c] # NULL => cproc[c] \in Slots
  BY Here, Zenon
<1>n. cproc[c] # NULL => EmbryoOK(cproc[c]) /\ ForkingOK(cproc[c])
  BY <1>t, Zenon DEF IInv, ForkInv, EmbryoInv, ForkingInv
<1>1. CASE Dispatches(c)
  BY <1>1 DEF LifeCycleStep, Dispatches, Dispatch
<1>2. CASE AllocSlot(c)
  BY <1>t, <1>c, <1>2, Zenon DEF LifeCycleStep, OnProcess, AllocSlot, IsFirst, Unused
<1>3. CASE ForkNoMemory(c)
  BY <1>t, <1>c, Basics, <1>n, <1>3, Zenon
  DEF LifeCycleStep, OnProcess, ForkNoMemory, At, EmbryoOK, ForkingOK
<1>4. CASE ForkReady(c)
  BY <1>t, <1>c, Basics, <1>n, <1>4, Zenon
  DEF LifeCycleStep, RunningOK, OnProcess, ForkReady, At, EmbryoOK
<1>5. CASE Exit(c)
  BY <1>c, Basics, <1>5, Zenon DEF LifeCycleStep, RunningOK, Exit, ExitWakeups, Wakeup1
<1>6. CASE WaitReap(c)
  BY <1>t, <1>c, <1>6
  DEF LifeCycleStep, OnProcess, WaitReap, InWait, At, IsFirst, ZombieChildren, Children
<1>7. CASE WaitSleep(c)
  BY <1>t, <1>c, Basics, <1>7, Zenon DEF LifeCycleStep, RunningOK, WaitSleep, InWait, At
<1>8. CASE NapSleep(c)
  BY <1>t, <1>c, Basics, <1>8, Zenon DEF LifeCycleStep, RunningOK, OnProcess, NapSleep, At
<1>9. CASE Kill(c)
  BY <1>t, Basics, <1>9, Zenon
  DEF LifeCycleStep, CurrentOK, RunningOK, OnProcess, Kill, KillWakes
<1>10. CASE Yield(c)
  BY <1>t, <1>c, Basics, <1>10, Zenon DEF LifeCycleStep, RunningOK, Yield, At
<1>11. CASE TimerWake(c)
  BY <1>11, Zenon DEF LifeCycleStep, TimerWake, Wakeup1
<1>12. CASE \/ SchedRelease(c) \/ Moves(c) \/ Interrupts(c) \/ NapTests(c) \/ AllocInit(c)
            \/ ForkCopy(c) \/ TimerTick(c)
  <2>1. UNCHANGED <<state>>
    BY <1>12, Zenon
    DEF SchedRelease, Moves, Interrupts, NapTests, AllocInit, ForkCopy, TimerTick, MovesTo,
      InterruptsTo
  <2> QED BY <2>1, Zenon DEF LifeCycleStep
<1> QED
  BY <1>1, <1>2, <1>3, <1>4, <1>5, <1>6, <1>7, <1>8, <1>9, <1>10, <1>11, <1>12, Zenon
  DEF Effect

\* Nothing but wait() frees a ZOMBIE and nothing but fork() makes a free slot used.
THEOREM LifeCycles == Spec => SlotLifeCycle
<1>1. IInv /\ [Next]_vars => [\A p \in Slots : LifeCycleStep(p)]_vars
  BY LifeCycle, EffectStep, Zenon DEF Next
<1> QED BY <1>1, Invariance, PTL DEF Spec, SlotLifeCycle
=============================================================================
