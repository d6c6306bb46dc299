--------------------------- MODULE ProcCpuProofs ----------------------------
(*****************************************************************************)
(* Proofs about the processors: every step of Proc keeps the parts of IInv   *)
(* on ptable.lock and on cpus[c].proc.                                       *)
(*****************************************************************************)
EXTENDS ProcTypeProofs

USE DEF slotvars, timevars, tixvars, lockvars, cpuvars, locals, globals, vars

\* A step keeps LockInv: every acquire(&ptable.lock) that is followed by a swtch()
\* is matched by one release on the other side, in the scheduler or in the thread.
LEMMA LockStep ==
  ASSUME IInv, NEW c \in CPUs, Effect(c)
  PROVE  LockInv'
<1> SUFFICES ASSUME NEW d \in CPUs PROVE LockOK(d)'
  BY Zenon DEF LockInv
<1>t. cpc \in [CPUs -> Stages]
  BY Types, Zenon
<1>d. LockOK(d)
  BY Here, Zenon
<1>c. LockOK(c)
  BY Here, Zenon
<1>1. CASE Dispatches(c)
  BY <1>t, <1>c, <1>d, Basics, <1>1, Zenon DEF LockOK, Dispatches, Dispatch
<1>2. CASE SchedRelease(c)
  BY <1>t, <1>c, <1>d, Basics, <1>2, Zenon DEF LockOK, SchedRelease
<1>3. CASE Moves(c)
  BY <1>t, <1>c, <1>d, Basics, <1>3, Zenon DEF LockOK, Moves, MovesTo
<1>4. CASE Interrupts(c)
  BY <1>d, <1>4, <1>t, Zenon DEF LockOK, Interrupts, InterruptsTo
<1>5. CASE Exit(c)
  BY <1>t, <1>d, Basics, <1>5, Zenon DEF LockOK, Exit, Sched
<1>6. CASE WaitReap(c)
  BY <1>t, <1>c, <1>d, Basics, <1>6, Zenon DEF LockOK, WaitReap, InWait
<1>7. CASE WaitSleep(c)
  BY <1>t, <1>c, <1>d, Basics, <1>7, Zenon DEF LockOK, WaitSleep, InWait, Sched
<1>8. CASE NapSleep(c)
  BY <1>t, <1>d, Basics, <1>8, Zenon DEF LockOK, NapSleep, Sched
<1>9. CASE Yield(c)
  BY <1>t, <1>d, Basics, <1>9, Zenon DEF LockOK, Yield, Sched
<1>10. CASE TimerTick(c)
  BY <1>d, <1>10, <1>t, Zenon DEF LockOK, TimerTick
<1>11. CASE TimerWake(c)
  BY <1>d, <1>11, <1>t, Zenon DEF LockOK, TimerWake
<1>12. CASE \/ NapTests(c) \/ AllocSlot(c) \/ ForkNoMemory(c) \/ AllocInit(c) \/ ForkCopy(c)
            \/ ForkReady(c) \/ Kill(c)
  <2>1. UNCHANGED <<ptlock, cpc>>
    BY <1>12, Zenon
    DEF NapTests, AllocSlot, ForkNoMemory, AllocInit, ForkCopy, ForkReady, Kill
  <2> QED BY <1>d, <2>1, Zenon DEF LockOK
<1> QED
  BY <1>1, <1>2, <1>3, <1>4, <1>5, <1>6, <1>7, <1>8, <1>9, <1>10, <1>11, <1>12, Zenon
  DEF Effect

\* A step keeps CurrentInv: scheduler() sets cpus[c].proc before swtch() and clears
\* it only when it is back.
LEMMA CurrentStep ==
  ASSUME IInv, NEW c \in CPUs, Effect(c)
  PROVE  CurrentInv'
<1> SUFFICES ASSUME NEW d \in CPUs PROVE CurrentOK(d)'
  BY Zenon DEF CurrentInv
<1>t. cpc \in [CPUs -> Stages] /\ cproc \in [CPUs -> Slots \union {NULL}]
  BY Types, Zenon
<1>d. CurrentOK(d)
  BY Here, Zenon
<1>1. CASE Dispatches(c)
  BY <1>t, <1>d, Basics, <1>1, Zenon DEF CurrentOK, Dispatches, Dispatch
<1>2. CASE SchedRelease(c)
  BY <1>t, <1>d, <1>2, Zenon DEF CurrentOK, OnProcess, SchedRelease
<1>3. CASE Moves(c)
  BY <1>d, <1>3, <1>t, Zenon DEF CurrentOK, OnProcess, Moves, MovesTo
<1>4. CASE Interrupts(c)
  BY <1>d, <1>4, <1>t, Zenon DEF CurrentOK, Interrupts, InterruptsTo
<1>5. CASE Exit(c)
  BY <1>d, <1>5, <1>t, Zenon DEF CurrentOK, OnProcess, Exit, At, Sched
<1>6. CASE WaitReap(c)
  BY <1>d, <1>6, <1>t, Zenon DEF CurrentOK, OnProcess, WaitReap, InWait, At
<1>7. CASE WaitSleep(c)
  BY <1>d, <1>7, <1>t, Zenon DEF CurrentOK, OnProcess, WaitSleep, InWait, At, Sched
<1>8. CASE NapSleep(c)
  BY <1>d, <1>8, <1>t, Zenon DEF CurrentOK, OnProcess, NapSleep, At, Sched
<1>9. CASE Yield(c)
  BY <1>d, <1>9, <1>t, Zenon DEF CurrentOK, OnProcess, Yield, At, Sched
<1>10. CASE TimerTick(c)
  BY <1>d, <1>10, <1>t, Zenon DEF CurrentOK, OnProcess, TimerTick
<1>11. CASE TimerWake(c)
  BY <1>d, <1>11, <1>t, Zenon DEF CurrentOK, OnProcess, TimerWake
<1>12. CASE \/ NapTests(c) \/ AllocSlot(c) \/ ForkNoMemory(c) \/ AllocInit(c) \/ ForkCopy(c)
            \/ ForkReady(c) \/ Kill(c)
  <2>1. UNCHANGED <<cpc, cproc>>
    BY <1>12, Zenon
    DEF NapTests, AllocSlot, ForkNoMemory, AllocInit, ForkCopy, ForkReady, Kill
  <2> QED BY <1>d, <2>1, Zenon DEF CurrentOK
<1> QED
  BY <1>1, <1>2, <1>3, <1>4, <1>5, <1>6, <1>7, <1>8, <1>9, <1>10, <1>11, <1>12, Zenon
  DEF Effect

\* A step keeps RunningInv: nobody changes the state of a process that another
\* processor executes, because only its own sched() takes it out of RUNNING.
LEMMA RunningStep ==
  ASSUME IInv, NEW c \in CPUs, Effect(c)
  PROVE  RunningInv'
<1> SUFFICES ASSUME NEW d \in CPUs PROVE RunningOK(d)'
  BY Zenon DEF RunningInv
<1>t. /\ cpc \in [CPUs -> Stages] /\ cproc \in [CPUs -> Slots \union {NULL}]
      /\ state \in [Slots -> ProcState]
  BY Types, Zenon
<1>d. RunningOK(d) /\ LockOK(d) /\ CurrentOK(d)
  BY Here, Zenon
<1>c. RunningOK(c) /\ LockOK(c) /\ CurrentOK(c)
  BY Here, Zenon
<1>a. d # c => cproc[d] # cproc[c] \/ cproc[d] = NULL
  BY Zenon DEF IInv, CpuInv, AloneInv, AloneOK
<1>n. cproc[c] # NULL => EmbryoOK(cproc[c]) /\ ForkingOK(cproc[c])
  BY <1>t, Zenon DEF IInv, ForkInv, EmbryoInv, ForkingInv
<1>1. CASE Dispatches(c)
  BY <1>t, <1>c, <1>d, Basics, <1>1 DEF RunningOK, LockOK, Dispatches, Dispatch
<1>2. CASE SchedRelease(c)
  BY <1>t, <1>d, <1>2, Zenon DEF RunningOK, SchedRelease
<1>3. CASE Moves(c)
  BY <1>d, <1>3, <1>t, Zenon DEF RunningOK, Moves, MovesTo
<1>4. CASE Interrupts(c)
  BY <1>d, <1>4, <1>t, Zenon DEF RunningOK, Interrupts, InterruptsTo
<1>5. CASE AllocSlot(c)
  BY <1>d, <1>5, <1>t, Zenon DEF RunningOK, AllocSlot, IsFirst, Unused, At
<1>6. CASE ForkNoMemory(c)
  BY <1>c, <1>d, <1>n, <1>6, <1>t, Zenon
  DEF RunningOK, CurrentOK, OnProcess, ForkNoMemory, At, EmbryoOK
<1>7. CASE ForkReady(c)
  BY <1>c, <1>d, <1>n, <1>7, <1>t, Zenon
  DEF RunningOK, CurrentOK, OnProcess, ForkReady, At, EmbryoOK
<1>8. CASE Exit(c)
  BY <1>t, <1>d, <1>a, <1>8, Zenon DEF RunningOK, Exit, Sched, ExitWakeups, Wakeup1
<1>9. CASE WaitReap(c)
  BY <1>c, <1>d, Basics, <1>9, <1>t, Zenon
  DEF RunningOK, LockOK, WaitReap, InWait, IsFirst, ZombieChildren
<1>10. CASE WaitSleep(c)
  BY <1>t, <1>d, <1>a, <1>10, Zenon DEF RunningOK, WaitSleep, Sched
<1>11. CASE NapSleep(c)
  BY <1>t, <1>d, <1>a, <1>11, Zenon DEF RunningOK, NapSleep, Sched
<1>12. CASE Kill(c)
  BY <1>t, <1>d, <1>12, Zenon DEF RunningOK, Kill, KillWakes
<1>13. CASE Yield(c)
  BY <1>t, <1>d, <1>a, <1>13, Zenon DEF RunningOK, Yield, Sched
<1>14. CASE TimerTick(c)
  BY <1>d, <1>14, <1>t, Zenon DEF RunningOK, TimerTick
<1>15. CASE TimerWake(c)
  BY <1>t, <1>d, <1>15, Zenon DEF RunningOK, TimerWake, Wakeup1
<1>16. CASE NapTests(c) \/ AllocInit(c) \/ ForkCopy(c)
  <2>1. UNCHANGED <<cpc, cproc, state>>
    BY <1>16, Zenon DEF NapTests, AllocInit, ForkCopy
  <2> QED BY <1>d, <2>1, Zenon DEF RunningOK
<1> QED
  BY <1>1, <1>2, <1>3, <1>4, <1>5, <1>6, <1>7, <1>8, <1>9, <1>10, <1>11, <1>12, <1>13,
    <1>14, <1>15, <1>16, Zenon
  DEF Effect

\* A step keeps AloneInv: the scheduler picks a RUNNABLE process, and a process
\* that is RUNNABLE while its old processor is still in swtch() is behind the lock.
LEMMA AloneStep ==
  ASSUME IInv, NEW c \in CPUs, Effect(c)
  PROVE  AloneInv'
<1> SUFFICES ASSUME NEW d \in CPUs, NEW e \in CPUs PROVE AloneOK(d, e)'
  BY Zenon DEF AloneInv
<1>d. AloneOK(d, e) /\ RunningOK(d) /\ RunningOK(e) /\ LockOK(d) /\ LockOK(e) /\ LockOK(c)
  BY Here, Zenon DEF IInv, CpuInv, AloneInv
<1>1. CASE Dispatches(c)
  BY <1>d, Basics, <1>1 DEF AloneOK, Dispatches, Dispatch, RunningOK, LockOK
<1>2. CASE SchedRelease(c)
  BY <1>d, <1>2, Types, Zenon DEF AloneOK, SchedRelease
<1>3. CASE \/ Moves(c) \/ Interrupts(c) \/ NapTests(c) \/ AllocSlot(c) \/ ForkNoMemory(c)
           \/ AllocInit(c) \/ ForkCopy(c) \/ ForkReady(c) \/ Exit(c) \/ WaitReap(c)
           \/ WaitSleep(c) \/ NapSleep(c) \/ Kill(c) \/ Yield(c) \/ TimerTick(c)
           \/ TimerWake(c)
  <2>1. UNCHANGED <<cproc>>
    BY <1>3, Zenon
    DEF Moves, Interrupts, NapTests, AllocSlot, ForkNoMemory, AllocInit, ForkCopy,
      ForkReady, Exit, WaitReap, WaitSleep, NapSleep, Kill, Yield, TimerTick, TimerWake,
      MovesTo, InterruptsTo
  <2> QED BY <1>d, <2>1, Zenon DEF AloneOK
<1> QED BY <1>1, <1>2, <1>3, Zenon DEF Effect

\* A step keeps OwnedInv: state becomes RUNNING only together with cpus[c].proc, and
\* the processor leaves the process only after sched() has changed the state.
LEMMA OwnedStep ==
  ASSUME IInv, NEW c \in CPUs, Effect(c)
  PROVE  OwnedInv'
<1> SUFFICES ASSUME NEW p \in Slots, state'[p] = "RUNNING"
             PROVE  \E d \in CPUs : cproc'[d] = p /\ cpc'[d] # "resumed"
  BY Zenon DEF OwnedInv, OwnedOK
<1>t. /\ cpc \in [CPUs -> Stages] /\ cproc \in [CPUs -> Slots \union {NULL}]
      /\ state \in [Slots -> ProcState]
  BY Types, Zenon
<1>c. CurrentOK(c) /\ RunningOK(c) /\ (cproc[c] # NULL => cproc[c] \in Slots)
  BY Here, Zenon
<1>d. OwnedOK(p)
  BY Zenon DEF IInv, CpuInv, OwnedInv
<1>1. CASE Dispatches(c)
  BY <1>t, <1>c, <1>d, Basics, <1>1 DEF OwnedOK, CurrentOK, Dispatches, Dispatch
<1>2. CASE SchedRelease(c)
  BY <1>d, <1>2, <1>t, Zenon DEF OwnedOK, SchedRelease
<1>3. CASE Moves(c)
  BY <1>t, <1>d, <1>3, Zenon DEF OwnedOK, Moves, MovesTo
<1>4. CASE Interrupts(c)
  BY <1>d, <1>4, <1>t, Zenon DEF OwnedOK, Interrupts, InterruptsTo
<1>5. CASE AllocSlot(c)
  BY <1>d, <1>5, <1>t, Zenon DEF OwnedOK, AllocSlot
<1>6. CASE ForkNoMemory(c)
  BY <1>d, <1>6, <1>t, Zenon DEF OwnedOK, ForkNoMemory
<1>7. CASE ForkReady(c)
  BY <1>d, <1>7, <1>t, Zenon DEF OwnedOK, ForkReady
<1>8. CASE Exit(c)
  BY <1>d, <1>8, <1>t, Zenon DEF OwnedOK, Exit, Sched, ExitWakeups, Wakeup1
<1>9. CASE WaitReap(c)
  BY <1>d, <1>9, <1>t, Zenon DEF OwnedOK, WaitReap
<1>10. CASE WaitSleep(c)
  BY <1>t, <1>d, <1>10, Zenon DEF OwnedOK, WaitSleep, Sched
<1>11. CASE NapSleep(c)
  BY <1>t, <1>d, <1>11, Zenon DEF OwnedOK, NapSleep, Sched
<1>12. CASE Kill(c)
  BY <1>t, <1>d, <1>12, Zenon DEF OwnedOK, Kill, KillWakes
<1>13. CASE Yield(c)
  BY <1>t, <1>d, <1>13, Zenon DEF OwnedOK, Yield, Sched
<1>14. CASE TimerTick(c)
  BY <1>d, <1>14, <1>t, Zenon DEF OwnedOK, TimerTick
<1>15. CASE TimerWake(c)
  BY <1>d, <1>15, <1>t, Zenon DEF OwnedOK, TimerWake, Wakeup1
<1>16. CASE NapTests(c) \/ AllocInit(c) \/ ForkCopy(c)
  <2>1. UNCHANGED <<cpc, cproc, state>>
    BY <1>16, Zenon DEF NapTests, AllocInit, ForkCopy
  <2> QED BY <1>d, <2>1, Zenon DEF OwnedOK
<1> QED
  BY <1>1, <1>2, <1>3, <1>4, <1>5, <1>6, <1>7, <1>8, <1>9, <1>10, <1>11, <1>12, <1>13,
    <1>14, <1>15, <1>16, Zenon
  DEF Effect

\* A step keeps PositionInv: a processor comes back into a thread at the place where
\* sched() left it, and no interrupt comes between sys_sleep()'s test and its sleep.
LEMMA PositionStep ==
  ASSUME IInv, NEW c \in CPUs, Effect(c)
  PROVE  PositionInv'
<1> SUFFICES ASSUME NEW d \in CPUs PROVE PositionOK(d)'
  BY Zenon DEF PositionInv
<1>t. /\ cpc \in [CPUs -> Stages] /\ cproc \in [CPUs -> Slots \union {NULL}]
      /\ state \in [Slots -> ProcState] /\ pc \in [Slots -> Threads]
  BY Types, Zenon
<1>d. PositionOK(d) /\ LockOK(d) /\ CurrentOK(d) /\ RunningOK(d)
  BY Here, Zenon
<1>c. PositionOK(c) /\ LockOK(c) /\ CurrentOK(c) /\ RunningOK(c)
  BY Here, Zenon
<1>a. d # c => cproc[d] # cproc[c] \/ cproc[d] = NULL
  BY Zenon DEF IInv, CpuInv, AloneInv, AloneOK
<1>s. \A p \in Slots : SlotOK(p)
  BY Zenon DEF IInv, SlotInv
<1>n. cproc[c] # NULL => EmbryoOK(cproc[c]) /\ ForkingOK(cproc[c])
  BY <1>t, Zenon DEF IInv, ForkInv, EmbryoInv, ForkingInv
<1>1. CASE Dispatches(c)
  BY <1>t, <1>d, <1>s, <1>1 DEF PositionOK, Dispatches, Dispatch, SlotOK
<1>2. CASE SchedRelease(c)
  BY <1>t, <1>d, <1>2, Zenon DEF PositionOK, SchedRelease
<1>3. CASE Moves(c)
  BY <1>t, <1>d, <1>3 DEF PositionOK, Moves, MovesTo, Goto
<1>4. CASE Interrupts(c)
  BY <1>t, <1>d, <1>4 DEF PositionOK, Parked, Interrupts, InterruptsTo, Goto
<1>5. CASE NapTests(c)
  BY <1>t, <1>d, <1>a, <1>5, Zenon DEF PositionOK, Parked, NapTests, At, Goto, NapTest
<1>6. CASE AllocSlot(c)
  BY <1>d, <1>6, <1>t, Zenon DEF PositionOK, Parked, AllocSlot, Goto
<1>7. CASE ForkNoMemory(c)
  BY <1>d, <1>7, <1>t, Zenon DEF PositionOK, Parked, ForkNoMemory, Goto
<1>8. CASE AllocInit(c)
  BY <1>t, <1>c, <1>d, <1>n, <1>8, Zenon
  DEF PositionOK, CurrentOK, RunningOK, OnProcess, Parked, AllocInit, At, EmbryoOK
<1>9. CASE ForkCopy(c)
  BY <1>d, <1>9, <1>t, Zenon DEF PositionOK, Parked, ForkCopy, Goto
<1>10. CASE ForkReady(c)
  BY <1>d, <1>10, <1>t, Zenon DEF PositionOK, Parked, ForkReady, Goto
<1>11. CASE Exit(c)
  BY <1>t, <1>d, <1>a, <1>11, Zenon DEF PositionOK, Exit, Goto, Sched
<1>12. CASE WaitReap(c)
  BY <1>t, <1>d, <1>12, Zenon
  DEF PositionOK, RunningOK, Parked, WaitReap, IsFirst, ZombieChildren
<1>13. CASE WaitSleep(c)
  BY <1>t, <1>d, <1>a, <1>13, Zenon DEF PositionOK, WaitSleep, Goto, Sched
<1>14. CASE NapSleep(c)
  BY <1>t, <1>d, <1>a, <1>14, Zenon DEF PositionOK, NapSleep, Goto, Sched
<1>15. CASE Kill(c)
  BY <1>d, <1>15, <1>t, Zenon DEF PositionOK, Parked, Kill, Goto
<1>16. CASE Yield(c)
  BY <1>t, <1>d, <1>a, <1>16, Zenon DEF PositionOK, Yield, Goto, Sched
<1>17. CASE TimerTick(c)
  BY <1>d, <1>17, <1>t, Zenon DEF PositionOK, TimerTick
<1>18. CASE TimerWake(c)
  BY <1>d, <1>18, <1>t, Zenon DEF PositionOK, TimerWake
<1> QED
  BY <1>1, <1>2, <1>3, <1>4, <1>5, <1>6, <1>7, <1>8, <1>9, <1>10, <1>11, <1>12, <1>13,
    <1>14, <1>15, <1>16, <1>17, <1>18, Zenon
  DEF Effect
=============================================================================
