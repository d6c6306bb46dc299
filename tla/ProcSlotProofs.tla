--------------------------- MODULE ProcSlotProofs ---------------------------
(*****************************************************************************)
(* Proofs about the process table: every step of Proc keeps the parts of     *)
(* IInv on slots, fork(), families and pids.                                 *)
(*****************************************************************************)
EXTENDS ProcCpuProofs

USE DEF slotvars, timevars, tixvars, lockvars, cpuvars, locals, globals, vars

\* A step keeps SlotInv: what the state of a slot says about its thread.
LEMMA SlotStep ==
  ASSUME IInv, NEW c \in CPUs, Effect(c)
  PROVE  SlotInv'
<1> SUFFICES ASSUME NEW p \in Slots PROVE SlotOK(p)'
  BY Zenon DEF SlotInv
<1>t. /\ cproc \in [CPUs -> Slots \union {NULL}] /\ cpc \in [CPUs -> Stages]
      /\ state \in [Slots -> ProcState] /\ pc \in [Slots -> Threads]
      /\ chan \in [Slots -> Slots \union {NULL, TICKS}]
      /\ np \in [Slots -> Slots \union {NULL}]
  BY Types, Zenon
<1>c. /\ CurrentOK(c) /\ RunningOK(c) /\ PositionOK(c)
      /\ cpc[c] \in OnProcess => cproc[c] \in Slots
      /\ cproc[c] # NULL => cproc[c] \in Slots
  BY Here, Zenon
<1>d. SlotOK(p) /\ (cproc[c] # NULL => SlotOK(cproc[c]))
  BY <1>c, Zenon DEF IInv, SlotInv
<1>n. cproc[c] # NULL => EmbryoOK(cproc[c]) /\ ForkingOK(cproc[c])
  BY <1>t, Zenon DEF IInv, ForkInv, EmbryoInv, ForkingInv
<1>1. CASE Dispatches(c)
  BY <1>d, <1>1 DEF SlotOK, Dispatches, Dispatch
<1>2. CASE Moves(c)
  BY <1>c, <1>d, Basics, <1>2 DEF SlotOK, RunningOK, Parked, Moves, MovesTo, Goto
<1>3. CASE Interrupts(c)
  BY <1>t, <1>d, <1>3 DEF SlotOK, Interrupts, InterruptsTo, Goto
<1>4. CASE NapTests(c)
  BY <1>t, <1>c, <1>d, Basics, <1>4 DEF SlotOK, RunningOK, NapTests, At, Goto, NapTest
<1>5. CASE AllocSlot(c)
  BY <1>t, <1>d, Basics, <1>5, Zenon DEF SlotOK, AllocSlot, At, IsFirst, Goto, Unused
<1>6. CASE ForkNoMemory(c)
  BY <1>t, <1>c, <1>d, Basics, <1>n, <1>6, Zenon
  DEF SlotOK, CurrentOK, OnProcess, ForkNoMemory, At, Goto, EmbryoOK
<1>7. CASE AllocInit(c)
  BY <1>t, <1>c, <1>d, Basics, <1>n, <1>7, Zenon
  DEF SlotOK, OnProcess, Parked, AllocInit, At, EmbryoOK, InFork
<1>8. CASE ForkCopy(c)
  BY <1>t, <1>d, <1>8, Zenon DEF SlotOK, ForkCopy, At, Goto
<1>9. CASE ForkReady(c)
  BY <1>t, <1>c, <1>d, Basics, <1>n, <1>9, Zenon
  DEF SlotOK, CurrentOK, OnProcess, ForkReady, At, Goto, EmbryoOK
<1>10. CASE Exit(c)
  BY <1>t, <1>d, <1>10, Zenon DEF SlotOK, Exit, Goto, ExitWakeups, Wakeup1
<1>11. CASE WaitReap(c)
  BY <1>t, <1>c, <1>d, Basics, <1>11 DEF SlotOK, RunningOK, WaitReap, InWait, At
<1>12. CASE WaitSleep(c)
  BY <1>t, <1>d, <1>12, Zenon DEF SlotOK, WaitSleep, Goto
<1>13. CASE NapSleep(c)
  BY <1>t, <1>d, <1>13, Zenon DEF SlotOK, NapSleep, Goto
<1>14. CASE Kill(c)
  BY <1>t, <1>c, <1>d, Basics, <1>14, Zenon
  DEF SlotOK, CurrentOK, PositionOK, OnProcess, Parked, Kill, At, Goto, KillWakes, IsFirst
<1>15. CASE Yield(c)
  BY <1>t, <1>c, <1>d, Basics, <1>15, Zenon DEF SlotOK, PositionOK, Parked, Yield, Goto
<1>16. CASE TimerWake(c)
  BY <1>d, <1>16, Zenon DEF SlotOK, TimerWake, Wakeup1
<1>17. CASE SchedRelease(c) \/ TimerTick(c)
  <2>1. UNCHANGED <<state, pc, chan>>
    BY <1>17, Zenon DEF SchedRelease, TimerTick
  <2> QED BY <1>d, <2>1, Zenon DEF SlotOK
<1> QED
  BY <1>1, <1>2, <1>3, <1>4, <1>5, <1>6, <1>7, <1>8, <1>9, <1>10, <1>11, <1>12, <1>13,
    <1>14, <1>15, <1>16, <1>17, Zenon
  DEF Effect

\* A step keeps ForkingInv: np is set exactly while fork() is filling in a slot.
LEMMA ForkingStep ==
  ASSUME IInv, NEW c \in CPUs, Effect(c)
  PROVE  ForkingInv'
<1> SUFFICES ASSUME NEW p \in Slots PROVE ForkingOK(p)'
  BY Zenon DEF ForkingInv
<1>t. /\ cproc \in [CPUs -> Slots \union {NULL}] /\ cpc \in [CPUs -> Stages]
      /\ state \in [Slots -> ProcState] /\ pc \in [Slots -> Threads]
      /\ np \in [Slots -> Slots \union {NULL}]
  BY Types, Zenon
<1>c. /\ CurrentOK(c) /\ RunningOK(c) /\ PositionOK(c)
      /\ cpc[c] \in OnProcess => cproc[c] \in Slots
      /\ cproc[c] # NULL => cproc[c] \in Slots
  BY Here, Zenon
<1>d. ForkingOK(p) /\ SlotOK(p)
  BY Zenon DEF IInv, ForkInv, ForkingInv, SlotInv
<1>n. cproc[c] # NULL => EmbryoOK(cproc[c]) /\ ForkingOK(cproc[c])
  BY <1>t, Zenon DEF IInv, ForkInv, EmbryoInv, ForkingInv
<1>1. CASE Moves(c)
  BY <1>d, <1>1 DEF ForkingOK, Moves, MovesTo, Goto
<1>2. CASE Interrupts(c)
  BY <1>t, <1>d, <1>2, Zenon DEF ForkingOK, InFork, Interrupts, InterruptsTo, Goto
<1>3. CASE NapTests(c)
  BY <1>t, <1>d, <1>3, Zenon DEF ForkingOK, InFork, NapTests, At, Goto, NapTest
<1>4. CASE AllocSlot(c)
  BY <1>t, <1>d, Basics, <1>4 DEF ForkingOK, InFork, AllocSlot, Goto
<1>5. CASE ForkNoMemory(c)
  BY <1>t, <1>d, <1>5, Zenon DEF ForkingOK, InFork, ForkNoMemory, Goto
<1>6. CASE AllocInit(c)
  BY <1>t, <1>c, <1>d, <1>n, Basics, <1>6, Zenon
  DEF ForkingOK, InFork, OnProcess, AllocInit, At, EmbryoOK, SlotOK
<1>7. CASE ForkCopy(c)
  BY <1>t, <1>d, <1>7, Zenon DEF ForkingOK, InFork, ForkCopy, At, Goto
<1>8. CASE ForkReady(c)
  BY <1>t, <1>d, <1>8, Zenon DEF ForkingOK, InFork, ForkReady, Goto
<1>9. CASE Exit(c)
  BY <1>t, <1>d, <1>9, Zenon DEF ForkingOK, InFork, Exit, At, Goto
<1>10. CASE WaitReap(c)
  BY <1>t, <1>d, <1>10
  DEF ForkingOK, InFork, CurrentOK, WaitReap, InWait, At, IsFirst, ZombieChildren, SlotOK
<1>11. CASE WaitSleep(c)
  BY <1>t, <1>d, <1>n, <1>11, Zenon DEF ForkingOK, InFork, WaitSleep, InWait, At, Goto
<1>12. CASE NapSleep(c)
  BY <1>t, <1>d, <1>12, Zenon DEF ForkingOK, InFork, NapSleep, At, Goto
<1>13. CASE Kill(c)
  BY <1>t, <1>d, <1>13, Zenon DEF ForkingOK, InFork, Kill, At, Goto
<1>14. CASE Yield(c)
  BY <1>t, <1>d, <1>14, Zenon DEF ForkingOK, InFork, Yield, At, Goto
<1>15. CASE Dispatches(c) \/ SchedRelease(c) \/ TimerTick(c) \/ TimerWake(c)
  <2>1. UNCHANGED <<np, pc>>
    BY <1>15, Zenon DEF Dispatches, SchedRelease, TimerTick, TimerWake, Dispatch
  <2> QED BY <1>d, <2>1, Zenon DEF ForkingOK
<1> QED
  BY <1>1, <1>2, <1>3, <1>4, <1>5, <1>6, <1>7, <1>8, <1>9, <1>10, <1>11, <1>12, <1>13,
    <1>14, <1>15, Zenon
  DEF Effect

\* A step keeps EmbryoInv: nobody touches the slot that fork() fills in without the
\* lock, not even exit(), which passes children on, or kill(), which matches its pid.
LEMMA EmbryoStep ==
  ASSUME IInv, NEW c \in CPUs, Effect(c)
  PROVE  EmbryoInv'
<1> SUFFICES ASSUME NEW p \in Slots PROVE EmbryoOK(p)'
  BY Zenon DEF EmbryoInv
<1>t. /\ cproc \in [CPUs -> Slots \union {NULL}] /\ cpc \in [CPUs -> Stages]
      /\ state \in [Slots -> ProcState] /\ pc \in [Slots -> Threads]
      /\ np \in [Slots -> Slots \union {NULL}] /\ parent \in [Slots -> Slots \union {NULL}]
  BY Types, Zenon
<1>c. /\ CurrentOK(c) /\ RunningOK(c) /\ PositionOK(c)
      /\ cpc[c] \in OnProcess => cproc[c] \in Slots
      /\ cproc[c] # NULL => cproc[c] \in Slots
  BY Here, Zenon
<1>d. EmbryoOK(p) /\ ForkingOK(p) /\ SlotOK(p)
  BY Zenon DEF IInv, ForkInv, ForkingInv, EmbryoInv, SlotInv
<1>n. cproc[c] # NULL => EmbryoOK(cproc[c]) /\ ForkingOK(cproc[c])
  BY <1>t, Zenon DEF IInv, ForkInv, EmbryoInv, ForkingInv
<1>o. OneForkOK(p, cproc[c]) \/ cproc[c] = NULL
  BY <1>t, Zenon DEF IInv, ForkInv, OneForkInv
<1>f. \A q \in Slots : state[q] = "UNUSED" => parent[q] = NULL
  BY Zenon DEF IInv, FamilyInv, FamilyOK
<1>1. CASE Dispatches(c)
  BY <1>d, <1>1 DEF EmbryoOK, Dispatches, Dispatch
<1>2. CASE Moves(c)
  BY <1>c, <1>d, <1>2 DEF EmbryoOK, InFork, RunningOK, OnProcess, Moves, MovesTo, Goto
<1>3. CASE Interrupts(c)
  BY <1>t, <1>d, <1>3 DEF EmbryoOK, Interrupts, InterruptsTo, Goto
<1>4. CASE NapTests(c)
  BY <1>t, <1>c, <1>d, <1>4 DEF EmbryoOK, NapTests, At, Goto, NapTest
<1>5. CASE AllocSlot(c)
  BY <1>t, <1>d, <1>f, <1>5 DEF EmbryoOK, InFork, AllocSlot, At, IsFirst, Goto, Unused
<1>6. CASE ForkNoMemory(c)
  BY <1>t, <1>c, <1>d, Basics, <1>o, <1>6, Zenon
  DEF EmbryoOK, OnProcess, ForkNoMemory, At, Goto, OneForkOK
<1>7. CASE AllocInit(c)
  BY <1>t, <1>c, <1>d, <1>n, Basics, <1>o, <1>7, Zenon
  DEF EmbryoOK, ForkingOK, InFork, SlotOK, RunningOK, OnProcess, AllocInit, At, OneForkOK
<1>8. CASE ForkCopy(c)
  BY <1>t, <1>c, <1>d, <1>n, Basics, <1>o, <1>8, Zenon
  DEF EmbryoOK, ForkingOK, OnProcess, ForkCopy, At, Goto, OneForkOK
<1>9. CASE ForkReady(c)
  BY <1>t, <1>c, <1>d, Basics, <1>o, <1>9, Zenon
  DEF EmbryoOK, RunningOK, OnProcess, ForkReady, At, Goto, OneForkOK
<1>10. CASE Exit(c)
  BY <1>t, <1>c, <1>d, Basics, <1>10, Zenon
  DEF EmbryoOK, RunningOK, OnProcess, Exit, At, Goto, Adopt, ExitWakeups, Wakeup1, Children
<1>11. CASE WaitReap(c)
  BY <1>t, <1>d, <1>11, Zenon
  DEF EmbryoOK, InFork, SlotOK, CurrentOK, WaitReap, InWait, At, IsFirst, ZombieChildren
<1>12. CASE WaitSleep(c)
  BY <1>t, <1>c, <1>d, <1>12, Zenon DEF EmbryoOK, RunningOK, WaitSleep, InWait, At, Goto
<1>13. CASE NapSleep(c)
  BY <1>t, <1>c, <1>d, <1>13, Zenon DEF EmbryoOK, RunningOK, NapSleep, At, Goto
<1>14. CASE Kill(c)
  BY <1>t, <1>d, <1>14, Zenon DEF EmbryoOK, Kill, At, Goto, KillWakes, IsFirst
<1>15. CASE Yield(c)
  BY <1>t, <1>c, <1>d, <1>15, Zenon
  DEF EmbryoOK, ForkingOK, CurrentOK, RunningOK, Yield, At, Goto
<1>16. CASE TimerWake(c)
  BY <1>t, <1>d, <1>16, Zenon DEF EmbryoOK, RunningOK, OnProcess, TimerWake, Wakeup1
<1>17. CASE SchedRelease(c) \/ TimerTick(c)
  <2>1. UNCHANGED <<np, pc, state, parent>>
    BY <1>17, Zenon DEF SchedRelease, TimerTick
  <2> QED BY <1>d, <2>1, Zenon DEF EmbryoOK
<1> QED
  BY <1>1, <1>2, <1>3, <1>4, <1>5, <1>6, <1>7, <1>8, <1>9, <1>10, <1>11, <1>12, <1>13,
    <1>14, <1>15, <1>16, <1>17, Zenon
  DEF Effect

\* A step keeps OriginInv: no EMBRYO is left behind by a fork() that gives up.
LEMMA OriginStep ==
  ASSUME IInv, NEW c \in CPUs, Effect(c)
  PROVE  OriginInv'
<1> SUFFICES ASSUME NEW p \in Slots, state'[p] = "EMBRYO" PROVE \E q \in Slots : np'[q] = p
  BY Zenon DEF OriginInv, OriginOK
<1>t. /\ cpc \in [CPUs -> Stages] /\ cproc \in [CPUs -> Slots \union {NULL}]
      /\ state \in [Slots -> ProcState] /\ np \in [Slots -> Slots \union {NULL}]
  BY Types, Zenon
<1>c. /\ CurrentOK(c) /\ RunningOK(c)
      /\ cpc[c] \in OnProcess => cproc[c] \in Slots
      /\ cproc[c] # NULL => cproc[c] \in Slots
  BY Here, Zenon
<1>d. OriginOK(p)
  BY Zenon DEF IInv, ForkInv, OriginInv
<1>n. cproc[c] # NULL => EmbryoOK(cproc[c]) /\ ForkingOK(cproc[c])
  BY <1>t, Zenon DEF IInv, ForkInv, EmbryoInv, ForkingInv
<1>1. CASE Dispatches(c)
  BY <1>d, <1>1 DEF OriginOK, Dispatches, Dispatch
<1>2. CASE AllocSlot(c)
  BY <1>t, <1>c, <1>d, Basics, <1>n, <1>2
  DEF OriginOK, OnProcess, AllocSlot, At, IsFirst, ForkingOK, InFork
<1>3. CASE ForkNoMemory(c)
  BY <1>t, <1>d, <1>3, Zenon DEF OriginOK, OnProcess, ForkNoMemory, InFork
<1>4. CASE ForkReady(c)
  BY <1>t, <1>c, <1>d, <1>4, Zenon DEF OriginOK, ForkReady
<1>5. CASE Exit(c)
  BY <1>d, <1>5, Zenon DEF OriginOK, Exit, ExitWakeups, Wakeup1
<1>6. CASE WaitReap(c)
  BY <1>t, <1>d, <1>6, Zenon DEF OriginOK, WaitReap
<1>7. CASE WaitSleep(c)
  BY <1>t, <1>d, <1>7, Zenon DEF OriginOK, WaitSleep
<1>8. CASE NapSleep(c)
  BY <1>t, <1>d, <1>8, Zenon DEF OriginOK, NapSleep
<1>9. CASE Kill(c)
  BY <1>t, <1>d, <1>9, Zenon DEF OriginOK, Kill, KillWakes, IsFirst
<1>10. CASE Yield(c)
  BY <1>t, <1>d, <1>10, Zenon DEF OriginOK, Yield
<1>11. CASE TimerWake(c)
  BY <1>d, <1>11, Zenon DEF OriginOK, OnProcess, TimerWake, Wakeup1
<1>12. CASE \/ SchedRelease(c) \/ Moves(c) \/ Interrupts(c) \/ NapTests(c) \/ AllocInit(c)
            \/ ForkCopy(c) \/ TimerTick(c)
  <2>1. UNCHANGED <<np, state>>
    BY <1>12, Zenon
    DEF SchedRelease, Moves, Interrupts, NapTests, AllocInit, ForkCopy, TimerTick, MovesTo,
      InterruptsTo
  <2> QED BY <1>d, <2>1, Zenon DEF OriginOK
<1> QED
  BY <1>1, <1>2, <1>3, <1>4, <1>5, <1>6, <1>7, <1>8, <1>9, <1>10, <1>11, <1>12, Zenon
  DEF Effect

\* A step keeps OneForkInv: allocproc() gives an UNUSED slot to one fork() only.
LEMMA OneForkStep ==
  ASSUME IInv, NEW c \in CPUs, Effect(c)
  PROVE  OneForkInv'
<1> SUFFICES ASSUME NEW p \in Slots, NEW q \in Slots PROVE OneForkOK(p, q)'
  BY Zenon DEF OneForkInv
<1>t. /\ cproc \in [CPUs -> Slots \union {NULL}] /\ state \in [Slots -> ProcState]
      /\ np \in [Slots -> Slots \union {NULL}]
  BY Types, Zenon
<1>d. OneForkOK(p, q) /\ EmbryoOK(p) /\ EmbryoOK(q)
  BY Zenon DEF IInv, ForkInv, OneForkInv, EmbryoInv
<1>1. CASE AllocSlot(c)
  BY <1>d, <1>1 DEF OneForkOK, AllocSlot, IsFirst, EmbryoOK, Unused
<1>2. CASE ForkNoMemory(c)
  BY <1>t, <1>d, <1>2, Zenon DEF OneForkOK, ForkNoMemory
<1>3. CASE ForkReady(c)
  BY <1>t, <1>d, <1>3, Zenon DEF OneForkOK, ForkReady
<1>4. CASE \/ Dispatches(c) \/ SchedRelease(c) \/ Moves(c) \/ Interrupts(c) \/ NapTests(c)
           \/ AllocInit(c) \/ ForkCopy(c) \/ Exit(c) \/ WaitReap(c) \/ WaitSleep(c)
           \/ NapSleep(c) \/ Kill(c) \/ Yield(c) \/ TimerTick(c) \/ TimerWake(c)
  <2>1. UNCHANGED <<np>>
    BY <1>4, Zenon
    DEF Dispatches, SchedRelease, Moves, Interrupts, NapTests, AllocInit, ForkCopy, Exit,
      WaitReap, WaitSleep, NapSleep, Kill, Yield, TimerTick, TimerWake, Dispatch, MovesTo,
      InterruptsTo
  <2> QED BY <1>d, <2>1, Zenon DEF OneForkOK
<1> QED BY <1>1, <1>2, <1>3, <1>4, Zenon DEF Effect

\* A step keeps InitInv: init is never freed, never a ZOMBIE and never adopted.
LEMMA InitStep ==
  ASSUME IInv, NEW c \in CPUs, Effect(c)
  PROVE  InitInv'
<1>t. /\ cpc \in [CPUs -> Stages] /\ cproc \in [CPUs -> Slots \union {NULL}]
      /\ state \in [Slots -> ProcState] /\ np \in [Slots -> Slots \union {NULL}]
      /\ parent \in [Slots -> Slots \union {NULL}]
  BY Types, Zenon
<1>c. /\ CurrentOK(c) /\ RunningOK(c)
      /\ cpc[c] \in OnProcess => cproc[c] \in Slots
      /\ cproc[c] # NULL => cproc[c] \in Slots
  BY Here, Zenon
<1>d. InitInv
  BY Zenon DEF IInv
<1>n. cproc[c] # NULL => EmbryoOK(cproc[c]) /\ ForkingOK(cproc[c])
  BY <1>t, Zenon DEF IInv, ForkInv, EmbryoInv, ForkingInv
<1>1. CASE Dispatches(c)
  BY <1>d, <1>1 DEF InitInv, OnProcess, Dispatches, Dispatch
<1>2. CASE AllocSlot(c)
  BY <1>t, <1>d, Basics, <1>2, Zenon DEF InitInv, AllocSlot, IsFirst, Unused
<1>3. CASE ForkNoMemory(c)
  BY <1>t, <1>c, <1>d, Basics, <1>n, <1>3, Zenon
  DEF InitInv, OnProcess, ForkNoMemory, At, EmbryoOK, ForkingOK
<1>4. CASE ForkCopy(c)
  BY <1>t, <1>d, Basics, <1>n, <1>4, Zenon
  DEF InitInv, CurrentOK, OnProcess, ForkCopy, At, EmbryoOK
<1>5. CASE ForkReady(c)
  BY <1>t, <1>d, Basics, <1>5, Zenon DEF InitInv, ForkReady
<1>6. CASE Exit(c)
  BY <1>c, <1>d, Basics, <1>6, Zenon
  DEF InitInv, OnProcess, Exit, At, Adopt, ExitWakeups, Wakeup1, Children
<1>7. CASE WaitReap(c)
  BY <1>d, <1>7, Types, Basics, <1>t, <1>c, <1>n, Zenon
  DEF InitInv, WaitReap, IsFirst, ZombieChildren
<1>8. CASE WaitSleep(c)
  BY <1>t, <1>d, Basics, <1>8, Zenon DEF InitInv, WaitSleep
<1>9. CASE NapSleep(c)
  BY <1>t, <1>d, Basics, <1>9, Zenon DEF InitInv, NapSleep
<1>10. CASE Kill(c)
  BY <1>t, <1>c, <1>d, Basics, <1>10, Zenon DEF InitInv, Kill, At, KillWakes
<1>11. CASE Yield(c)
  BY <1>t, <1>d, Basics, <1>11, Zenon DEF InitInv, Yield, At
<1>12. CASE TimerWake(c)
  BY <1>d, Basics, <1>12, Zenon DEF InitInv, OnProcess, TimerWake, Wakeup1
<1>13. CASE \/ SchedRelease(c) \/ Moves(c) \/ Interrupts(c) \/ NapTests(c) \/ AllocInit(c)
            \/ TimerTick(c)
  <2>1. UNCHANGED <<state, parent>>
    BY <1>13, Zenon
    DEF SchedRelease, Moves, Interrupts, NapTests, AllocInit, TimerTick, MovesTo,
      InterruptsTo
  <2> QED BY <1>d, <2>1, Zenon DEF InitInv
<1> QED
  BY <1>1, <1>2, <1>3, <1>4, <1>5, <1>6, <1>7, <1>8, <1>9, <1>10, <1>11, <1>12, <1>13, Zenon
  DEF Effect

\* A step keeps FamilyInv: exit() passes every child on to init before its slot can be
\* freed, and wait() frees only slots that are nobody's parent.
LEMMA FamilyStep ==
  ASSUME IInv, NEW c \in CPUs, Effect(c)
  PROVE  FamilyInv'
<1> SUFFICES ASSUME NEW p \in Slots PROVE FamilyOK(p)'
  BY Zenon DEF FamilyInv
<1>t. /\ cproc \in [CPUs -> Slots \union {NULL}] /\ cpc \in [CPUs -> Stages]
      /\ state \in [Slots -> ProcState] /\ np \in [Slots -> Slots \union {NULL}]
      /\ parent \in [Slots -> Slots \union {NULL}]
  BY Types, Zenon
<1>c. /\ CurrentOK(c) /\ RunningOK(c)
      /\ cpc[c] \in OnProcess => cproc[c] \in Slots
      /\ cproc[c] # NULL => cproc[c] \in Slots
  BY Here, Zenon
<1>d. FamilyOK(p) /\ InitInv
  BY Zenon DEF IInv, FamilyInv
<1>n. cproc[c] # NULL => EmbryoOK(cproc[c]) /\ ForkingOK(cproc[c])
  BY <1>t, Zenon DEF IInv, ForkInv, EmbryoInv, ForkingInv
<1>1. CASE Dispatches(c)
  BY <1>d, <1>1 DEF FamilyOK, Live, Dispatches, Dispatch
<1>2. CASE AllocSlot(c)
  BY <1>t, <1>d, <1>2, Zenon DEF FamilyOK, Live, OnProcess, AllocSlot, At, IsFirst, Unused
<1>3. CASE ForkNoMemory(c)
  BY <1>t, <1>c, <1>d, Basics, <1>n, <1>3, Zenon
  DEF FamilyOK, Live, OnProcess, ForkNoMemory, At, EmbryoOK
<1>4. CASE ForkCopy(c)
  BY <1>t, <1>c, <1>d, Basics, <1>n, <1>4, Zenon
  DEF FamilyOK, Live, OnProcess, ForkCopy, At, EmbryoOK
<1>5. CASE ForkReady(c)
  BY <1>t, <1>c, <1>d, <1>n, <1>5, Zenon
  DEF FamilyOK, Live, CurrentOK, RunningOK, OnProcess, ForkReady, At, EmbryoOK, ForkingOK,
    InFork
<1>6. CASE Exit(c)
  BY <1>t, <1>c, <1>d, Basics, <1>6, Zenon
  DEF FamilyOK, Live, InitInv, RunningOK, OnProcess, Exit, At, Adopt, ExitWakeups, Wakeup1,
    Children
<1>7. CASE WaitReap(c)
  BY <1>t, <1>d, Basics, <1>7 DEF FamilyOK, Live, WaitReap, IsFirst, ZombieChildren
<1>8. CASE WaitSleep(c)
  BY <1>t, <1>c, <1>d, Basics, <1>8, Zenon DEF FamilyOK, Live, RunningOK, WaitSleep
<1>9. CASE NapSleep(c)
  BY <1>t, <1>c, <1>d, Basics, <1>9, Zenon DEF FamilyOK, Live, RunningOK, NapSleep, At
<1>10. CASE Kill(c)
  BY <1>t, <1>d, <1>10, Zenon DEF FamilyOK, Live, OnProcess, Kill, KillWakes, IsFirst
<1>11. CASE Yield(c)
  BY <1>t, <1>c, <1>d, Basics, <1>11, Zenon DEF FamilyOK, Live, RunningOK, OnProcess, Yield
<1>12. CASE TimerWake(c)
  BY <1>t, <1>d, <1>12, Zenon DEF FamilyOK, Live, TimerWake, Wakeup1
<1>13. CASE \/ SchedRelease(c) \/ Moves(c) \/ Interrupts(c) \/ NapTests(c) \/ AllocInit(c)
            \/ TimerTick(c)
  <2>1. UNCHANGED <<state, parent>>
    BY <1>13, Zenon
    DEF SchedRelease, Moves, Interrupts, NapTests, AllocInit, TimerTick, MovesTo,
      InterruptsTo
  <2> QED BY <1>d, <2>1, Zenon DEF FamilyOK, Live
<1> QED
  BY <1>1, <1>2, <1>3, <1>4, <1>5, <1>6, <1>7, <1>8, <1>9, <1>10, <1>11, <1>12, <1>13, Zenon
  DEF Effect

\* A step keeps PidInv: nextpid grows under ptable.lock, and a freed slot keeps its old
\* pid (failed fork) or 0 (wait), neither of which is given again.
LEMMA PidStep ==
  ASSUME IInv, NEW c \in CPUs, Effect(c)
  PROVE  PidInv'
<1> SUFFICES ASSUME NEW p \in Slots, NEW q \in Slots PROVE PidOK(p)' /\ OnePidOK(p, q)'
  BY Zenon DEF PidInv
<1>t. /\ cproc \in [CPUs -> Slots \union {NULL}] /\ cpc \in [CPUs -> Stages]
      /\ state \in [Slots -> ProcState] /\ np \in [Slots -> Slots \union {NULL}]
  BY Types, Zenon
<1>u. pid \in [Slots -> Nat] /\ nextpid \in Nat \ {0}
  BY Zenon DEF IInv, TypeOK, SlotTypes, GlobalTypes
<1>c. /\ CurrentOK(c) /\ RunningOK(c)
      /\ cpc[c] \in OnProcess => cproc[c] \in Slots
      /\ cproc[c] # NULL => cproc[c] \in Slots
  BY Here, Zenon
<1>d. PidOK(p) /\ PidOK(q) /\ OnePidOK(p, q) /\ (cproc[c] # NULL => PidOK(cproc[c]))
  BY <1>c, Zenon DEF IInv, PidInv
<1>n. cproc[c] # NULL => EmbryoOK(cproc[c]) /\ ForkingOK(cproc[c])
  BY <1>t, Zenon DEF IInv, ForkInv, EmbryoInv, ForkingInv
<1>1. CASE Dispatches(c)
  BY <1>t, <1>d, <1>1, Zenon DEF PidOK, OnePidOK, Dispatches, Dispatch
<1>2. CASE AllocSlot(c)
  BY <1>u, <1>d, <1>2 DEF PidOK, OnePidOK, AllocSlot, PidAfter
<1>3. CASE ForkNoMemory(c)
  BY <1>t, <1>d, <1>3, Zenon DEF PidOK, OnePidOK, ForkNoMemory
<1>4. CASE ForkReady(c)
  BY <1>t, <1>c, <1>d, <1>n, Basics, <1>4, Zenon
  DEF PidOK, OnePidOK, ForkReady, At, EmbryoOK, ForkingOK, OnProcess
<1>5. CASE Exit(c)
  BY <1>c, <1>d, Basics, <1>5, Zenon
  DEF PidOK, OnePidOK, Exit, At, ExitWakeups, Wakeup1, RunningOK
<1>6. CASE WaitReap(c)
  BY <1>t, <1>u, <1>d, <1>6 DEF PidOK, OnePidOK, WaitReap
<1>7. CASE WaitSleep(c)
  BY <1>t, <1>c, <1>d, Basics, <1>7, Zenon DEF PidOK, OnePidOK, WaitSleep, RunningOK
<1>8. CASE NapSleep(c)
  BY <1>t, <1>c, <1>d, Basics, <1>8, Zenon DEF PidOK, OnePidOK, NapSleep, RunningOK
<1>9. CASE Kill(c)
  BY <1>t, <1>d, <1>9, Zenon DEF PidOK, OnePidOK, Kill, KillWakes, IsFirst
<1>10. CASE Yield(c)
  BY <1>t, <1>c, <1>d, Basics, <1>10, Zenon DEF PidOK, OnePidOK, Yield, RunningOK
<1>11. CASE TimerWake(c)
  BY <1>d, <1>11, Zenon DEF PidOK, OnePidOK, TimerWake, Wakeup1
<1>12. CASE \/ SchedRelease(c) \/ Moves(c) \/ Interrupts(c) \/ NapTests(c) \/ AllocInit(c)
            \/ ForkCopy(c) \/ TimerTick(c)
  <2>1. UNCHANGED <<pid, nextpid, state>>
    BY <1>12, Zenon
    DEF SchedRelease, Moves, Interrupts, NapTests, AllocInit, ForkCopy, TimerTick, MovesTo,
      InterruptsTo
  <2> QED BY <1>d, <2>1, Zenon DEF PidOK, OnePidOK
<1> QED
  BY <1>1, <1>2, <1>3, <1>4, <1>5, <1>6, <1>7, <1>8, <1>9, <1>10, <1>11, <1>12, Zenon
  DEF Effect
=============================================================================
