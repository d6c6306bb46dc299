------------------------------ MODULE ProcInv ------------------------------
(***************************************************************************)
(* The inductive invariant behind the safety properties of ProcProps: what *)
(* the positions of processors and threads say about the process table.    *)
(* Each part is a predicate on one processor, slot or pair.                *)
(***************************************************************************)
EXTENDS ProcProps

\* Positions a thread can only be at while no processor executes it.
Parked == {"forkret", "waiting", "napping", "zombie", "gone"}

\* Positions inside fork() at which it owns a new slot.
InFork == {"alloc", "copy", "ready"}

\* The positions of c at which there is a current process.
OnProcess == {"run", "switched", "resumed", "halted", "preempt"}

-----------------------------------------------------------------------------
(* Processors *)

\* ptable.lock is held exactly across the two ends of a swtch.
LockOK(c) == ptlock = c <=> cpc[c] \in {"switched", "resumed"}
LockInv == \A c \in CPUs : LockOK(c)

\* cpus[c].proc is set where c's position needs it.
CurrentOK(c) ==
  /\ cpc[c] = "idle" => cproc[c] = NULL
  /\ cpc[c] \in OnProcess => cproc[c] # NULL
CurrentInv == \A c \in CPUs : CurrentOK(c)

\* The current process is RUNNING until sched() has switched away from it.
RunningOK(c) ==
  cproc[c] # NULL =>
    state[cproc[c]] \in IF cpc[c] = "resumed" THEN {"RUNNABLE", "SLEEPING", "ZOMBIE"}
                        ELSE {"RUNNING"}
RunningInv == \A c \in CPUs : RunningOK(c)

\* No two processors share a process.
AloneOK(c, d) == cproc[c] # NULL /\ cproc[c] = cproc[d] => c = d
AloneInv == \A c, d \in CPUs : AloneOK(c, d)

\* A RUNNING process has a processor.
OwnedOK(p) == state[p] = "RUNNING" => \E c \in CPUs : cproc[c] = p /\ cpc[c] # "resumed"
OwnedInv == \A p \in Slots : OwnedOK(p)

\* Where the thread of the current process can be; it is never interrupted
\* between sys_sleep()'s test and its sleep.
PositionOK(c) ==
  cproc[c] # NULL =>
    /\ cpc[c] \notin {"switched", "resumed"} => pc[cproc[c]] \notin Parked
    /\ pc[cproc[c]] = "doze" => cpc[c] = "run"
PositionInv == \A c \in CPUs : PositionOK(c)

CpuInv == LockInv /\ CurrentInv /\ RunningInv /\ AloneInv /\ OwnedInv /\ PositionInv
-----------------------------------------------------------------------------
(* Slots *)

\* The state of a slot against the position of its thread.
SlotOK(p) ==
  /\ state[p] \in {"UNUSED", "EMBRYO"} => pc[p] \in {"gone", "forkret"}
  /\ state[p] = "SLEEPING" => \/ pc[p] = "waiting" /\ chan[p] = p
                              \/ pc[p] = "napping" /\ chan[p] = TICKS
  /\ state[p] = "RUNNABLE" => pc[p] \notin {"gone", "zombie", "doze"}
  /\ state[p] = "RUNNING" => pc[p] \notin {"gone", "zombie"}
  /\ state[p] = "ZOMBIE" => pc[p] = "zombie"
SlotInv == \A p \in Slots : SlotOK(p)

\* A thread inside fork() has a new slot, and no other thread has.
ForkingOK(p) == np[p] # NULL <=> pc[p] \in InFork
ForkingInv == \A p \in Slots : ForkingOK(p)

\* The new slot is an EMBRYO, filled in as far as fork() has got.
EmbryoOK(p) ==
  np[p] # NULL =>
    /\ state[np[p]] = "EMBRYO"
    /\ pc[p] \in {"copy", "ready"} => pc[np[p]] = "forkret"
    /\ parent[np[p]] = IF pc[p] = "ready" THEN p ELSE NULL
EmbryoInv == \A p \in Slots : EmbryoOK(p)

\* An EMBRYO is the new slot of some thread, and of one only.
OriginOK(p) == state[p] = "EMBRYO" => \E q \in Slots : np[q] = p
OriginInv == \A p \in Slots : OriginOK(p)
OneForkOK(p, q) == np[p] # NULL /\ np[p] = np[q] => p = q
OneForkInv == \A p, q \in Slots : OneForkOK(p, q)

ForkInv == ForkingInv /\ EmbryoInv /\ OriginInv /\ OneForkInv
-----------------------------------------------------------------------------
(* Families and pids *)

\* init is there for good.
InitInv ==
  /\ state[initproc] \notin {"UNUSED", "EMBRYO", "ZOMBIE"}
  /\ parent[initproc] = NULL

\* A free slot has no parent; a process has one that is not itself and can wait.
FamilyOK(p) ==
  /\ state[p] = "UNUSED" => parent[p] = NULL
  /\ parent[p] # p
  /\ p # initproc /\ Live(p) =>
       /\ parent[p] # NULL
       /\ state[parent[p]] \notin {"UNUSED", "EMBRYO", "ZOMBIE"}
FamilyInv == \A p \in Slots : FamilyOK(p)

\* A pid is given to one slot only.
PidOK(p) == pid[p] < nextpid /\ (state[p] # "UNUSED" => pid[p] # 0)
OnePidOK(p, q) == pid[p] = pid[q] /\ pid[p] # 0 => p = q
PidInv == (\A p \in Slots : PidOK(p)) /\ (\A p, q \in Slots : OnePidOK(p, q))
-----------------------------------------------------------------------------
(* The clock *)

\* Only processor 0 keeps time.  tickslock is held by its interrupt until
\* wakeup(&ticks) is done, and by a thread from sys_sleep()'s test to its sleep.
TickOK(c) ==
  /\ cpc[c] \in {"tick", "wake", "account"} => c = 0
  /\ tickslock = c <=> cpc[c] = "wake" \/ At(c, "doze")
TickInv == \A c \in CPUs : TickOK(c)

\* A thread that sleeps, or is about to, is not due yet, or is about to be woken.
NotDue(p) == (ticks - ticks0[p]) % TickMod < nap[p]
DueOK(p) ==
  /\ pc[p] = "doze" => NotDue(p)
  /\ state[p] = "SLEEPING" /\ chan[p] = TICKS => NotDue(p) \/ cpc[0] = "wake"
DueInv == \A p \in Slots : DueOK(p)

IInv ==
  /\ TypeOK
  /\ CpuInv
  /\ SlotInv
  /\ ForkInv
  /\ InitInv
  /\ FamilyInv
  /\ PidInv
  /\ WaiterNotForgotten
  /\ TickInv
  /\ DueInv
-----------------------------------------------------------------------------
(* What the actions that are alike do to the process table.  A step of Proc is *)
(* one of these, or an action that writes more (Effect), or changes nothing.   *)

\* scheduler() switches to a RUNNABLE process.
Dispatches(c) ==
  /\ cpc[c] = "resumed" \/ (cpc[c] = "idle" /\ ptlock = NULL)
  /\ \E p \in Slots, n \in Nat : state[p] = "RUNNABLE" /\ Dispatch(c, p, n)

\* A thread moves on to m, at the end of a swtch or inside a system call; k is its
\* chan from then on.
MovesTo(c, m, k) ==
  /\ cpc[c] \in {"run", "switched"}
  /\ pc[cproc[c]] # "doze" /\ m # "doze" /\ m \notin Parked
  /\ m = pc[cproc[c]] \/ (m \notin InFork /\ pc[cproc[c]] \notin InFork)
  /\ Goto(c, m)
  /\ chan' = [chan EXCEPT ![cproc[c]] = k]
  /\ cpc' = [cpc EXCEPT ![c] = "run"]
  /\ ptlock' = IF cpc[c] = "switched" THEN NULL ELSE ptlock
  /\ \A q \in Slots \ {cproc[c]} : killed'[q] = killed[q]
  /\ UNCHANGED <<state, pid, parent, tickslock, cproc, np, ticks0, nap, nextpid, ticks>>
Moves(c) == \E m, k : MovesTo(c, m, k)

\* A processor enters or leaves an interrupt, or stops for good, and is at s then.
InterruptsTo(c, s) ==
  /\ cpc[c] \notin {"switched", "resumed", "wake"} /\ s \notin {"switched", "resumed", "wake"}
  /\ cproc[c] # NULL => pc[cproc[c]] # "doze"
  /\ s = "idle" => cproc[c] = NULL
  /\ s \in OnProcess => cproc[c] # NULL
  /\ s \in {"tick", "account"} => c = 0
  /\ cpc' = [cpc EXCEPT ![c] = s]
  /\ pc' = pc \/ (cproc[c] # NULL /\ pc[cproc[c]] = "user" /\ Goto(c, "exit"))
  /\ UNCHANGED <<slotvars, lockvars, cproc, np, ticks0, nap, nextpid, ticks>>
Interrupts(c) == \E s : InterruptsTo(c, s)

\* sys_sleep() tests whether to sleep.
NapTests(c) ==
  /\ At(c, "sleep") \/ At(c, "renap")
  /\ tickslock = NULL
  /\ \E t0 \in 0 .. TickMod - 1, n \in Nat : NapTest(c, t0, n)
  /\ UNCHANGED <<slotvars, ptlock, cproc, cpc, np, nextpid, ticks>>

Effect(c) ==
  \/ Dispatches(c) \/ SchedRelease(c) \/ Moves(c) \/ Interrupts(c) \/ NapTests(c)
  \/ AllocSlot(c) \/ ForkNoMemory(c) \/ AllocInit(c) \/ ForkCopy(c) \/ ForkReady(c)
  \/ Exit(c) \/ WaitReap(c) \/ WaitSleep(c) \/ NapSleep(c) \/ Kill(c) \/ Yield(c)
  \/ TimerTick(c) \/ TimerWake(c)
=============================================================================
