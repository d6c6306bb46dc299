-------------------------------- MODULE Proc --------------------------------
(***************************************************************************)
(* The process table of the kernel: proc.c, with the paths of trap.c and   *)
(* sysproc.c that drive it.  NCPU processors each run either their         *)
(* scheduler() loop or the kernel/user thread of one process; they share   *)
(* ptable (under ptable.lock), ticks (under tickslock) and, without a      *)
(* lock, scheduling_policy and the fields of EMBRYO slots.                 *)
(*                                                                         *)
(* A step is a stretch of code between two points where another processor  *)
(* can observe or change what it uses: a whole critical section, or one    *)
(* unlocked access.  ptable.lock is held across swtch(), so a switch is    *)
(* several steps during which only the switching processor holds the lock. *)
(***************************************************************************)
EXTENDS Lottery

CONSTANTS
  NCPU,          \* number of processors
  InitOps,       \* system calls the first process (init) makes
  UserOps,       \* system calls (and "fault") the other processes make
  KillArgs,      \* arguments of kill
  TicketArgs,    \* arguments of settickets
  PolicyArgs,    \* arguments of setpolicy
  SleepArgs,     \* arguments of sleep
  BootPolicies,  \* policies in force when the first user code runs
  MemFails,      \* whether kalloc() and copyuvm() may run out of memory
  MaxPid,        \* bound: no fork is started once nextpid exceeds it
  TickMod,       \* size of the uint ticks, ctime and etime
  MaxTicks,      \* bound: no tick once ticks = MaxTicks (TickMod: no bound)
  AcctMod        \* size of the uints rtime, stime and retime

Ops == {"fork", "exit", "wait", "waitx", "kill", "sleep", "yield",
        "settickets", "setpolicy", "getpinfo", "uptime", "fault"}

ASSUME CPUAssumption == NCPU \in Nat \ {0}
ASSUME OpsAssumption == InitOps \subseteq Ops /\ UserOps \subseteq Ops
ASSUME ArgsAssumption ==
  /\ KillArgs \subseteq Int /\ TicketArgs \subseteq Int
  /\ PolicyArgs \subseteq Int /\ SleepArgs \subseteq Int
  /\ BootPolicies \subseteq 0 .. 2
ASSUME BoundAssumption ==
  /\ MemFails \in BOOLEAN
  /\ MaxPid \in Nat /\ MaxTicks \in Nat
  /\ TickMod \in Nat \ {0} /\ AcctMod \in Nat \ {0}

VARIABLES
  state, pid, parent, killed, chan,           \* struct proc, per slot
  ctime, etime, rtime, stime, retime,
  tickets, original_tickets,
  nextpid, ticks, scheduling_policy,          \* globals
  ptlock, tickslock,                          \* holder of each spinlock
  cproc,       \* cpus[c].proc
  cpc,         \* what processor c is executing
  scan,        \* where scheduler()'s round-robin loop on c goes on
  pc,          \* where the thread of each process is
  np,          \* fork()'s np
  ticks0, nap  \* sys_sleep()'s ticks0 and n

slotvars == <<state, pid, parent, killed, chan>>
timevars == <<ctime, etime, rtime, stime, retime>>
tixvars  == <<tickets, original_tickets>>
lockvars == <<ptlock, tickslock>>
cpuvars  == <<cproc, cpc, scan>>
locals   == <<np, ticks0, nap>>
globals  == <<nextpid, ticks, scheduling_policy>>
vars == <<slotvars, timevars, tixvars, lockvars, cpuvars, pc, locals, globals>>

CPUs == 0 .. NCPU - 1
NULL == -1                  \* null pointer; free lock
initproc == 0               \* userinit() gets the first slot
TICKS == NPROC              \* the channel &ticks; a slot is the channel of its struct
DefaultTickets == 10
Policies == 0 .. 2          \* 0 = RR, 1 = FCFS, 2 = lottery
FCFS == 1
LOTTERY == 2

ProcState == {"UNUSED", "EMBRYO", "SLEEPING", "RUNNABLE", "RUNNING", "ZOMBIE"}

(* Thread positions.  "user" is user mode, a system call's name its entry  *)
(* after trap()'s first test of killed, "sysret" its return to trap().     *)
(* A thread switched out in sleep() is at "waiting" or "napping", in       *)
(* exit() at "zombie"; one switched out by yield() stays at the position   *)
(* it was interrupted at.  A slot without a thread is at "gone".           *)
Threads == Ops \union
  {"user", "sysret", "forkret", "alloc", "copy", "ready", "doze", "renap",
   "waiting", "napping", "zombie", "gone"}

(* Processor positions: "idle" is the top of the scheduler loop, "run" the *)
(* thread of cproc, "switched" and "resumed" the two ends of a swtch (to   *)
(* the process, to the scheduler), "halted" the end of panic(), the rest   *)
(* the timer interrupt of trap().                                          *)
Stages == {"idle", "run", "switched", "resumed", "halted",
           "tick", "wake", "account", "tail", "preempt"}
-----------------------------------------------------------------------------
Runnable == {p \in Slots : state[p] = "RUNNABLE"}

\* Fault: a slot counts as free until it is RUNNABLE.
Unused_Embryo == {p \in Slots : state[p] \in {"UNUSED", "EMBRYO"}}

Unused == {p \in Slots : state[p] = "UNUSED"}

IsFirst(p, S) == p \in S /\ \A q \in S : p <= q

At(c, l) == cpc[c] = "run" /\ pc[cproc[c]] = l
Goto(c, l) == pc' = [pc EXCEPT ![cproc[c]] = l]

\* wakeup1(ch) on the states st.
Wakeup1(st, ch) ==
  [q \in Slots |-> IF st[q] = "SLEEPING" /\ chan[q] = ch THEN "RUNNABLE" ELSE st[q]]

\* Fault: the lock is dropped before the processor has left the process.
Sched_Unlocked(c) ==
  /\ ptlock' = NULL
  /\ cpc' = [cpc EXCEPT ![c] = "resumed"]

\* sched() up to the swtch to the scheduler, which now runs with ptable.lock held.
Sched(c) ==
  /\ ptlock' = c
  /\ cpc' = [cpc EXCEPT ![c] = "resumed"]

\* The machine after main(): userinit() has made init RUNNABLE and every
\* processor has entered scheduler().
Init ==
  /\ state = [p \in Slots |-> IF p = initproc THEN "RUNNABLE" ELSE "UNUSED"]
  /\ pid = [p \in Slots |-> IF p = initproc THEN 1 ELSE 0]
  /\ parent = [p \in Slots |-> NULL]
  /\ killed = [p \in Slots |-> FALSE]
  /\ chan = [p \in Slots |-> NULL]
  /\ ctime = [p \in Slots |-> 0]
  /\ etime = [p \in Slots |-> 0]
  /\ rtime = [p \in Slots |-> 0]
  /\ stime = [p \in Slots |-> 0]
  /\ retime = [p \in Slots |-> 0]
  /\ tickets = [p \in Slots |-> IF p = initproc THEN DefaultTickets ELSE 0]
  /\ original_tickets = tickets
  /\ nextpid = 2
  /\ ticks = 0
  /\ scheduling_policy \in BootPolicies
  /\ ptlock = NULL
  /\ tickslock = NULL
  /\ cproc = [c \in CPUs |-> NULL]
  /\ cpc = [c \in CPUs |-> "idle"]
  /\ scan = [c \in CPUs |-> NPROC]
  /\ pc = [p \in Slots |-> IF p = initproc THEN "forkret" ELSE "gone"]
  /\ np = [p \in Slots |-> NULL]
  /\ ticks0 = [p \in Slots |-> 0]
  /\ nap = [p \in Slots |-> 0]
-----------------------------------------------------------------------------
(* scheduler() *)

\* Fault: no rule for processes created in the same tick.
Oldest_NoTie(p) ==
  /\ p \in Runnable
  /\ \A q \in Runnable \ {p} : ctime[p] < ctime[q]

\* FCFS: the RUNNABLE slot of least ctime, the first such slot on a tie.
Oldest(p) ==
  /\ p \in Runnable
  /\ \A q \in Runnable : ctime[p] < ctime[q] \/ (ctime[p] = ctime[q] /\ p <= q)

\* Fault: the round-robin loop stops after one process.
RRNext_Break(p) == NPROC

\* Where the round-robin loop goes on after it has run p.
RRNext(p) == p + 1

\* What one pass of the loop may choose under the policy it read, and where
\* its round-robin loop goes on afterwards.
Picks ==
  IF scheduling_policy = FCFS
  THEN {<<p, NPROC>> : p \in {q \in Slots : Oldest(q)}}
  ELSE IF scheduling_policy = LOTTERY
  THEN {<<p, NPROC>> : p \in UNION {Winner(Runnable, tickets, r) : r \in Draws(Runnable, tickets)}}
  ELSE {<<p, RRNext(p)>> : p \in {q \in Slots : IsFirst(q, Runnable)}}

\* c->proc = p; switchuvm(p); p->state = RUNNING; swtch(), with the lock held.
Dispatch(c, p, next) ==
  /\ cproc' = [cproc EXCEPT ![c] = p]
  /\ state' = [state EXCEPT ![p] = "RUNNING"]
  /\ scan' = [scan EXCEPT ![c] = next]
  /\ cpc' = [cpc EXCEPT ![c] = "switched"]
  /\ ptlock' = c
  /\ UNCHANGED <<pid, parent, killed, chan, timevars, tixvars, tickslock, pc, locals, globals>>

\* sti(); acquire(&ptable.lock); a process is chosen and switched to.
SchedPick(c) ==
  /\ cpc[c] = "idle"
  /\ ptlock = NULL
  /\ \E ch \in Picks : Dispatch(c, ch[1], ch[2])

\* The pass ends without a choice: nothing RUNNABLE, or a draw no slot wins.
SchedNone(c) ==
  /\ cpc[c] = "idle"
  /\ ptlock = NULL
  /\ \/ Picks = {}
     \/ /\ scheduling_policy = LOTTERY
        /\ \E r \in Draws(Runnable, tickets) : Winner(Runnable, tickets, r) = {}
  /\ UNCHANGED vars

\* Back from swtch(): c->proc = 0, and the round-robin loop meets another
\* RUNNABLE slot before its end.
SchedNext(c) ==
  /\ cpc[c] = "resumed"
  /\ \E p \in Slots : /\ IsFirst(p, {q \in Runnable : q >= scan[c]})
                      /\ Dispatch(c, p, RRNext(p))

\* Back from swtch(): c->proc = 0, and the pass ends with release().
SchedRelease(c) ==
  /\ cpc[c] = "resumed"
  /\ {q \in Runnable : q >= scan[c]} = {}
  /\ cproc' = [cproc EXCEPT ![c] = NULL]
  /\ cpc' = [cpc EXCEPT ![c] = "idle"]
  /\ scan' = [scan EXCEPT ![c] = NPROC]
  /\ ptlock' = NULL
  /\ UNCHANGED <<slotvars, timevars, tixvars, tickslock, pc, locals, globals>>
-----------------------------------------------------------------------------
(* The process side of a swtch *)

\* A new process starts in forkret(): release(&ptable.lock), then trapret.
ForkRet(c) ==
  /\ cpc[c] = "switched"
  /\ pc[cproc[c]] = "forkret"
  /\ Goto(c, "user")
  /\ cpc' = [cpc EXCEPT ![c] = "run"]
  /\ ptlock' = NULL
  /\ UNCHANGED <<slotvars, timevars, tixvars, tickslock, cproc, scan, locals, globals>>

\* Fault: only system calls look at killed.
DiesInUser_Never(p) == FALSE

\* trap()'s test of killed, which spares a process interrupted in the kernel.
DiesInUser(p) == killed[p] /\ pc[p] = "user"

\* yield() returns from sched() and releases the lock.  A thread interrupted in
\* user mode then meets trap()'s last test of killed.
YieldReturn(c) ==
  /\ cpc[c] = "switched"
  /\ pc[cproc[c]] \notin {"forkret", "waiting", "napping", "zombie"}
  /\ Goto(c, IF DiesInUser(cproc[c]) THEN "exit" ELSE pc[cproc[c]])
  /\ cpc' = [cpc EXCEPT ![c] = "run"]
  /\ ptlock' = NULL
  /\ UNCHANGED <<slotvars, timevars, tixvars, tickslock, cproc, scan, locals, globals>>

\* sleep(&ticks, &tickslock) returns from sched(): chan = 0, release(&ptable.lock).
NapReturn(c) ==
  /\ cpc[c] = "switched"
  /\ pc[cproc[c]] = "napping"
  /\ chan' = [chan EXCEPT ![cproc[c]] = NULL]
  /\ Goto(c, "renap")
  /\ cpc' = [cpc EXCEPT ![c] = "run"]
  /\ ptlock' = NULL
  /\ UNCHANGED <<state, pid, parent, killed, timevars, tixvars, tickslock, cproc, scan,
                 locals, globals>>
-----------------------------------------------------------------------------
(* System call entry and return in trap() *)

\* A process makes a system call; trap() turns it into exit() if it is killed.
Syscall(c) ==
  /\ At(c, "user")
  /\ \E op \in (IF cproc[c] = initproc THEN InitOps ELSE UserOps) \ {"fault"} :
       /\ op = "fork" => nextpid <= MaxPid
       /\ Goto(c, IF killed[cproc[c]] THEN "exit" ELSE op)
  /\ UNCHANGED <<slotvars, timevars, tixvars, lockvars, cpuvars, locals, globals>>

\* syscall() returns to trap(), which tests killed again.
SyscallReturn(c) ==
  /\ At(c, "sysret")
  /\ Goto(c, IF killed[cproc[c]] THEN "exit" ELSE "user")
  /\ UNCHANGED <<slotvars, timevars, tixvars, lockvars, cpuvars, locals, globals>>

\* An unexpected trap in user mode: a message, killed = 1 without a lock, exit().
UserFault(c) ==
  /\ At(c, "user")
  /\ "fault" \in (IF cproc[c] = initproc THEN InitOps ELSE UserOps)
  /\ \A d \in CPUs : cpc[d] # "halted"
  /\ killed' = [killed EXCEPT ![cproc[c]] = TRUE]
  /\ Goto(c, "exit")
  /\ UNCHANGED <<state, pid, parent, chan, timevars, tixvars, lockvars, cpuvars, locals, globals>>

\* After a panic the first character of that message stops the processor too.
UserFaultFreezes(c) ==
  /\ At(c, "user")
  /\ "fault" \in (IF cproc[c] = initproc THEN InitOps ELSE UserOps)
  /\ \E d \in CPUs : cpc[d] = "halted"
  /\ cpc' = [cpc EXCEPT ![c] = "halted"]
  /\ UNCHANGED <<slotvars, timevars, tixvars, lockvars, cproc, scan, pc, locals, globals>>
-----------------------------------------------------------------------------
(* fork() and allocproc() *)

\* allocproc() finds no UNUSED slot; fork() returns -1.
ForkNoSlot(c) ==
  /\ At(c, "fork")
  /\ ptlock = NULL
  /\ Unused = {}
  /\ Goto(c, "sysret")
  /\ UNCHANGED <<slotvars, timevars, tixvars, lockvars, cpuvars, locals, globals>>

\* Fault: the pid is not used up.
PidAfter_Same(n) == n

\* nextpid++
PidAfter(n) == n + 1

\* allocproc()'s critical section.
AllocSlot(c) ==
  /\ At(c, "fork")
  /\ ptlock = NULL
  /\ \E q \in Slots :
       /\ IsFirst(q, Unused)
       /\ state' = [state EXCEPT ![q] = "EMBRYO"]
       /\ pid' = [pid EXCEPT ![q] = nextpid]
       /\ np' = [np EXCEPT ![cproc[c]] = q]
  /\ nextpid' = PidAfter(nextpid)
  /\ Goto(c, "alloc")
  /\ UNCHANGED <<parent, killed, chan, timevars, tixvars, lockvars, cpuvars, ticks0, nap, ticks,
                 scheduling_policy>>

\* kalloc() (in allocproc) or copyuvm() (in fork) fails: the slot is given back
\* without the lock and keeps its pid; fork() returns -1.
ForkNoMemory(c) ==
  /\ MemFails
  /\ At(c, "alloc") \/ At(c, "copy")
  /\ state' = [state EXCEPT ![np[cproc[c]]] = "UNUSED"]
  /\ np' = [np EXCEPT ![cproc[c]] = NULL]
  /\ Goto(c, "sysret")
  /\ UNCHANGED <<pid, parent, killed, chan, timevars, tixvars, lockvars, cpuvars, ticks0, nap,
                 globals>>

\* The rest of allocproc(), without the lock: the new context starts at forkret.
AllocInit(c) ==
  /\ At(c, "alloc")
  /\ LET q == np[cproc[c]]
     IN  /\ pc' = [pc EXCEPT ![q] = "forkret", ![cproc[c]] = "copy"]
         /\ ctime' = [ctime EXCEPT ![q] = ticks]
         /\ etime' = [etime EXCEPT ![q] = 0]
         /\ rtime' = [rtime EXCEPT ![q] = 0]
         /\ retime' = [retime EXCEPT ![q] = 0]
         /\ stime' = [stime EXCEPT ![q] = 0]
         /\ tickets' = [tickets EXCEPT ![q] = DefaultTickets]
         /\ original_tickets' = [original_tickets EXCEPT ![q] = DefaultTickets]
  /\ UNCHANGED <<slotvars, lockvars, cpuvars, locals, globals>>

\* fork() copies the parent into the slot, still without the lock.
ForkCopy(c) ==
  /\ At(c, "copy")
  /\ LET q == np[cproc[c]]
     IN  /\ parent' = [parent EXCEPT ![q] = cproc[c]]
         /\ tickets' = [tickets EXCEPT ![q] = Tix(tickets[cproc[c]])]
         /\ original_tickets' = [original_tickets EXCEPT ![q] = Tix(tickets[cproc[c]])]
  /\ Goto(c, "ready")
  /\ UNCHANGED <<state, pid, killed, chan, timevars, lockvars, cpuvars, locals, globals>>

\* fork()'s critical section: the child can be scheduled from here on.
ForkReady(c) ==
  /\ At(c, "ready")
  /\ ptlock = NULL
  /\ state' = [state EXCEPT ![np[cproc[c]]] = "RUNNABLE"]
  /\ np' = [np EXCEPT ![cproc[c]] = NULL]
  /\ Goto(c, "sysret")
  /\ UNCHANGED <<pid, parent, killed, chan, timevars, tixvars, lockvars, cpuvars, ticks0, nap,
                 globals>>
-----------------------------------------------------------------------------
(* exit() and wait() *)

\* exit() by init: panic("init exiting") stops this processor.  The others go on.
InitExit(c) ==
  /\ At(c, "exit")
  /\ cproc[c] = initproc
  /\ cpc' = [cpc EXCEPT ![c] = "halted"]
  /\ UNCHANGED <<slotvars, timevars, tixvars, lockvars, cproc, scan, pc, locals, globals>>

Children(p) == {q \in Slots : parent[q] = p}
ZombieChildren(p) == {q \in Children(p) : state[q] = "ZOMBIE"}

\* Fault: the children of an exiting process keep it as their parent.
Adopt_None(p) == parent

\* The children of p pass to init.
Adopt(p) == [q \in Slots |-> IF q \in Children(p) THEN initproc ELSE parent[q]]

\* Fault: only init is told, of the ZOMBIEs it inherits.
ExitWakeups_InitOnly(p) ==
  IF ZombieChildren(p) = {} THEN state ELSE Wakeup1(state, initproc)

\* p's parent is woken, and init when it inherits a ZOMBIE.
ExitWakeups(p) ==
  IF ZombieChildren(p) = {} THEN Wakeup1(state, parent[p])
  ELSE Wakeup1(Wakeup1(state, parent[p]), initproc)

\* exit()'s critical section: wake the parent, pass the children to init (waking
\* it for the ZOMBIE ones), become a ZOMBIE and switch away, lock held.
Exit(c) ==
  /\ At(c, "exit")
  /\ cproc[c] # initproc
  /\ ptlock = NULL
  /\ parent' = Adopt(cproc[c])
  /\ state' = [ExitWakeups(cproc[c]) EXCEPT ![cproc[c]] = "ZOMBIE"]
  /\ etime' = [etime EXCEPT ![cproc[c]] = ticks]
  /\ Goto(c, "zombie")
  /\ Sched(c)
  /\ UNCHANGED <<pid, killed, chan, ctime, rtime, stime, retime, tixvars, tickslock, cproc, scan,
                 locals, globals>>

\* The scan of wait() or waitx(): on entry, taking the lock, or when sleep()
\* returns with the lock still held since the swtch.
InWait(c) ==
  \/ /\ At(c, "wait") \/ At(c, "waitx")
     /\ ptlock = NULL
  \/ /\ cpc[c] = "switched"
     /\ pc[cproc[c]] = "waiting"

\* The scan finds a ZOMBIE child and frees its slot.
WaitReap(c) ==
  /\ InWait(c)
  /\ \E q \in Slots :
       /\ IsFirst(q, ZombieChildren(cproc[c]))
       /\ pid' = [pid EXCEPT ![q] = 0]
       /\ parent' = [parent EXCEPT ![q] = NULL]
       /\ killed' = [killed EXCEPT ![q] = FALSE]
       /\ state' = [state EXCEPT ![q] = "UNUSED"]
       /\ pc' = [pc EXCEPT ![q] = "gone", ![cproc[c]] = "sysret"]
  /\ chan' = [chan EXCEPT ![cproc[c]] = NULL]
  /\ ptlock' = NULL
  /\ cpc' = [cpc EXCEPT ![c] = "run"]
  /\ UNCHANGED <<timevars, tixvars, tickslock, cproc, scan, locals, globals>>

\* No child at all, or the caller is killed: -1.
WaitFail(c) ==
  /\ InWait(c)
  /\ ZombieChildren(cproc[c]) = {}
  /\ Children(cproc[c]) = {} \/ killed[cproc[c]]
  /\ Goto(c, "sysret")
  /\ chan' = [chan EXCEPT ![cproc[c]] = NULL]
  /\ ptlock' = NULL
  /\ cpc' = [cpc EXCEPT ![c] = "run"]
  /\ UNCHANGED <<state, pid, parent, killed, timevars, tixvars, tickslock, cproc, scan, locals,
                 globals>>

\* sleep(curproc, &ptable.lock).
WaitSleep(c) ==
  /\ InWait(c)
  /\ ZombieChildren(cproc[c]) = {}
  /\ Children(cproc[c]) # {} /\ ~killed[cproc[c]]
  /\ chan' = [chan EXCEPT ![cproc[c]] = cproc[c]]
  /\ state' = [state EXCEPT ![cproc[c]] = "SLEEPING"]
  /\ Goto(c, "waiting")
  /\ Sched(c)
  /\ UNCHANGED <<pid, parent, killed, timevars, tixvars, tickslock, cproc, scan, locals, globals>>

\* Fault: a negative difference is reported as it is.
WaitxWtime_NoGuard(q) == etime[q] - ctime[q] - rtime[q]

\* The wtime waitx() reports for the ZOMBIE q, next to rtime[q].
WaitxWtime(q) ==
  LET wt == etime[q] - ctime[q] - rtime[q] IN IF wt < 0 THEN 0 ELSE wt
-----------------------------------------------------------------------------
(* sys_sleep() *)

\* Fault: tickslock is released between the test and the sleep.
NapTest_Unlocked(c, t0, n) ==
  /\ Goto(c, IF (ticks - t0) % TickMod >= n \/ killed[cproc[c]] THEN "sysret" ELSE "doze")
  /\ ticks0' = [ticks0 EXCEPT ![cproc[c]] = t0]
  /\ nap' = [nap EXCEPT ![cproc[c]] = n]
  /\ UNCHANGED tickslock

\* The loop test of sys_sleep(), with tickslock just taken: done or killed, and
\* released again, or about to call sleep() with it held ("doze").
NapTest(c, t0, n) ==
  IF (ticks - t0) % TickMod >= n \/ killed[cproc[c]]
  THEN /\ Goto(c, "sysret")
       /\ ticks0' = [ticks0 EXCEPT ![cproc[c]] = 0]
       /\ nap' = [nap EXCEPT ![cproc[c]] = 0]
       /\ UNCHANGED tickslock
  ELSE /\ Goto(c, "doze")
       /\ ticks0' = [ticks0 EXCEPT ![cproc[c]] = t0]
       /\ nap' = [nap EXCEPT ![cproc[c]] = n]
       /\ tickslock' = c

\* sys_sleep() up to its first test; a negative n returns -1.
Nap(c) ==
  /\ At(c, "sleep")
  /\ \E n \in SleepArgs :
       IF n < 0 THEN Goto(c, "sysret") /\ UNCHANGED <<ticks0, nap, tickslock>>
       ELSE tickslock = NULL /\ NapTest(c, ticks, n)
  /\ UNCHANGED <<slotvars, timevars, tixvars, ptlock, cpuvars, np, globals>>

\* sleep() takes tickslock back and sys_sleep() tests again.
NapAgain(c) ==
  /\ At(c, "renap")
  /\ tickslock = NULL
  /\ NapTest(c, ticks0[cproc[c]], nap[cproc[c]])
  /\ UNCHANGED <<slotvars, timevars, tixvars, ptlock, cpuvars, np, globals>>

\* sleep(&ticks, &tickslock): takes ptable.lock, only then releases tickslock.
NapSleep(c) ==
  /\ At(c, "doze")
  /\ ptlock = NULL
  /\ tickslock' = NULL
  /\ chan' = [chan EXCEPT ![cproc[c]] = TICKS]
  /\ state' = [state EXCEPT ![cproc[c]] = "SLEEPING"]
  /\ Goto(c, "napping")
  /\ Sched(c)
  /\ UNCHANGED <<pid, parent, killed, timevars, tixvars, cproc, scan, locals, globals>>
-----------------------------------------------------------------------------
(* kill(), yield() and the scheduling system calls *)

\* Fault: a killed process is made RUNNABLE whatever it was.
KillWakes_Any(st) == IF st # "RUNNING" THEN "RUNNABLE" ELSE st

\* Wake process from sleep if necessary.
KillWakes(st) == IF st = "SLEEPING" THEN "RUNNABLE" ELSE st

\* kill(k): the first slot of that pid, whatever its state; -1 if there is none.
Kill(c) ==
  /\ At(c, "kill")
  /\ ptlock = NULL
  /\ \E k \in KillArgs :
       LET hits == {q \in Slots : pid[q] = k}
       IN  \/ hits = {} /\ UNCHANGED <<state, killed>>
           \/ \E q \in hits :
                /\ IsFirst(q, hits)
                /\ killed' = [killed EXCEPT ![q] = TRUE]
                /\ state' = [state EXCEPT ![q] = KillWakes(@)]
  /\ Goto(c, "sysret")
  /\ UNCHANGED <<pid, parent, chan, timevars, tixvars, lockvars, cpuvars, locals, globals>>

\* yield(), called by sys_yield() or by the timer interrupt.
Yield(c) ==
  /\ \/ At(c, "yield") /\ Goto(c, "sysret")
     \/ cpc[c] = "preempt" /\ UNCHANGED pc
  /\ ptlock = NULL
  /\ state' = [state EXCEPT ![cproc[c]] = "RUNNABLE"]
  /\ Sched(c)
  /\ UNCHANGED <<pid, parent, killed, chan, timevars, tixvars, tickslock, cproc, scan, locals,
                 globals>>

\* settickets(n): n < 1 is refused, otherwise the caller's tickets change.
SetTickets(c) ==
  /\ At(c, "settickets")
  /\ \E n \in TicketArgs :
       \/ n < 1 /\ UNCHANGED tickets
       \/ n >= 1 /\ ptlock = NULL /\ tickets' = [tickets EXCEPT ![cproc[c]] = n]
  /\ Goto(c, "sysret")
  /\ UNCHANGED <<slotvars, timevars, original_tickets, lockvars, cpuvars, locals, globals>>

\* Fault: any number becomes the policy.
PolicyAfter_Any(n) == n

\* An unknown policy is refused.
PolicyAfter(n) == IF n \in Policies THEN n ELSE scheduling_policy

\* setpolicy(n), without a lock.
SetPolicy(c) ==
  /\ At(c, "setpolicy")
  /\ \E n \in PolicyArgs : scheduling_policy' = PolicyAfter(n)
  /\ Goto(c, "sysret")
  /\ UNCHANGED <<slotvars, timevars, tixvars, lockvars, cpuvars, locals, nextpid, ticks>>

\* getpinfo() and sys_uptime() only read, each under its lock.
ReadOnlyCall(c) ==
  /\ \/ At(c, "getpinfo") /\ ptlock = NULL
     \/ At(c, "uptime") /\ tickslock = NULL
  /\ Goto(c, "sysret")
  /\ UNCHANGED <<slotvars, timevars, tixvars, lockvars, cpuvars, locals, globals>>
-----------------------------------------------------------------------------
(* The timer interrupt in trap() *)

\* Interrupts are on in user mode, in system calls that hold no spinlock, and at
\* the top of the scheduler loop.  Only processor 0 keeps time.
Timer(c) ==
  /\ cpc[c] \in {"idle", "run"}
  /\ tickslock # c
  /\ c = 0 => ticks # MaxTicks
  /\ cpc' = [cpc EXCEPT ![c] = IF c = 0 THEN "tick" ELSE "tail"]
  /\ UNCHANGED <<slotvars, timevars, tixvars, lockvars, cproc, scan, pc, locals, globals>>

\* acquire(&tickslock); ticks++.
TimerTick(c) ==
  /\ cpc[c] = "tick"
  /\ tickslock = NULL
  /\ tickslock' = c
  /\ ticks' = (ticks + 1) % TickMod
  /\ cpc' = [cpc EXCEPT ![c] = "wake"]
  /\ UNCHANGED <<slotvars, timevars, tixvars, ptlock, cproc, scan, pc, locals, nextpid,
                 scheduling_policy>>

\* wakeup(&ticks); release(&tickslock).
TimerWake(c) ==
  /\ cpc[c] = "wake"
  /\ ptlock = NULL
  /\ state' = Wakeup1(state, TICKS)
  /\ tickslock' = NULL
  /\ cpc' = [cpc EXCEPT ![c] = "account"]
  /\ UNCHANGED <<pid, parent, killed, chan, timevars, tixvars, ptlock, cproc, scan, pc, locals,
                 globals>>

\* Fault: the RUNNING case of the switch falls through to the others.
Charge_FallThrough(cnt, st) ==
  [q \in Slots |-> IF state[q] \in {st, "RUNNING"} THEN (cnt[q] + 1) % AcctMod ELSE cnt[q]]

\* One more tick in the counter of the state each slot is in.
Charge(cnt, st) ==
  [q \in Slots |-> IF state[q] = st THEN (cnt[q] + 1) % AcctMod ELSE cnt[q]]

\* The accounting loop, a second critical section of its own.
TimerAccount(c) ==
  /\ cpc[c] = "account"
  /\ ptlock = NULL
  /\ rtime' = Charge(rtime, "RUNNING")
  /\ retime' = Charge(retime, "RUNNABLE")
  /\ stime' = Charge(stime, "SLEEPING")
  /\ cpc' = [cpc EXCEPT ![c] = "tail"]
  /\ UNCHANGED <<slotvars, ctime, etime, tixvars, lockvars, cproc, scan, pc, locals, globals>>

\* Fault: the timer preempts under every policy.
Preempts_Always(p) == state[p] = "RUNNING"

\* trap()'s test before yield().
Preempts(p) == state[p] = "RUNNING" /\ scheduling_policy # FCFS

\* The end of trap(): exit() if killed in user mode, yield() unless the policy
\* is FCFS, else return to what was interrupted.
TimerTail(c) ==
  /\ cpc[c] = "tail"
  /\ IF cproc[c] = NULL
     THEN UNCHANGED pc /\ cpc' = [cpc EXCEPT ![c] = "idle"]
     ELSE IF DiesInUser(cproc[c])
     THEN Goto(c, "exit") /\ cpc' = [cpc EXCEPT ![c] = "run"]
     ELSE UNCHANGED pc /\ cpc' = [cpc EXCEPT ![c] = IF Preempts(cproc[c]) THEN "preempt" ELSE "run"]
  /\ UNCHANGED <<slotvars, timevars, tixvars, lockvars, cproc, scan, locals, globals>>
-----------------------------------------------------------------------------
\* What a processor does by itself once it is in the kernel.
Kernel(c) ==
  \/ SchedPick(c) \/ SchedNext(c) \/ SchedRelease(c)
  \/ ForkRet(c) \/ YieldReturn(c) \/ NapReturn(c)
  \/ SyscallReturn(c)
  \/ ForkNoSlot(c) \/ AllocSlot(c) \/ ForkNoMemory(c) \/ AllocInit(c) \/ ForkCopy(c) \/ ForkReady(c)
  \/ InitExit(c) \/ Exit(c)
  \/ WaitReap(c) \/ WaitFail(c) \/ WaitSleep(c)
  \/ Nap(c) \/ NapAgain(c) \/ NapSleep(c)
  \/ Kill(c) \/ Yield(c) \/ SetTickets(c) \/ SetPolicy(c) \/ ReadOnlyCall(c)
  \/ TimerTick(c) \/ TimerWake(c) \/ TimerAccount(c) \/ TimerTail(c)

\* The endless loop at the end of panic().
Halted(c) == cpc[c] = "halted" /\ UNCHANGED vars

Step(c) ==
  \/ Kernel(c) \/ SchedNone(c) \/ Halted(c)
  \/ Syscall(c) \/ UserFault(c) \/ UserFaultFreezes(c) \/ Timer(c)

Next == \E c \in CPUs : Step(c)

Spec == Init /\ [][Next]_vars
=============================================================================
