------------------------------ MODULE ProcProps ------------------------------
(***************************************************************************)
(* What the process table promises: the safety properties of Proc that     *)
(* hold for every workload.                                                *)
(***************************************************************************)
EXTENDS Proc

\* The types of the variables, by the groups of Proc.
SlotTypes ==
  /\ state \in [Slots -> ProcState]
  /\ pid \in [Slots -> Nat]
  /\ parent \in [Slots -> Slots \union {NULL}]
  /\ killed \in [Slots -> BOOLEAN]
  /\ chan \in [Slots -> Slots \union {NULL, TICKS}]
TimeTypes ==
  /\ ctime \in [Slots -> 0 .. TickMod - 1]
  /\ etime \in [Slots -> 0 .. TickMod - 1]
  /\ rtime \in [Slots -> 0 .. AcctMod - 1]
  /\ stime \in [Slots -> 0 .. AcctMod - 1]
  /\ retime \in [Slots -> 0 .. AcctMod - 1]
TicketTypes ==
  /\ tickets \in [Slots -> Nat]
  /\ original_tickets \in [Slots -> Nat]
CpuTypes ==
  /\ ptlock \in CPUs \union {NULL}
  /\ tickslock \in CPUs \union {NULL}
  /\ cproc \in [CPUs -> Slots \union {NULL}]
  /\ cpc \in [CPUs -> Stages]
  /\ scan \in [CPUs -> 0 .. NPROC]
ThreadTypes ==
  /\ pc \in [Slots -> Threads]
  /\ np \in [Slots -> Slots \union {NULL}]
  /\ ticks0 \in [Slots -> 0 .. TickMod - 1]
  /\ nap \in [Slots -> Nat]
GlobalTypes ==
  /\ nextpid \in Nat \ {0}
  /\ ticks \in 0 .. TickMod - 1
  /\ scheduling_policy \in Policies

\* Every variable keeps its type; the clock and the counters stay uints, and no
\* argument of setpolicy() leaves an unknown policy behind.
TypeOK ==
  SlotTypes /\ TimeTypes /\ TicketTypes /\ CpuTypes /\ ThreadTypes /\ GlobalTypes

Live(p) == state[p] \notin {"UNUSED", "EMBRYO"}

\* No process is on two processors, a process is RUNNING exactly while some
\* processor is in its context, and a processor never stands on the stack of a
\* slot that wait() has freed: ptable.lock is held across swtch() so that nobody
\* can pick, or reap, a process whose processor has not left it yet.
OnOneProcessor ==
  /\ \A c, d \in CPUs : cproc[c] # NULL /\ cproc[c] = cproc[d] => c = d
  /\ \A p \in Slots :
       state[p] = "RUNNING" <=> \E c \in CPUs : cproc[c] = p /\ cpc[c] # "resumed"
  /\ \A c \in CPUs : cproc[c] # NULL => Live(cproc[c])

\* Somebody can always wait for a process: every process but init has a parent,
\* and the parent has neither exited nor been freed (exit() passes the children on).
ParentAlive ==
  \A p \in Slots \ {initproc} :
    Live(p) => /\ parent[p] # NULL
               /\ Live(parent[p])
               /\ state[parent[p]] # "ZOMBIE"

\* No wakeup of wait() is lost: a process asleep in wait() or waitx() has a child
\* to wait for, none of them is a ZOMBIE yet, and it has not been killed.
WaiterNotForgotten ==
  \A p \in Slots :
    state[p] = "SLEEPING" /\ chan[p] = p =>
      /\ Children(p) # {}
      /\ ZombieChildren(p) = {}
      /\ ~killed[p]

\* No wakeup of sys_sleep() is lost: whoever sleeps on &ticks is not due yet, or
\* the timer interrupt that made it due is about to call wakeup(&ticks).
SleeperNotForgotten ==
  \A p \in Slots :
    state[p] = "SLEEPING" /\ chan[p] = TICKS =>
      \/ (ticks - ticks0[p]) % TickMod < nap[p]
      \/ cpc[0] = "wake"

\* A pid names one process: no two slots in use have the same pid, and none has
\* the pid 0 of a free slot.
PidsDistinct ==
  \A p, q \in Slots :
    state[p] # "UNUSED" /\ state[q] # "UNUSED" =>
      /\ pid[p] \in 1 .. nextpid - 1
      /\ pid[p] = pid[q] => p = q

\* An EMBRYO belongs to the one fork() that is filling it in without the lock, so
\* its slot can neither leak nor be given to a second fork().
EmbryoOwned ==
  /\ \A q \in Slots :
       state[q] = "EMBRYO" <=> \E p \in Slots : np[p] = q
  /\ \A p, q \in Slots : np[p] # NULL /\ np[p] = np[q] => p = q

\* exit() never returns from sched(), into panic("zombie exit"): nothing makes a
\* ZOMBIE RUNNABLE again, so none is ever switched to.
NoZombieExit ==
  \A c \in CPUs : cpc[c] = "switched" => pc[cproc[c]] # "zombie"

\* What a step may do to slot p: a ZOMBIE leaves the table only as its parent's
\* wait() returns, and a slot comes into use only when its fork() makes it RUNNABLE.
LifeCycleStep(p) ==
  /\ state[p] = "ZOMBIE" /\ state'[p] # "ZOMBIE" =>
       /\ state'[p] = "UNUSED"
       /\ pc[parent[p]] \in {"wait", "waitx", "waiting"}
       /\ pc'[parent[p]] = "sysret"
  /\ state[p] \in {"UNUSED", "EMBRYO"} /\ state'[p] \notin {"UNUSED", "EMBRYO"} =>
       /\ state[parent[p]] = "RUNNING"
       /\ pc[parent[p]] = "ready"
       /\ np[parent[p]] = p

\* Processes neither revive nor vanish: exit() is undone only by the wait() of the
\* process's parent, and nothing but fork() makes a free slot used, whatever kill(),
\* wakeup() and the scheduler do in between.
SlotLifeCycle == [][\A p \in Slots : LifeCycleStep(p)]_vars
==============================================================================
