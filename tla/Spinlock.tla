------------------------------ MODULE Spinlock ------------------------------
(***************************************************************************)
(* Spin locks and the nesting of pushcli() (spinlock.c), with interrupts   *)
(* and with processes that sched() moves from one processor to another.    *)
(*                                                                         *)
(* A context is the kernel side of a process, or a processor's scheduler.  *)
(* calls[x] is what context x has still to do; the processor that runs x   *)
(* carries out the first call.  An interrupt puts the calls of its handler *)
(* in front.  ptable is the lock sched() is called with; handlers take any *)
(* of the locks in IrqLocks.                                               *)
(***************************************************************************)
EXTENDS Integers, Sequences, FiniteSets

CONSTANTS
  CPUs, Kthreads,   \* processors, processes
  Machines,         \* the processors started and the processes there are: pairs of sets
  IrqLocks          \* the locks interrupt handlers take, besides ptable

ASSUME SpinAssumption ==
  /\ "ptable" \notin IrqLocks
  /\ CPUs \cap Kthreads = {} /\ "unheld" \notin CPUs
  /\ Machines \subseteq (SUBSET CPUs) \X (SUBSET Kthreads)

VARIABLES
  locked,           \* lk->locked and lk->cpu: the processor that holds each lock, or Unheld
  ncli, intena,     \* of struct cpu
  iflag,            \* FL_IF of each processor
  on,               \* the context each processor runs
  calls,
  fault             \* the argument of the first panic()

spinvars == <<locked, ncli, intena, iflag, on, calls, fault>>

SpinLocks == IrqLocks \union {"ptable"}
Contexts == Kthreads \union CPUs        \* the scheduler of c is the context c
Unheld == "unheld"

\* acquire(l), release(l), a critical section, yield(), a turn of scheduler(), and a new
\* process: forkret(), then trapret.
AcquireOf(l) == << <<"readeflags", l>> >>
ReleaseOf(l) == << <<"release", l>>, <<"popcli">> >>
Critical(l) == AcquireOf(l) \o ReleaseOf(l)
YieldOf == AcquireOf("ptable") \o << <<"sched">> >> \o ReleaseOf("ptable")
SchedulerLoop == << <<"sti">> >> \o AcquireOf("ptable") \o << <<"pick">> >> \o ReleaseOf("ptable")

Forkret == ReleaseOf("ptable") \o << <<"iret">> >>

\* mpmain() on the processors that were started; the processes have yet to run forkret().
SpinInit ==
  /\ locked = [l \in SpinLocks |-> Unheld]
  /\ ncli = [c \in CPUs |-> 0] /\ intena = [c \in CPUs |-> FALSE]
  /\ iflag = [c \in CPUs |-> FALSE]
  /\ on = [c \in CPUs |-> c]
  /\ \E m \in Machines :
       calls = [x \in Contexts |-> IF x \in m[1] THEN <<>>
                                  ELSE IF x \in m[2] THEN Forkret ELSE << <<"never">> >>]
  /\ fault = ""
-----------------------------------------------------------------------------
Does(c, call) == fault = "" /\ calls[on[c]] # <<>> /\ Head(calls[on[c]])[1] = call
Goes(c, more) == calls' = [calls EXCEPT ![on[c]] = more \o Tail(@)]

\* pushcli(): "int eflags = readeflags()", still interruptible,
Readeflags(c) ==
  /\ Does(c, "readeflags")
  /\ Goes(c, << <<"cli", Head(calls[on[c]])[2], iflag[c]>> >>)
  /\ UNCHANGED <<locked, ncli, intena, iflag, on, fault>>

\* then the rest of it, and acquire()'s test, now uninterruptible.
Pushcli(c) ==
  LET l == Head(calls[on[c]])[2]
  IN  /\ Does(c, "cli")
      /\ iflag' = [iflag EXCEPT ![c] = FALSE]
      /\ ncli' = [ncli EXCEPT ![c] = @ + 1]
      /\ intena' = IF ncli[c] = 0 THEN [intena EXCEPT ![c] = Head(calls[on[c]])[3]] ELSE intena
      /\ fault' = IF locked[l] = c THEN "acquire" ELSE fault
      /\ Goes(c, << <<"xchg", l>> >>)
      /\ UNCHANGED <<locked, on>>

\* Fault: the lock is taken without looking.
Xchg_Blind(l) == TRUE

\* xchg() finds the lock free.
Xchg(l) == locked[l] = Unheld

Acquire(c) ==
  LET l == Head(calls[on[c]])[2]
  IN  /\ Does(c, "xchg") /\ Xchg(l)
      /\ locked' = [locked EXCEPT ![l] = c]
      /\ Goes(c, <<>>)
      /\ UNCHANGED <<ncli, intena, iflag, on, fault>>

\* release() up to its popcli().
Release(c) ==
  LET l == Head(calls[on[c]])[2]
  IN  /\ Does(c, "release")
      /\ IF locked[l] = c THEN locked' = [locked EXCEPT ![l] = Unheld] /\ UNCHANGED fault
         ELSE fault' = "release" /\ UNCHANGED locked
      /\ Goes(c, <<>>)
      /\ UNCHANGED <<ncli, intena, iflag, on>>

Popcli(c) ==
  /\ Does(c, "popcli")
  /\ ncli' = [ncli EXCEPT ![c] = @ - 1]
  /\ fault' = IF iflag[c] THEN "popcli - interruptible" ELSE IF ncli[c] < 1 THEN "popcli" ELSE fault
  /\ iflag' = IF ncli[c] = 1 /\ intena[c] THEN [iflag EXCEPT ![c] = TRUE] ELSE iflag
  /\ Goes(c, <<>>)
  /\ UNCHANGED <<locked, intena, on>>

\* sched(): its tests, then swtch() to the scheduler; intena is kept on the stack.
Sched(c) ==
  /\ Does(c, "sched")
  /\ fault' = IF locked["ptable"] # c THEN "sched ptable.lock"
              ELSE IF ncli[c] # 1 THEN "sched locks"
              ELSE IF iflag[c] THEN "sched interruptible" ELSE fault
  /\ on' = [on EXCEPT ![c] = c]
  /\ Goes(c, << <<"resumed", intena[c]>> >>)
  /\ UNCHANGED <<locked, ncli, intena, iflag>>

\* Fault: sched() does not restore intena.
Restored_Not(c, old) == intena[c]

Restored(c, old) == old

\* sched() after swtch(), maybe on another processor.
Resumed(c) ==
  /\ Does(c, "resumed")
  /\ intena' = [intena EXCEPT ![c] = Restored(c, Head(calls[on[c]])[2])]
  /\ Goes(c, <<>>)
  /\ UNCHANGED <<locked, ncli, iflag, on, fault>>

\* scheduler(): sti(), ptable.lock, some processes or none, again.
Scheduler(c) ==
  /\ fault = "" /\ on[c] = c /\ calls[c] = <<>>
  /\ calls' = [calls EXCEPT ![c] = SchedulerLoop]
  /\ UNCHANGED <<locked, ncli, intena, iflag, on, fault>>

Sti(c) ==
  /\ Does(c, "sti")
  /\ iflag' = [iflag EXCEPT ![c] = TRUE]
  /\ Goes(c, <<>>)
  /\ UNCHANGED <<locked, ncli, intena, on, fault>>

\* The chosen process continues in sched() or starts in forkret(); when it comes back
\* round robin looks for another.
Waiting(x) == /\ \A c \in CPUs : on[c] # x
              /\ calls[x] # <<>> /\ Head(calls[x])[1] \in {"resumed", "release"}
Pick(c) ==
  /\ Does(c, "pick")
  /\ \/ Goes(c, <<>>) /\ UNCHANGED on
     \/ \E x \in Kthreads : Waiting(x) /\ on' = [on EXCEPT ![c] = x] /\ UNCHANGED calls
  /\ UNCHANGED <<locked, ncli, intena, iflag, fault>>

\* A system call: a critical section, two nested ones, or giving up the processor.
SpinCall(c) ==
  /\ fault = "" /\ on[c] \in Kthreads /\ calls[on[c]] = <<>>
  /\ \E todo \in {YieldOf} \union {Critical(l) : l \in SpinLocks}
                 \union {AcquireOf(l) \o Critical("ptable") \o ReleaseOf(l) : l \in IrqLocks} :
       calls' = [calls EXCEPT ![on[c]] = todo]
  /\ UNCHANGED <<locked, ncli, intena, iflag, on, fault>>

\* An interrupt: the gate clears FL_IF, the handler takes a lock and may yield, and
\* iret sets the flag again.  The scheduler has no process to yield for.
Interrupt(c) ==
  /\ fault = "" /\ iflag[c]
  /\ iflag' = [iflag EXCEPT ![c] = FALSE]
  /\ \E l \in IrqLocks, yields \in {<<>>} \union (IF on[c] \in Kthreads THEN {YieldOf} ELSE {}) :
       calls' = [calls EXCEPT ![on[c]] = Critical(l) \o (yields \o (<< <<"iret">> >> \o @))]
  /\ UNCHANGED <<locked, ncli, intena, on, fault>>

Iret(c) ==
  /\ Does(c, "iret")
  /\ iflag' = [iflag EXCEPT ![c] = TRUE]
  /\ Goes(c, <<>>)
  /\ UNCHANGED <<locked, ncli, intena, on, fault>>

SpinStep(c) ==
  \/ Readeflags(c) \/ Pushcli(c) \/ Acquire(c) \/ Release(c) \/ Popcli(c)
  \/ Sched(c) \/ Resumed(c) \/ Scheduler(c) \/ Sti(c) \/ Pick(c) \/ SpinCall(c) \/ Iret(c)

SpinNext == \E c \in CPUs : SpinStep(c) \/ Interrupt(c)

SpinSpec == SpinInit /\ [][SpinNext]_spinvars
-----------------------------------------------------------------------------
\* Context x is between acquire(l) and release(l): it still has to release l, and not
\* first to acquire it.
InSection(x, l) ==
  \E i \in DOMAIN calls[x] :
    /\ calls[x][i] = <<"release", l>>
    /\ \A j \in 1 .. i - 1 : calls[x][j] \notin {<<"readeflags", l>>, <<"xchg", l>>,
                                                 <<"cli", l, TRUE>>, <<"cli", l, FALSE>>}

\* A lock protects: only one running context is between acquire and release of it, on
\* the processor recorded in lk->cpu, which has interrupts off.  So no processor spins on
\* a lock it holds itself, for an interrupt or otherwise, and none of the panics of
\* acquire, release, popcli and sched is reached.
LocksProtect ==
  /\ \A c \in CPUs, l \in SpinLocks :
       InSection(on[c], l) => locked[l] = c /\ ncli[c] > 0 /\ ~iflag[c]
  /\ fault = ""

\* A process that holds no lock and is not in an interrupt handler runs with interrupts
\* on, wherever it was moved: sched() of proc.c carries intena along.
InterruptsRestored ==
  \A c \in CPUs : on[c] \in Kthreads /\ calls[on[c]] = <<>> => iflag[c] /\ ncli[c] = 0
=============================================================================
