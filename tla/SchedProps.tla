----------------------------- MODULE SchedProps -----------------------------
(***************************************************************************)
(* What the scheduling work adds to the process table: the accounting of   *)
(* ticks, the three policies, what the documentation says of kill(), and   *)
(* liveness.                                                               *)
(***************************************************************************)
EXTENDS ProcProps, FiniteSets

(* Time *)

\* The ticks whose accounting loop has run: the timer interrupt increments ticks
\* and charges the processes in two critical sections.
Accounted == IF cpc[0] \in {"wake", "account"} THEN ticks - 1 ELSE ticks

\* A process is never charged more ticks than have passed since its creation, but
\* for the one tick that was counted, and not yet charged, when it was created.
ChargedOncePerTick ==
  \A p \in Slots :
    Live(p) =>
      rtime[p] + stime[p] + retime[p]
        <= (IF state[p] = "ZOMBIE" THEN etime[p] ELSE Accounted) - ctime[p] + 1

\* What waitx() reports of a ZOMBIE adds up: wtime is not negative and rtime +
\* wtime is its turnaround time, exactly or one tick too long.
WaitxAddsUp ==
  \A p \in Slots :
    state[p] = "ZOMBIE" =>
      /\ WaitxWtime(p) >= 0
      /\ rtime[p] + WaitxWtime(p) - (etime[p] - ctime[p]) \in {0, 1}
-----------------------------------------------------------------------------
(* Scheduling policies *)

\* Under FCFS a process leaves the processor only by its own doing: yield() is
\* the one way from RUNNING to RUNNABLE.  (For runs in which nobody calls
\* setpolicy(): the timer interrupt tests the policy some time before it yields.)
FCFSNoPreempt ==
  [][scheduling_policy = FCFS =>
       \A p \in Slots :
         state[p] = "RUNNING" /\ state'[p] = "RUNNABLE" => pc[p] = "yield"]_vars

\* First come, first served: of two processes that have never run, the one that
\* was created first is dispatched first.
FCFSFirstCome ==
  [][scheduling_policy = FCFS =>
       \A p, q \in Slots :
         /\ state[p] = "RUNNABLE" /\ state'[p] = "RUNNING" /\ pc[p] = "forkret"
         /\ state[q] = "RUNNABLE" /\ pc[q] = "forkret"
         => pid[p] <= pid[q]]_vars

\* The sums of the tickets of the RUNNABLE slots below i, as numbers and not as ints.
Share(p, run, tix) == IF p \in run THEN Tix(tix[p]) ELSE 0
TicketSum(run, tix) ==
  LET sum[i \in 0 .. NPROC] == IF i = 0 THEN 0 ELSE sum[i - 1] + Share(i - 1, run, tix)
  IN  sum

WinningDraws(p) == {r \in Draws(Runnable, tickets) : Winner(Runnable, tickets, r) = {p}}

\* Every lottery draw has a winner, and of the numbers that can be drawn a
\* RUNNABLE process wins on exactly as many as it has tickets, as long as the sum
\* of all tickets is an int.
LotteryProportional ==
  TicketSum(Runnable, tickets)[NPROC] <= IntMax =>
    /\ \A r \in Draws(Runnable, tickets) : Winner(Runnable, tickets, r) # {}
    /\ \A p \in Runnable : Cardinality(WinningDraws(p)) = Tix(tickets[p])

\* Every RUNNABLE process can win the lottery.
LotteryNonZero ==
  \A p \in Runnable : WinningDraws(p) # {}
-----------------------------------------------------------------------------
(* What kill() is documented to do *)

\* A new process has not been killed.
BornAlive ==
  [][\A p \in Slots : state[p] = "UNUSED" /\ state'[p] = "EMBRYO" => ~killed'[p]]_vars
-----------------------------------------------------------------------------
(* Liveness *)

Thread(p) == \E c \in CPUs : cproc[c] = p /\ cpc[c] = "run" /\ Kernel(c)
Calls(p, op) == \E c \in CPUs : cproc[c] = p /\ At(c, "user") /\ Goto(c, op) /\ Syscall(c)

\* A processor in the kernel keeps executing and its timer keeps firing; the timer
\* leaves time between interrupts, so that a scheduler, or a thread which is
\* dispatched again and again, gets on with what it does.  User programs owe nothing.
FairSpec ==
  /\ Spec
  /\ \A c \in CPUs : /\ WF_vars(Kernel(c))
                     /\ WF_vars(Timer(c))
                     /\ SF_vars(SchedPick(c))
  /\ \A p \in Slots : SF_vars(Thread(p))

\* The same, and every program ends by calling exit() at last, but for init, which
\* comes back to wait().
CompletingSpec ==
  /\ FairSpec
  /\ \A p \in Slots : SF_vars(Calls(p, IF p = initproc THEN "wait" ELSE "exit"))

\* No starvation: a RUNNABLE process gets the processor, whatever the others do
\* (round robin) or if they complete (FCFS).
NoStarvation ==
  \A p \in Slots : state[p] = "RUNNABLE" ~> state[p] = "RUNNING"

\* kill() is not lost, whatever the process was doing: in user mode, in fork(), in
\* wait(), or between sys_sleep()'s test of killed and its sleep.
KilledExits ==
  \A p \in Slots : killed[p] /\ Live(p) ~> state[p] \in {"ZOMBIE", "UNUSED"}
=============================================================================
