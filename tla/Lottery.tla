------------------------------ MODULE Lottery ------------------------------
(***************************************************************************)
(* The two loops of scheduler()'s lottery branch (proc.c), as operators on *)
(* the set run of RUNNABLE slots and the tickets of every slot.  C ints    *)
(* are signed two's-complement words of maximum IntMax (0x7fffffff in the  *)
(* code); the compiled kernel adds with a plain wrapping addl.             *)
(***************************************************************************)
EXTENDS Integers

CONSTANTS NPROC,    \* number of slots of ptable.proc
          IntMax    \* largest int

ASSUME NPROCAssumption == NPROC \in Nat \ {0}
ASSUME IntMaxAssumption == IntMax \in Nat \ {0}

Slots == 0 .. NPROC - 1

\* Signed addition of the target machine.
Wrap(x) == ((x + IntMax + 1) % (2 * (IntMax + 1))) - (IntMax + 1)

\* int t = (p->tickets > 0 ? p->tickets : 1)
Tix(t) == IF t > 0 THEN t ELSE 1

\* totaltix: the sum of the RUNNABLE slots' tickets, saturating at IntMax.
TotalTix(run, tix) ==
  LET tot[i \in 0 .. NPROC] ==
        IF i = 0 THEN 0
        ELSE IF i - 1 \notin run THEN tot[i - 1]
        ELSE IF tot[i - 1] <= IntMax - Tix(tix[i - 1])
        THEN tot[i - 1] + Tix(tix[i - 1])
        ELSE IntMax
  IN  tot[NPROC]

\* acc after the second loop has added the tickets of slots 0 .. i-1.
Acc(run, tix) ==
  LET acc[i \in 0 .. NPROC] ==
        IF i = 0 THEN 0
        ELSE IF i - 1 \notin run THEN acc[i - 1]
        ELSE Wrap(acc[i - 1] + Tix(tix[i - 1]))
  IN  acc

\* Fault: acc >= r ends the loop one ticket early.
Winner_Early(run, tix, r) ==
  LET acc == Acc(run, tix)
  IN  {p \in run : /\ acc[p + 1] >= r
                   /\ \A q \in run : q < p => acc[q + 1] < r}

\* The slot the second loop stops at for the drawn number r, if any.
Winner(run, tix, r) ==
  LET acc == Acc(run, tix)
  IN  {p \in run : /\ acc[p + 1] > r
                   /\ \A q \in run : q < p => acc[q + 1] <= r}

\* The numbers krand() % totaltix ranges over.
Draws(run, tix) == 0 .. TotalTix(run, tix) - 1
=============================================================================
