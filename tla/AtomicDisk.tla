----------------------------- MODULE AtomicDisk -----------------------------
(***************************************************************************)
(* What the log promises to the file system: a disk whose contents change  *)
(* from one point where no operation is open to a later one, all at once.  *)
(* now is what the running system sees, saved what a crash falls back to.  *)
(***************************************************************************)
CONSTANTS Block,
          Op        \* the operations: each writes its own name

VARIABLES now, saved,
          open      \* the operations that have begun and not ended

vars == <<now, saved, open>>

Init == /\ \E v \in Op : now = [b \in Block |-> v]
        /\ saved = now
        /\ open = {}

Begin(o) == o \notin open /\ open' = open \union {o} /\ UNCHANGED <<now, saved>>

Write(o, b) == o \in open /\ now' = [now EXCEPT ![b] = o] /\ UNCHANGED <<saved, open>>

End(o) == o \in open /\ open' = open \ {o} /\ UNCHANGED <<now, saved>>

\* The only step that makes anything durable, and it takes everything.
Save == open = {} /\ saved' = now /\ UNCHANGED <<now, open>>

Crash == now' = saved /\ open' = {} /\ UNCHANGED saved

Next == \/ \E o \in Op : Begin(o) \/ End(o) \/ \E b \in Block : Write(o, b)
        \/ Save \/ Crash

Spec == Init /\ [][Next]_vars
=============================================================================
