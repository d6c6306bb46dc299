-------------------------------- MODULE Pipe --------------------------------
(***************************************************************************)
(* One pipe (pipe.c) between processes that write, read, are killed, and   *)
(* close its ends.                                                         *)
(*                                                                         *)
(* A process holds p->lock from acquire() to release() or into sleep(), so *)
(* what it does in between is one step, but for one thing: kill() does not *)
(* take p->lock, so the test of killed and the sleep() after it are steps  *)
(* of their own, with the lock held from the one to the other.             *)
(***************************************************************************)
EXTENDS Integers, Sequences, FiniteSets

CONSTANTS
  PIPESIZE,   \* bytes the pipe holds
  UINTS,      \* numbers a uint can hold: 2^32
  Writers, Readers,
  Bufs,       \* what a pipewrite() may be given
  Sizes       \* how much a piperead() may ask for

ASSUME PipeAssumption ==
  /\ PIPESIZE \in Nat \ {0} /\ UINTS \in Nat /\ PIPESIZE < UINTS /\ UINTS % PIPESIZE = 0
  /\ Writers \cap Readers = {} /\ "no one" \notin Writers \union Readers
  /\ Bufs \subseteq Seq(Nat) /\ Sizes \subseteq Nat \ {0}

VARIABLES
  data, nread, nwrite,  \* of struct pipe
  open,                 \* the ends that are: readopen, writeopen
  plock,                \* the process that holds p->lock, or NoOne
  pcall,                \* the call of each process: Idle, or its buf or n
  psleep,               \* the channel each process sleeps on, or Awake
  pkilled,              \* the killed processes
  pgot                  \* the bytes the last piperead() delivered

pipevars == <<data, nread, nwrite, open, plock, pcall, psleep, pkilled, pgot>>

Users == Writers \union Readers
NoOne == "no one"
Awake == "awake"
Idle == [op |-> "idle"]

\* After pipealloc(); kfree() had filled the page with ones.
PipeInit ==
  /\ data = [i \in 0 .. PIPESIZE - 1 |-> 1]
  /\ nread = 0 /\ nwrite = 0
  /\ open = {"read", "write"}
  /\ plock = NoOne
  /\ pcall = [t \in Users |-> Idle]
  /\ psleep = [t \in Users |-> Awake]
  /\ pkilled = {}
  /\ pgot = <<>>
-----------------------------------------------------------------------------
\* uint arithmetic, for the sums and differences that occur.
Plus(m, n) == IF m + n < UINTS THEN m + n ELSE m + n - UINTS
Minus(m, n) == IF m >= n THEN m - n ELSE m - n + UINTS

Full == nwrite = Plus(nread, PIPESIZE)
Used == Minus(nwrite, nread)

\* Fault: the index stops at the end of the buffer instead of wrapping.
PipeAt_Last(n) == IF n < PIPESIZE THEN n ELSE PIPESIZE - 1

\* data[n % PIPESIZE]
PipeAt(n) == n % PIPESIZE

\* wakeup(chan), from a process that holds p->lock.
PipeWakeup(chan) ==
  psleep' = [t \in Users |-> IF psleep[t] = chan THEN Awake ELSE psleep[t]]

\* A process that may enter, or reenter after sleep(), its critical section.
Enters(t, op) == plock = NoOne /\ psleep[t] = Awake /\ pcall[t].op = op

\* A system call on an end that is open; trap() lets a killed process make none.
PipeCall(t) ==
  /\ pcall[t] = Idle /\ t \notin pkilled
  /\ \/ /\ t \in Writers /\ "write" \in open
        /\ \E buf \in Bufs : pcall' = [pcall EXCEPT ![t] = [op |-> "write", buf |-> buf]]
     \/ /\ t \in Readers /\ "read" \in open
        /\ \E n \in Sizes : pcall' = [pcall EXCEPT ![t] = [op |-> "read", n |-> n]]
  /\ UNCHANGED <<data, nread, nwrite, open, plock, psleep, pkilled, pgot>>

\* The bytes of buf that fit, at the end of what is there.
Fill(buf, n) ==
  /\ data' = [i \in 0 .. PIPESIZE - 1 |->
                LET new == {j \in 1 .. n : PipeAt(Plus(nwrite, j - 1)) = i}
                IN  IF new = {} THEN data[i] ELSE buf[CHOOSE j \in new : TRUE]]
  /\ nwrite' = Plus(nwrite, n)

\* pipewrite(): all that is left fits.
PipewriteAll(t) ==
  LET buf == pcall[t].buf
  IN  /\ Enters(t, "write") /\ Len(buf) <= PIPESIZE - Used
      /\ Fill(buf, Len(buf))
      /\ PipeWakeup("nread")
      /\ pcall' = [pcall EXCEPT ![t] = Idle]
      /\ UNCHANGED <<nread, open, plock, pkilled, pgot>>

\* It fills the pipe and returns -1: no reader, or killed.
PipewriteFails(t) ==
  LET room == PIPESIZE - Used
  IN  /\ Enters(t, "write") /\ Len(pcall[t].buf) > room
      /\ "read" \notin open \/ t \in pkilled
      /\ Fill(pcall[t].buf, room)
      /\ pcall' = [pcall EXCEPT ![t] = Idle]
      /\ UNCHANGED <<nread, open, plock, psleep, pkilled, pgot>>

\* Fault: the readers are not woken before the writer sleeps.
FullWakeup_Not == UNCHANGED psleep

\* DOC: pipewrite-sleep
FullWakeup == PipeWakeup("nread")

\* It fills the pipe, and is about to sleep.
PipewriteFull(t) ==
  LET room == PIPESIZE - Used
      buf == pcall[t].buf
  IN  /\ Enters(t, "write") /\ Len(buf) > room
      /\ "read" \in open /\ t \notin pkilled
      /\ Fill(buf, room)
      /\ FullWakeup
      /\ pcall' = [pcall EXCEPT ![t].buf = SubSeq(buf, room + 1, Len(buf))]
      /\ plock' = t
      /\ UNCHANGED <<nread, open, pkilled, pgot>>

\* sleep(chan, &p->lock), chan being &p->nwrite or &p->nread.
PipeSleep(t) ==
  /\ plock = t
  /\ plock' = NoOne
  /\ psleep' = [psleep EXCEPT ![t] = IF t \in Writers THEN "nwrite" ELSE "nread"]
  /\ UNCHANGED <<data, nread, nwrite, open, pcall, pkilled, pgot>>

\* piperead() of an empty pipe: about to sleep, or -1.
PipereadEmpty(t) ==
  /\ Enters(t, "read") /\ nread = nwrite /\ "write" \in open
  /\ IF t \in pkilled THEN pcall' = [pcall EXCEPT ![t] = Idle] /\ UNCHANGED plock
     ELSE plock' = t /\ UNCHANGED pcall
  /\ UNCHANGED <<data, nread, nwrite, open, psleep, pkilled, pgot>>

\* Fault: the writers are not woken.
ReadWakeup_Not == UNCHANGED psleep

\* DOC: piperead-wakeup
ReadWakeup == PipeWakeup("nwrite")

\* piperead() of what there is.
Piperead(t) ==
  LET n == IF pcall[t].n <= Used THEN pcall[t].n ELSE Used
  IN  /\ Enters(t, "read") /\ (nread # nwrite \/ "write" \notin open)
      /\ pgot' = [i \in 1 .. n |-> data[PipeAt(Plus(nread, i - 1))]]
      /\ nread' = Plus(nread, n)
      /\ ReadWakeup
      /\ pcall' = [pcall EXCEPT ![t] = Idle]
      /\ UNCHANGED <<data, nwrite, open, plock, pkilled>>

\* pipeclose(), when fileclose() drops the last reference to an end: no call on
\* that end is then under way.
Pipeclose(end) ==
  LET others == IF end = "write" THEN Writers ELSE Readers
  IN  /\ end \in open /\ plock = NoOne
      /\ \A t \in others : pcall[t] = Idle
      /\ open' = open \ {end}
      /\ PipeWakeup(IF end = "write" THEN "nread" ELSE "nwrite")
      /\ UNCHANGED <<data, nread, nwrite, plock, pcall, pkilled, pgot>>

\* kill(): under ptable.lock only.
PipeKill(t) ==
  /\ t \notin pkilled
  /\ pkilled' = pkilled \union {t}
  /\ psleep' = [psleep EXCEPT ![t] = Awake]
  /\ UNCHANGED <<data, nread, nwrite, open, plock, pcall, pgot>>

\* What a process does by itself once it made the call.
PipeStep(t) ==
  \/ PipewriteAll(t) \/ PipewriteFails(t) \/ PipewriteFull(t)
  \/ PipereadEmpty(t) \/ Piperead(t) \/ PipeSleep(t)

PipeNext ==
  \/ \E t \in Users : PipeCall(t) \/ PipeStep(t) \/ PipeKill(t)
  \/ \E end \in {"read", "write"} : Pipeclose(end)

PipeSpec == PipeInit /\ [][PipeNext]_pipevars
-----------------------------------------------------------------------------
Contents == [i \in 1 .. Used |-> data[PipeAt(Plus(nread, i - 1))]]
Unwritten == [t \in Users |-> IF pcall[t].op = "write" THEN pcall[t].buf ELSE <<>>]

Queue == INSTANCE Fifo WITH
  Capacity <- PIPESIZE, Offers <- Bufs, q <- Contents, last <- pgot, ends <- open, left <- Unwritten

\* The pipe is a bounded FIFO queue: the bytes given to pipewrite() come out of piperead()
\* in order, each once, through any wrapping of nread and nwrite, and the end of file comes
\* after the last byte.
\* (pipewrite, piperead and pipeclose of pipe.c)
PipeIsFifo == Queue!FifoSpec

\* Nobody sleeps on a condition that has come about: a sleeping writer finds the pipe
\* full and the read end open; a sleeping reader finds it empty and the write end open.
\* The one exception is in pipewrite(): a killed writer that fills the pipe returns
\* without waking the readers.
PipeSleepersDue ==
  \A t \in Users :
    /\ psleep[t] = "nwrite" => Full /\ "read" \in open
    /\ psleep[t] = "nread" => /\ "write" \in open
                              /\ nread = nwrite \/ Writers \cap pkilled # {}

\* As long as some process is in piperead() and there are bytes, they are delivered again
\* and again: the wakeups of pipewrite() and pipeclose() are enough, once more but for a
\* killed writer.
PipeDelivers ==
  <>[](nread # nwrite /\ Writers \cap pkilled = {} /\ \E t \in Readers : pcall[t].op = "read")
    => []<><<nread' # nread>>_pipevars
=============================================================================
