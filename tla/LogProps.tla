------------------------------ MODULE LogProps ------------------------------
(***************************************************************************)
(* What the block layer and the log promise.                               *)
(***************************************************************************)
EXTENDS Log

\* What a reboot would find in block b: the log's copy if the header lists it.
Recovered(b) ==
  LET h == disk[logstart]
  IN  IF b \in Range(h) THEN disk[Slot(CHOOSE i \in DOMAIN h : h[i] = b)] ELSE disk[b]

\* What bread(b) would return.
Seen(b) ==
  LET c == {i \in Cached(b) : buf[i].valid}
  IN  IF ~up THEN Recovered(b)
      ELSE IF c # {} THEN buf[CHOOSE i \in c : TRUE].data ELSE disk[b]

Abstract == INSTANCE AtomicDisk WITH
  Block <- HomeBlocks, Op <- 0 .. Max({r.ops : r \in Budgets}),
  now   <- [b \in HomeBlocks |-> Seen(b)],
  saved <- [b \in HomeBlocks |-> Recovered(b)],
  open  <- {op[t] : t \in Threads} \ {0}

\* The log makes operations atomic (log.c:7-19): at every moment a crash followed
\* by recovery yields the updates of all operations up to some commit and
\* of none after it, also when the crash hits commit() or recovery itself, and
\* bread() always returns the latest update.
AtomicOps == Abstract!Spec

\* log_write() pins what it logs (log.c:205, 231): until the transaction commits,
\* the cache holds the block, marked dirty and holding data newer than the disk's.
Pinned ==
  up /\ ~committing => \A b \in Range(lh) : \E i \in Cached(b) : buf[i].valid /\ buf[i].dirty

\* No two buffers are for the same block: what bget()'s two loops (bio.c:66-86) maintain.
NoTwins ==
  \A i, j \in Bufs : i # j /\ buf[i].blockno = buf[j].blockno => buf[i].blockno = NoBlock

\* The buffer cache keeps at most one buffer per block (bio.c:57-88): two threads
\* that miss at the same time must not both recycle one; and a buffer is
\* recycled only when no thread holds it, waits for its lock or has it queued.
OneBufferPerBlock ==
  /\ NoTwins
  /\ \A i \in Bufs : (\/ locked[i] # NULL \/ i \in Range(idequeue)
                      \/ \E t \in Threads : chan[t] \in {LockChan(i), IoChan(i)})
                     => buf[i].refcnt > 0

\* No request is lost between iderw() and ideintr() (ide.c:102-168): a thread asleep
\* on its buffer has it queued exactly once, and a queued buffer is
\* locked by a thread asleep on it.
RequestsQueued ==
  /\ \A i, j \in DOMAIN idequeue : idequeue[i] = idequeue[j] => i = j
  /\ \A t \in Threads, i \in Bufs :
       chan[t] = IoChan(i) => locked[i] = t /\ i \in Range(idequeue)
  /\ \A i \in Range(idequeue) : chan[locked[i]] = IoChan(i)

\* Whoever sleeps in acquiresleep() (sleeplock.c:24-28) does so on a lock that is held, and
\* whose holder will call releasesleep().
SleepersWaitForHolder ==
  \A t \in Threads, i \in Bufs : chan[t] = LockChan(i) => locked[i] # NULL

\* Nobody sleeps on a sleep lock that is free (sleeplock.c:18-38), and nobody
\* waits in begin_op() unless a commit or an open operation will wake it
\* (log.c:130-136, 158-161, 171).
SleepersHaveWaker ==
  /\ SleepersWaitForHolder
  /\ \A t \in Threads : chan[t] = LOG => committing \/ outstanding > 0

\* begin_op() reserves log space (log.c:132): what is logged and what the open
\* operations may still log fits in the header.  So no panic of the block layer and the
\* log is reached: the transaction fits the log, log_write() and end_op() find it open
\* (log.c:152, 218-221), there is a free buffer (bio.c:87), and a buffer is locked and
\* has something to transfer when the driver gets it (ide.c:142-145).  (log.size - 1 is one
\* less than the LOGSIZE that begin_op() promises; operations that log as many distinct
\* blocks are not in the runs.)
SpaceReserved ==
  /\ Len(lh) + MapThenSumSet(LAMBDA t : MAXOPBLOCKS - Cardinality(Range(logged[t])),
                             {t \in Threads : op[t] # 0}) <= LOGSIZE
  /\ panicked = ""

\* An operation that has called begin_op() gets in, and one that got in ends with
\* its updates committed or given up in a crash (log.c:125-174).
OpsFinish ==
  \A t \in Threads : (todo[t] # <<>> \/ op[t] # 0) ~> (todo[t] = <<>> /\ op[t] = 0)
=============================================================================
