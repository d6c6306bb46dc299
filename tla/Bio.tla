-------------------------------- MODULE Bio --------------------------------
(***************************************************************************)
(* The block layer: sleep locks (sleeplock.c), the buffer cache (bio.c)    *)
(* and the disk driver's request queue (ide.c).                            *)
(*                                                                         *)
(* A kernel thread is a list todo[t] of the calls it still has to make.    *)
(* Each step carries out the first one: a whole critical section, or the   *)
(* code between two of them.  A call that calls others puts them in its    *)
(* place.  chan[t] is what t sleeps on, AWAKE if on nothing.             *)
(***************************************************************************)
EXTENDS Integers, Sequences, FiniteSets, FiniteSetsExt

CONSTANTS
  Threads,     \* the processes that enter the file system
  NBUF,        \* size of the buffer cache
  Blocks       \* the block numbers of the disk

ASSUME NBUFAssumption == NBUF \in Nat \ {0}
ASSUME BlocksAssumption == Blocks \subseteq Nat
ASSUME ThreadsAssumption == 0 \notin Threads /\ IsFiniteSet(Threads)

VARIABLES
  buf,         \* struct buf: blockno, valid, dirty, refcnt, data
  lru,         \* bcache.head's list, most recently used first
  locked,      \* the process that holds each buffer's sleep lock
  idequeue,    \* the driver's queue; the disk works on its head
  disk,        \* what each block of the disk holds
  chan,        \* what each thread sleeps on
  todo,        \* the calls each thread has yet to make
  panicked     \* the argument of panic(), "" as long as there was none

iovars == <<buf, lru, locked, idequeue, disk, chan, todo, panicked>>

Bufs == 1 .. NBUF
NULL == 0
NoBlock == -1                       \* a buffer of device 0: matches no block

\* The channels: the sleep lock in a buffer, and the buffer itself.
AWAKE == <<"awake", 0>>
LockChan(i) == <<"lock", i>>
IoChan(i) == <<"io", i>>

\* binit(): empty buffers, none locked.
EmptyBufs == [i \in Bufs |-> [blockno |-> NoBlock, valid |-> FALSE, dirty |-> FALSE,
                              refcnt |-> 0, data |-> 0]]
BootOrder == [i \in Bufs |-> NBUF + 1 - i]

\* t is awake and about to make the call named op.
Calls(t, op) == /\ panicked = "" /\ chan[t] = AWAKE
                /\ todo[t] # <<>> /\ Head(todo[t])[1] = op
Arg(t) == Head(todo[t])[2]

\* The call is over, or goes on with the calls of more.
Then(t, more) == todo' = [todo EXCEPT ![t] = more \o Tail(@)]
Return(t) == Then(t, <<>>)

Sleep(t, ch) == chan' = [chan EXCEPT ![t] = ch]
Wakeup(ch) == chan' = [t \in Threads |-> IF chan[t] = ch THEN AWAKE ELSE chan[t]]

\* What the callers write: bread(b), bwrite(b) and brelse(b) of the buffer of block b.
Bread(b) == <<"bget", b>>
Bwrite(b) == <<"bwrite", b>>
Brelse(b) == <<"brelse", b>>

\* The buffer of block b that t has locked: the pointer bread(b) returned.
Mine(t, b) == {i \in Bufs : locked[i] = t /\ buf[i].blockno = b}
-----------------------------------------------------------------------------
\* Fault: releasing a sleep lock wakes nobody.
Releasesleep_Silent(i) == locked' = [locked EXCEPT ![i] = NULL] /\ UNCHANGED chan

\* releasesleep(&b->lock)
Releasesleep(i) == locked' = [locked EXCEPT ![i] = NULL] /\ Wakeup(LockChan(i))

\* The buffer bget()'s first loop stops at.
Cached(b) == {i \in Bufs : buf[i].blockno = b}

\* Fault: the least recently used buffer is taken whoever refers to it.
Recyclable_InUse == {lru[Len(lru)]}

\* The buffer bget()'s second loop takes: the least recently used one nobody refers to.
Recyclable ==
  {i \in Bufs : \E k \in DOMAIN lru :
                 /\ lru[k] = i /\ buf[i].refcnt = 0
                 /\ \A j \in k + 1 .. Len(lru) : buf[lru[j]].refcnt # 0}

\* bget() under bcache.lock; bread() goes on with the lock and the contents.
Bget(t) ==
  LET hit == Cached(Arg(t))
      Take(i) == Then(t, << <<"acquiresleep", i>>, <<"fill", i>> >>)
  IN  /\ Calls(t, "bget")
      /\ IF hit # {}
         THEN \E i \in hit : /\ buf' = [buf EXCEPT ![i].refcnt = @ + 1]
                             /\ Take(i) /\ UNCHANGED panicked
         ELSE IF Recyclable # {}
         THEN \E i \in Recyclable :
                /\ buf' = [buf EXCEPT ![i] = [blockno |-> Arg(t), valid |-> FALSE,
                                              dirty |-> FALSE, refcnt |-> 1, data |-> @.data]]
                /\ Take(i) /\ UNCHANGED panicked
         ELSE panicked' = "bget: no buffers" /\ UNCHANGED <<buf, todo>>
      /\ UNCHANGED <<lru, locked, idequeue, disk, chan>>

\* acquiresleep(&b->lock): one turn of its loop.
Acquiresleep(t) ==
  /\ Calls(t, "acquiresleep")
  /\ LET i == Arg(t)
     IN  IF locked[i] # NULL
         THEN Sleep(t, LockChan(i)) /\ UNCHANGED <<locked, todo>>
         ELSE locked' = [locked EXCEPT ![i] = t] /\ Return(t) /\ UNCHANGED chan
  /\ UNCHANGED <<buf, lru, idequeue, disk, panicked>>

\* The rest of bread(): a buffer without the block's contents is read.
Fill(t) ==
  /\ Calls(t, "fill")
  /\ Then(t, IF buf[Arg(t)].valid THEN <<>> ELSE << <<"iderw", Arg(t)>> >>)
  /\ UNCHANGED <<buf, lru, locked, idequeue, disk, chan, panicked>>

\* bwrite()
BwriteCall(t) ==
  /\ Calls(t, "bwrite")
  /\ IF Mine(t, Arg(t)) = {}
     THEN panicked' = "bwrite" /\ UNCHANGED <<buf, todo>>
     ELSE \E i \in Mine(t, Arg(t)) : /\ buf' = [buf EXCEPT ![i].dirty = TRUE]
                                     /\ Then(t, << <<"iderw", i>> >>)
                                     /\ UNCHANGED panicked
  /\ UNCHANGED <<lru, locked, idequeue, disk, chan>>

\* iderw() up to its first sleep: the request is queued; the disk starts on it if it is alone.
Iderw(t) ==
  LET i == Arg(t)
  IN  /\ Calls(t, "iderw")
      /\ IF buf[i].valid /\ ~buf[i].dirty
         THEN /\ panicked' = "iderw: nothing to do"
              /\ UNCHANGED <<idequeue, chan, todo>>
         ELSE /\ idequeue' = Append(idequeue, i)
              /\ Sleep(t, IoChan(i))
              /\ Then(t, << <<"iowait", i>> >>)
              /\ UNCHANGED panicked
      /\ UNCHANGED <<buf, lru, locked, disk>>

\* iderw()'s loop after a wakeup.
Iowait(t) ==
  LET b == buf[Arg(t)]
  IN  /\ Calls(t, "iowait")
      /\ IF b.valid /\ ~b.dirty THEN Return(t) /\ UNCHANGED chan
                                ELSE Sleep(t, IoChan(Arg(t))) /\ UNCHANGED todo
      /\ UNCHANGED <<buf, lru, locked, idequeue, disk, panicked>>

\* Fault: the handler takes the newest request for the finished one.
Active_Newest == idequeue[Len(idequeue)]

\* First queued buffer is the active request.
Active == Head(idequeue)

\* The disk finishes the request at the head (a block is written whole or not
\* at all) and ideintr() handles its interrupt and starts the next one.
Ideintr ==
  /\ panicked = "" /\ idequeue # <<>>
  /\ LET i == Active
     IN  /\ idequeue' = Tail(idequeue)
         /\ disk' = IF buf[i].dirty THEN [disk EXCEPT ![buf[i].blockno] = buf[i].data] ELSE disk
         /\ buf' = [buf EXCEPT ![i].valid = TRUE, ![i].dirty = FALSE,
                               ![i].data = disk'[buf[i].blockno]]
         /\ Wakeup(IoChan(i))
  /\ UNCHANGED <<lru, locked, todo, panicked>>

\* brelse(): releasesleep(), before bcache.lock is taken.
BrelseCall(t) ==
  /\ Calls(t, "brelse")
  /\ IF Mine(t, Arg(t)) = {}
     THEN panicked' = "brelse" /\ UNCHANGED <<locked, chan, todo>>
     ELSE \E i \in Mine(t, Arg(t)) : /\ Releasesleep(i)
                                     /\ Then(t, << <<"unref", i>> >>)
                                     /\ UNCHANGED panicked
  /\ UNCHANGED <<buf, lru, idequeue, disk>>

\* The rest of brelse(), under bcache.lock: the last user moves the buffer to the front.
Unref(t) ==
  LET i == Arg(t)
  IN  /\ Calls(t, "unref")
      /\ buf' = [buf EXCEPT ![i].refcnt = @ - 1]
      /\ lru' = IF buf[i].refcnt = 1 THEN <<i>> \o SelectSeq(lru, LAMBDA j : j # i) ELSE lru
      /\ Return(t)
      /\ UNCHANGED <<locked, idequeue, disk, chan, panicked>>

BioStep(t) ==
  \/ Bget(t) \/ Acquiresleep(t) \/ Fill(t) \/ BwriteCall(t)
  \/ Iderw(t) \/ Iowait(t) \/ BrelseCall(t) \/ Unref(t)
=============================================================================
