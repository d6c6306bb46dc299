----------------------------- MODULE LogProofs ------------------------------
(***************************************************************************)
(* The buffer cache and its sleep locks, for every number of buffers,      *)
(* threads and blocks and for crashes at any moment: one buffer per block, *)
(* and nobody asleep on a free lock.                                       *)
(***************************************************************************)
EXTENDS LogProps, TLAPS

\* f is an array of NBUF struct bufs.
IsCache(f) == DOMAIN f = Bufs /\ \A i \in Bufs : "blockno" \in DOMAIN f[i]

\* The inductive invariant: NoTwins and SleepersWaitForHolder with the shape of the
\* arrays they speak of.
CacheInv == IsCache(buf) /\ NoTwins
LockInv == DOMAIN locked = Bufs /\ DOMAIN chan = Threads /\ SleepersWaitForHolder

\* A step that leaves the identity of every buffer alone.
SameBlocks == IsCache(buf') /\ \A i \in Bufs : buf'[i].blockno = buf[i].blockno

LEMMA SameBlocksStep == CacheInv /\ SameBlocks => CacheInv'
  BY DEF CacheInv, SameBlocks, NoTwins, Bufs

\* Writing a field other than blockno keeps the identity of a buffer.
LEMMA SetRefcnt ==
  ASSUME IsCache(buf), NEW i, NEW v, buf' = [buf EXCEPT ![i].refcnt = v]
  PROVE  SameBlocks
  BY DEF IsCache, SameBlocks

LEMMA SetDirty ==
  ASSUME IsCache(buf), NEW i, NEW v, buf' = [buf EXCEPT ![i].dirty = v]
  PROVE  SameBlocks
  BY DEF IsCache, SameBlocks

LEMMA SetData ==
  ASSUME IsCache(buf), NEW i, NEW v, buf' = [buf EXCEPT ![i].data = v]
  PROVE  SameBlocks
  BY DEF IsCache, SameBlocks

LEMMA SetModified ==
  ASSUME IsCache(buf), NEW i, NEW v, buf' = [buf EXCEPT ![i] = Modified(@, v)]
  PROVE  SameBlocks
  BY DEF IsCache, SameBlocks, Modified

LEMMA SetDone ==
  ASSUME IsCache(buf), NEW i, NEW v,
         buf' = [buf EXCEPT ![i].valid = TRUE, ![i].dirty = FALSE, ![i].data = v]
  PROVE  SameBlocks
  BY DEF IsCache, SameBlocks

LEMMA SetNothing == IsCache(buf) /\ UNCHANGED buf => SameBlocks
  BY DEF IsCache, SameBlocks
-----------------------------------------------------------------------------
\* bget() gives a buffer to a block that no buffer has.
LEMMA RecycleStep ==
  ASSUME CacheInv, NEW b, Cached(b) = {}, NEW i, NEW v,
         buf' = [buf EXCEPT ![i] = [blockno |-> b, valid |-> FALSE, dirty |-> FALSE,
                                    refcnt |-> 1, data |-> v]]
  PROVE  CacheInv'
<1>1. \A j \in Bufs : buf'[j].blockno = IF j = i THEN b ELSE buf[j].blockno
  BY DEF CacheInv, IsCache
<1>2. \A j \in Bufs : buf[j].blockno # b
  BY DEF Cached
<1>3. NoTwins'
  BY <1>1, <1>2 DEF CacheInv, NoTwins, Bufs
<1>4. IsCache(buf')
  BY DEF CacheInv, IsCache
<1> QED
  BY <1>3, <1>4 DEF CacheInv, Bufs

LEMMA BgetCache == ASSUME CacheInv, NEW t, Bget(t) PROVE CacheInv'
<1>0. IsCache(buf)
  BY DEF CacheInv
<1>1. CASE Cached(Arg(t)) # {}
  <2>1. PICK i : buf' = [buf EXCEPT ![i].refcnt = buf[i].refcnt + 1]
    BY <1>1, Zenon DEF Bget
  <2> QED
    BY <1>0, <2>1, SetRefcnt, SameBlocksStep, Zenon
<1>2. CASE Cached(Arg(t)) = {} /\ Recyclable # {}
  <2>1. PICK i : buf' = [buf EXCEPT ![i] = [blockno |-> Arg(t), valid |-> FALSE,
                                  dirty |-> FALSE, refcnt |-> 1, data |-> buf[i].data]]
    BY <1>2, Zenon DEF Bget
  <2> QED
    BY <1>2, <2>1, RecycleStep, Zenon
<1>3. CASE Cached(Arg(t)) = {} /\ Recyclable = {}
  BY <1>0, <1>3, SetNothing, SameBlocksStep, Zenon DEF Bget
<1> QED
  BY <1>1, <1>2, <1>3

\* The steps of the block layer, the log and its callers that touch buffers.
LEMMA BioCache == ASSUME CacheInv, NEW t, BioStep(t) PROVE CacheInv'
<1>0. IsCache(buf)
  BY DEF CacheInv
<1>1. CASE Bget(t)
  BY <1>1, BgetCache
<1>2. CASE BwriteCall(t)
  <2>1. CASE Mine(t, Arg(t)) = {}
    BY <1>0, <1>2, <2>1, SetNothing, SameBlocksStep DEF BwriteCall
  <2>2. CASE Mine(t, Arg(t)) # {}
    <3>1. PICK i : buf' = [buf EXCEPT ![i].dirty = TRUE]
      BY <1>2, <2>2, Zenon DEF BwriteCall
    <3> QED
      BY <1>0, <3>1, SetDirty, SameBlocksStep, Zenon
  <2> QED
    BY <2>1, <2>2
<1>3. CASE Unref(t)
  <2>1. buf' = [buf EXCEPT ![Arg(t)].refcnt = buf[Arg(t)].refcnt - 1]
    BY <1>3 DEF Unref
  <2> QED
    BY <1>0, <2>1, SetRefcnt, SameBlocksStep, Zenon
<1>4. CASE UNCHANGED buf
  BY <1>0, <1>4, SetNothing, SameBlocksStep
<1>5. Acquiresleep(t) \/ Fill(t) \/ Iderw(t) \/ Iowait(t) \/ BrelseCall(t) => UNCHANGED buf
  BY Zenon DEF Acquiresleep, Fill, Iderw, Iowait, BrelseCall
<1> QED
  BY <1>1, <1>2, <1>3, <1>4, <1>5 DEF BioStep

LEMMA DiskCache == ASSUME CacheInv, Disk PROVE CacheInv'
<1>1. PICK i, v : buf' = [buf EXCEPT ![i].valid = TRUE, ![i].dirty = FALSE, ![i].data = v]
  BY Zenon DEF Disk, Ideintr
<1> QED
  BY <1>1, SetDone, SameBlocksStep, Zenon DEF CacheInv

LEMMA LogCache == ASSUME CacheInv, NEW t, Step(t) PROVE CacheInv'
<1>0. IsCache(buf)
  BY DEF CacheInv
<1>1. CASE BioStep(t)
  BY <1>1, BioCache
<1>2. CASE LogWrite(t)
  <2>1. CASE UNCHANGED buf
    BY <1>0, <2>1, SetNothing, SameBlocksStep
  <2>2. CASE ~UNCHANGED buf
    <3>1. PICK i : buf' = [buf EXCEPT ![i] = Modified(buf[i], op[t])]
      BY <1>2, <2>2, Zenon DEF LogWrite
    <3> QED
      BY <1>0, <3>1, SetModified, SameBlocksStep, Zenon
  <2> QED
    BY <2>1, <2>2
<1>3. CASE Memmove(t) \/ SetHead(t)
  <2>1. PICK i, v : buf' = [buf EXCEPT ![i].data = v]
    BY <1>3 DEF Memmove, SetHead
  <2> QED
    BY <1>0, <2>1, SetData, SameBlocksStep, Zenon
<1>4. CASE UNCHANGED buf
  BY <1>0, <1>4, SetNothing, SameBlocksStep
<1>5. BeginOp(t) \/ EndOp(t) \/ Committed(t) \/ GetHead(t) \/ Install(t) \/ Clear(t)
      \/ Initlog(t) => UNCHANGED buf
  BY DEF BeginOp, EndOp, Committed, GetHead, Install, Clear, Initlog
<1> QED
  BY <1>1, <1>2, <1>3, <1>4, <1>5 DEF Step

LEMMA NextCache == ASSUME CacheInv, Next PROVE CacheInv'
<1>1. CASE \E t \in Threads : Step(t)
  BY <1>1, LogCache
<1>2. CASE Disk
  BY <1>2, DiskCache
<1>3. CASE Crash
  <2>1. buf' = EmptyBufs
    BY <1>3, Zenon DEF Crash
  <2> QED
    BY <2>1 DEF EmptyBufs, CacheInv, IsCache, NoTwins, Bufs
<1>4. CASE UNCHANGED buf
  BY <1>4, SetNothing, SameBlocksStep DEF CacheInv
<1>5. ASSUME NEW t, StartOp(t) PROVE UNCHANGED buf
  BY <1>5 DEF StartOp
<1>6. ASSUME NEW t, NEW b, Update(t, b) \/ Read(t, b) PROVE UNCHANGED buf
  BY <1>6 DEF Update, Read
<1>7. Quiet => UNCHANGED buf
  BY DEF Quiet, vars, iovars
<1> QED
  BY <1>1, <1>2, <1>3, <1>4, <1>5, <1>6, <1>7 DEF Next
-----------------------------------------------------------------------------
\* A step that changes neither the locks nor who sleeps, or only wakes threads.
LEMMA WakeStep ==
  ASSUME LockInv, UNCHANGED locked, NEW ch, Wakeup(ch)
  PROVE  LockInv'
<1>1. \A t \in Threads : chan'[t] = chan[t] \/ chan'[t] = AWAKE
  BY DEF Wakeup
<1>2. \A i \in Bufs : AWAKE # LockChan(i)
  BY DEF AWAKE, LockChan
<1>3. DOMAIN chan' = Threads
  BY DEF Wakeup
<1> QED
  BY <1>1, <1>2, <1>3 DEF LockInv, SleepersWaitForHolder, Bufs, LockChan

LEMMA LockSame == LockInv /\ UNCHANGED <<locked, chan>> => LockInv'
  BY DEF LockInv, SleepersWaitForHolder, Bufs, LockChan

\* A thread goes to sleep on something that is not a free sleep lock.
LEMMA SleepLock ==
  ASSUME LockInv, UNCHANGED locked, NEW t, NEW ch, Sleep(t, ch),
         \A i \in Bufs : ch = LockChan(i) => locked[i] # NULL
  PROVE  LockInv'
<1>1. DOMAIN chan' = Threads
  BY DEF LockInv, Sleep
<1>2. \A u \in Threads : chan'[u] = ch \/ chan'[u] = chan[u]
  BY DEF LockInv, Sleep
<1>3. \A u \in Threads, i \in Bufs : chan'[u] = LockChan(i) => locked[i] # NULL
  BY <1>2 DEF LockInv, SleepersWaitForHolder
<1> QED
  BY <1>1, <1>3 DEF LockInv, SleepersWaitForHolder, Bufs, LockChan, NULL

\* acquiresleep() takes a free lock.
LEMMA TakeLock ==
  ASSUME LockInv, UNCHANGED chan, NEW t \in Threads, NEW i, locked' = [locked EXCEPT ![i] = t]
  PROVE  LockInv'
<1>1. DOMAIN locked' = Bufs /\ \A j \in Bufs : locked'[j] = t \/ locked'[j] = locked[j]
  BY DEF LockInv
<1>2. t # NULL
  BY ThreadsAssumption DEF NULL
<1>3. \A u \in Threads, j \in Bufs : chan[u] = LockChan(j) => locked'[j] # NULL
  BY <1>1, <1>2 DEF LockInv, SleepersWaitForHolder
<1> QED
  BY <1>1, <1>3 DEF LockInv, SleepersWaitForHolder, Bufs, LockChan, NULL

\* releasesleep() wakes everyone who sleeps on the lock it frees.
LEMMA FreeLock == ASSUME LockInv, NEW i, Releasesleep(i) PROVE LockInv'
<1>1. /\ DOMAIN locked' = Bufs /\ DOMAIN chan' = Threads
      /\ \A j \in Bufs : j # i => locked'[j] = locked[j]
  BY DEF LockInv, Releasesleep, Wakeup
<1>2. \A u \in Threads : \/ chan'[u] = AWAKE
                         \/ chan'[u] = chan[u] /\ chan[u] # LockChan(i)
  BY DEF Releasesleep, Wakeup
<1>3. \A j \in Bufs : AWAKE # LockChan(j)
  BY DEF AWAKE, LockChan
<1>4. \A u \in Threads, j \in Bufs : chan'[u] = LockChan(j) => locked'[j] # NULL
  BY <1>1, <1>2, <1>3 DEF LockInv, SleepersWaitForHolder
<1> QED
  BY <1>1, <1>4 DEF LockInv, SleepersWaitForHolder, Bufs, LockChan, NULL

\* The other channels are not sleep locks.
LEMMA OtherChannels ==
  /\ \A i, j : IoChan(i) # LockChan(j)
  /\ \A j : LOG # LockChan(j)
  BY DEF IoChan, LockChan, LOG

LEMMA BioLock == ASSUME LockInv, NEW t \in Threads, BioStep(t) PROVE LockInv'
<1>1. CASE Acquiresleep(t)
  <2>1. CASE locked[Arg(t)] # NULL
    <3>1. UNCHANGED locked /\ Sleep(t, LockChan(Arg(t)))
      BY <1>1, <2>1, Zenon DEF Acquiresleep
    <3>2. \A i \in Bufs : LockChan(Arg(t)) = LockChan(i) => locked[i] # NULL
      BY <2>1 DEF LockChan
    <3> QED
      BY <3>1, <3>2, SleepLock, Zenon
  <2>2. CASE locked[Arg(t)] = NULL
    <3>1. UNCHANGED chan /\ locked' = [locked EXCEPT ![Arg(t)] = t]
      BY <1>1, <2>2, Zenon DEF Acquiresleep
    <3> QED
      BY <3>1, TakeLock, Zenon
  <2> QED
    BY <2>1, <2>2
<1>2. CASE BrelseCall(t)
  <2>1. CASE Mine(t, Arg(t)) = {}
    BY <1>2, <2>1, LockSame, Zenon DEF BrelseCall
  <2>2. CASE Mine(t, Arg(t)) # {}
    BY <1>2, <2>2, FreeLock, Zenon DEF BrelseCall
  <2> QED
    BY <2>1, <2>2
<1>3. CASE Iderw(t) \/ Iowait(t)
  <2>1. UNCHANGED locked /\ (UNCHANGED chan \/ Sleep(t, IoChan(Arg(t))))
    BY <1>3, Zenon DEF Iderw, Iowait
  <2> QED
    BY <2>1, LockSame, SleepLock, OtherChannels, Zenon
<1>4. Bget(t) \/ Fill(t) \/ BwriteCall(t) \/ Unref(t) => UNCHANGED <<locked, chan>>
  BY Zenon DEF Bget, Fill, BwriteCall, Unref
<1> QED
  BY <1>1, <1>2, <1>3, <1>4, LockSame, Zenon DEF BioStep

LEMMA LogLock == ASSUME LockInv, NEW t \in Threads, Step(t) PROVE LockInv'
<1>1. CASE BioStep(t)
  BY <1>1, BioLock
<1>2. CASE BeginOp(t)
  <2>1. UNCHANGED locked /\ (UNCHANGED chan \/ Sleep(t, LOG))
    BY <1>2, Zenon DEF BeginOp
  <2> QED
    BY <2>1, LockSame, SleepLock, OtherChannels, Zenon
<1>3. CASE EndOp(t) \/ Committed(t)
  <2>1. UNCHANGED locked /\ (UNCHANGED chan \/ Wakeup(LOG))
    BY <1>3, Zenon DEF EndOp, Committed
  <2> QED
    BY <2>1, LockSame, WakeStep, Zenon
<1>4. LogWrite(t) \/ Memmove(t) \/ SetHead(t) \/ GetHead(t) \/ Install(t) \/ Clear(t)
      \/ Initlog(t) => UNCHANGED <<locked, chan>>
  BY Zenon DEF LogWrite, Memmove, SetHead, GetHead, Install, Clear, Initlog
<1> QED
  BY <1>1, <1>2, <1>3, <1>4, LockSame, Zenon DEF Step

LEMMA NextLock == ASSUME LockInv, Next PROVE LockInv'
<1>1. CASE \E t \in Threads : Step(t)
  BY <1>1, LogLock
<1>2. CASE Disk
  <2>1. UNCHANGED locked /\ Wakeup(IoChan(Active))
    BY <1>2, Zenon DEF Disk, Ideintr
  <2> QED
    BY <2>1, WakeStep, Zenon
<1>3. CASE Crash
  <2>1. locked' = [i \in Bufs |-> NULL] /\ chan' = [t \in Threads |-> AWAKE]
    BY <1>3, Zenon DEF Crash
  <2> QED
    BY <2>1 DEF LockInv, SleepersWaitForHolder, Bufs, LockChan, AWAKE
<1>4. CASE UNCHANGED <<locked, chan>>
  BY <1>4, LockSame
<1>5. ASSUME NEW t, StartOp(t) PROVE UNCHANGED <<locked, chan>>
  BY <1>5 DEF StartOp
<1>6. ASSUME NEW t, NEW b, Update(t, b) \/ Read(t, b) PROVE UNCHANGED <<locked, chan>>
  BY <1>6 DEF Update, Read
<1>7. Quiet => UNCHANGED <<locked, chan>>
  BY DEF Quiet, vars, iovars
<1> QED
  BY <1>1, <1>2, <1>3, <1>4, <1>5, <1>6, <1>7, Zenon DEF Next
-----------------------------------------------------------------------------
LEMMA InitInv == Init => CacheInv /\ LockInv
<1>1. Init => /\ buf = EmptyBufs
              /\ locked = [i \in Bufs |-> NULL] /\ chan = [t \in Threads |-> AWAKE]
  BY Zenon DEF Init
<1>2. buf = EmptyBufs => CacheInv
  BY DEF EmptyBufs, CacheInv, IsCache, NoTwins
<1>3. locked = [i \in Bufs |-> NULL] /\ chan = [t \in Threads |-> AWAKE] => LockInv
  BY DEF LockInv, SleepersWaitForHolder, LockChan, AWAKE
<1> QED
  BY <1>1, <1>2, <1>3

\* bget() (bio.c:57-88) never gives a block a second buffer, however many threads miss
\* at once, whatever is evicted, and across crashes.
THEOREM CacheHasNoTwins == Spec => []NoTwins
<1>1. Init => CacheInv
  BY InitInv
<1>2. CacheInv /\ [Next]_vars => CacheInv'
  <2>1. CacheInv /\ UNCHANGED vars => CacheInv'
    BY SetNothing, SameBlocksStep DEF vars, iovars, CacheInv
  <2> QED
    BY <2>1, NextCache
<1>3. CacheInv => NoTwins
  BY DEF CacheInv
<1> QED
  BY <1>1, <1>2, <1>3, PTL DEF Spec

\* acquiresleep() and releasesleep() (sleeplock.c:21-39) lose no wakeup: a thread asleep
\* on a buffer's lock always has a holder who will release it and wake the sleeper.
THEOREM LockSleepersHaveHolder == Spec => []SleepersWaitForHolder
<1>1. Init => LockInv
  BY InitInv
<1>2. LockInv /\ [Next]_vars => LockInv'
  <2>1. LockInv /\ UNCHANGED vars => LockInv'
    BY LockSame DEF vars, iovars
  <2> QED
    BY <2>1, NextLock
<1>3. LockInv => SleepersWaitForHolder
  BY DEF LockInv
<1> QED
  BY <1>1, <1>2, <1>3, PTL DEF Spec
=============================================================================
