------------------------------- MODULE LogInv -------------------------------
(***************************************************************************)
(* The inductive invariant behind the safety properties of the block layer *)
(* and the log: what the calls a thread has yet to make say about the      *)
(* buffers, their locks, the driver's queue and the log.                   *)
(***************************************************************************)
EXTENDS LogProps

\* The calls that refer to a buffer rather than to a block.
OnBuffer == {"acquiresleep", "fill", "iderw", "iowait", "unref"}

\* The list s goes on with call w of buffer i; it has a call w.
At(s, w, i) == s # <<>> /\ Head(s)[1] = w /\ Head(s)[2] = i
Has(s, w) == \E k \in DOMAIN s : s[k][1] = w

-----------------------------------------------------------------------------
(* The lists of calls *)

IsList(s) == s \in Seq(Range(s))

\* A call of a buffer is the next one, or the fill of a bread() that is taking the lock.
\* memmove() does not write to the header, and log_write() takes blocks outside the log.
ListOK(s) ==
  /\ IsList(s)
  /\ \A k \in DOMAIN s :
       /\ s[k][1] \in OnBuffer =>
            \/ k = 1 /\ s[1][2] \in Bufs
            \/ k = 2 /\ s[1][1] = "acquiresleep" /\ s[2][1] = "fill"
       /\ s[k][1] = "acquiresleep" => 2 \in DOMAIN s /\ s[2][1] = "fill" /\ s[2][2] = s[1][2]
       /\ s[k][1] = "memmove" => s[k][2][1] # logstart
       /\ s[k][1] = "log_write" => s[k][2] \in HomeBlocks

\* commit() and initlog() end with the calls named here, and read_head() comes before the
\* header is cleared.
OrderOK(s) ==
  /\ \A k \in DOMAIN s : s[k][1] \in {"committed", "initlog"} => k = Len(s)
  /\ \A j, k \in DOMAIN s : s[j][1] = "clear" /\ s[k][1] = "gethead" => k < j

ListInv == DOMAIN todo = Threads /\ \A t \in Threads : ListOK(todo[t]) /\ OrderOK(todo[t])

-----------------------------------------------------------------------------
(* Buffers *)

\* A thread with such a list counts in b->refcnt although it does not hold b->lock.
Counts(s, i) == At(s, "acquiresleep", i) \/ At(s, "unref", i)
Refs(i) == {t \in Threads : Counts(todo[t], i)}

\* refcnt counts these threads and the holder.
RefOK(i) == buf[i].refcnt = Cardinality(Refs(i)) + (IF locked[i] = NULL THEN 0 ELSE 1)

\* A thread about to fill or transfer a buffer holds it.
Fetches(s, i) == \E w \in {"fill", "iderw", "iowait"} : At(s, w, i)
OwnOK(t, i) == Fetches(todo[t], i) => locked[i] = t

\* A locked buffer has its contents unless its holder is still fetching them.
ValidOK(i) == locked[i] # NULL => buf[i].valid \/ Fetches(todo[locked[i]], i)

\* A thread that waits for the disk is asleep until its request is done.
DoneOK(t, i) == At(todo[t], "iowait", i) /\ chan[t] # IoChan(i) => buf[i].valid /\ ~buf[i].dirty

\* What a sleeping thread waits for, and for whom a request is queued.
SleepOK(t, i) ==
  /\ chan[t] = LockChan(i) => At(todo[t], "acquiresleep", i)
  /\ chan[t] = IoChan(i) => At(todo[t], "iowait", i) /\ i \in Range(idequeue)
QueueOK(i) == i \in Range(idequeue) => locked[i] # NULL /\ chan[locked[i]] = IoChan(i)
NoRepeats == \A j, k \in DOMAIN idequeue : idequeue[j] = idequeue[k] => j = k

BufferInv ==
  /\ \A i \in Bufs : RefOK(i) /\ ValidOK(i) /\ QueueOK(i)
  /\ \A t \in Threads, i \in Bufs : OwnOK(t, i) /\ DoneOK(t, i) /\ SleepOK(t, i)
  /\ NoRepeats

-----------------------------------------------------------------------------
(* The header block *)

\* On the disk and in its buffer the header is a list of blocks outside the log.
HeadOK(i) == buf[i].blockno = logstart /\ (buf[i].valid \/ buf[i].dirty) => buf[i].data \in Seq(HomeBlocks)
HeadInv == disk[logstart] \in Seq(HomeBlocks) /\ \A i \in Bufs : HeadOK(i)

-----------------------------------------------------------------------------
(* The log *)

\* commit() and recovery clear the header before they end.
ClearOK(s) ==
  Has(s, "committed") \/ Has(s, "initlog") =>
    Has(s, "clear") \/ (lh = <<>> /\ ~Has(s, "gethead"))

\* What is being done fits the state of the log.
ModeOK(s) ==
  /\ Has(s, "committed") => committing
  /\ Has(s, "begin_op") => up
  /\ Has(s, "gethead") \/ Has(s, "initlog") => ~up

ClearInv == \A t \in Threads : ClearOK(todo[t])
ModeInv == \A t \in Threads : ModeOK(todo[t])
OneCommit == \A t, u \in Threads : Has(todo[t], "committed") /\ Has(todo[u], "committed") => t = u
BootAlone == ~up => \A t \in Threads : t # Boot => todo[t] = <<>>

\* No operation is open in a commit or in recovery; with none open and no commit nothing is
\* logged; somebody will wake those who sleep in begin_op().
CountInv ==
  /\ ~up \/ committing => outstanding <= 0
  /\ up /\ ~committing /\ outstanding <= 0 => lh = <<>>
  /\ \A t \in Threads : chan[t] = LOG => committing \/ outstanding > 0

CommitInv == ClearInv /\ ModeInv /\ OneCommit /\ BootAlone /\ CountInv

-----------------------------------------------------------------------------
(* Types *)

Fields == {"blockno", "valid", "dirty", "refcnt", "data"}
IsBufs(b) ==
  /\ DOMAIN b = Bufs
  /\ \A i \in Bufs : /\ DOMAIN b[i] = Fields
                     /\ b[i].valid \in BOOLEAN /\ b[i].dirty \in BOOLEAN /\ b[i].refcnt \in Int

TypeInv ==
  /\ IsBufs(buf)
  /\ locked \in [Bufs -> Threads \union {NULL}] /\ DOMAIN chan = Threads
  /\ idequeue \in Seq(Bufs) /\ DOMAIN disk = Blocks
  /\ lh \in Seq(HomeBlocks) /\ outstanding \in Int /\ committing \in BOOLEAN /\ up \in BOOLEAN

FsInv == TypeInv /\ ListInv /\ BufferInv /\ HeadInv /\ CommitInv
=============================================================================
