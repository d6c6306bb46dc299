-------------------------------- MODULE Log --------------------------------
(***************************************************************************)
(* The log (log.c) on top of the block layer, with the file system calls   *)
(* that use it and a machine that may crash between any two steps.  An     *)
(* operation is begin_op(), some block updates (bread, modify, log_write,  *)
(* brelse), end_op(); what it writes is its own number.  Calls also read   *)
(* blocks, as fileread() does without an operation.                        *)
(***************************************************************************)
EXTENDS Bio

CONSTANTS
  HomeBlocks,     \* the blocks outside the log
  logstart,       \* log.start: the header block, the log's blocks behind it
  nlog,           \* log.size: blocks of the log, header included
  LOGSIZE,        \* entries of the log header
  MAXOPBLOCKS,    \* blocks one operation may log
  Budgets         \* bounds: how many operations, other reads and crashes there are

ASSUME LogAssumption ==
  /\ logstart \in Nat /\ nlog \in Nat \ {0}
  /\ LOGSIZE \in Nat \ {0} /\ MAXOPBLOCKS \in 1 .. LOGSIZE
  /\ Blocks = HomeBlocks \union (logstart .. logstart + nlog - 1)
  /\ HomeBlocks \cap (logstart .. logstart + nlog - 1) = {}
  /\ Budgets \subseteq [ops : Nat, reads : Nat, crashes : Nat]

VARIABLES
  lh,             \* log.lh: the blocks logged so far
  outstanding,    \* log.outstanding
  committing,     \* log.committing
  up,             \* initlog() is over: processes run
  op,             \* the operation each thread is in, 0 if none
  logged,         \* the blocks it has passed to log_write()
  left            \* what is left of the budget

opvars == <<op, logged, left>>
logvars == <<lh, outstanding, committing, up>>
vars == <<iovars, logvars, opvars>>

LOG == <<"log", 0>>                 \* the channel &log
Slot(i) == logstart + i             \* the log block of entry i

\* The calls of a loop of n turns that makes the w calls body(i) in turn i.
Loop(n, w, body(_)) == [k \in 1 .. w * n |-> body(((k - 1) \div w) + 1)[((k - 1) % w) + 1]]

\* The calls of write_log(), install_trans() and write_head() for the header h.
WriteLog(h) ==
  Loop(Len(h), 6, LAMBDA i : <<Bread(Slot(i)), Bread(h[i]), <<"memmove", <<Slot(i), h[i]>> >>,
                               Bwrite(Slot(i)), Brelse(h[i]), Brelse(Slot(i))>>)
InstallTrans(h) ==
  Loop(Len(h), 6, LAMBDA i : <<Bread(Slot(i)), Bread(h[i]), <<"memmove", <<h[i], Slot(i)>> >>,
                               Bwrite(h[i]), Brelse(Slot(i)), Brelse(h[i])>>)
WriteHead == <<Bread(logstart), <<"sethead", 0>>, Bwrite(logstart), Brelse(logstart)>>

\* Fault: the header goes to the disk before the blocks it lists.
Commit_HeadFirst(h) ==
  IF h = <<>> THEN <<>>
  ELSE WriteHead \o WriteLog(h) \o InstallTrans(h) \o << <<"clear", 0>> >> \o WriteHead

\* commit()
Commit(h) ==
  IF h = <<>> THEN <<>>
  ELSE WriteLog(h) \o WriteHead \o InstallTrans(h) \o << <<"clear", 0>> >> \o WriteHead

\* recover_from_log(); read_head() goes on with the header it finds.
Recover == <<Bread(logstart), <<"gethead", 0>>, Brelse(logstart), <<"install", 0>>, <<"clear", 0>> >>
           \o WriteHead \o << <<"initlog", 0>> >>

\* The first process runs initlog() in forkret(); there are no others yet.
Boot == CHOOSE t \in Threads : TRUE
AtBoot == [t \in Threads |-> IF t = Boot THEN Recover ELSE <<>>]

Init ==
  /\ buf = EmptyBufs /\ lru = BootOrder /\ locked = [i \in Bufs |-> NULL]
  /\ idequeue = <<>> /\ chan = [t \in Threads |-> AWAKE] /\ panicked = ""
  /\ disk = [b \in Blocks |-> IF b = logstart THEN <<>> ELSE 0]
  /\ todo = AtBoot
  /\ lh = <<>> /\ outstanding = 0 /\ committing = FALSE /\ up = FALSE
  /\ op = [t \in Threads |-> 0]
  /\ logged = [t \in Threads |-> <<>>]
  /\ left \in Budgets
-----------------------------------------------------------------------------
Idle(t) == panicked = "" /\ chan[t] = AWAKE /\ up /\ todo[t] = <<>>

\* A file system call starts an operation; a block is read, in an operation or not.
StartOp(t) ==
  /\ Idle(t) /\ op[t] = 0 /\ left.ops > 0
  /\ todo' = [todo EXCEPT ![t] = << <<"begin_op", left.ops>> >>]
  /\ left' = [left EXCEPT !.ops = @ - 1]
  /\ UNCHANGED <<buf, lru, locked, idequeue, disk, chan, panicked, logvars, op, logged>>

Read(t, b) ==
  /\ Idle(t) /\ left.reads > 0
  /\ todo' = [todo EXCEPT ![t] = <<Bread(b), Brelse(b)>>]
  /\ left' = [left EXCEPT !.reads = @ - 1]
  /\ UNCHANGED <<buf, lru, locked, idequeue, disk, chan, panicked, logvars, op, logged>>

\* begin_op() must wait: a commit is going on, or the log might run out of space.
MustWait == committing \/ Len(lh) + (outstanding + 1) * MAXOPBLOCKS > LOGSIZE

\* begin_op(): one turn of its loop.
BeginOp(t) ==
  /\ Calls(t, "begin_op")
  /\ IF MustWait
     THEN Sleep(t, LOG) /\ UNCHANGED <<outstanding, op, todo>>
     ELSE /\ outstanding' = outstanding + 1
          /\ op' = [op EXCEPT ![t] = Arg(t)]
          /\ Return(t)
          /\ UNCHANGED chan
  /\ UNCHANGED <<buf, lru, locked, idequeue, disk, panicked, lh, committing, up, logged, left>>

\* An operation updates block b, at most MAXOPBLOCKS times in all.
Update(t, b) ==
  /\ Idle(t) /\ op[t] # 0 /\ Len(logged[t]) < MAXOPBLOCKS
  /\ todo' = [todo EXCEPT ![t] = <<Bread(b), <<"log_write", b>>, Brelse(b)>>]
  /\ UNCHANGED <<buf, lru, locked, idequeue, disk, chan, panicked, logvars, opvars>>

\* Fault: a block that is logged again takes another entry.
Absorb_Not(b) == Append(lh, b)

\* log_write()'s loop: the block's entry, or a new one.
Absorb(b) == IF b \in Range(lh) THEN lh ELSE Append(lh, b)

\* Fault: the buffer is not marked.
Modified_Clean(b, v) == [b EXCEPT !.data = v]

\* The caller's change to b->data and log_write()'s mark.
Modified(b, v) == [b EXCEPT !.data = v, !.dirty = TRUE]

\* The caller has changed the buffer's data; log_write() records and pins it.
LogWrite(t) ==
  LET b == Arg(t)
  IN  /\ Calls(t, "log_write")
      /\ IF Len(lh) >= LOGSIZE \/ Len(lh) >= nlog - 1
         THEN panicked' = "too big a transaction" /\ UNCHANGED <<buf, lh, todo, logged>>
         ELSE IF outstanding < 1
         THEN panicked' = "log_write outside of trans" /\ UNCHANGED <<buf, lh, todo, logged>>
         ELSE /\ lh' = Absorb(b)
              /\ \E i \in Mine(t, b) :
                   buf' = [buf EXCEPT ![i] = Modified(@, op[t])]
              /\ logged' = [logged EXCEPT ![t] = Append(@, b)]
              /\ Return(t)
              /\ UNCHANGED panicked
      /\ UNCHANGED <<lru, locked, idequeue, disk, chan, outstanding, committing, up, op, left>>

\* end_op() up to commit(): the last operation commits, the others make room.
EndOp(t) ==
  /\ Idle(t) /\ op[t] # 0
  /\ outstanding' = outstanding - 1
  /\ IF committing
     THEN panicked' = "log.committing" /\ UNCHANGED <<committing, todo, chan>>
     ELSE /\ IF outstanding = 1
             THEN /\ committing' = TRUE
                  /\ todo' = [todo EXCEPT ![t] = Commit(lh) \o << <<"committed", 0>> >>]
                  /\ UNCHANGED chan
             ELSE Wakeup(LOG) /\ UNCHANGED <<committing, todo>>
          /\ UNCHANGED panicked
  /\ op' = [op EXCEPT ![t] = 0]
  /\ logged' = [logged EXCEPT ![t] = <<>>]
  /\ UNCHANGED <<buf, lru, locked, idequeue, disk, lh, up, left>>

\* Fault: nobody is told that the commit is over.
Committed_Silent(t) ==
  /\ Calls(t, "committed")
  /\ committing' = FALSE
  /\ Return(t)
  /\ UNCHANGED <<buf, lru, locked, idequeue, disk, chan, panicked, lh, outstanding, up, opvars>>

\* end_op() after commit().
Committed(t) ==
  /\ Calls(t, "committed")
  /\ committing' = FALSE
  /\ Wakeup(LOG)
  /\ Return(t)
  /\ UNCHANGED <<buf, lru, locked, idequeue, disk, panicked, lh, outstanding, up, opvars>>

\* memmove(dst, src) between two locked buffers.
Memmove(t) ==
  /\ Calls(t, "memmove")
  /\ \E i \in Mine(t, Arg(t)[1]), j \in Mine(t, Arg(t)[2]) :
       buf' = [buf EXCEPT ![i].data = buf[j].data]
  /\ Return(t)
  /\ UNCHANGED <<lru, locked, idequeue, disk, chan, panicked, logvars, opvars>>

\* write_head() copies log.lh into the header block's buffer, read_head() back.
SetHead(t) ==
  /\ Calls(t, "sethead")
  /\ \E i \in Mine(t, logstart) : buf' = [buf EXCEPT ![i].data = lh]
  /\ Return(t)
  /\ UNCHANGED <<lru, locked, idequeue, disk, chan, panicked, logvars, opvars>>

GetHead(t) ==
  /\ Calls(t, "gethead")
  /\ \E i \in Mine(t, logstart) : lh' = buf[i].data
  /\ Return(t)
  /\ UNCHANGED <<buf, lru, locked, idequeue, disk, chan, panicked, outstanding, committing,
                 up, opvars>>

\* install_trans() of recover_from_log(), log.lh.n = 0, and the end of initlog().
Install(t) ==
  /\ Calls(t, "install")
  /\ Then(t, InstallTrans(lh))
  /\ UNCHANGED <<buf, lru, locked, idequeue, disk, chan, panicked, logvars, opvars>>

Clear(t) ==
  /\ Calls(t, "clear")
  /\ lh' = <<>>
  /\ Return(t)
  /\ UNCHANGED <<buf, lru, locked, idequeue, disk, chan, panicked, outstanding, committing,
                 up, opvars>>

Initlog(t) ==
  /\ Calls(t, "initlog")
  /\ up' = TRUE
  /\ Return(t)
  /\ UNCHANGED <<buf, lru, locked, idequeue, disk, chan, panicked, lh, outstanding,
                 committing, opvars>>

\* Power fails: only the disk survives, and the machine boots again.
Crash ==
  /\ left.crashes > 0
  /\ left' = [left EXCEPT !.crashes = @ - 1]
  /\ buf' = EmptyBufs /\ lru' = BootOrder /\ locked' = [i \in Bufs |-> NULL]
  /\ idequeue' = <<>> /\ chan' = [t \in Threads |-> AWAKE] /\ panicked' = ""
  /\ todo' = AtBoot
  /\ lh' = <<>> /\ outstanding' = 0 /\ committing' = FALSE /\ up' = FALSE
  /\ op' = [t \in Threads |-> 0]
  /\ logged' = [t \in Threads |-> <<>>]
  /\ UNCHANGED disk

\* Nothing left to do within the bounds.
Quiet ==
  /\ \A t \in Threads : Idle(t) /\ op[t] = 0
  /\ left.ops = 0 /\ left.reads = 0
  /\ UNCHANGED vars

Step(t) ==
  \/ BioStep(t) /\ UNCHANGED <<logvars, opvars>>
  \/ BeginOp(t) \/ LogWrite(t) \/ EndOp(t) \/ Committed(t)
  \/ Memmove(t) \/ SetHead(t) \/ GetHead(t) \/ Install(t) \/ Clear(t) \/ Initlog(t)

Disk == Ideintr /\ UNCHANGED <<logvars, opvars>>

Next ==
  \/ \E t \in Threads : Step(t) \/ StartOp(t)
  \/ \E t \in Threads, b \in HomeBlocks : Update(t, b) \/ Read(t, b)
  \/ Disk \/ Crash \/ Quiet

\* The scheduler runs every thread that is awake (NoStarvation of SchedProps) and
\* the disk answers every request.  Nothing forces a crash or a new call.
Spec == Init /\ [][Next]_vars /\ WF_vars(Disk) /\ \A t \in Threads : WF_vars(Step(t))
=============================================================================
