----------------------------- MODULE FilesProps -----------------------------
(***************************************************************************)
(* What the inode cache, the file table and the directories promise each   *)
(* other while processes are anywhere in their system calls.               *)
(***************************************************************************)
EXTENDS Files

\* How many of the frames of process p hold a reference to slot c: the C pointers
\* dp and ip of the calls in progress.  A pending setcwd holds the new directory;
\* the old one is then held by the iput that comes before it.
Holds(frame, c) ==
  CASE frame[1] \in {"namex", "iput", "unref", "create2", "linknew", "linkbad", "unlink3", "setcwd"}
                            -> IF frame[2] = c THEN 1 ELSE 0
    [] frame[1] = "unlink2" -> (IF frame[2] = c THEN 1 ELSE 0) + (IF frame[3] = c THEN 1 ELSE 0)
    [] OTHER                -> 0

CwdMoves(p) == \E i \in DOMAIN k[p] : k[p][i][1] = "setcwd"

HeldBy(p, c) ==
  FoldLeft(LAMBDA n, frame : n + Holds(frame, c), 0, k[p])
  + (IF ret[p].ip = c THEN 1 ELSE 0)
  + (IF cwd[p] = c /\ ~CwdMoves(p) THEN 1 ELSE 0)

OpenOn(c) == {f \in FileIds : ftable[f].ref > 0 /\ ftable[f].type = "inode" /\ ftable[f].ip = c}

\* The reference count of every cached inode is the number of pointers to it: in
\* open files, current directories, and calls that are under way.
\* (iget, idup and iput of fs.c with every caller in sysfile.c, file.c and proc.c)
InodeRefs ==
  fs.panic = "" =>
    \A c \in Slots : fs.ic[c].ref = Cardinality(OpenOn(c))
                                  + MapThenSumSet(LAMBDA p : HeldBy(p, c), Procs)

\* The reference count of every open file is the number of descriptors for it, of
\* all processes, and of closes under way; and the page of a pipe is taken exactly while
\* an open file leads to one of its ends.
\* (filealloc, filedup and fileclose of file.c with sys_dup, sys_pipe, fork and exit)
FileRefs ==
  /\ \A f \in FileIds :
       ftable[f].ref =
         Cardinality({x \in Procs \X Fds : ofile[x[1]][x[2]] = f})
         + MapThenSumSet(LAMBDA p : Len(SelectSeq(k[p], LAMBDA fr : fr = <<"fileclose", f>>)), Procs)
  /\ \A i \in 1 .. NPIPE :
       pipes[i] = {IF ftable[f].writable THEN "write" ELSE "read" :
                     f \in {g \in FileIds : ftable[g].type = "pipe" /\ ftable[g].ip = i}}

\* The inode behind an open file or a current directory stays allocated, whatever was
\* unlinked meanwhile (iput's test of nlink and ref); and so no panic of fs.c and sysfile.c
\* is reached: ilock of a free inode, unlink of an inode without links, freeing a free
\* block, dirlink, and the full tables.
HeldInodesStay ==
  /\ fs.panic = ""
  /\ \A c \in Slots :
       OpenOn(c) # {} \/ (\E p \in Procs : cwd[p] = c /\ ~CwdMoves(p))
         => fs.di[fs.ic[c].inum].type # "free"

\* The entries that name inode n in the directories on disk; a removed directory
\* keeps its ".." although its parent may go, so ".." does not count.
Dirs == {n \in Inums : fs.di[n].type = "dir"}
NamesOf(n) ==
  {x \in Dirs \X (0 .. MAXFILE * BSIZE - 1) :
     /\ x[2] < fs.di[x[1]].size
     /\ UnitAt(fs, fs.di[x[1]], x[2])[1] = n
     /\ UnitAt(fs, fs.di[x[1]], x[2])[2] \notin {Dot, DotDot}}

\* No entry dangles: a named inode is allocated, and its link count is at least the
\* number of its names, at every point of link, unlink, create and mkdir.
LinksCounted ==
  fs.panic = "" =>
    \A n \in Inums : NamesOf(n) # {} =>
      fs.di[n].type # "free" /\ fs.di[n].nlink >= Cardinality(NamesOf(n))

\* The bitmap marks the blocks of the allocated inodes and the metadata, and nothing
\* else; no block belongs to two inodes.  (balloc, bfree, bmap and itrunc)
BlocksOwnedOnce ==
  LET owned == [n \in {m \in Inums : fs.di[m].type # "free"} |-> BlocksOf(fs, fs.di[n])]
  IN  fs.panic = "" =>
        /\ fs.used = (0 .. nmeta - 1) \union UNION {owned[n] : n \in DOMAIN owned}
        /\ \A m, n \in DOMAIN owned : m # n => owned[m] \cap owned[n] = {}

\* The inode a process's next step locks.
Wants(p) ==
  IF k[p] = <<>> THEN {}
  ELSE LET fr == Head(k[p])
       IN  CASE fr[1] \in {"iput", "namex", "create2", "linkbad"} -> {fr[2]}
             [] fr[1] = "unlink2" -> {fr[3]}
             [] fr[1] \in {"create", "openold", "linkold", "linknew", "unlink1", "chdir", "exec"}
                                  -> {ret[p].ip}
             [] OTHER -> {}

\* Two processes never wait for each other's inode lock, whatever they open and unlink:
\* usertests.c:855-856, linkunlink(), is a "link/unlink/create test, to look for
\* deadlocks."  iput() locks the directory that create() has just unlocked while create()
\* still holds the new inode's lock; unlink() takes the two in the other order.
NoLockCycle ==
  \A p, q \in Procs :
    ~ \E c \in Wants(p) \cap Slots, d \in Wants(q) \cap Slots :
        lock[c] = q /\ lock[d] = p
=============================================================================
