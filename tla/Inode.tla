------------------------------- MODULE Inode --------------------------------
(***************************************************************************)
(* The inode layer of the file system (fs.c), and the image mkfs.c makes,  *)
(* as operators on a file system state s: a record of                      *)
(*   di     the inodes on disk            used   the bitmap's set bits     *)
(*   blk    the contents of the blocks    ic     the inode cache           *)
(*   panic  the argument of the first panic(), "" if there was none        *)
(*                                                                         *)
(* A block holds BSIZE units.  A unit is a pair <<number, name>>: a        *)
(* directory entry (inode number and name), an address of an indirect      *)
(* block, or a byte of data.  What one call does while it holds the inode  *)
(* lock is one operator: other processes cannot come between, since the    *)
(* bitmap and the inode blocks are updated under their buffers' locks.     *)
(***************************************************************************)
EXTENDS Integers, Sequences, FiniteSets, FiniteSetsExt, SequencesExt

CONSTANTS
  NINODE,     \* size of the inode cache
  ninodes,    \* inodes of the disk, number 0 unused
  size,       \* blocks of the disk
  nmeta,      \* the first of them hold the boot block, log, inodes and bitmap
  BSIZE,      \* units per block
  NDIRECT,    \* addresses in an inode
  DIRSIZ      \* characters of a name

ASSUME InodeAssumption ==
  /\ {NINODE, ninodes, size, nmeta, BSIZE, NDIRECT, DIRSIZ} \subseteq Nat \ {0}
  /\ nmeta < size

ROOTINO == 1
NINDIRECT == BSIZE
MAXFILE == NDIRECT + NINDIRECT
Slots == 1 .. NINODE
Inums == 1 .. ninodes - 1
NoInode == 0                            \* a null struct inode*

Zero == <<0, <<>>>>
ZeroBlock == [j \in 0 .. BSIZE - 1 |-> Zero]
FreeInode == [type |-> "free", nlink |-> 0, size |-> 0, addrs |-> [i \in 0 .. NDIRECT |-> 0]]

Dot == <<".">>
DotDot == <<".", ".">>

Panic(s, msg) == IF s.panic = "" THEN [s EXCEPT !.panic = msg] ELSE s
-----------------------------------------------------------------------------
(* Blocks *)

\* The block balloc() finds: the first one whose bit is clear.
FreeBlock(s) == IF s.used = 0 .. size - 1 THEN 0 ELSE Min((0 .. size - 1) \ s.used)

Balloc(s) ==
  IF s.used = 0 .. size - 1 THEN Panic(s, "balloc: out of blocks")
  ELSE [s EXCEPT !.used = @ \union {FreeBlock(s)}, !.blk[FreeBlock(s)] = ZeroBlock]

Bfree(s, b) ==
  IF b \notin s.used THEN Panic(s, "freeing free block") ELSE [s EXCEPT !.used = @ \ {b}]

(* Cached inodes: ip is a slot of the cache *)

Iupdate(s, ip) == [s EXCEPT !.di[s.ic[ip].inum] = s.ic[ip].d]

\* The slot iget(inum) returns: the one that has it, else the first empty one.
IgetSlot(s, inum) ==
  LET hit == {c \in Slots : s.ic[c].ref > 0 /\ s.ic[c].inum = inum}
      empty == {c \in Slots : s.ic[c].ref = 0}
  IN  IF hit # {} THEN Min(hit) ELSE IF empty # {} THEN Min(empty) ELSE NoInode

Iget(s, inum) ==
  LET c == IgetSlot(s, inum)
  IN  IF c = NoInode THEN Panic(s, "iget: no inodes")
      ELSE IF s.ic[c].ref > 0 THEN [s EXCEPT !.ic[c].ref = @ + 1]
      ELSE [s EXCEPT !.ic[c] = [inum |-> inum, ref |-> 1, valid |-> FALSE, d |-> FreeInode]]

\* Fault: the pointer is copied without a reference.
Idup_Shared(s, ip) == s

Idup(s, ip) == [s EXCEPT !.ic[ip].ref = @ + 1]

\* ilock() once it has the lock.
Ilock(s, ip) ==
  LET d == s.di[s.ic[ip].inum]
  IN  IF s.ic[ip].ref < 1 THEN Panic(s, "ilock")
      ELSE IF s.ic[ip].valid THEN s
      ELSE IF d.type = "free" THEN Panic(s, "ilock: no type")
      ELSE [s EXCEPT !.ic[ip].valid = TRUE, !.ic[ip].d = d]

\* ialloc(): the number it picks, and its effect up to iget().
FreeInum(s) == Min({n \in Inums : s.di[n].type = "free"})
Ialloc(s, type) ==
  IF \A n \in Inums : s.di[n].type # "free" THEN Panic(s, "ialloc: no inodes")
  ELSE Iget([s EXCEPT !.di[FreeInum(s)] = [FreeInode EXCEPT !.type = type]], FreeInum(s))

(* Contents *)

\* The address bmap() returns for block bn, 0 if there is none yet.
Addr(s, d, bn) ==
  IF bn < NDIRECT THEN d.addrs[bn]
  ELSE IF d.addrs[NDIRECT] = 0 THEN 0
  ELSE s.blk[d.addrs[NDIRECT]][bn - NDIRECT][1]

\* bmap()'s effect: what is missing is allocated.
Bmap(s, ip, bn) ==
  LET Slot0(t, i) == IF t.ic[ip].d.addrs[i] # 0 THEN t
                     ELSE [Balloc(t) EXCEPT !.ic[ip].d.addrs[i] = FreeBlock(t)]
      t1 == Slot0(s, NDIRECT)
      a  == t1.ic[ip].d.addrs[NDIRECT]
  IN  IF bn < NDIRECT THEN Slot0(s, bn)
      ELSE IF bn >= MAXFILE THEN Panic(s, "bmap: out of range")
      ELSE IF t1.blk[a][bn - NDIRECT][1] # 0 THEN t1
      ELSE [Balloc(t1) EXCEPT !.blk[a][bn - NDIRECT] = <<FreeBlock(t1), <<>>>>]

\* The blocks of an inode: direct ones, the indirect block's, the indirect block.
BlocksOf(s, d) ==
  ({Addr(s, d, bn) : bn \in 0 .. MAXFILE - 1} \union {d.addrs[NDIRECT]}) \ {0}

\* Fault: the indirect block itself is forgotten.
Itrunc_KeepIndirect(s, ip) ==
  LET d == s.ic[ip].d
      t == FoldSet(LAMBDA b, r : Bfree(r, b), s, BlocksOf(s, d) \ {d.addrs[NDIRECT]})
  IN  Iupdate([t EXCEPT !.ic[ip].d.size = 0, !.ic[ip].d.addrs = FreeInode.addrs], ip)

Itrunc(s, ip) ==
  LET t == FoldSet(LAMBDA b, r : Bfree(r, b), s, BlocksOf(s, s.ic[ip].d))
  IN  Iupdate([t EXCEPT !.ic[ip].d.size = 0, !.ic[ip].d.addrs = FreeInode.addrs], ip)

\* Fault: an inode without links is freed although others refer to it.
FreesInode_Referenced(s, ip) == s.ic[ip].valid /\ s.ic[ip].d.nlink = 0

\* iput()'s test: no links, and the caller's is the only reference.
FreesInode(s, ip) == s.ic[ip].valid /\ s.ic[ip].d.nlink = 0 /\ s.ic[ip].ref = 1

\* iput() between acquiresleep() and releasesleep(); ref is dropped later.
Iput(s, ip) ==
  IF ~FreesInode(s, ip) THEN s
  ELSE [Iupdate([Itrunc(s, ip) EXCEPT !.ic[ip].d.type = "free"], ip) EXCEPT !.ic[ip].valid = FALSE]

\* readi() and writei() of one unit at off; writei() fails past the largest file.
UnitAt(s, d, off) == s.blk[Addr(s, d, off \div BSIZE)][off % BSIZE]
CanWrite(s, ip, off) == off <= s.ic[ip].d.size /\ off + 1 <= MAXFILE * BSIZE
Writei(s, ip, off, unit) ==
  LET t == Bmap(s, ip, off \div BSIZE)
      w == [t EXCEPT !.blk[Addr(t, t.ic[ip].d, off \div BSIZE)][off % BSIZE] = unit]
  IN  IF ~CanWrite(s, ip, off) \/ t.panic # "" THEN t
      ELSE IF off < s.ic[ip].d.size THEN w
      ELSE Iupdate([w EXCEPT !.ic[ip].d.size = off + 1], ip)

(* Directories *)

\* The offsets dirlookup() stops at for name, and the ones dirlink() may fill.
Found(s, d, name) ==
  {off \in 0 .. d.size - 1 : UnitAt(s, d, off)[1] # 0 /\ UnitAt(s, d, off)[2] = name}
Empty(s, d) == {off \in 0 .. d.size - 1 : UnitAt(s, d, off)[1] = 0}

\* dirlookup(): the inode number found, 0 if none.
Dirlookup(s, d, name) ==
  IF Found(s, d, name) = {} THEN 0 ELSE UnitAt(s, d, Min(Found(s, d, name)))[1]

\* dirlink() of a name that is not there.
Dirlink(s, dp, name, inum) ==
  LET d == s.ic[dp].d
      off == IF Empty(s, d) = {} THEN d.size ELSE Min(Empty(s, d))
  IN  IF CanWrite(s, dp, off) THEN Writei(s, dp, off, <<inum, name>>) ELSE Panic(s, "dirlink")

IsDirEmpty(s, d) == \A off \in 2 .. d.size - 1 : UnitAt(s, d, off)[1] = 0

(* Paths: sequences of characters *)

NotSlash(c) == c # "/"

\* skipelem(): the element it copies (cut to DIRSIZ characters) and what is left.
Strip(path) == LET i == SelectInSeq(path, NotSlash)
               IN  IF i = 0 THEN <<>> ELSE SubSeq(path, i, Len(path))
Skipelem(path) ==
  LET p == Strip(path)
      n == IF "/" \in Range(p) THEN SelectInSeq(p, LAMBDA c : c = "/") - 1 ELSE Len(p)
  IN  [name |-> SubSeq(p, 1, Min({n, DIRSIZ})), rest |-> Strip(SubSeq(p, n + 1, Len(p)))]
-----------------------------------------------------------------------------
(* The image mkfs makes, while freeblock and freeinode only grow *)

\* iappend(inum, unit)
Iappend(m, inum, unit) ==
  LET off == m.di[inum].size
      fbn == off \div BSIZE
      Grow(t, i) == IF t.di[inum].addrs[i] # 0 THEN t
                    ELSE [t EXCEPT !.di[inum].addrs[i] = t.freeblock, !.freeblock = @ + 1]
      t1 == Grow(m, IF fbn < NDIRECT THEN fbn ELSE NDIRECT)
      ind == t1.di[inum].addrs[NDIRECT]
      t2 == IF fbn < NDIRECT \/ t1.blk[ind][fbn - NDIRECT][1] # 0 THEN t1
            ELSE [t1 EXCEPT !.blk[ind][fbn - NDIRECT] = <<t1.freeblock, <<>>>>, !.freeblock = @ + 1]
  IN  [t2 EXCEPT !.blk[Addr(t2, t2.di[inum], fbn)][off % BSIZE] = unit,
                 !.di[inum].size = off + 1]

\* ialloc(type)
MkInode(m, type) ==
  [m EXCEPT !.di[m.freeinode] = [FreeInode EXCEPT !.type = type, !.nlink = 1],
            !.freeinode = @ + 1]

\* One turn of main()'s loop: a file with its name and contents.
MkFile(m, f) ==
  LET m1 == Iappend(MkInode(m, "file"), ROOTINO, <<m.freeinode, f.name>>)
  IN  FoldLeft(LAMBDA t, u : Iappend(t, m.freeinode, u), m1, f.data)

\* main(): the root directory, the files, the root's size rounded up, the bitmap.
Mkfs(files) ==
  LET m0 == [di |-> [n \in Inums |-> FreeInode], blk |-> [b \in 0 .. size - 1 |-> ZeroBlock],
             freeblock |-> nmeta, freeinode |-> ROOTINO]
      m1 == MkInode(m0, "dir")
      m2 == Iappend(Iappend(m1, ROOTINO, <<ROOTINO, Dot>>), ROOTINO, <<ROOTINO, DotDot>>)
      m3 == FoldLeft(MkFile, m2, files)
  IN  [di |-> [m3.di EXCEPT ![ROOTINO].size = ((@ \div BSIZE) + 1) * BSIZE],
       blk |-> m3.blk, used |-> 0 .. m3.freeblock - 1,
       ic |-> [c \in Slots |-> [inum |-> 0, ref |-> 0, valid |-> FALSE, d |-> FreeInode]],
       panic |-> ""]
=============================================================================
