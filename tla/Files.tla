------------------------------- MODULE Files --------------------------------
(***************************************************************************)
(* The file table (file.c), the file system calls (sysfile.c) and the path *)
(* walk (namex of fs.c), made by concurrent processes on the inode layer.  *)
(*                                                                         *)
(* A process has a list k[p] of the calls its system call still has to     *)
(* make; a step carries out the first one and puts what it calls in its    *)
(* place.  A step begins where the code may have to wait for an inode lock *)
(* and ends where it may wait for the next.  ret[p] is what the last path  *)
(* walk or create() returned.  Crashes and the log are those of module Log.*)
(***************************************************************************)
EXTENDS Inode

CONSTANTS
  Procs,      \* process slots
  NOFILE,     \* descriptors of a process
  NFILE,      \* size of the file table
  NPIPE,      \* pages kalloc() has for pipes
  Programs,   \* what the processes do: sets of functions from Procs to call lists
  Image       \* the files mkfs is given

ASSUME FilesAssumption == {NOFILE, NFILE} \subseteq Nat \ {0} /\ NPIPE \in Nat

VARIABLES
  fs,         \* the file system state: see Inode
  lock,       \* the holder of each cached inode's sleep lock
  ftable,     \* struct file: ref, type, ip, off, readable, writable
  pipes,      \* the open ends of each pipe; {} for a free page
  ofile, cwd, \* of struct proc
  prog,       \* the system calls each process has yet to make
  k, ret

vars == <<fs, lock, ftable, pipes, ofile, cwd, prog, k, ret>>

NULL == 0
Fds == 0 .. NOFILE - 1
FileIds == 1 .. NFILE
None == [ip |-> NoInode, name |-> <<>>]
NoFile == [ref |-> 0, type |-> "none", ip |-> 0, off |-> 0, readable |-> FALSE, writable |-> FALSE]

\* The boot image; the first process's cwd is the root, the others are copies of it.
Init ==
  /\ prog \in Programs
  /\ LET s == Iget(Mkfs(Image), ROOTINO)
     IN  fs = [s EXCEPT !.ic[1].ref = Cardinality({p \in Procs : prog[p] # <<>>})]
  /\ lock = [c \in Slots |-> NULL]
  /\ ftable = [f \in FileIds |-> NoFile]
  /\ pipes = [i \in 1 .. NPIPE |-> {}]
  /\ ofile = [p \in Procs |-> [fd \in Fds |-> NULL]]
  /\ cwd = [p \in Procs |-> IF prog[p] # <<>> THEN 1 ELSE NULL]
  /\ k = [p \in Procs |-> <<>>]
  /\ ret = [p \in Procs |-> None]
-----------------------------------------------------------------------------
\* panic() freezes the kernel: what else a panicking step does is of no consequence.
At(p, call) == fs.panic = "" /\ k[p] # <<>> /\ Head(k[p])[1] = call
Arg(p, i) == Head(k[p])[i]

\* The call of a process whose path walk or create() returned an inode.
AtInode(p, call) == At(p, call) /\ ret[p].ip # NoInode

\* What the call goes on with; what namex() or create() returns.
Then(p, more) == k' = [k EXCEPT ![p] = more \o Tail(@)]
Returns(p, ip, name) == ret' = [ret EXCEPT ![p] = [ip |-> ip, name |-> name]]
Forget(p) == ret' = [ret EXCEPT ![p] = None]

\* acquiresleep(&ip->lock) does not have to wait; the locks a step takes and gives back.
Free(ip) == lock[ip] = NULL
Locks(p, took, gave) ==
  lock' = [c \in Slots |-> IF c \in gave THEN NULL ELSE IF c \in took THEN p ELSE lock[c]]

\* iput(ip), iunlockput(ip) of an inode locked in an earlier step, namex().
IputOf(ip) == << <<"iput", ip>> >>
IunlockputOf(ip) == << <<"iunlock", ip>>, <<"iput", ip>> >>
Walk(path, parent) == << <<"namex0", path, parent>> >>

tables == <<ftable, pipes, ofile>>
Same == UNCHANGED <<tables, cwd, prog>>

(* iput(): the inode lock, then icache.lock *)

IputLock(p) ==
  /\ At(p, "iput") /\ Free(Arg(p, 2))
  /\ fs' = Iput(fs, Arg(p, 2))
  /\ Then(p, << <<"unref", Arg(p, 2)>> >>)
  /\ UNCHANGED <<lock, ret>> /\ Same

IputUnref(p) ==
  /\ At(p, "unref")
  /\ fs' = [fs EXCEPT !.ic[Arg(p, 2)].ref = @ - 1]
  /\ Then(p, <<>>)
  /\ UNCHANGED <<lock, ret>> /\ Same

Iunlock(p) ==
  /\ At(p, "iunlock")
  /\ Locks(p, {}, {Arg(p, 2)})
  /\ Then(p, <<>>)
  /\ UNCHANGED <<fs, ret>> /\ Same

(* namex() *)

\* Its start: the root or the current directory.
NamexStart(p) ==
  LET path == Arg(p, 2)
      abs == path # <<>> /\ path[1] = "/"
      ip == IF abs THEN IgetSlot(fs, ROOTINO) ELSE cwd[p]
  IN  /\ At(p, "namex0")
      /\ fs' = IF abs THEN Iget(fs, ROOTINO) ELSE Idup(fs, cwd[p])
      /\ Then(p, << <<"namex", ip, path, Arg(p, 3)>> >>)
      /\ UNCHANGED <<lock, ret>> /\ Same

\* One turn of its loop, with ip locked only in between, or its end.
Namex(p) ==
  LET ip == Arg(p, 2)
      parent == Arg(p, 4)
      e == Skipelem(Arg(p, 3))
      s == Ilock(fs, ip)
      d == s.ic[ip].d
      inum == Dirlookup(s, d, e.name)
  IN  /\ At(p, "namex")
      /\ IF e.name = <<>>
         THEN /\ IF parent THEN Then(p, IputOf(ip)) /\ Returns(p, NoInode, <<>>)
                           ELSE Then(p, <<>>) /\ Returns(p, ip, <<>>)
              /\ UNCHANGED fs
         ELSE /\ Free(ip)
              /\ IF d.type = "dir" /\ parent /\ e.rest = <<>>
                 THEN fs' = s /\ Then(p, <<>>) /\ Returns(p, ip, e.name)
                 ELSE IF d.type # "dir" \/ inum = 0
                 THEN fs' = s /\ Then(p, IputOf(ip)) /\ Returns(p, NoInode, <<>>)
                 ELSE /\ fs' = Iget(s, inum)
                      /\ Then(p, IputOf(ip) \o
                                 << <<"namex", IgetSlot(s, inum), e.rest, parent>> >>)
                      /\ UNCHANGED ret
      /\ UNCHANGED lock /\ Same

\* The callers' return when there was no such inode.
NoSuchInode(p) ==
  /\ \E call \in {"create", "created", "openold", "openfile", "linkold", "unlink1", "chdir", "exec"} :
       At(p, call)
  /\ ret[p].ip = NoInode
  /\ Then(p, <<>>)
  /\ UNCHANGED <<fs, lock, ret>> /\ Same

(* create(): nameiparent() has returned dp *)

\* The name exists: its inode is looked at with dp unlocked.
CreateFound(p) ==
  LET dp == ret[p].ip
      s == Ilock(fs, dp)
      inum == Dirlookup(s, s.ic[dp].d, ret[p].name)
  IN  /\ AtInode(p, "create") /\ Free(dp) /\ inum # 0
      /\ fs' = Iget(s, inum)
      /\ Then(p, IputOf(dp) \o << <<"create2", IgetSlot(s, inum), Arg(p, 2)>> >>)
      /\ Forget(p)
      /\ UNCHANGED lock /\ Same

\* An ordinary file is returned, locked, to open().
CreateOld(p) ==
  LET ip == Arg(p, 2)
      s == Ilock(fs, ip)
  IN  /\ At(p, "create2") /\ Free(ip)
      /\ fs' = s
      /\ IF Arg(p, 3) = "file" /\ s.ic[ip].d.type = "file"
         THEN Locks(p, {ip}, {}) /\ Then(p, <<>>) /\ Returns(p, ip, <<>>)
         ELSE Then(p, IputOf(ip)) /\ UNCHANGED <<lock, ret>>
      /\ Same

\* The name is new: an inode and its entry, under both locks; ip stays locked.
CreateNew(p) ==
  LET dp == ret[p].ip
      type == Arg(p, 2)
      s == Ilock(fs, dp)
      s1 == Ialloc(s, type)
      ip == IgetSlot(s1, FreeInum(s))
      s2 == Iupdate([Ilock(s1, ip) EXCEPT !.ic[ip].d.nlink = 1], ip)
      s3 == IF type # "dir" THEN s2
            ELSE Dirlink(Dirlink(Iupdate([s2 EXCEPT !.ic[dp].d.nlink = @ + 1], dp),
                                 ip, Dot, s2.ic[ip].inum),
                         ip, DotDot, s2.ic[dp].inum)
  IN  /\ AtInode(p, "create") /\ Free(dp) /\ Dirlookup(s, s.ic[dp].d, ret[p].name) = 0
      /\ IF s1.panic # "" THEN fs' = s1 /\ UNCHANGED <<lock, k, ret>>
         ELSE /\ Free(ip)
              /\ fs' = Dirlink(s3, dp, ret[p].name, s2.ic[ip].inum)
              /\ Locks(p, {ip}, {})
              /\ Then(p, IputOf(dp))
              /\ Returns(p, ip, <<>>)
      /\ Same

\* The end of sys_mkdir() and sys_mknod().
Created(p) ==
  /\ AtInode(p, "created")
  /\ Then(p, IputOf(ret[p].ip)) /\ Locks(p, {}, {ret[p].ip})
  /\ Forget(p)
  /\ UNCHANGED fs /\ Same

(* sys_open() *)

\* Without O_CREATE: namei() has returned.
OpenOld(p) ==
  LET ip == ret[p].ip
  IN  /\ AtInode(p, "openold") /\ Free(ip)
      /\ fs' = Ilock(fs, ip)
      /\ IF fs'.ic[ip].d.type = "dir" /\ Arg(p, 2) # {}
         THEN Then(p, IputOf(ip)) /\ Forget(p) /\ UNCHANGED lock
         ELSE Locks(p, {ip}, {}) /\ Then(p, <<>>) /\ UNCHANGED ret
      /\ Same

\* The free entries of the file table and of the process's descriptors.
UnusedFiles == {f \in FileIds : ftable[f].ref = 0}
UnusedFds(p) == {fd \in Fds : ofile[p][fd] = NULL}

\* filealloc(), fdalloc(), and the fields once the inode is unlocked.
OpenFile(p) ==
  LET ip == ret[p].ip
      mode == Arg(p, 2)
      f == Min(UnusedFiles)
  IN  /\ AtInode(p, "openfile")
      /\ IF UnusedFiles = {} \/ UnusedFds(p) = {}
         THEN Then(p, IputOf(ip)) /\ UNCHANGED <<ftable, ofile>>
         ELSE /\ ftable' = [ftable EXCEPT ![f] =
                   [ref |-> 1, type |-> "inode", ip |-> ip, off |-> 0,
                    readable |-> "WRONLY" \notin mode,
                    writable |-> mode \cap {"WRONLY", "RDWR"} # {}]]
              /\ ofile' = [ofile EXCEPT ![p][Min(UnusedFds(p))] = f]
              /\ Then(p, <<>>)
      /\ Locks(p, {}, {ip})
      /\ Forget(p)
      /\ UNCHANGED <<fs, pipes, cwd, prog>>

(* sys_link() *)

\* Fault: the count is to be raised once the entry is there.
CountFirst_Not(s, ip) == s

CountFirst(s, ip) == Iupdate([s EXCEPT !.ic[ip].d.nlink = @ + 1], ip)

\* namei(old) has returned: its count goes up first.
LinkOld(p) ==
  LET ip == ret[p].ip
      s == Ilock(fs, ip)
  IN  /\ AtInode(p, "linkold") /\ Free(ip)
      /\ IF s.ic[ip].d.type = "dir" THEN fs' = s /\ Then(p, IputOf(ip))
         ELSE /\ fs' = CountFirst(s, ip)
              /\ Then(p, Walk(Arg(p, 2), TRUE) \o << <<"linknew", ip>> >>)
      /\ Forget(p)
      /\ UNCHANGED lock /\ Same

\* nameiparent(new) has returned: the entry, unless the name exists.
LinkNew(p) ==
  LET dp == ret[p].ip
      ip == Arg(p, 2)
      s == Ilock(fs, dp)
      inum == Dirlookup(s, s.ic[dp].d, ret[p].name)
  IN  /\ AtInode(p, "linknew") /\ Free(dp)
      /\ IF inum # 0
         THEN /\ fs' = Iget(s, inum)
              /\ Locks(p, {dp}, {})
              /\ Then(p, IputOf(IgetSlot(s, inum)) \o IunlockputOf(dp) \o << <<"linkbad", ip>> >>)
         ELSE /\ fs' = Dirlink(s, dp, ret[p].name, s.ic[ip].inum)
              /\ Then(p, IputOf(dp) \o IputOf(ip))
              /\ UNCHANGED lock
      /\ Forget(p)
      /\ Same

LinkNowhere(p) ==
  /\ At(p, "linknew") /\ ret[p].ip = NoInode
  /\ Then(p, << <<"linkbad", Arg(p, 2)>> >>)
  /\ UNCHANGED <<fs, lock, ret>> /\ Same

LinkBad(p) ==
  LET ip == Arg(p, 2)
  IN  /\ At(p, "linkbad") /\ Free(ip)
      /\ fs' = Iupdate([Ilock(fs, ip) EXCEPT !.ic[ip].d.nlink = @ - 1], ip)
      /\ Then(p, IputOf(ip))
      /\ UNCHANGED <<lock, ret>> /\ Same

(* sys_unlink() *)

\* nameiparent() has returned: the directory, and the inode of the name.
UnlinkParent(p) ==
  LET dp == ret[p].ip
      name == ret[p].name
      s == Ilock(fs, dp)
      inum == Dirlookup(s, s.ic[dp].d, name)
  IN  /\ AtInode(p, "unlink1") /\ Free(dp)
      /\ IF name \in {Dot, DotDot} \/ inum = 0
         THEN fs' = s /\ Then(p, IputOf(dp)) /\ UNCHANGED lock
         ELSE /\ fs' = Iget(s, inum)
              /\ Locks(p, {dp}, {})
              /\ Then(p, << <<"unlink2", dp, IgetSlot(s, inum), name>> >>)
      /\ Forget(p)
      /\ Same

\* The inode, with its directory locked: the entry goes.
UnlinkInode(p) ==
  LET dp == Arg(p, 2)
      ip == Arg(p, 3)
      s == Ilock(fs, ip)
      isdir == s.ic[ip].d.type = "dir"
      s1 == Writei(s, dp, Min(Found(s, s.ic[dp].d, Arg(p, 4))), Zero)
  IN  /\ At(p, "unlink2") /\ Free(ip)
      /\ IF s.ic[ip].d.nlink < 1
         THEN fs' = Panic(s, "unlink: nlink < 1") /\ UNCHANGED <<lock, k>>
         ELSE IF isdir /\ ~IsDirEmpty(s, s.ic[ip].d)
         THEN fs' = s /\ Then(p, IputOf(ip) \o IunlockputOf(dp)) /\ UNCHANGED lock
         ELSE /\ fs' = IF isdir THEN Iupdate([s1 EXCEPT !.ic[dp].d.nlink = @ - 1], dp) ELSE s1
              /\ Locks(p, {ip}, {dp})
              /\ Then(p, IputOf(dp) \o << <<"unlink3", ip>> >>)
      /\ UNCHANGED ret /\ Same

\* The link count, after the directory was put.
UnlinkCount(p) ==
  LET ip == Arg(p, 2)
  IN  /\ At(p, "unlink3")
      /\ fs' = Iupdate([fs EXCEPT !.ic[ip].d.nlink = @ - 1], ip)
      /\ Locks(p, {}, {ip})
      /\ Then(p, IputOf(ip))
      /\ UNCHANGED ret /\ Same

(* sys_chdir() and exec(): namei() has returned *)

Chdir(p) ==
  LET ip == ret[p].ip
  IN  /\ AtInode(p, "chdir") /\ Free(ip)
      /\ fs' = Ilock(fs, ip)
      /\ Then(p, IF fs'.ic[ip].d.type # "dir" THEN IputOf(ip)
                 ELSE IputOf(cwd[p]) \o << <<"setcwd", ip>> >>)
      /\ Forget(p)
      /\ UNCHANGED lock /\ Same

SetCwd(p) ==
  /\ At(p, "setcwd")
  /\ cwd' = [cwd EXCEPT ![p] = Arg(p, 2)]
  /\ Then(p, <<>>)
  /\ UNCHANGED <<fs, lock, ret, tables, prog>>

\* exec() reads the program with its inode locked; the rest is module Vm's.
ExecRead(p) ==
  LET ip == ret[p].ip
  IN  /\ AtInode(p, "exec") /\ Free(ip)
      /\ fs' = Ilock(fs, ip)
      /\ Then(p, IputOf(ip)) /\ Forget(p)
      /\ UNCHANGED lock /\ Same

(* Open files *)

\* Fault: the file is shared without a reference.
Filedup_Shared(ft, f) == ft

\* filedup(f), fileclose(f): the last one closes the inode or the pipe end.
Filedup(ft, f) == [ft EXCEPT ![f].ref = @ + 1]

PipeEnd(ff) == IF ff.writable THEN "write" ELSE "read"

Fileclose(p) ==
  LET f == Arg(p, 2)
      ff == ftable[f]
      last == ff.ref = 1
  IN  /\ At(p, "fileclose")
      /\ ftable' = [ftable EXCEPT ![f].ref = @ - 1, ![f].type = IF last THEN "none" ELSE @]
      /\ pipes' = IF last /\ ff.type = "pipe"
                  THEN [pipes EXCEPT ![ff.ip] = @ \ {PipeEnd(ff)}]
                  ELSE pipes
      /\ Then(p, IF last /\ ff.type = "inode" THEN IputOf(ff.ip) ELSE <<>>)
      /\ UNCHANGED <<fs, lock, ret, ofile, cwd, prog>>

\* fileread(), filewrite() and filestat() of an inode: one unit under the inode
\* lock.  Devices have no blocks; their reads and writes are the driver's.
Fileread(p) ==
  LET f == Arg(p, 2)
      ip == ftable[f].ip
      s == Ilock(fs, ip)
      d == s.ic[ip].d
  IN  /\ At(p, "fileread") /\ Free(ip)
      /\ fs' = s
      /\ ftable' = IF d.type # "dev" /\ ftable[f].off < d.size
                   THEN [ftable EXCEPT ![f].off = @ + 1] ELSE ftable
      /\ Then(p, <<>>)
      /\ UNCHANGED <<lock, ret, pipes, ofile, cwd, prog>>

\* filewrite() goes on with the rest of the n units in an operation of its own.
Filewrite(p) ==
  LET f == Arg(p, 2)
      n == Arg(p, 3)
      ip == ftable[f].ip
      s == Ilock(fs, ip)
      ok == s.ic[ip].d.type # "dev" /\ CanWrite(s, ip, ftable[f].off)
  IN  /\ At(p, "filewrite") /\ Free(ip)
      /\ IF ok
         THEN /\ fs' = Writei(s, ip, ftable[f].off, <<p, <<>>>>)
              /\ ftable' = [ftable EXCEPT ![f].off = @ + 1]
              /\ Then(p, IF n > 1 THEN << <<"filewrite", f, n - 1>> >> ELSE <<>>)
         ELSE fs' = s /\ Then(p, <<>>) /\ UNCHANGED ftable
      /\ UNCHANGED <<lock, ret, pipes, ofile, cwd, prog>>

Filestat(p) ==
  /\ At(p, "filestat") /\ Free(ftable[Arg(p, 2)].ip)
  /\ fs' = Ilock(fs, ftable[Arg(p, 2)].ip)
  /\ Then(p, <<>>)
  /\ UNCHANGED <<lock, ret>> /\ Same

(* Entry of the system calls *)

\* Where a call that takes a path goes on.
PathCall(c) ==
  CASE c[1] = "open" -> IF "CREATE" \in c[3]
         THEN Walk(c[2], TRUE) \o << <<"create", "file">>, <<"openfile", c[3]>> >>
         ELSE Walk(c[2], FALSE) \o << <<"openold", c[3]>>, <<"openfile", c[3]>> >>
    [] c[1] = "mkdir"  -> Walk(c[2], TRUE) \o << <<"create", "dir">>, <<"created">> >>
    [] c[1] = "mknod"  -> Walk(c[2], TRUE) \o << <<"create", "dev">>, <<"created">> >>
    [] c[1] = "unlink" -> Walk(c[2], TRUE) \o << <<"unlink1">> >>
    [] c[1] = "link"   -> Walk(c[2], FALSE) \o << <<"linkold", c[3]>> >>
    [] c[1] = "chdir"  -> Walk(c[2], FALSE) \o << <<"chdir">> >>
    [] c[1] = "exec"   -> Walk(c[2], FALSE) \o << <<"exec">> >>

Calls(p, names) == fs.panic = "" /\ k[p] = <<>> /\ prog[p] # <<>> /\ Head(prog[p])[1] \in names
Begin(p, more) == /\ prog' = [prog EXCEPT ![p] = Tail(@)]
                  /\ k' = [k EXCEPT ![p] = more]

SysPath(p) ==
  /\ Calls(p, {"open", "mkdir", "mknod", "unlink", "link", "chdir", "exec"})
  /\ Begin(p, PathCall(Head(prog[p])))
  /\ UNCHANGED <<fs, lock, tables, cwd, ret>>

\* sys_read(), sys_write(), sys_fstat(), sys_close(), after argfd().
SysFd(p) ==
  LET c == Head(prog[p])
      f == ofile[p][c[2]]
  IN  /\ Calls(p, {"read", "write", "fstat", "close"})
      /\ IF f = NULL THEN Begin(p, <<>>)
         ELSE CASE c[1] = "read"  -> Begin(p, IF ftable[f].readable /\ ftable[f].type = "inode"
                                              THEN << <<"fileread", f>> >> ELSE <<>>)
                [] c[1] = "write" -> Begin(p, IF ftable[f].writable /\ ftable[f].type = "inode"
                                              THEN << <<"filewrite", f, c[3]>> >> ELSE <<>>)
                [] c[1] = "fstat" -> Begin(p, IF ftable[f].type = "inode"
                                              THEN << <<"filestat", f>> >> ELSE <<>>)
                [] c[1] = "close" -> Begin(p, << <<"fileclose", f>> >>)
      /\ ofile' = IF c[1] = "close" THEN [ofile EXCEPT ![p][c[2]] = NULL] ELSE ofile
      /\ UNCHANGED <<fs, lock, ftable, pipes, cwd, ret>>

SysDup(p) ==
  LET f == ofile[p][Head(prog[p])[2]]
  IN  /\ Calls(p, {"dup"})
      /\ Begin(p, <<>>)
      /\ IF f = NULL \/ UnusedFds(p) = {} THEN UNCHANGED <<ftable, ofile>>
         ELSE /\ ofile' = [ofile EXCEPT ![p][Min(UnusedFds(p))] = f]
              /\ ftable' = Filedup(ftable, f)
      /\ UNCHANGED <<fs, lock, pipes, cwd, ret>>

\* sys_pipe() with pipealloc(): both files and both descriptors, or nothing.
SysPipe(p) ==
  LET r == Min(UnusedFiles)
      w == Min(UnusedFiles \ {r})
      fd0 == Min(UnusedFds(p))
      fd1 == Min(UnusedFds(p) \ {fd0})
      page == {i \in 1 .. NPIPE : pipes[i] = {}}
      End(i, wr) == [ref |-> 1, type |-> "pipe", ip |-> i, off |-> 0,
                     readable |-> ~wr, writable |-> wr]
  IN  /\ Calls(p, {"pipe"})
      /\ IF Cardinality(UnusedFiles) < 2 \/ page = {}
         THEN Begin(p, <<>>) /\ UNCHANGED tables
         ELSE /\ ftable' = [ftable EXCEPT ![r] = End(Min(page), FALSE), ![w] = End(Min(page), TRUE)]
              /\ pipes' = [pipes EXCEPT ![Min(page)] = {"read", "write"}]
              /\ IF Cardinality(UnusedFds(p)) < 2
                 THEN /\ Begin(p, << <<"fileclose", r>>, <<"fileclose", w>> >>)
                      /\ UNCHANGED ofile
                 ELSE /\ Begin(p, <<>>)
                      /\ ofile' = [ofile EXCEPT ![p][fd0] = r, ![p][fd1] = w]
      /\ UNCHANGED <<fs, lock, cwd, ret>>

\* fork(): the child q shares the open files and the directory, and runs the same program.
Fork(p, q) ==
  LET opens == {fd \in Fds : ofile[p][fd] # NULL}
  IN  /\ Calls(p, {"fork"}) /\ cwd[q] = NULL /\ prog[q] = <<>> /\ k[q] = <<>>
      /\ ftable' = [f \in FileIds |->
                      [ftable[f] EXCEPT !.ref = @ + Cardinality({fd \in opens : ofile[p][fd] = f})]]
      /\ fs' = Idup(fs, cwd[p])
      /\ ofile' = [ofile EXCEPT ![q] = ofile[p]]
      /\ cwd' = [cwd EXCEPT ![q] = cwd[p]]
      /\ prog' = [prog EXCEPT ![p] = Tail(@), ![q] = Tail(prog[p])]
      /\ UNCHANGED <<lock, pipes, k, ret>>

\* exit(), also at the end of the program: every descriptor, then the directory.
Exit(p) ==
  LET opens == SetToSortSeq({fd \in Fds : ofile[p][fd] # NULL}, LAMBDA x, y : x < y)
  IN  /\ fs.panic = "" /\ k[p] = <<>> /\ prog[p] = <<>> /\ cwd[p] # NULL
      /\ k' = [k EXCEPT ![p] = [i \in DOMAIN opens |-> <<"fileclose", ofile[p][opens[i]]>>]
                               \o IputOf(cwd[p])]
      /\ ofile' = [ofile EXCEPT ![p] = [fd \in Fds |-> NULL]]
      /\ cwd' = [cwd EXCEPT ![p] = NULL]
      /\ UNCHANGED <<fs, lock, ftable, pipes, prog, ret>>

Step(p) ==
  \/ IputLock(p) \/ IputUnref(p) \/ Iunlock(p) \/ NamexStart(p) \/ Namex(p)
  \/ NoSuchInode(p) \/ CreateFound(p) \/ CreateOld(p) \/ CreateNew(p) \/ Created(p)
  \/ OpenOld(p) \/ OpenFile(p) \/ LinkOld(p) \/ LinkNew(p) \/ LinkNowhere(p) \/ LinkBad(p)
  \/ UnlinkParent(p) \/ UnlinkInode(p) \/ UnlinkCount(p)
  \/ Chdir(p) \/ SetCwd(p) \/ ExecRead(p)
  \/ Fileclose(p) \/ Fileread(p) \/ Filewrite(p) \/ Filestat(p)
  \/ SysPath(p) \/ SysFd(p) \/ SysDup(p) \/ SysPipe(p) \/ Exit(p)
  \/ \E q \in Procs : Fork(p, q)

Next == \E p \in Procs : Step(p)

Spec == Init /\ [][Next]_vars
=============================================================================
