--------------------------------- MODULE Vm ---------------------------------
(***************************************************************************)
(* Physical pages (kalloc.c), address spaces (vm.c), and the calls that    *)
(* build, grow, copy, replace and free them: fork, exec, sbrk, exit with   *)
(* wait; and the checks of system call arguments against p->sz             *)
(* (syscall.c).                                                            *)
(*                                                                         *)
(* The memory m is a record: free, the pages on the free list; twice, TRUE *)
(* once kfree() got a page that is on it; panic; and dir, the address      *)
(* spaces by the page of their directory.  An address space has its page   *)
(* tables pt (one per directory entry), its user pages pte, and the guard  *)
(* pages clearpteu() made.  0 stands for an entry without PTE_P, and for a *)
(* null pointer.  A call is one step: processes share the free list only,  *)
(* under kmem.lock, and a call that runs out of pages in between runs out  *)
(* in some state of that list here too.                                    *)
(***************************************************************************)
EXTENDS Integers, Sequences, FiniteSets, FiniteSetsExt, SequencesExt, TLC

CONSTANTS
  Pages,        \* physical pages of the allocator
  Tasks,        \* process slots
  PGSIZE,       \* bytes of a page
  NPTENTRIES,   \* pages a page table maps
  UserPdes,     \* directory entries below KERNBASE
  KernPdes,     \* directory entries setupkvm() fills
  Increments,   \* arguments of sbrk
  Images,       \* programs for exec
  WORD          \* bytes of an int

ASSUME VmAssumption ==
  /\ {PGSIZE, NPTENTRIES, UserPdes, KernPdes, WORD} \subseteq Nat \ {0}
  /\ 0 \notin Pages

VARIABLES
  m,
  task          \* sz, pgdir and kstack of each process; NoTask for a free slot

vmvars == <<m, task>>

NoTask == [sz |-> 0, pgdir |-> 0, kstack |-> 0]
KERNBASE == UserPdes * NPTENTRIES * PGSIZE
PGROUNDUP(n) == ((n + PGSIZE - 1) \div PGSIZE) * PGSIZE
\* The user pages from address a up to address b, in order.
PageRange(a, b) == LET lo == PGROUNDUP(a) \div PGSIZE
                       hi == (PGROUNDUP(b) \div PGSIZE) - 1
                   IN  [i \in 1 .. hi - lo + 1 |-> lo + i - 1]
-----------------------------------------------------------------------------
(* kalloc.c *)

\* The page kalloc() returns, 0 if there is none.
KallocPage(s) == IF s.free = {} THEN 0 ELSE Min(s.free)
Kalloc(s) == [s EXCEPT !.free = @ \ {KallocPage(s)}]
Kfree(s, page) == [s EXCEPT !.twice = @ \/ page \in s.free, !.free = @ \union {page}]
KfreeAll(s, pages) == FoldSet(LAMBDA page, t : Kfree(t, page), s, pages)

(* vm.c: d is the directory's page *)

\* mappages() of user page v: walkpgdir() may need a page table.
NeedsTable(s, d, v) == s.dir[d].pt[v \div NPTENTRIES] = 0
CanMap(s, d, v) == ~NeedsTable(s, d, v) \/ s.free # {}
Mappage(s, d, v, page) ==
  LET t == IF NeedsTable(s, d, v)
           THEN [Kalloc(s) EXCEPT !.dir[d].pt[v \div NPTENTRIES] = KallocPage(s)] ELSE s
  IN  IF t.dir[d].pte[v] # 0 THEN [t EXCEPT !.panic = "remap"]
      ELSE [t EXCEPT !.dir[d].pte[v] = page]

Deallocuvm(s, d, oldsz, newsz) ==
  IF newsz >= oldsz THEN s
  ELSE FoldLeft(LAMBDA t, v : IF t.dir[d].pte[v] = 0 THEN t
                              ELSE [Kfree(t, t.dir[d].pte[v]) EXCEPT !.dir[d].pte[v] = 0],
                s, PageRange(newsz, oldsz))

Freevm(s, d) ==
  LET t == Deallocuvm(s, d, KERNBASE, 0)
      tables == {t.dir[d].pt[i] : i \in DOMAIN t.dir[d].pt} \ {0}
  IN  [Kfree(KfreeAll(t, tables), d) EXCEPT !.dir = [e \in DOMAIN @ \ {d} |-> @[e]]]

\* setupkvm(): the directory it returns, 0 if pages run out.
Setupkvm(s) ==
  LET d == KallocPage(s)
      t0 == [Kalloc(s) EXCEPT !.dir = (d :> [pt |-> [i \in 0 .. UserPdes + KernPdes - 1 |-> 0],
                                             pte |-> [v \in 0 .. (UserPdes * NPTENTRIES) - 1 |-> 0],
                                             guard |-> {}]) @@ @]
      Table(t, i) == IF t.free = {} THEN t
                     ELSE [Kalloc(t) EXCEPT !.dir[d].pt[i] = KallocPage(t)]
      kern == [i \in 1 .. KernPdes |-> UserPdes + i - 1]
      t1 == FoldLeft(Table, t0, kern)
  IN  IF d = 0 THEN [s |-> s, d |-> 0]
      ELSE IF \A i \in 1 .. KernPdes : t1.dir[d].pt[kern[i]] # 0 THEN [s |-> t1, d |-> d]
      ELSE [s |-> Freevm(t1, d), d |-> 0]

\* Fault: the page that could not be mapped is forgotten.
Unmapped_Leak(s, page) == s

\* kfree(mem) after mappages() failed.
Unmapped(s, page) == Kfree(s, page)

\* One page of allocuvm() and copyuvm().
AddPage(r, d, v) ==
  LET page == KallocPage(r.s)
      s == Kalloc(r.s)
  IN  IF ~r.ok \/ page = 0 THEN [r EXCEPT !.ok = FALSE]
      ELSE IF CanMap(s, d, v) THEN [s |-> Mappage(s, d, v, page), ok |-> TRUE]
      ELSE [s |-> Unmapped(s, page), ok |-> FALSE]

\* allocuvm(): the state, and the size it returns.
Allocuvm(s, d, oldsz, newsz) ==
  LET r == FoldLeft(LAMBDA t, v : AddPage(t, d, v), [s |-> s, ok |-> TRUE],
                    PageRange(oldsz, newsz))
  IN  IF newsz >= KERNBASE THEN [s |-> s, sz |-> 0]
      ELSE IF newsz < oldsz THEN [s |-> s, sz |-> oldsz]
      ELSE IF r.ok THEN [s |-> r.s, sz |-> newsz]
      ELSE [s |-> Deallocuvm(r.s, d, newsz, oldsz), sz |-> 0]

\* Fault: the page that is used in part is not copied.
CopiedPages_Whole(sz) == PageRange(0, sz - (sz % PGSIZE))

\* for(i = 0; i < sz; i += PGSIZE)
CopiedPages(sz) == PageRange(0, sz)

\* copyuvm(): the state, and the directory it returns.
Copyuvm(s, old, sz) ==
  LET k == Setupkvm(s)
      range == CopiedPages(sz)
      r == FoldLeft(LAMBDA t, v : AddPage(t, k.d, v), [s |-> k.s, ok |-> TRUE], range)
      t == [r.s EXCEPT !.dir[k.d].guard = s.dir[old].guard]
  IN  IF k.d = 0 THEN k
      ELSE IF \E i \in DOMAIN range : s.dir[old].pte[range[i]] = 0
           THEN [s |-> [s EXCEPT !.panic = "copyuvm: page not present"], d |-> 0]
      ELSE IF r.ok THEN [s |-> t, d |-> k.d] ELSE [s |-> Freevm(r.s, k.d), d |-> 0]

\* copyout() of len bytes to address va: every page must be the user's.
Copyout(s, d, va, len) ==
  \A b \in va .. va + len - 1 :
    b >= 0 /\ s.dir[d].pte[b \div PGSIZE] # 0 /\ (b \div PGSIZE) \notin s.dir[d].guard

(* exec.c: the new image, before it is committed *)

\* One program header: allocuvm(), the checks around it, loaduvm().
LoadSegment(r, d, seg) ==
  LET end == (seg.va + seg.memsz) % (2 * KERNBASE)
      a == Allocuvm(r.s, d, r.sz, end)
      loads == PageRange(seg.va, seg.va + seg.filesz)
  IN  IF ~r.ok \/ seg.memsz < seg.filesz \/ end < seg.va THEN [r EXCEPT !.ok = FALSE]
      ELSE IF a.sz = 0 \/ seg.va % PGSIZE # 0 THEN [s |-> a.s, sz |-> a.sz, ok |-> FALSE]
      ELSE IF \E i \in DOMAIN loads : a.s.dir[d].pt[loads[i] \div NPTENTRIES] = 0
           THEN [r EXCEPT !.s.panic = "loaduvm: address should exist"]
      ELSE [s |-> a.s, sz |-> a.sz, ok |-> seg.complete]

\* "bad:", with the memory in use so far.
ExecBad(s, d) == [s |-> IF d = 0 THEN s ELSE Freevm(s, d), d |-> 0, sz |-> 0]

\* The program headers of an image, in the directory that setupkvm() returned.
LoadSegments(k, img) ==
  FoldLeft(LAMBDA r, seg : LoadSegment(r, k.d, seg),
           [s |-> k.s, sz |-> 0, ok |-> k.d # 0], img.segs)

\* After the segments l: a guard page and a stack page, the arguments on the stack.
NewImage(l, d, img) ==
  LET base == PGROUNDUP(l.sz)
      a == Allocuvm(l.s, d, base, base + 2 * PGSIZE)
      t == [a.s EXCEPT !.dir[d].guard = @ \union {base \div PGSIZE}]
  IN  IF ~l.ok THEN ExecBad(l.s, d)
      ELSE IF a.sz = 0 THEN ExecBad(a.s, d)
      ELSE IF ~Copyout(t, d, a.sz - img.args, img.args) THEN ExecBad(t, d)
      ELSE [s |-> t, d |-> d, sz |-> a.sz]
-----------------------------------------------------------------------------
(* Processes *)

\* userinit(), with inituvm(): the first process has one page, in the first slot.
VmInit ==
  LET s0 == [free |-> Pages, twice |-> FALSE, panic |-> "", dir |-> <<>>]
      first == CHOOSE p \in Tasks : TRUE
      stack == KallocPage(s0)
      k == Setupkvm(Kalloc(s0))
      r == AddPage([s |-> k.s, ok |-> TRUE], k.d, 0)
  IN  /\ m = r.s
      /\ task = [p \in Tasks |-> IF p = first THEN [sz |-> PGSIZE, pgdir |-> k.d, kstack |-> stack]
                                 ELSE NoTask]

\* A process can make calls as long as the page of its code is there: sbrk(-sz) frees
\* every page before growproc() returns -1, and the next instruction faults.
Executes(p) == m.panic = "" /\ task[p] # NoTask /\ m.dir[task[p].pgdir].pte[0] # 0

\* allocproc()'s kstack, and copyuvm(), of fork().
VmFork(p, q) ==
  /\ Executes(p) /\ task[q] = NoTask
  /\ \E stack \in {KallocPage(m)}, c \in {Copyuvm(Kalloc(m), task[p].pgdir, task[p].sz)} :
       IF stack = 0 THEN UNCHANGED vmvars
       ELSE IF c.d = 0 THEN m' = Kfree(c.s, stack) /\ UNCHANGED task
       ELSE /\ m' = c.s
            /\ task' = [task EXCEPT ![q] = [sz |-> task[p].sz, pgdir |-> c.d, kstack |-> stack]]

\* exit(), and the parent's wait(), which frees the memory.
VmExit(p) ==
  /\ m.panic = "" /\ task[p] # NoTask
  /\ m' = Freevm(Kfree(m, task[p].kstack), task[p].pgdir)
  /\ task' = [task EXCEPT ![p] = NoTask]

\* growproc(n): sz + n is a uint.
Growproc(p, n) ==
  LET t == task[p]
      newsz == (t.sz + n) % (2 * KERNBASE)
  IN  /\ Executes(p)
      /\ \E a \in {IF n > 0 THEN Allocuvm(m, t.pgdir, t.sz, newsz)
                   ELSE [s |-> Deallocuvm(m, t.pgdir, t.sz, newsz),
                         sz |-> IF newsz >= t.sz THEN t.sz ELSE newsz]} :
           /\ m' = a.s
           /\ task' = IF a.sz = 0 THEN task ELSE [task EXCEPT ![p].sz = a.sz]

\* exec(): on success the old image is freed.
VmExec(p) ==
  /\ Executes(p)
  /\ \E img \in Images :
     \E k \in {IF img.elf THEN Setupkvm(m) ELSE [s |-> m, d |-> 0]} :
     \E l \in {LoadSegments(k, img)} :
     \E new \in {NewImage(l, k.d, img)} :
       IF new.d = 0 THEN m' = new.s /\ UNCHANGED task
       ELSE /\ m' = Freevm(new.s, task[p].pgdir)
            /\ task' = [task EXCEPT ![p].sz = new.sz, ![p].pgdir = new.d]

VmNext ==
  \E p \in Tasks :
    \/ VmExit(p) \/ VmExec(p)
    \/ \E q \in Tasks : VmFork(p, q)
    \/ \E n \in Increments : Growproc(p, n)
-----------------------------------------------------------------------------
(* syscall.c: what the checks of an argument accept *)

\* addr >= sz || addr + size > sz
InSize(p, addr, size) ==
  addr < task[p].sz /\ (addr + size) % (2 * KERNBASE) <= task[p].sz

Fetchint(p, addr) == InSize(p, addr, WORD)
Argptr(p, addr, size) == size >= 0 /\ InSize(p, addr, size)
\* fetchstr() looks for the end of the string up to sz.
Fetchstr(p, addr) == addr < task[p].sz

\* The pages with bytes in [addr, addr + size) are there.
Present(p, addr, size) ==
  \A b \in addr .. addr + size - 1 :
    b < KERNBASE /\ m.dir[task[p].pgdir].pte[b \div PGSIZE] # 0

Live == {p \in Tasks : task[p] # NoTask}
UserPages(d) == {m.dir[d].pte[v] : v \in DOMAIN m.dir[d].pte} \ {0}
Tables(d) == {m.dir[d].pt[i] : i \in DOMAIN m.dir[d].pt} \ {0}

\* Every physical page is on the free list or has one owner, and one use with it: kernel
\* stack, directory, page table or user page of one process.  Nothing is freed twice and
\* nothing leaks, on any path on which kalloc() fails.
\* (kalloc, kfree, setupkvm, allocuvm, deallocuvm, copyuvm, freevm, exec, fork, wait)
PagesOwnedOnce ==
  LET Uses(p) == LET d == task[p].pgdir
                 IN  <<{task[p].kstack}, {d}, Tables(d), UserPages(d)>>
      Owned(p) == UNION Range(Uses(p))
      Count(p) == 2 + Cardinality({i \in DOMAIN m.dir[task[p].pgdir].pt : m.dir[task[p].pgdir].pt[i] # 0})
                    + Cardinality({v \in DOMAIN m.dir[task[p].pgdir].pte : m.dir[task[p].pgdir].pte[v] # 0})
  IN  /\ ~m.twice
      /\ m.free \union UNION {Owned(p) : p \in Live} = Pages
      /\ Cardinality(m.free) + MapThenSumSet(Count, Live) = Cardinality(Pages)
      /\ DOMAIN m.dir = {task[p].pgdir : p \in Live}

\* What the argument checks accept is in memory: the kernel can read and write it without
\* a fault, since every page below p->sz is mapped, whatever sbrk, exec and fork did.  And
\* copyuvm(), loaduvm() and mappages() never panic.
\* (fetchint, fetchstr and argptr of syscall.c; growproc, allocuvm, deallocuvm)
ArgumentsInMemory ==
  /\ m.panic = ""
  /\ \A p \in Live : Executes(p) =>
       \A addr \in 0 .. 2 * KERNBASE - 1 :
         /\ Fetchint(p, addr) => Present(p, addr, WORD)
         /\ Fetchstr(p, addr) => Present(p, addr, task[p].sz - addr)
         /\ \A size \in 0 .. KERNBASE - 1 : Argptr(p, addr, size) => Present(p, addr, size)
=============================================================================
