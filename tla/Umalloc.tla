------------------------------ MODULE Umalloc -------------------------------
(***************************************************************************)
(* The user-level allocator (umalloc.c): malloc() and free() of one        *)
(* process, which has one thread, over the memory sbrk() gives it.         *)
(* Addresses count Headers; the static base is at 0, below the heap.       *)
(***************************************************************************)
EXTENDS Integers, Sequences, FiniteSets, SequencesExt, TLC

CONSTANTS
  HeaderSize,   \* sizeof(Header)
  NALLOC,       \* the least number of units morecore() asks for (4096)
  HEAP,         \* units after which sbrk() fails
  Requests,     \* arguments of malloc, in bytes
  UINT          \* values of a uint

ASSUME UmallocAssumption ==
  /\ {HeaderSize, NALLOC, HEAP, UINT} \subseteq Nat \ {0}
  /\ Requests \subseteq 0 .. UINT - 1

VARIABLES
  hdr,          \* the circular free list: ptr and size by address; empty before the first malloc()
  freep,
  top,          \* the program's break
  used,         \* the blocks the program holds: size, and the bytes it asked for
  own           \* units the program took from sbrk() itself

heapvars == <<hdr, freep, top, used, own>>

base == 0

UmallocInit ==
  hdr = <<>> /\ freep = base /\ top = 1 /\ used = <<>> /\ own = {}

\* The list, from block p on.
ListFrom(h, p) ==
  FoldLeft(LAMBDA s, i : Append(s, h[Last(s)].ptr), <<p>>, [i \in 1 .. Cardinality(DOMAIN h) - 1 |-> i])

Without(h, p) == [q \in DOMAIN h \ {p} |-> h[q]]

\* Fault: the block is linked in, and not joined with the one after it.
JoinNext_Not(h, bp, size, next) == h @@ (bp :> [ptr |-> next, size |-> size])

\* if(bp + bp->s.size == p->s.ptr)
JoinNext(h, bp, size, next) ==
  IF bp + size = next
  THEN Without(h, next) @@ (bp :> [ptr |-> h[next].ptr, size |-> size + h[next].size])
  ELSE h @@ (bp :> [ptr |-> next, size |-> size])

\* free() of the block of that size at bp: the list and freep it leaves.
FreeOf(h, f, bp, size) ==
  LET list == ListFrom(h, f)
      Stop(q) == \/ bp > q /\ bp < h[q].ptr
                 \/ q >= h[q].ptr /\ (bp > q \/ bp < h[q].ptr)
      p == list[SelectInSeq(list, Stop)]
      j == JoinNext(h, bp, size, h[p].ptr)
  IN  [hdr |-> IF p + j[p].size = bp
               THEN [Without(j, bp) EXCEPT ![p] = [ptr |-> j[bp].ptr, size |-> @.size + j[bp].size]]
               ELSE [j EXCEPT ![p].ptr = bp],
       freep |-> p]

UserFree(bp) ==
  LET r == FreeOf(hdr, freep, bp, used[bp].size)
  IN  hdr' = r.hdr /\ freep' = r.freep /\ used' = Without(used, bp) /\ UNCHANGED <<top, own>>

\* nbytes + sizeof(Header) - 1 is a uint.
Nunits(nbytes) == (((nbytes + HeaderSize - 1) % UINT) \div HeaderSize) + 1

\* malloc()'s way round the list, and the place of the first block that is large enough.
Search(r) == ListFrom(r.hdr, r.hdr[r.freep].ptr)
FirstFit(r, n) == SelectInSeq(Search(r), LAMBDA p : r.hdr[p].size >= n)

\* The block malloc() takes: all of the free block, or its tail.
Take(r, n, nbytes) ==
  LET i == FirstFit(r, n)
      p == Search(r)[i]
      prevp == IF i = 1 THEN r.freep ELSE Search(r)[i - 1]
      left == r.hdr[p].size - n
  IN  /\ hdr' = IF left = 0 THEN [Without(r.hdr, p) EXCEPT ![prevp].ptr = r.hdr[p].ptr]
                ELSE [r.hdr EXCEPT ![p].size = left]
      /\ freep' = prevp
      /\ used' = used @@ (p + left :> [size |-> n, bytes |-> nbytes])

\* malloc(), with morecore(); a failing sbrk() makes it return 0.
Malloc(nbytes) ==
  LET n == Nunits(nbytes)
      nu == IF n < NALLOC THEN NALLOC ELSE n
      list == IF hdr = <<>> THEN base :> [ptr |-> base, size |-> 0] ELSE hdr
      r == [hdr |-> list, freep |-> freep]
  IN  /\ UNCHANGED own
      /\ IF FirstFit(r, n) # 0 THEN Take(r, n, nbytes) /\ UNCHANGED top
         ELSE IF top + nu > HEAP THEN hdr' = list /\ UNCHANGED <<freep, top, used>>
         ELSE Take(FreeOf(list, freep, top, nu), n, nbytes) /\ top' = top + nu

\* The program may call sbrk() as well: the heap then has a hole.
OwnSbrk ==
  top < HEAP /\ top' = top + 1 /\ own' = own \union {top} /\ UNCHANGED <<hdr, freep, used>>

UmallocNext ==
  \/ \E nbytes \in Requests : Malloc(nbytes)
  \/ \E bp \in DOMAIN used : UserFree(bp)
  \/ OwnSbrk
-----------------------------------------------------------------------------
Units(p, size) == p .. p + size - 1

\* Every unit below the break is in one free block, in one block the program holds, or the
\* program's own: malloc() never hands out memory in use and free() never loses any.  A
\* block has room for what was asked for, as long as the request does not overflow; and
\* neighbouring free blocks are joined, with the list in address order.  (malloc, free, morecore)
HeapPartitioned ==
  LET free == {p \in DOMAIN hdr : p # base}
      pieces == {Units(p, hdr[p].size) : p \in free}
                  \union {Units(p, used[p].size) : p \in DOMAIN used} \union {{u} : u \in own}
  IN  /\ UNION pieces = 1 .. top - 1
      /\ Cardinality(pieces) = Cardinality(free) + Cardinality(DOMAIN used) + Cardinality(own)
      /\ \A a, b \in pieces : a # b => a \intersect b = {}
      /\ \A p \in DOMAIN used :
           used[p].bytes + HeaderSize <= UINT => (used[p].size - 1) * HeaderSize >= used[p].bytes
      /\ \A p \in free : hdr[p].ptr = base \/ p + hdr[p].size < hdr[p].ptr
      /\ hdr # <<>> => ToSet(ListFrom(hdr, base)) = DOMAIN hdr /\ freep \in DOMAIN hdr
=============================================================================
