--------------------------- MODULE PipeFifoProofs ---------------------------
(***************************************************************************)
(* Pipe implements Fifo: what is between nread and nwrite in data[], taken *)
(* in order, is the queue.                                                 *)
(***************************************************************************)
EXTENDS PipeProofs, SequenceTheorems

USE DEF pipevars

\* Where the i-th byte of the queue is in data[], when nread is r.
Idx(r, i) == (r + i - 1) % PIPESIZE

LEMMA IdxIs ==
  ASSUME NEW r \in 0 .. UINTS - 1, NEW i \in 1 .. PIPESIZE
  PROVE  PipeAt(Plus(r, i - 1)) = Idx(r, i) /\ Idx(r, i) \in 0 .. PIPESIZE - 1
<1> DEFINE a == i - 1
<1>0. PIPESIZE \in Nat \ {0} /\ UINTS \in Nat
  BY Constants, Zenon
<1>1. a \in 0 .. PIPESIZE /\ r + a = r + i - 1 /\ r + i - 1 \in Nat
  BY <1>0
<1>2. PipeAt(Plus(r, a)) = (r + a) % PIPESIZE
  <2> HIDE DEF a
  <2> QED BY <1>1, PlusAt, Zenon
<1>3. (r + i - 1) % PIPESIZE \in 0 .. PIPESIZE - 1
  BY <1>0, <1>1, Quotient, Zenon
<1> QED BY <1>1, <1>2, <1>3, Zenon DEF Idx

LEMMA IdxApart ==
  ASSUME NEW r \in 0 .. UINTS - 1, NEW i \in 1 .. PIPESIZE, NEW j \in 1 .. PIPESIZE, i # j
  PROVE  Idx(r, i) # Idx(r, j)
<1>0. PIPESIZE \in Nat \ {0} /\ UINTS \in Nat
  BY Constants, Zenon
<1> DEFINE m == r + i - 1
           n == r + j - 1
<1>1. m \in Nat /\ n \in Nat /\ ((m < n /\ n < m + PIPESIZE) \/ (n < m /\ m < n + PIPESIZE))
  BY <1>0
<1>2. m % PIPESIZE # n % PIPESIZE
  <2> HIDE DEF m, n
  <2> QED BY <1>0, <1>1, Apart, Zenon
<1> QED BY <1>2, Zenon DEF Idx

\* The i-th byte after the next k is the (k+i)-th.
LEMMA IdxShift ==
  ASSUME NEW r \in 0 .. UINTS - 1, NEW k \in 0 .. PIPESIZE, NEW i \in 1 .. PIPESIZE - k
  PROVE  Idx(Plus(r, k), i) = Idx(r, k + i)
<1>0. PIPESIZE \in Nat \ {0} /\ UINTS \in Nat /\ PIPESIZE < UINTS
  BY Constants, Zenon
<1>1. Plus(r, k) \in 0 .. UINTS - 1 /\ i \in 1 .. PIPESIZE /\ k + i \in 1 .. PIPESIZE
  BY <1>0 DEF Plus
<1>2. Plus(Plus(r, k), i - 1) = Plus(r, k + i - 1)
  BY <1>0 DEF Plus
<1>3. PipeAt(Plus(Plus(r, k), i - 1)) = Idx(Plus(r, k), i)
  BY <1>1, IdxIs, Zenon
<1>4. PipeAt(Plus(r, k + i - 1)) = Idx(r, k + i)
  <2> DEFINE j == k + i
  <2>1. PipeAt(Plus(r, j - 1)) = Idx(r, j)
    <3> HIDE DEF j
    <3>1. j \in 1 .. PIPESIZE
      BY <1>1 DEF j
    <3> QED BY <3>1, IdxIs, Zenon
  <2> QED BY <2>1
<1> QED BY <1>2, <1>3, <1>4, Zenon

\* The queue, in terms of Idx.
LEMMA ContentsIs ==
  ASSUME PipeTypeOK, Used <= PIPESIZE
  PROVE  /\ Contents = [i \in 1 .. Used |-> data[Idx(nread, i)]]
         /\ Contents \in Seq(Nat) /\ Len(Contents) = Used
<1>0. PIPESIZE \in Nat \ {0} /\ Used \in Nat
  BY UsedIs, Constants, Zenon
<1>1. ASSUME NEW i \in 1 .. Used
      PROVE  data[PipeAt(Plus(nread, i - 1))] = data[Idx(nread, i)] /\ data[Idx(nread, i)] \in Nat
  <2>1. i \in 1 .. PIPESIZE
    BY <1>0
  <2> QED BY <2>1, IdxIs, Zenon DEF PipeTypeOK
<1>2. Contents = [i \in 1 .. Used |-> data[Idx(nread, i)]]
  BY <1>1, Zenon DEF Contents
<1>3. Contents \in Seq(Nat) /\ Len(Contents) = Used
  BY <1>0, <1>1, <1>2
<1> QED BY <1>2, <1>3, Zenon

LEMMA ContentsNext ==
  ASSUME PipeTypeOK', Used' <= PIPESIZE
  PROVE  /\ Contents' = [i \in 1 .. Used' |-> data'[Idx(nread', i)]]
         /\ Contents' \in Seq(Nat) /\ Len(Contents') = Used'
<1>0. PIPESIZE \in Nat \ {0} /\ UINTS \in Nat /\ Used' \in 0 .. UINTS - 1
  BY Constants, Difference, Zenon DEF PipeTypeOK, Used
<1>a. Used' \in Nat
  BY <1>0
<1>1. ASSUME NEW i \in 1 .. Used'
      PROVE  data'[PipeAt(Plus(nread', i - 1))] = data'[Idx(nread', i)] /\ data'[Idx(nread', i)] \in Nat
  <2>1. i \in 1 .. PIPESIZE
    BY <1>0
  <2> QED BY <2>1, IdxIs, Zenon DEF PipeTypeOK
<1>2. Contents' = [i \in 1 .. Used' |-> data'[Idx(nread', i)]]
  BY <1>1, Zenon DEF Contents
<1>3. Contents' \in Seq(Nat) /\ Len(Contents') = Used'
  BY <1>a, <1>1, <1>2
<1> QED BY <1>2, <1>3, Zenon
-----------------------------------------------------------------------------
(* What the steps do to the queue *)

LEMMA FillContents ==
  ASSUME PipeTypeOK, Used <= PIPESIZE, NEW buf \in Seq(Nat), NEW n \in 0 .. PIPESIZE - Used,
         n <= Len(buf), Fill(buf, n), nread' = nread, PipeTypeOK'
  PROVE  Contents' = Contents \o SubSeq(buf, 1, n) /\ Len(Contents') <= PIPESIZE
<1> DEFINE New(i) == {j \in 1 .. n : PipeAt(Plus(nwrite, j - 1)) = i}
<1>0. PIPESIZE \in Nat \ {0} /\ UINTS \in Nat /\ PIPESIZE < UINTS /\ Used \in Nat
      /\ nread \in 0 .. UINTS - 1
  BY UsedIs, Constants, Zenon DEF PipeTypeOK
<1>a. n \in Nat /\ Used + n \in Nat /\ Used + n <= PIPESIZE
  BY <1>0
<1>b. Used' = Used + n
  BY FillCounts, Zenon
<1>1. nwrite = Plus(nread, Used)
  BY <1>0 DEF PipeTypeOK, Used, Minus, Plus
<1>2. ASSUME NEW j \in 1 .. n
      PROVE  PipeAt(Plus(nwrite, j - 1)) = Idx(nread, Used + j)
  <2>1. j \in 1 .. PIPESIZE /\ Used \in 0 .. PIPESIZE /\ j \in 1 .. PIPESIZE - Used
    BY <1>0, <1>a
  <2>2. nwrite \in 0 .. UINTS - 1
    BY Zenon DEF PipeTypeOK
  <2> QED BY <2>1, <2>2, <1>0, <1>1, IdxIs, IdxShift, Zenon
<1>3. ASSUME NEW k \in 1 .. Used
      PROVE  data'[Idx(nread, k)] = data[Idx(nread, k)]
  <2>1. k \in 1 .. PIPESIZE
    BY <1>0
  <2>2. ASSUME NEW j \in 1 .. n PROVE PipeAt(Plus(nwrite, j - 1)) # Idx(nread, k)
    <3>1. Used + j \in 1 .. PIPESIZE /\ Used + j # k
      BY <1>0, <1>a
    <3> DEFINE u == Used + j
    <3> HIDE DEF u
    <3>2. Idx(nread, u) # Idx(nread, k)
      BY <3>1, <2>1, <1>0, IdxApart, Zenon DEF u
    <3> QED BY <3>2, <1>2, Zenon DEF u
  <2>3. New(Idx(nread, k)) = {}
    BY <2>2, Zenon
  <2>4. Idx(nread, k) \in 0 .. PIPESIZE - 1
    BY <2>1, <1>0, IdxIs, Zenon
  <2> QED BY <2>3, <2>4, Zenon DEF Fill
<1>4. ASSUME NEW j \in 1 .. n
      PROVE  data'[Idx(nread, Used + j)] = buf[j]
  <2> DEFINE u == Used + j
  <2>1. u \in 1 .. PIPESIZE
    BY <1>0, <1>a
  <2>2. Idx(nread, u) \in 0 .. PIPESIZE - 1
    <3> HIDE DEF u
    <3> QED BY <2>1, <1>0, IdxIs, Zenon
  <2>3. ASSUME NEW l \in 1 .. n, l # j PROVE PipeAt(Plus(nwrite, l - 1)) # Idx(nread, u)
    <3> DEFINE v == Used + l
    <3>1. v \in 1 .. PIPESIZE /\ v # u
      BY <2>3, <1>0, <1>a
    <3>2. Idx(nread, v) # Idx(nread, u)
      <4> HIDE DEF u, v
      <4> QED BY <3>1, <2>1, <1>0, IdxApart, Zenon
    <3>3. PipeAt(Plus(nwrite, l - 1)) = Idx(nread, v)
      BY <1>2, Zenon
    <3> QED BY <3>2, <3>3, Zenon
  <2>4. PipeAt(Plus(nwrite, j - 1)) = Idx(nread, u)
    BY <1>2, Zenon
  <2> HIDE DEF u
  <2>5. New(Idx(nread, u)) = {j}
    BY <2>3, <2>4, Zenon
  <2>6. (CHOOSE x \in {j} : TRUE) = j
    BY Zenon
  <2>7. data'[Idx(nread, u)] = IF New(Idx(nread, u)) = {} THEN data[Idx(nread, u)]
                               ELSE buf[CHOOSE x \in New(Idx(nread, u)) : TRUE]
    BY <2>2, Zenon DEF Fill
  <2>8. data'[Idx(nread, u)] = buf[j]
    <3> HIDE DEF New
    <3> QED BY <2>5, <2>6, <2>7, Zenon
  <2> QED BY <2>8, Zenon DEF u
<1>5. /\ Contents = [i \in 1 .. Used |-> data[Idx(nread, i)]]
      /\ Contents \in Seq(Nat) /\ Len(Contents) = Used
  BY ContentsIs, Zenon
<1>6. /\ Contents' = [i \in 1 .. Used + n |-> data'[Idx(nread, i)]]
      /\ Contents' \in Seq(Nat) /\ Len(Contents') = Used + n
  BY <1>a, <1>b, ContentsNext, Zenon
<1> DEFINE s == SubSeq(buf, 1, n)
<1>7. s \in Seq(Nat) /\ Len(s) = n /\ \A j \in 1 .. n : s[j] = buf[j]
  BY <1>a
<1> HIDE DEF s
<1>8. ASSUME NEW i \in 1 .. Used + n
      PROVE  Contents'[i] = IF i <= Used THEN Contents[i] ELSE s[i - Used]
  <2>0. Contents'[i] = data'[Idx(nread, i)]
    BY <1>6, Zenon
  <2>1. CASE i <= Used
    <3>1. i \in 1 .. Used
      BY <1>0, <1>a, <2>1
    <3> QED BY <2>0, <2>1, <3>1, <1>3, <1>5, Zenon
  <2>2. CASE ~(i <= Used)
    <3> DEFINE j == i - Used
    <3>1. j \in 1 .. n /\ i = Used + j
      BY <1>0, <1>a, <2>2
    <3> HIDE DEF j
    <3>2. Contents'[i] = s[j]
      BY <2>0, <3>1, <1>4, <1>7, Zenon
    <3> QED BY <2>2, <3>2, Zenon DEF j
  <2> QED BY <2>1, <2>2, Zenon
<1>9. Contents' = Contents \o s
  <2> DEFINE c == Contents
             d == Contents'
  <2>1. c \in Seq(Nat) /\ d \in Seq(Nat) /\ Len(c) = Used /\ Len(d) = Used + n
    BY <1>5, <1>6, Zenon
  <2>2. \A i \in 1 .. Used + n : d[i] = IF i <= Used THEN c[i] ELSE s[i - Used]
    BY <1>8, Zenon
  <2> HIDE DEF c, d
  <2>3. d = c \o s
    <3>1. /\ c \o s \in Seq(Nat) /\ Len(c \o s) = Used + n
          /\ \A i \in 1 .. Used + n : (c \o s)[i] = IF i <= Used THEN c[i] ELSE s[i - Used]
      BY <2>1, <1>7, ConcatProperties, Zenon
    <3> QED BY <2>1, <2>2, <3>1, SeqEqual, Zenon
  <2> QED BY <2>3, Zenon DEF c, d
<1> QED BY <1>6, <1>9, <1>a, Zenon DEF s

LEMMA ReadContents ==
  ASSUME PipeTypeOK, Used <= PIPESIZE, NEW n \in 0 .. Used, nread' = Plus(nread, n),
         nwrite' = nwrite, data' = data, PipeTypeOK'
  PROVE  /\ Contents' = SubSeq(Contents, n + 1, Len(Contents))
         /\ [i \in 1 .. n |-> data[PipeAt(Plus(nread, i - 1))]] = SubSeq(Contents, 1, n)
<1>0. PIPESIZE \in Nat \ {0} /\ UINTS \in Nat /\ Used \in Nat /\ nread \in 0 .. UINTS - 1
  BY UsedIs, Constants, Zenon DEF PipeTypeOK
<1>1. n \in Nat /\ n \in 0 .. PIPESIZE /\ Used - n \in Nat /\ Used - n <= PIPESIZE
  BY <1>0
<1>2. Used' = Used - n
  BY UsedShrinks, Zenon DEF Used
<1>3. /\ Contents = [i \in 1 .. Used |-> data[Idx(nread, i)]]
      /\ Contents \in Seq(Nat) /\ Len(Contents) = Used
  BY ContentsIs, Zenon
<1>4. /\ Contents' = [i \in 1 .. Used - n |-> data[Idx(Plus(nread, n), i)]]
      /\ Contents' \in Seq(Nat) /\ Len(Contents') = Used - n
  BY <1>1, <1>2, ContentsNext, Zenon
<1>5. ASSUME NEW i \in 1 .. Used - n PROVE Contents'[i] = Contents[n + i]
  <2>1. i \in 1 .. PIPESIZE - n /\ n + i \in 1 .. Used
    BY <1>0, <1>1
  <2> QED BY <2>1, <1>0, <1>1, <1>3, <1>4, IdxShift, Zenon
<1>6. ASSUME NEW i \in 1 .. n PROVE data[PipeAt(Plus(nread, i - 1))] = Contents[i]
  <2>1. i \in 1 .. Used /\ i \in 1 .. PIPESIZE
    BY <1>0, <1>1
  <2> QED BY <2>1, <1>0, <1>3, IdxIs, Zenon
<1> DEFINE c == Contents
           d == Contents'
           g == [i \in 1 .. n |-> data[PipeAt(Plus(nread, i - 1))]]
<1>7. /\ c \in Seq(Nat) /\ Len(c) = Used /\ d \in Seq(Nat) /\ Len(d) = Used - n
      /\ \A i \in 1 .. Used - n : d[i] = c[n + i]
      /\ g = [i \in 1 .. n |-> c[i]]
  BY <1>3, <1>4, <1>5, <1>6, Zenon
<1> HIDE DEF c, d, g
<1>8. g = SubSeq(c, 1, n)
  BY <1>0, <1>1, <1>7
<1>9. d = SubSeq(c, n + 1, Used)
  <2> DEFINE e == SubSeq(c, n + 1, Used)
  <2>1. e \in Seq(Nat) /\ Len(e) = Used - n /\ \A i \in 1 .. Used - n : e[i] = c[n + i]
    BY <1>0, <1>1, <1>7
  <2> HIDE DEF e
  <2>2. d = e
    BY <2>1, <1>7, SeqEqual, Zenon
  <2> QED BY <2>2, Zenon DEF e
<1> QED BY <1>3, <1>8, <1>9, Zenon DEF c, d, g

\* What pipewrite() still has to write, before and after a step that changes one call.
LEMMA UnwrittenNext ==
  ASSUME PipeTypeOK, NEW t \in Users, NEW r, pcall' = [pcall EXCEPT ![t] = r]
  PROVE  Unwritten' = [Unwritten EXCEPT ![t] = IF r.op = "write" THEN r.buf ELSE <<>>]
<1>1. \A u \in Users : pcall'[u] = IF u = t THEN r ELSE pcall[u]
  BY Zenon DEF PipeTypeOK
<1> DEFINE x == IF r.op = "write" THEN r.buf ELSE <<>>
<1>2. \A u \in Users : Unwritten'[u] = IF u = t THEN x ELSE Unwritten[u]
  <2> SUFFICES ASSUME NEW u \in Users
               PROVE  Unwritten'[u] = IF u = t THEN x ELSE Unwritten[u]
    OBVIOUS
  <2>1. Unwritten'[u] = IF pcall'[u].op = "write" THEN pcall'[u].buf ELSE <<>>
    BY Zenon DEF Unwritten
  <2>2. Unwritten[u] = IF pcall[u].op = "write" THEN pcall[u].buf ELSE <<>>
    BY Zenon DEF Unwritten
  <2>3. CASE u = t
    BY <2>1, <2>3, <1>1, Zenon
  <2>4. CASE u # t
    BY <2>1, <2>2, <2>4, <1>1, Zenon
  <2> QED BY <2>3, <2>4, Zenon
<1>3. Unwritten' = [u \in Users |-> Unwritten'[u]] /\ Unwritten = [u \in Users |-> Unwritten[u]]
  BY DEF Unwritten
<1> HIDE DEF x
<1>4. Unwritten' = [Unwritten EXCEPT ![t] = x]
  BY <1>2, <1>3, Zenon
<1> QED BY <1>4, Zenon DEF x

\* A write that puts n bytes of its buffer into the pipe is a Put of the queue.
LEMMA PutStep ==
  ASSUME PipeInv, NEW t \in Users, pcall[t].op = "write", PipeTypeOK',
         NEW n \in 0 .. PIPESIZE - Used, n <= Len(pcall[t].buf), Fill(pcall[t].buf, n),
         UNCHANGED <<nread, open, pgot>>,
         NEW rest \in {<<>>, SubSeq(pcall[t].buf, n + 1, Len(pcall[t].buf))},
         Unwritten' = [Unwritten EXCEPT ![t] = rest]
  PROVE  Queue!Put(t)
<1> DEFINE buf == pcall[t].buf
<1>1. PipeTypeOK /\ Used <= PIPESIZE /\ CallsOpen
  BY Zenon DEF PipeInv
<1>2. buf \in Seq(Nat) /\ Unwritten[t] = buf
  BY <1>1, CallIs, Zenon DEF Unwritten
<1>3. Contents' = Contents \o SubSeq(buf, 1, n) /\ Len(Contents') <= PIPESIZE
  BY <1>1, <1>2, FillContents, Zenon
<1>4. "write" \in open
  BY <1>1, Zenon DEF CallsOpen
<1>5. n \in 0 .. Len(buf)
  BY <1>1, <1>2, UsedIs
<1> QED BY <1>2, <1>3, <1>4, <1>5, Zenon DEF Queue!Put
-----------------------------------------------------------------------------
(* Every step is a step of the queue, or leaves it alone *)

QueueStep == Queue!FifoNext \/ UNCHANGED <<Contents, pgot, open, Unwritten>>

LEMMA WritesPut ==
  ASSUME PipeInv, PipeTypeOK', NEW t \in Users,
         PipewriteAll(t) \/ PipewriteFails(t) \/ PipewriteFull(t)
  PROVE  Queue!Put(t)
<1> DEFINE buf == pcall[t].buf
           room == PIPESIZE - Used
<1>1. PipeTypeOK /\ Used <= PIPESIZE /\ Idle.op = "idle"
  BY CallIs, Zenon DEF PipeInv
<1>2. pcall[t].op = "write" /\ UNCHANGED <<nread, open, pgot>>
  BY EntersIs, Zenon DEF PipewriteAll, PipewriteFails, PipewriteFull
<1>3. buf \in Seq(Nat) /\ pcall[t] = [op |-> "write", buf |-> buf]
  BY <1>1, <1>2, CallIs, Zenon
<1>4. Used \in Nat /\ PIPESIZE \in Nat /\ Len(buf) \in Nat
  BY <1>1, <1>3, UsedIs
<1>5. CASE PipewriteAll(t)
  <2>1. Len(buf) \in 0 .. PIPESIZE - Used /\ Len(buf) <= Len(buf)
    BY <1>4, <1>5 DEF PipewriteAll
  <2>2. Unwritten' = [Unwritten EXCEPT ![t] = <<>>]
    <3>1. Unwritten' = [Unwritten EXCEPT ![t] = IF Idle.op = "write" THEN Idle.buf ELSE <<>>]
      BY <1>1, <1>5, UnwrittenNext, Zenon DEF PipewriteAll
    <3> QED BY <3>1, <1>1
  <2> QED BY <1>2, <1>5, <2>1, <2>2, PutStep, Zenon DEF PipewriteAll
<1>6. CASE PipewriteFails(t)
  <2>1. room \in 0 .. PIPESIZE - Used /\ room <= Len(buf)
    BY <1>1, <1>4, <1>6 DEF PipewriteFails
  <2>2. Unwritten' = [Unwritten EXCEPT ![t] = <<>>]
    <3>1. Unwritten' = [Unwritten EXCEPT ![t] = IF Idle.op = "write" THEN Idle.buf ELSE <<>>]
      BY <1>1, <1>6, UnwrittenNext, Zenon DEF PipewriteFails
    <3> QED BY <3>1, <1>1
  <2> QED BY <1>2, <1>6, <2>1, <2>2, PutStep, Zenon DEF PipewriteFails
<1>7. CASE PipewriteFull(t)
  <2> DEFINE rest == SubSeq(buf, room + 1, Len(buf))
             r == [pcall[t] EXCEPT !.buf = rest]
  <2>1. room \in 0 .. PIPESIZE - Used /\ room <= Len(buf)
    BY <1>1, <1>4, <1>7 DEF PipewriteFull
  <2>2. r.op = "write" /\ r.buf = rest
    <3> HIDE DEF rest
    <3> QED BY <1>3
  <2>3. pcall' = [pcall EXCEPT ![t] = r]
    BY <1>7, Zenon DEF PipewriteFull
  <2>4. Unwritten' = [Unwritten EXCEPT ![t] = rest]
    <3> HIDE DEF r, rest
    <3>1. Unwritten' = [Unwritten EXCEPT ![t] = IF r.op = "write" THEN r.buf ELSE <<>>]
      BY <1>1, <2>3, UnwrittenNext, Zenon
    <3> QED BY <3>1, <2>2, Zenon
  <2> QED BY <1>2, <1>7, <2>1, <2>4, PutStep, Zenon DEF PipewriteFull
<1> QED BY <1>5, <1>6, <1>7, Zenon

LEMMA ReadGets ==
  ASSUME PipeInv, PipeTypeOK', NEW t \in Users, Piperead(t)
  PROVE  Queue!Get \/ Queue!EndOfFile
<1> DEFINE n == IF pcall[t].n <= Used THEN pcall[t].n ELSE Used
<1>1. PipeTypeOK /\ Used <= PIPESIZE /\ CallsOpen /\ Idle.op = "idle"
  BY CallIs, Zenon DEF PipeInv
<1>2. pcall[t].op = "read"
  BY EntersIs, Zenon DEF Piperead
<1>3. pcall[t].n \in Nat \ {0} /\ "read" \in open
  BY <1>1, <1>2, CallIs, Zenon DEF CallsOpen
<1>4. Used \in Nat /\ (nread = nwrite <=> Used = 0)
  BY <1>1, UsedIs, Zenon
<1>5. n \in 0 .. Used /\ (Used # 0 => n \in 1 .. Used) /\ n \in Nat
  BY <1>3, <1>4
<1>6. pgot' = [i \in 1 .. n |-> data[PipeAt(Plus(nread, i - 1))]] /\ nread' = Plus(nread, n)
      /\ UNCHANGED <<data, nwrite, open>> /\ pcall' = [pcall EXCEPT ![t] = Idle]
      /\ (nread # nwrite \/ "write" \notin open)
  BY Zenon DEF Piperead
<1> HIDE DEF n
<1>7. Contents' = SubSeq(Contents, n + 1, Len(Contents)) /\ pgot' = SubSeq(Contents, 1, n)
  BY <1>1, <1>5, <1>6, ReadContents, Zenon
<1>8. Contents \in Seq(Nat) /\ Len(Contents) = Used
  BY <1>1, ContentsIs, Zenon
<1>9. Unwritten' = Unwritten
  <2>1. \A u \in Users : pcall'[u] = IF u = t THEN Idle ELSE pcall[u]
    BY <1>1, <1>6, Zenon DEF PipeTypeOK
  <2>2. \A u \in Users : (pcall'[u].op = "write" <=> pcall[u].op = "write")
                         /\ (pcall[u].op = "write" => pcall'[u] = pcall[u])
    BY <2>1, <1>1, <1>2
  <2> QED BY <2>2, Zenon DEF Unwritten
<1>10. CASE Used # 0
  BY <1>3, <1>5, <1>6, <1>7, <1>8, <1>9, <1>10, Zenon DEF Queue!Get
<1>11. CASE Used = 0
  <2>1. Contents = <<>>
    BY <1>8, <1>11, EmptySeq, Zenon
  <2>2. n = 0
    BY <1>5, <1>11
  <2>3. Contents' = <<>> /\ pgot' = <<>>
    BY <1>7, <2>1, <2>2
  <2>4. "write" \notin open
    BY <1>4, <1>6, <1>11, Zenon
  <2>5. open = {"read"}
    BY <2>4, <1>1, <1>3, Zenon DEF PipeTypeOK
  <2> QED BY <2>1, <2>3, <2>5, <1>6, <1>9, Zenon DEF Queue!EndOfFile
<1> QED BY <1>10, <1>11, Zenon

\* A call begins with what it is given to write.
LEMMA CallOffers ==
  ASSUME PipeInv, NEW t \in Users, PipeCall(t)
  PROVE  QueueStep
<1>1. PipeTypeOK /\ Idle.op = "idle"
  BY CallIs, Zenon DEF PipeInv
<1>2. pcall[t] = Idle /\ UNCHANGED <<data, nread, nwrite, open, pgot>>
  BY Zenon DEF PipeCall
<1>3. Unwritten[t] = <<>> /\ Unwritten = [u \in Users |-> Unwritten[u]]
  <2>1. pcall[t].op # "write"
    BY <1>1, <1>2
  <2> QED BY <2>1, Zenon DEF Unwritten
<1>4. Contents' = Contents
  BY <1>2, Zenon DEF Contents, Used
<1>5. CASE "write" \in open
           /\ \E buf \in Bufs : pcall' = [pcall EXCEPT ![t] = [op |-> "write", buf |-> buf]]
  <2>1. PICK buf \in Bufs : pcall' = [pcall EXCEPT ![t] = [op |-> "write", buf |-> buf]]
    BY <1>5, Zenon
  <2> DEFINE r == [op |-> "write", buf |-> buf]
  <2>2. r.op = "write" /\ r.buf = buf
    OBVIOUS
  <2> HIDE DEF r
  <2>3. Unwritten' = [Unwritten EXCEPT ![t] = IF r.op = "write" THEN r.buf ELSE <<>>]
    BY <2>1, <1>1, UnwrittenNext, Zenon DEF r
  <2>4. Unwritten' = [Unwritten EXCEPT ![t] = buf]
    BY <2>2, <2>3, Zenon
  <2> QED BY <2>4, <1>2, <1>3, <1>4, <1>5, Zenon DEF QueueStep, Queue!FifoNext, Queue!Offer
<1>6. CASE \E n \in Sizes : pcall' = [pcall EXCEPT ![t] = [op |-> "read", n |-> n]]
  <2>1. PICK n \in Sizes : pcall' = [pcall EXCEPT ![t] = [op |-> "read", n |-> n]]
    BY <1>6, Zenon
  <2> DEFINE r == [op |-> "read", n |-> n]
  <2>2. r.op # "write"
    OBVIOUS
  <2> HIDE DEF r
  <2>3. Unwritten' = [Unwritten EXCEPT ![t] = IF r.op = "write" THEN r.buf ELSE <<>>]
    BY <2>1, <1>1, UnwrittenNext, Zenon DEF r
  <2>4. Unwritten' = [Unwritten EXCEPT ![t] = <<>>]
    BY <2>2, <2>3, Zenon
  <2>5. Unwritten' = Unwritten
    BY <2>4, <1>3, Zenon
  <2> QED BY <2>5, <1>2, <1>4, Zenon DEF QueueStep
<1> QED BY <1>5, <1>6, Zenon DEF PipeCall

LEMMA OthersKeep ==
  ASSUME PipeInv, NEW t \in Users, PipeSleep(t) \/ PipereadEmpty(t) \/ PipeKill(t)
  PROVE  QueueStep
<1>1. PipeTypeOK /\ Idle.op = "idle"
  BY CallIs, Zenon DEF PipeInv
<1>2. UNCHANGED <<data, nread, nwrite, open, pgot>>
  BY Zenon DEF PipeSleep, PipereadEmpty, PipeKill
<1>3. Contents' = Contents
  BY <1>2, Zenon DEF Contents, Used
<1>4. pcall' = pcall \/ (pcall[t].op = "read" /\ pcall' = [pcall EXCEPT ![t] = Idle])
  BY Zenon DEF PipeSleep, PipereadEmpty, PipeKill, Enters
<1>5. Unwritten' = Unwritten
  <2>1. CASE pcall' = pcall
    BY <2>1, Zenon DEF Unwritten
  <2>2. CASE pcall[t].op = "read" /\ pcall' = [pcall EXCEPT ![t] = Idle]
    <3>1. \A u \in Users : pcall'[u] = IF u = t THEN Idle ELSE pcall[u]
      BY <1>1, <2>2, Zenon DEF PipeTypeOK
    <3>2. \A u \in Users : (pcall'[u].op = "write" <=> pcall[u].op = "write")
                           /\ (pcall[u].op = "write" => pcall'[u] = pcall[u])
      BY <3>1, <1>1, <2>2
    <3> QED BY <3>2, Zenon DEF Unwritten
  <2> QED BY <1>4, <2>1, <2>2, Zenon
<1> QED BY <1>2, <1>3, <1>5, Zenon DEF QueueStep

LEMMA CloseCloses ==
  ASSUME PipeInv, NEW end \in {"read", "write"}, Pipeclose(end)
  PROVE  QueueStep
<1>1. end \in open /\ open' = open \ {end} /\ UNCHANGED <<data, nread, nwrite, pgot, pcall>>
  BY Zenon DEF Pipeclose
<1>2. Contents' = Contents /\ Unwritten' = Unwritten
  BY <1>1, Zenon DEF Contents, Used, Unwritten
<1> QED BY <1>1, <1>2, Zenon DEF QueueStep, Queue!FifoNext, Queue!CloseEnd

LEMMA NextIsQueueStep ==
  ASSUME PipeInv, PipeInv', [PipeNext]_pipevars
  PROVE  QueueStep
<1>0. PipeTypeOK'
  BY Zenon DEF PipeInv
<1>1. CASE UNCHANGED pipevars
  BY <1>1, Zenon DEF QueueStep, Contents, Used, Unwritten
<1>2. CASE PipeNext
  BY <1>0, <1>2, WritesPut, ReadGets, CallOffers, OthersKeep, CloseCloses, Zenon
  DEF PipeNext, PipeStep, QueueStep, Queue!FifoNext
<1> QED BY <1>1, <1>2, Zenon

LEMMA InitIsQueueInit == PipeInit => Queue!FifoInit
<1> SUFFICES ASSUME PipeInit PROVE Queue!FifoInit
  OBVIOUS
<1>1. PipeTypeOK /\ Used <= PIPESIZE
  BY PipeInitInv, Zenon DEF PipeInv
<1>2. Used = 0
  BY <1>1, UsedIs, Zenon DEF PipeInit
<1>3. Contents = <<>>
  BY <1>1, <1>2, ContentsIs, EmptySeq, Zenon
<1>4. Unwritten = [t \in Users |-> <<>>]
  <2>1. Idle.op # "write"
    BY DEF Idle
  <2>2. \A t \in Users : pcall[t] = Idle
    BY Zenon DEF PipeInit
  <2> QED BY <2>1, <2>2, Zenon DEF Unwritten
<1> QED BY <1>3, <1>4, Zenon DEF PipeInit, Queue!FifoInit

\* The pipe implements the bounded FIFO queue of Fifo, whatever the size of the pipe, of uint
\* and of the writes, and however many processes write and read: the bytes given to
\* pipewrite() come out of piperead() in order and once.
THEOREM PipeImplementsFifo == PipeSpec => PipeIsFifo
<1>1. QueueStep <=> [Queue!FifoNext]_<<Contents, pgot, open, Unwritten>>
  BY Zenon DEF QueueStep
<1>2. PipeInv /\ PipeInv' /\ [PipeNext]_pipevars => [Queue!FifoNext]_<<Contents, pgot, open, Unwritten>>
  BY <1>1, NextIsQueueStep, Zenon
<1> QED BY <1>2, InitIsQueueInit, PipeInitInv, PipeNextInv, PTL DEF PipeSpec, PipeIsFifo, Queue!FifoSpec
=============================================================================
