----------------------------- MODULE PipeProofs -----------------------------
(***************************************************************************)
(* Proofs about Pipe, for every size of the pipe and of uint, and for any  *)
(* writers and readers: nobody sleeps on a condition that has come about,  *)
(* and the ring is a bounded FIFO queue.                                   *)
(***************************************************************************)
EXTENDS Pipe, TLAPS

USE DEF pipevars
-----------------------------------------------------------------------------
(* Arithmetic of the ring *)

LEMMA Quotient ==
  ASSUME NEW P \in Nat \ {0}, NEW n \in Nat
  PROVE  /\ n \div P \in Int /\ n % P \in 0 .. P - 1
         /\ n = P * (n \div P) + (n % P)
OBVIOUS

\* A multiple of P strictly between -P and P is 0.
LEMMA SmallMultiple ==
  ASSUME NEW P \in Nat \ {0}, NEW d \in Int, -P < P * d, P * d < P
  PROVE  d = 0
<1>1. CASE d <= -1
  <2>1. P * d <= -P
    BY <1>1
  <2> QED BY <2>1
<1>2. CASE d >= 1
  <2>1. P * d >= P
    BY <1>2
  <2> QED BY <2>1
<1> QED BY <1>1, <1>2

\* Numbers a multiple of P apart have the same remainder,
LEMMA SameRemainder ==
  ASSUME NEW P \in Nat \ {0}, NEW k \in Int, NEW m \in Nat, NEW n \in Nat, n = m + P * k
  PROVE  m % P = n % P
<1> DEFINE d == (n \div P) - (m \div P) - k
<1>m. m \div P \in Int /\ m % P \in 0 .. P - 1 /\ m = P * (m \div P) + (m % P)
  BY Quotient, Zenon
<1>n. n \div P \in Int /\ n % P \in 0 .. P - 1 /\ n = P * (n \div P) + (n % P)
  BY Quotient, Zenon
<1>1. d \in Int /\ P * d = (m % P) - (n % P)
  BY <1>m, <1>n
<1> HIDE DEF d
<1>2. -P < P * d /\ P * d < P
  BY <1>1, <1>m, <1>n
<1>3. d = 0
  BY <1>1, <1>2, SmallMultiple
<1>4. P * d = 0
  BY <1>3
<1> QED BY <1>4, <1>1, <1>m, <1>n

\* and numbers less than P apart have different ones.
LEMMA Apart ==
  ASSUME NEW P \in Nat \ {0}, NEW m \in Nat, NEW n \in Nat, m < n, n < m + P
  PROVE  m % P # n % P
<1> SUFFICES ASSUME m % P = n % P PROVE FALSE
  OBVIOUS
<1> DEFINE d == (n \div P) - (m \div P)
<1>m. m \div P \in Int /\ m % P \in 0 .. P - 1 /\ m = P * (m \div P) + (m % P)
  BY Quotient, Zenon
<1>n. n \div P \in Int /\ n % P \in 0 .. P - 1 /\ n = P * (n \div P) + (n % P)
  BY Quotient, Zenon
<1>1. d \in Int /\ P * d = n - m
  BY <1>m, <1>n
<1> HIDE DEF d
<1>2. -P < P * d /\ P * d < P
  BY <1>1
<1>3. d = 0
  BY <1>1, <1>2, SmallMultiple
<1>4. P * d = 0
  BY <1>3
<1> QED BY <1>4, <1>1

LEMMA Constants ==
  /\ PIPESIZE \in Nat \ {0} /\ UINTS \in Nat /\ PIPESIZE < UINTS
  /\ NoOne \notin Users /\ Writers \cap Readers = {}
  /\ Bufs \subseteq Seq(Nat) /\ Sizes \subseteq Nat \ {0}
BY PipeAssumption, Zenon DEF NoOne, Users

\* uint wraps at a multiple of PIPESIZE, so a sum that wraps has the same index.
LEMMA PlusAt ==
  ASSUME NEW m \in 0 .. UINTS - 1, NEW n \in 0 .. PIPESIZE
  PROVE  /\ Plus(m, n) \in 0 .. UINTS - 1
         /\ PipeAt(Plus(m, n)) = (m + n) % PIPESIZE
<1>0. PIPESIZE \in Nat \ {0} /\ UINTS \in Nat /\ PIPESIZE < UINTS
  BY Constants, Zenon
<1>1. Plus(m, n) \in 0 .. UINTS - 1
  BY <1>0 DEF Plus
<1>2. CASE m + n < UINTS
  BY <1>0, <1>1, <1>2 DEF Plus, PipeAt
<1>3. CASE ~(m + n < UINTS)
  <2> DEFINE k == UINTS \div PIPESIZE
  <2>1. k \in Int /\ UINTS = PIPESIZE * k
    <3>1. UINTS % PIPESIZE = 0
      BY PipeAssumption, Zenon
    <3> QED BY <3>1, <1>0, Quotient
  <2> HIDE DEF k
  <2> DEFINE x == m + n
             y == m + n - UINTS
  <2>2. x \in Nat /\ y \in Nat /\ x = y + PIPESIZE * k
    BY <1>0, <1>3, <2>1
  <2>3. y % PIPESIZE = x % PIPESIZE
    <3> HIDE DEF x, y
    <3> QED BY <1>0, <2>1, <2>2, SameRemainder, Zenon
  <2> QED BY <2>3, <1>1, <1>3 DEF Plus, PipeAt
<1> QED BY <1>2, <1>3
-----------------------------------------------------------------------------
(* The invariant *)

PCalls == {Idle} \union [op : {"write"}, buf : Seq(Nat)] \union [op : {"read"}, n : Nat \ {0}]

PipeTypeOK ==
  /\ nread \in 0 .. UINTS - 1 /\ nwrite \in 0 .. UINTS - 1
  /\ data \in [0 .. PIPESIZE - 1 -> Nat]
  /\ open \subseteq {"read", "write"}
  /\ pcall \in [Users -> PCalls]
  /\ psleep \in [Users -> {Awake, "nread", "nwrite"}]

\* A call is on the end of its process, which is open as long as it goes on; a process
\* sleeps, or holds p->lock, only in a call, on the channel of its end.
CallsOpen ==
  \A t \in Users :
    /\ pcall[t].op = "write" => t \in Writers /\ "write" \in open
    /\ pcall[t].op = "read" => t \in Readers /\ "read" \in open
    /\ psleep[t] = "nwrite" => pcall[t].op = "write"
    /\ psleep[t] = "nread" => pcall[t].op = "read"
    /\ plock = t => pcall[t].op \in {"write", "read"}

\* A process that holds p->lock is about to sleep, on a condition it has just tested and
\* that cannot change before it does.
HolderDue ==
  \A t \in Users : plock = t =>
    /\ t \in Writers => Full /\ "read" \in open
    /\ t \in Readers => nread = nwrite /\ "write" \in open

PipeInv == PipeTypeOK /\ Used <= PIPESIZE /\ CallsOpen /\ HolderDue /\ PipeSleepersDue
-----------------------------------------------------------------------------
(* Counting what is in the pipe *)

LEMMA Difference ==
  ASSUME NEW r \in 0 .. UINTS - 1, NEW w \in 0 .. UINTS - 1
  PROVE  /\ Minus(w, r) \in 0 .. UINTS - 1
         /\ w = Plus(r, PIPESIZE) <=> Minus(w, r) = PIPESIZE
         /\ r = w <=> Minus(w, r) = 0
BY Constants DEF Minus, Plus

LEMMA UsedIs ==
  ASSUME PipeTypeOK
  PROVE  /\ Used \in 0 .. UINTS - 1
         /\ Full <=> Used = PIPESIZE
         /\ nread = nwrite <=> Used = 0
         /\ PIPESIZE \in Nat /\ Used \in Nat
<1>1. /\ Used \in 0 .. UINTS - 1
      /\ Full <=> Used = PIPESIZE
      /\ nread = nwrite <=> Used = 0
  BY Difference, Zenon DEF PipeTypeOK, Used, Full
<1> QED BY <1>1, Constants

LEMMA UsedIsNext ==
  ASSUME PipeTypeOK'
  PROVE  (Full' <=> Used' = PIPESIZE) /\ (nread' = nwrite' <=> Used' = 0)
BY Difference, Zenon DEF PipeTypeOK, Used, Full

LEMMA UsedGrows ==
  ASSUME PipeTypeOK, Used <= PIPESIZE, NEW n \in 0 .. PIPESIZE - Used
  PROVE  Plus(nwrite, n) \in 0 .. UINTS - 1 /\ Minus(Plus(nwrite, n), nread) = Used + n
BY Constants DEF PipeTypeOK, Used, Minus, Plus

LEMMA UsedShrinks ==
  ASSUME PipeTypeOK, Used <= PIPESIZE, NEW n \in 0 .. Used
  PROVE  Plus(nread, n) \in 0 .. UINTS - 1 /\ Minus(nwrite, Plus(nread, n)) = Used - n
BY Constants DEF PipeTypeOK, Used, Minus, Plus

\* What Fill() does to the variables that are counted.
LEMMA FillCounts ==
  ASSUME PipeTypeOK, Used <= PIPESIZE, NEW buf \in Seq(Nat), NEW n \in 0 .. PIPESIZE - Used,
         n <= Len(buf), Fill(buf, n), nread' = nread
  PROVE  /\ nwrite' \in 0 .. UINTS - 1 /\ Used' = Used + n
         /\ data' \in [0 .. PIPESIZE - 1 -> Nat]
<1>1. nwrite' \in 0 .. UINTS - 1 /\ Used' = Used + n
  BY UsedGrows, Zenon DEF Fill, Used
<1>2. ASSUME NEW i \in 0 .. PIPESIZE - 1
      PROVE  LET new == {j \in 1 .. n : PipeAt(Plus(nwrite, j - 1)) = i}
             IN  (IF new = {} THEN data[i] ELSE buf[CHOOSE j \in new : TRUE]) \in Nat
  <2> DEFINE new == {j \in 1 .. n : PipeAt(Plus(nwrite, j - 1)) = i}
  <2>1. new # {} => (CHOOSE j \in new : TRUE) \in new
    BY Zenon
  <2>2. \A j \in new : buf[j] \in Nat
    <3>1. n \in Nat
      BY Constants, UsedIs
    <3>2. \A j \in 1 .. n : buf[j] \in Nat
      BY <3>1
    <3> QED BY <3>2, Zenon
  <2>3. data[i] \in Nat
    BY Zenon DEF PipeTypeOK
  <2> HIDE DEF new
  <2>4. (IF new = {} THEN data[i] ELSE buf[CHOOSE j \in new : TRUE]) \in Nat
    BY <2>1, <2>2, <2>3, Zenon
  <2> QED BY <2>4, Zenon DEF new
<1> QED BY <1>1, <1>2, Zenon DEF Fill
-----------------------------------------------------------------------------
(* Every step keeps the invariant *)

LEMMA CallIs ==
  ASSUME PipeTypeOK, NEW t \in Users
  PROVE  /\ pcall[t].op = "write" => pcall[t] = [op |-> "write", buf |-> pcall[t].buf]
                                     /\ pcall[t].buf \in Seq(Nat)
         /\ pcall[t].op = "read" => pcall[t].n \in Nat \ {0}
         /\ Idle.op = "idle" /\ Idle \in PCalls
<1>1. pcall[t] \in PCalls
  BY Zenon DEF PipeTypeOK
<1> QED BY <1>1 DEF PCalls, Idle

\* wakeup() leaves the others where they are.
LEMMA WakeupIs ==
  ASSUME PipeTypeOK, NEW ch \in {"nread", "nwrite"}, PipeWakeup(ch)
  PROVE  /\ psleep' \in [Users -> {Awake, "nread", "nwrite"}]
         /\ \A t \in Users : psleep'[t] # ch /\ (psleep'[t] # Awake => psleep'[t] = psleep[t])
BY DEF PipeTypeOK, PipeWakeup, Awake

\* A process that enters its critical section neither sleeps nor holds the lock.
LEMMA EntersIs ==
  ASSUME PipeInv, NEW t \in Users, NEW o, Enters(t, o)
  PROVE  plock \notin Users /\ psleep[t] = Awake /\ pcall[t].op = o
BY Constants, Zenon DEF Enters

LEMMA AllStep ==
  ASSUME PipeInv, NEW t \in Users, PipewriteAll(t)
  PROVE  PipeInv'
<1> DEFINE buf == pcall[t].buf
<1>1. plock \notin Users /\ psleep[t] = Awake /\ pcall[t].op = "write"
  BY EntersIs, Zenon DEF PipewriteAll
<1>2. PipeTypeOK /\ Used <= PIPESIZE /\ CallsOpen /\ PipeSleepersDue
  BY Zenon DEF PipeInv
<1>3. buf \in Seq(Nat) /\ Idle \in PCalls /\ Idle.op = "idle"
  BY <1>1, <1>2, CallIs, Zenon
<1>4. Len(buf) \in 0 .. PIPESIZE - Used
  BY <1>2, <1>3, UsedIs, Constants DEF PipewriteAll
<1>5. nwrite' \in 0 .. UINTS - 1 /\ Used' = Used + Len(buf) /\ data' \in [0 .. PIPESIZE - 1 -> Nat]
  <2>1. Len(buf) <= Len(buf)
    BY <1>3
  <2> QED BY <1>2, <1>3, <1>4, <2>1, FillCounts, Zenon DEF PipewriteAll
<1>6. /\ psleep' \in [Users -> {Awake, "nread", "nwrite"}]
      /\ \A u \in Users : psleep'[u] # "nread" /\ (psleep'[u] # Awake => psleep'[u] = psleep[u])
  BY <1>2, WakeupIs, Zenon DEF PipewriteAll
<1>7. pcall' = [pcall EXCEPT ![t] = Idle] /\ UNCHANGED <<nread, open, plock, pkilled>>
  BY Zenon DEF PipewriteAll
<1>8. PipeTypeOK'
  BY <1>2, <1>3, <1>5, <1>6, <1>7, Zenon DEF PipeTypeOK
<1>9. Used' <= PIPESIZE /\ (Used = PIPESIZE => Used' = PIPESIZE)
  <2>1. Used \in Nat /\ PIPESIZE \in Nat
    BY <1>2, UsedIs, Zenon
  <2> QED BY <1>2, <1>4, <1>5, <2>1
<1>10. CallsOpen'
  BY <1>1, <1>2, <1>3, <1>6, <1>7, Zenon DEF CallsOpen, PipeTypeOK, Awake
<1>11. HolderDue'
  BY <1>1, <1>7, Zenon DEF HolderDue
<1>12. PipeSleepersDue'
  <2>2. Full => Full'
    BY <1>2, <1>8, <1>9, UsedIs, UsedIsNext, Zenon
  <2> QED BY <2>2, <1>2, <1>6, <1>7, Zenon DEF PipeSleepersDue, Awake
<1> QED BY <1>8, <1>9, <1>10, <1>11, <1>12, Zenon DEF PipeInv

\* The pipe gets full: what pipewrite() does to it before it gives up or sleeps.
LEMMA FillsRoom ==
  ASSUME PipeInv, NEW t \in Users, pcall[t].op = "write", nread' = nread,
         Len(pcall[t].buf) > PIPESIZE - Used, Fill(pcall[t].buf, PIPESIZE - Used)
  PROVE  /\ nwrite' \in 0 .. UINTS - 1 /\ data' \in [0 .. PIPESIZE - 1 -> Nat]
         /\ Used' = PIPESIZE /\ Full' /\ Used' <= PIPESIZE
         /\ SubSeq(pcall[t].buf, PIPESIZE - Used + 1, Len(pcall[t].buf)) \in Seq(Nat)
<1> DEFINE buf == pcall[t].buf
           room == PIPESIZE - Used
<1>1. PipeTypeOK /\ Used <= PIPESIZE
  BY Zenon DEF PipeInv
<1>2. buf \in Seq(Nat)
  BY <1>1, CallIs, Zenon
<1>3. Used \in Nat /\ PIPESIZE \in Nat /\ UINTS \in Nat /\ PIPESIZE < UINTS
  BY <1>1, UsedIs, Constants, Zenon
<1>4. room \in 0 .. PIPESIZE - Used /\ room <= Len(buf)
  BY <1>1, <1>2, <1>3
<1>5. nwrite' \in 0 .. UINTS - 1 /\ Used' = Used + room /\ data' \in [0 .. PIPESIZE - 1 -> Nat]
  BY <1>1, <1>2, <1>4, FillCounts, Zenon
<1>6. Used' = PIPESIZE /\ Used' <= PIPESIZE
  BY <1>3, <1>5
<1>7. Full'
  BY <1>1, <1>5, <1>6, Difference, Zenon DEF PipeTypeOK, Used, Full
<1>8. SubSeq(buf, room + 1, Len(buf)) \in Seq(Nat)
  <2>1. room + 1 \in 1 .. Len(buf) + 1 /\ Len(buf) \in Nat
    BY <1>2, <1>3, <1>4
  <2> HIDE DEF buf, room
  <2> QED BY <2>1, <1>2
<1> QED BY <1>5, <1>6, <1>7, <1>8, Zenon

LEMMA FailsStep ==
  ASSUME PipeInv, NEW t \in Users, PipewriteFails(t)
  PROVE  PipeInv'
<1>1. plock \notin Users /\ psleep[t] = Awake /\ pcall[t].op = "write"
  BY EntersIs, Zenon DEF PipewriteFails
<1>2. PipeTypeOK /\ CallsOpen /\ PipeSleepersDue /\ Idle \in PCalls /\ Idle.op = "idle"
  BY CallIs, Zenon DEF PipeInv
<1>3. /\ nwrite' \in 0 .. UINTS - 1 /\ data' \in [0 .. PIPESIZE - 1 -> Nat]
      /\ Full' /\ Used' <= PIPESIZE
  BY <1>1, FillsRoom, Zenon DEF PipewriteFails
<1>4. pcall' = [pcall EXCEPT ![t] = Idle] /\ UNCHANGED <<nread, open, plock, psleep, pkilled>>
  BY Zenon DEF PipewriteFails
<1>5. PipeTypeOK'
  BY <1>2, <1>3, <1>4, Zenon DEF PipeTypeOK
<1>6. CallsOpen'
  BY <1>1, <1>2, <1>4, Zenon DEF CallsOpen, PipeTypeOK, Awake
<1>7. HolderDue'
  BY <1>1, <1>4, Zenon DEF HolderDue
<1>8. PipeSleepersDue'
  <2>1. "read" \notin open \/ t \in Writers \cap pkilled
    BY <1>1, <1>2, Zenon DEF PipewriteFails, CallsOpen
  <2>2. \A u \in Users : psleep[u] = "nread" => "read" \in open
    BY <1>2, Zenon DEF CallsOpen
  <2> QED BY <2>1, <2>2, <1>2, <1>3, <1>4, Zenon DEF PipeSleepersDue
<1> QED BY <1>3, <1>5, <1>6, <1>7, <1>8, Zenon DEF PipeInv

LEMMA FullStep ==
  ASSUME PipeInv, NEW t \in Users, PipewriteFull(t)
  PROVE  PipeInv'
<1> DEFINE rest == SubSeq(pcall[t].buf, PIPESIZE - Used + 1, Len(pcall[t].buf))
<1>1. plock \notin Users /\ psleep[t] = Awake /\ pcall[t].op = "write"
  BY EntersIs, Zenon DEF PipewriteFull
<1>2. PipeTypeOK /\ CallsOpen /\ PipeSleepersDue
  BY Zenon DEF PipeInv
<1>3. /\ nwrite' \in 0 .. UINTS - 1 /\ data' \in [0 .. PIPESIZE - 1 -> Nat]
      /\ Full' /\ Used' <= PIPESIZE /\ rest \in Seq(Nat)
  BY <1>1, FillsRoom, Zenon DEF PipewriteFull
<1>4. pcall' = [pcall EXCEPT ![t] = [op |-> "write", buf |-> rest]]
  <2>1. pcall[t] = [op |-> "write", buf |-> pcall[t].buf]
    BY <1>1, <1>2, CallIs, Zenon
  <2>2. pcall' = [pcall EXCEPT ![t] = [pcall[t] EXCEPT !.buf = rest]]
    BY Zenon DEF PipewriteFull
  <2> HIDE DEF rest
  <2>3. [pcall[t] EXCEPT !.buf = rest] = [op |-> "write", buf |-> rest]
    BY <2>1
  <2> QED BY <2>2, <2>3, Zenon
<1> HIDE DEF rest
<1>5. [op |-> "write", buf |-> rest] \in PCalls /\ [op |-> "write", buf |-> rest].op = "write"
  BY <1>3 DEF PCalls
<1>6. /\ psleep' \in [Users -> {Awake, "nread", "nwrite"}]
      /\ \A u \in Users : psleep'[u] # "nread" /\ (psleep'[u] # Awake => psleep'[u] = psleep[u])
  BY <1>2, WakeupIs, Zenon DEF PipewriteFull, FullWakeup
<1>7. "read" \in open /\ plock' = t /\ UNCHANGED <<nread, open, pkilled>>
  BY Zenon DEF PipewriteFull
<1>8. PipeTypeOK'
  BY <1>2, <1>3, <1>4, <1>5, <1>6, <1>7, Zenon DEF PipeTypeOK
<1>9. CallsOpen'
  BY <1>1, <1>2, <1>4, <1>5, <1>6, <1>7, Zenon DEF CallsOpen, PipeTypeOK, Awake
<1>10. HolderDue'
  <2>1. t \in Writers /\ t \notin Readers
    BY <1>1, <1>2, Constants, Zenon DEF CallsOpen
  <2> QED BY <2>1, <1>3, <1>7, Zenon DEF HolderDue
<1>11. PipeSleepersDue'
  BY <1>2, <1>3, <1>6, <1>7, Zenon DEF PipeSleepersDue, Awake
<1> QED BY <1>3, <1>8, <1>9, <1>10, <1>11, Zenon DEF PipeInv

LEMMA SleepStep ==
  ASSUME PipeInv, NEW t \in Users, PipeSleep(t)
  PROVE  PipeInv'
<1> DEFINE ch == IF t \in Writers THEN "nwrite" ELSE "nread"
<1>1. plock = t /\ plock' = NoOne /\ psleep' = [psleep EXCEPT ![t] = ch]
      /\ UNCHANGED <<data, nread, nwrite, open, pcall, pkilled>>
  BY Zenon DEF PipeSleep
<1>2. PipeTypeOK /\ Used <= PIPESIZE /\ CallsOpen /\ HolderDue /\ PipeSleepersDue
  BY Zenon DEF PipeInv
<1>3. ch \in {Awake, "nread", "nwrite"}
  BY Zenon
<1>4. PipeTypeOK' /\ Used' <= PIPESIZE
  BY <1>1, <1>2, <1>3, Zenon DEF PipeTypeOK, Used
<1>5. (t \in Writers /\ t \notin Readers) \/ (t \notin Writers /\ t \in Readers)
  BY Constants, Zenon DEF Users
<1>6. CallsOpen'
  <2>1. pcall[t].op = IF t \in Writers THEN "write" ELSE "read"
    BY <1>1, <1>2, <1>5, Zenon DEF CallsOpen
  <2> QED BY <2>1, <1>1, <1>2, Constants DEF CallsOpen, PipeTypeOK, Awake
<1>7. HolderDue'
  BY <1>1, Constants, Zenon DEF HolderDue
<1>8. PipeSleepersDue'
  <2>1. \A u \in Users : u # t => psleep'[u] = psleep[u]
    BY <1>1, <1>2, Zenon DEF PipeTypeOK
  <2>2. psleep'[t] = ch
    BY <1>1, <1>2, Zenon DEF PipeTypeOK
  <2>3. /\ ch = "nwrite" => Full /\ "read" \in open
        /\ ch = "nread" => nread = nwrite /\ "write" \in open
    BY <1>1, <1>2, <1>5 DEF HolderDue
  <2>4. Full' = Full
    BY <1>1, Zenon DEF Full
  <2> HIDE DEF ch
  <2> QED BY <2>1, <2>2, <2>3, <2>4, <1>1, <1>2, Zenon DEF PipeSleepersDue
<1> QED BY <1>4, <1>6, <1>7, <1>8, Zenon DEF PipeInv

LEMMA EmptyStep ==
  ASSUME PipeInv, NEW t \in Users, PipereadEmpty(t)
  PROVE  PipeInv'
<1>1. plock \notin Users /\ psleep[t] = Awake /\ pcall[t].op = "read"
  BY EntersIs, Zenon DEF PipereadEmpty
<1>2. PipeTypeOK /\ Used <= PIPESIZE /\ CallsOpen /\ PipeSleepersDue
      /\ Idle \in PCalls /\ Idle.op = "idle"
  BY CallIs, Zenon DEF PipeInv
<1>3. nread = nwrite /\ "write" \in open /\ UNCHANGED <<data, nread, nwrite, open, psleep, pkilled>>
  BY Zenon DEF PipereadEmpty
<1>4. \/ pcall' = [pcall EXCEPT ![t] = Idle] /\ plock' = plock
      \/ plock' = t /\ pcall' = pcall
  BY Zenon DEF PipereadEmpty
<1>5. PipeTypeOK' /\ Used' <= PIPESIZE
  BY <1>2, <1>3, <1>4, Zenon DEF PipeTypeOK, Used
<1>6. CallsOpen'
  BY <1>1, <1>2, <1>3, <1>4, Zenon DEF CallsOpen, PipeTypeOK, Awake
<1>7. HolderDue'
  <2>1. t \notin Writers
    BY <1>1, <1>2, Constants, Zenon DEF CallsOpen
  <2> QED BY <2>1, <1>1, <1>3, <1>4, Zenon DEF HolderDue
<1>8. PipeSleepersDue'
  BY <1>2, <1>3, Zenon DEF PipeSleepersDue, Full
<1> QED BY <1>5, <1>6, <1>7, <1>8, Zenon DEF PipeInv

LEMMA ReadStep ==
  ASSUME PipeInv, NEW t \in Users, Piperead(t)
  PROVE  PipeInv'
<1> DEFINE n == IF pcall[t].n <= Used THEN pcall[t].n ELSE Used
<1>1. plock \notin Users /\ psleep[t] = Awake /\ pcall[t].op = "read"
  BY EntersIs, Zenon DEF Piperead
<1>2. PipeTypeOK /\ Used <= PIPESIZE /\ CallsOpen /\ PipeSleepersDue
      /\ Idle \in PCalls /\ Idle.op = "idle" /\ pcall[t].n \in Nat \ {0}
  BY <1>1, CallIs, Zenon DEF PipeInv
<1>3. Used \in Nat /\ PIPESIZE \in Nat
  BY <1>2, UsedIs, Zenon
<1>4. n \in 0 .. Used
  BY <1>2, <1>3
<1>5. nread' \in 0 .. UINTS - 1 /\ Used' = Used - n
  BY <1>2, <1>4, UsedShrinks, Zenon DEF Piperead, Used
<1>6. /\ psleep' \in [Users -> {Awake, "nread", "nwrite"}]
      /\ \A u \in Users : psleep'[u] # "nwrite" /\ (psleep'[u] # Awake => psleep'[u] = psleep[u])
  BY <1>2, WakeupIs, Zenon DEF Piperead, ReadWakeup
<1>7. pcall' = [pcall EXCEPT ![t] = Idle] /\ UNCHANGED <<data, nwrite, open, plock, pkilled>>
  BY Zenon DEF Piperead
<1>8. PipeTypeOK'
  BY <1>2, <1>5, <1>6, <1>7, Zenon DEF PipeTypeOK
<1>9. Used' <= PIPESIZE /\ (Used = 0 => Used' = 0)
  BY <1>2, <1>3, <1>4, <1>5
<1>10. CallsOpen'
  BY <1>1, <1>2, <1>6, <1>7, Zenon DEF CallsOpen, PipeTypeOK, Awake
<1>11. HolderDue'
  BY <1>1, <1>7, Zenon DEF HolderDue
<1>12. PipeSleepersDue'
  <2>1. nread = nwrite => nread' = nwrite'
    BY <1>2, <1>8, <1>9, UsedIs, UsedIsNext, Zenon
  <2> QED BY <2>1, <1>2, <1>6, <1>7, Zenon DEF PipeSleepersDue, Awake
<1> QED BY <1>8, <1>9, <1>10, <1>11, <1>12, Zenon DEF PipeInv

LEMMA CallStep ==
  ASSUME PipeInv, NEW t \in Users, PipeCall(t)
  PROVE  PipeInv'
<1>1. pcall[t] = Idle /\ UNCHANGED <<data, nread, nwrite, open, plock, psleep, pkilled>>
  BY Zenon DEF PipeCall
<1>2. PipeTypeOK /\ Used <= PIPESIZE /\ CallsOpen /\ HolderDue /\ PipeSleepersDue /\ Idle.op = "idle"
  BY CallIs, Zenon DEF PipeInv
<1>3. PICK r \in PCalls :
        /\ pcall' = [pcall EXCEPT ![t] = r]
        /\ \/ r.op = "write" /\ t \in Writers /\ "write" \in open
           \/ r.op = "read" /\ t \in Readers /\ "read" \in open
  <2>1. CASE t \in Writers /\ "write" \in open
             /\ \E buf \in Bufs : pcall' = [pcall EXCEPT ![t] = [op |-> "write", buf |-> buf]]
    <3>1. PICK buf \in Bufs : pcall' = [pcall EXCEPT ![t] = [op |-> "write", buf |-> buf]]
      BY <2>1, Zenon
    <3>2. buf \in Seq(Nat)
      BY Constants, Zenon
    <3>3. [op |-> "write", buf |-> buf] \in PCalls /\ [op |-> "write", buf |-> buf].op = "write"
      BY <3>2 DEF PCalls
    <3> QED BY <3>1, <3>3, <2>1, Zenon
  <2>2. CASE t \in Readers /\ "read" \in open
             /\ \E n \in Sizes : pcall' = [pcall EXCEPT ![t] = [op |-> "read", n |-> n]]
    <3>1. PICK n \in Sizes : pcall' = [pcall EXCEPT ![t] = [op |-> "read", n |-> n]]
      BY <2>2, Zenon
    <3>2. n \in Nat \ {0}
      BY Constants, Zenon
    <3>3. [op |-> "read", n |-> n] \in PCalls /\ [op |-> "read", n |-> n].op = "read"
      BY <3>2 DEF PCalls
    <3> QED BY <3>1, <3>3, <2>2, Zenon
  <2> QED BY <2>1, <2>2, Zenon DEF PipeCall
<1>4. PipeTypeOK' /\ Used' <= PIPESIZE
  BY <1>1, <1>2, <1>3, Zenon DEF PipeTypeOK, Used
<1>5. CallsOpen'
  <2>1. psleep[t] # "nwrite" /\ psleep[t] # "nread" /\ plock # t
    BY <1>1, <1>2 DEF CallsOpen
  <2> QED BY <2>1, <1>1, <1>2, <1>3, Zenon DEF CallsOpen, PipeTypeOK
<1>6. HolderDue' /\ PipeSleepersDue'
  BY <1>1, <1>2, Zenon DEF HolderDue, PipeSleepersDue, Full
<1> QED BY <1>4, <1>5, <1>6, Zenon DEF PipeInv

LEMMA CloseStep ==
  ASSUME PipeInv, NEW end \in {"read", "write"}, Pipeclose(end)
  PROVE  PipeInv'
<1> DEFINE others == IF end = "write" THEN Writers ELSE Readers
           ch == IF end = "write" THEN "nread" ELSE "nwrite"
<1>1. /\ plock = NoOne /\ open' = open \ {end} /\ UNCHANGED <<data, nread, nwrite, plock, pcall, pkilled>>
      /\ \A t \in others : pcall[t] = Idle
  BY Zenon DEF Pipeclose
<1>2. PipeTypeOK /\ Used <= PIPESIZE /\ CallsOpen /\ PipeSleepersDue
  BY Zenon DEF PipeInv
<1>3. /\ psleep' \in [Users -> {Awake, "nread", "nwrite"}]
      /\ \A t \in Users : psleep'[t] # ch /\ (psleep'[t] # Awake => psleep'[t] = psleep[t])
  <2>1. ch \in {"nread", "nwrite"} /\ PipeWakeup(ch)
    BY Zenon DEF Pipeclose
  <2> HIDE DEF ch
  <2> QED BY <2>1, <1>2, WakeupIs, Zenon
<1>4. PipeTypeOK' /\ Used' <= PIPESIZE
  BY <1>1, <1>2, <1>3, Zenon DEF PipeTypeOK, Used
<1>5. CallsOpen'
  <2>1. SUFFICES ASSUME NEW t \in Users
                 PROVE  /\ pcall[t].op = "write" => t \in Writers /\ "write" \in open'
                        /\ pcall[t].op = "read" => t \in Readers /\ "read" \in open'
                        /\ psleep'[t] = "nwrite" => pcall[t].op = "write"
                        /\ psleep'[t] = "nread" => pcall[t].op = "read"
                        /\ plock # t
    BY <1>1, Constants, Zenon DEF CallsOpen
  <2>2. pcall[t].op = "write" => t \in Writers /\ "write" \in open
    BY <1>2, Zenon DEF CallsOpen
  <2>3. pcall[t].op = "read" => t \in Readers /\ "read" \in open
    BY <1>2, Zenon DEF CallsOpen
  <2>4. Idle.op = "idle"
    BY <1>2, CallIs, Zenon
  <2>5. pcall[t].op = "write" => end # "write"
    BY <2>2, <2>4, <1>1
  <2>6. pcall[t].op = "read" => end # "read"
    BY <2>3, <2>4, <1>1
  <2>7. /\ psleep'[t] = "nwrite" => pcall[t].op = "write"
        /\ psleep'[t] = "nread" => pcall[t].op = "read"
    BY <1>2, <1>3, Zenon DEF CallsOpen, Awake
  <2> QED BY <2>2, <2>3, <2>5, <2>6, <2>7, <1>1, Constants, Zenon
<1>6. HolderDue'
  BY <1>1, Constants, Zenon DEF HolderDue
<1>7. PipeSleepersDue'
  <2>1. \A t \in Users : /\ psleep'[t] = "nwrite" => psleep[t] = "nwrite" /\ end # "read"
                         /\ psleep'[t] = "nread" => psleep[t] = "nread" /\ end # "write"
    BY <1>3 DEF Awake
  <2> QED BY <2>1, <1>1, <1>2, Zenon DEF PipeSleepersDue, Full
<1> QED BY <1>4, <1>5, <1>6, <1>7, Zenon DEF PipeInv

LEMMA KillStep ==
  ASSUME PipeInv, NEW t \in Users, PipeKill(t)
  PROVE  PipeInv'
<1>1. /\ pkilled' = pkilled \union {t} /\ psleep' = [psleep EXCEPT ![t] = Awake]
      /\ UNCHANGED <<data, nread, nwrite, open, plock, pcall>>
  BY Zenon DEF PipeKill
<1>2. PipeTypeOK /\ Used <= PIPESIZE /\ CallsOpen /\ HolderDue /\ PipeSleepersDue
  BY Zenon DEF PipeInv
<1>3. \A u \in Users : psleep'[u] = psleep[u] \/ psleep'[u] = Awake
  BY <1>1, <1>2, Zenon DEF PipeTypeOK
<1>4. PipeTypeOK' /\ Used' <= PIPESIZE
  BY <1>1, <1>2, Zenon DEF PipeTypeOK, Used
<1>5. CallsOpen' /\ HolderDue' /\ PipeSleepersDue'
  BY <1>1, <1>2, <1>3, Zenon DEF CallsOpen, HolderDue, PipeSleepersDue, Full, Awake
<1> QED BY <1>4, <1>5, Zenon DEF PipeInv

LEMMA PipeInitInv == PipeInit => PipeInv
<1> SUFFICES ASSUME PipeInit PROVE PipeInv
  OBVIOUS
<1>1. PipeTypeOK
  <2>1. 1 \in Nat /\ 0 \in 0 .. UINTS - 1
    BY Constants
  <2> QED BY <2>1, Zenon DEF PipeInit, PipeTypeOK, PCalls
<1>2. Used <= PIPESIZE
  BY Constants DEF PipeInit, Used, Minus
<1>3. Idle.op = "idle"
  BY DEF Idle
<1>4. CallsOpen /\ HolderDue /\ PipeSleepersDue
  BY <1>3, Constants, Zenon DEF PipeInit, CallsOpen, HolderDue, PipeSleepersDue, Awake
<1> QED BY <1>1, <1>2, <1>4, Zenon DEF PipeInv

LEMMA PipeNextInv == PipeInv /\ [PipeNext]_pipevars => PipeInv'
<1> SUFFICES ASSUME PipeInv, [PipeNext]_pipevars PROVE PipeInv'
  OBVIOUS
<1>1. CASE UNCHANGED pipevars
  BY <1>1, Zenon DEF PipeInv, PipeTypeOK, CallsOpen, HolderDue, PipeSleepersDue, Full, Used
<1>2. CASE PipeNext
  BY <1>2, AllStep, FailsStep, FullStep, SleepStep, EmptyStep, ReadStep, CallStep, CloseStep,
     KillStep, Zenon DEF PipeNext, PipeStep
<1> QED BY <1>1, <1>2, Zenon

\* Nobody sleeps in pipewrite() or piperead() on a condition that has come about, whatever
\* the size of the pipe and however many processes use it.
THEOREM PipeSleepersAreDue == PipeSpec => []PipeSleepersDue
<1>1. PipeInv => PipeSleepersDue
  BY Zenon DEF PipeInv
<1> QED BY <1>1, PipeInitInv, PipeNextInv, PTL DEF PipeSpec
=============================================================================
