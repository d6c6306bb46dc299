----------------------------- MODULE SpinProofs -----------------------------
(***************************************************************************)
(* Proofs about Spinlock, for any processors, processes, locks and depth   *)
(* of interrupts: a lock protects, no panic of the lock code is reached,   *)
(* and a process gets its interrupts back wherever it is moved.            *)
(***************************************************************************)
EXTENDS Spinlock, TLAPS

(* The shape of calls[x], position by position *)

At(s, i, e) == i \in 1 .. Len(s) /\ s[i] = e
RelAt(s, i, l) == At(s, i, <<"release", l>>)
PopAt(s, i) == At(s, i, <<"popcli">>)

\* acquire(l), as far as it has got.
Acqs(l) == {<<"readeflags", l>>, <<"xchg", l>>} \union {<<"cli", l, b>> : b \in BOOLEAN}
AcqAt(s, i, l) == i \in 1 .. Len(s) /\ s[i] \in Acqs(l)

\* What is done with ptable.lock held, and only that one.
Resumes == {<<"resumed", b>> : b \in BOOLEAN}
Switches == {<<"sched">>, <<"pick">>} \union Resumes
SwitchAt(s, i) == i \in 1 .. Len(s) /\ s[i] \in Switches

Call == (UNION {Acqs(l) : l \in SpinLocks}) \union {<<"release", l>> : l \in SpinLocks}
        \union Switches \union {<<"popcli">>, <<"iret">>, <<"sti">>, <<"never">>}

\* The acquire(&ptable.lock) at i is inside a section of another lock l.
DeepIn(s, i, l) == RelAt(s, i + 1, "ptable") /\ RelAt(s, i + 3, l)
Deep(s, i) == \E l \in IrqLocks : DeepIn(s, i, l)

\* No lock is held at i.
Opens(s, i) ==
  \/ i = Len(s) + 1
  \/ i \in 1 .. Len(s) /\ s[i] \in {<<"iret">>, <<"sti">>, <<"never">>}
  \/ (\E l \in SpinLocks : AcqAt(s, i, l)) /\ ~Deep(s, i)

\* What may come after the call at i, and what a release at i comes after; xchg() is not
\* interrupted.
Follows(s, i) ==
  \/ \E l \in SpinLocks : s[i] \in Acqs(l) /\ RelAt(s, i + 1, l)
  \/ s[i] \in Acqs("ptable") /\ SwitchAt(s, i + 1)
  \/ \E l \in IrqLocks : s[i] \in Acqs(l) /\ AcqAt(s, i + 1, "ptable") /\ DeepIn(s, i + 1, l)
  \/ s[i] \in Switches /\ RelAt(s, i + 1, "ptable")
                       /\ \A l \in IrqLocks : ~RelAt(s, i + 3, l)
  \/ s[i] = <<"release", "ptable">> /\ PopAt(s, i + 1)
  \/ /\ \E l \in IrqLocks : s[i] = <<"release", l>>
     /\ PopAt(s, i + 1) /\ \A k \in SpinLocks : ~RelAt(s, i + 2, k)
  \/ s[i] = <<"popcli">> /\ (Opens(s, i + 1) \/ \E l \in IrqLocks : RelAt(s, i + 1, l))
  \/ s[i] \in {<<"iret">>, <<"sti">>} /\ Opens(s, i + 1)
  \/ s[i] = <<"never">>

Precedes(s, i) ==
  /\ s[i] = <<"release", "ptable">> =>
       \/ i = 1 \/ AcqAt(s, i - 1, "ptable")
       \/ SwitchAt(s, i - 1) /\ (i = 2 \/ AcqAt(s, i - 2, "ptable"))
  /\ \A l \in IrqLocks : s[i] = <<"release", l>> =>
       \/ i = 1 \/ AcqAt(s, i - 1, l)
       \/ /\ PopAt(s, i - 1)
          /\ \/ i = 2
             \/ /\ RelAt(s, i - 2, "ptable")
                /\ \/ i = 3
                   \/ AcqAt(s, i - 3, "ptable") /\ (i = 4 \/ AcqAt(s, i - 4, l))
  /\ \A l \in SpinLocks : s[i] = <<"xchg", l>> => i = 1

WellFormed(s) == s \in Seq(Call) /\ \A i \in 1 .. Len(s) : Follows(s, i) /\ Precedes(s, i)

\* The locks held by a context that has still to do s, and how deep in pushcli() it is.
OuterOf(s, l) ==
  \/ AcqAt(s, 1, "ptable") /\ DeepIn(s, 1, l)
  \/ RelAt(s, 1, "ptable") /\ RelAt(s, 3, l)
  \/ PopAt(s, 1) /\ RelAt(s, 2, l)
Holds(s, l) ==
  \/ RelAt(s, 1, l)
  \/ l \in IrqLocks /\ OuterOf(s, l)
  \/ l = "ptable" /\ SwitchAt(s, 1)
Inner(s) == \/ SwitchAt(s, 1) \/ PopAt(s, 1)
            \/ \E l \in SpinLocks : RelAt(s, 1, l) \/ At(s, 1, <<"xchg", l>>)
Level(s) == (IF \E l \in IrqLocks : OuterOf(s, l) THEN 1 ELSE 0) + (IF Inner(s) THEN 1 ELSE 0)

\* No lock is held, and none about to be.
Calm(s) == Opens(s, 1) /\ \A l \in SpinLocks : ~At(s, 1, <<"xchg", l>>)

\* Whose calls these are, and the flags saved in them: interrupts were on, or there is an
\* iret to come that will set FL_IF.
IretFrom(s, i) == \E j \in i .. Len(s) : s[j] = <<"iret">>
SavedOff(s, i) ==
  \E b \in BOOLEAN :
    /\ ~b
    /\ \/ s[i] = <<"resumed", b>>
       \/ ~Deep(s, i) /\ \E l \in SpinLocks : s[i] = <<"cli", l, b>>
Owned(x, s) ==
  \A i \in 1 .. Len(s) :
    /\ s[i] \in {<<"pick">>, <<"sti">>} => x \in CPUs
    /\ s[i] = <<"sched">> \/ s[i] \in Resumes => x \in Kthreads
    /\ x \in Kthreads /\ SavedOff(s, i) => IretFrom(s, i + 1)

\* A context no processor runs: a scheduler in swtch(), a process in sched() or one that has
\* not run yet.
AtRest(x, s) ==
  \/ x \in CPUs /\ At(s, 1, <<"pick">>)
  \/ x \in Kthreads /\ s = <<>>
  \/ x \in Kthreads /\ Len(s) > 0 /\ (s[1] \in Resumes \/ s[1] = <<"never">>)
  \/ x \in Kthreads /\ RelAt(s, 1, "ptable") /\ At(s, 3, <<"iret">>)

\* Processor c, its ncli, intena and FL_IF and the locks, while it runs a context x that has
\* still to do s.
Fits(c, x, s, n, ie, f, lk) ==
  /\ n = Level(s)
  /\ \A l \in SpinLocks : lk[l] = c <=> Holds(s, l)
  /\ f => n = 0
  /\ x \in Kthreads /\ ~IretFrom(s, 1) =>
       IF n = 0 THEN f ELSE ie \/ \E b \in BOOLEAN : At(s, 1, <<"resumed", b>>)

Good(c, x, s, n, ie, f, lk) == WellFormed(s) /\ Owned(x, s) /\ Fits(c, x, s, n, ie, f, lk)

\* What a step makes of the calls s, of the locks and of the flags.
Begins(s, e) == s # <<>> /\ s[1] = e
Pops(s, t) == t = <<>> \o Tail(s)
Puts(s, t, e) == t = <<e>> \o Tail(s)
Takes(c, l, lk, lk2) == \A k \in SpinLocks : lk2[k] = c <=> (lk[k] = c \/ k = l)
Drops(c, l, lk, lk2) == \A k \in SpinLocks : lk2[k] = c <=> (lk[k] = c /\ k # l)
Apart(c, lk, lk2) == \A d \in CPUs \ {c} : \A k \in SpinLocks : lk2[k] = d <=> lk[k] = d
Leaves(c, x, t, n, f, lk) ==
  /\ x \in Kthreads /\ lk["ptable"] = c /\ n = 1 /\ ~f
  /\ \A k \in SpinLocks : lk[k] = c <=> k = "ptable"
  /\ WellFormed(t) /\ Owned(x, t) /\ AtRest(x, t)
Saves(n, b, ie) == IF n = 0 THEN b ELSE ie
Reopens(n, ie, f) == IF n = 1 /\ ie THEN TRUE ELSE f

SpinTypeOK ==
  /\ locked \in [SpinLocks -> CPUs \union {Unheld}]
  /\ ncli \in [CPUs -> Nat] /\ intena \in [CPUs -> BOOLEAN] /\ iflag \in [CPUs -> BOOLEAN]
  /\ on \in [CPUs -> Contexts] /\ calls \in [Contexts -> Seq(Call)]

SpinInv ==
  /\ SpinTypeOK
  /\ fault = ""
  /\ \A c \in CPUs : on[c] \in Kthreads \union {c}
  /\ \A c, d \in CPUs : on[c] = on[d] => c = d
  /\ \A x \in Contexts : WellFormed(calls[x]) /\ Owned(x, calls[x])
  /\ \A x \in Contexts : (\A c \in CPUs : on[c] # x) => AtRest(x, calls[x])
  /\ \A c \in CPUs : Fits(c, on[c], calls[on[c]], ncli[c], intena[c], iflag[c], locked)
-----------------------------------------------------------------------------
(* Taking the first call off, replacing it, putting calls in front *)

LEMMA PopSeq ==
  ASSUME NEW s \in Seq(Call), s # <<>>
  PROVE  LET t == <<>> \o Tail(s)
         IN  /\ t \in Seq(Call) /\ Len(t) \in Nat /\ Len(t) + 1 = Len(s)
             /\ \A i \in 1 .. Len(t) : t[i] = s[i + 1]
OBVIOUS

LEMMA ReplaceSeq ==
  ASSUME NEW s \in Seq(Call), s # <<>>, NEW e \in Call
  PROVE  LET t == <<e>> \o Tail(s)
         IN  /\ t \in Seq(Call) /\ Len(t) = Len(s) /\ Len(t) \in Nat /\ Len(t) > 0
             /\ t[1] = e /\ \A i \in 2 .. Len(t) : t[i] = s[i]
OBVIOUS

LEMMA PushSeq ==
  ASSUME NEW s \in Seq(Call), NEW q \in Seq(Call)
  PROVE  LET t == q \o s
         IN  /\ t \in Seq(Call) /\ Len(t) = Len(q) + Len(s) /\ Len(q) \in Nat /\ Len(s) \in Nat
             /\ \A i \in 1 .. Len(q) : t[i] = q[i]
             /\ \A i \in 1 .. Len(s) : t[i + Len(q)] = s[i]
OBVIOUS

\* t is s, or the part of it from k + 1 on.
Moved(s, t, k) ==
  /\ s \in Seq(Call) /\ t \in Seq(Call) /\ k \in Nat
  /\ Len(s) \in Nat /\ Len(t) \in Nat /\ Len(s) = Len(t) + k
  /\ \A i \in 1 .. Len(t) : t[i] = s[i + k]

LEMMA MovedAt ==
  ASSUME NEW s, NEW t, NEW k, Moved(s, t, k), NEW i \in Int, i >= 1
  PROVE  /\ \A e : At(t, i, e) <=> At(s, i + k, e)
         /\ \A l : AcqAt(t, i, l) <=> AcqAt(s, i + k, l)
         /\ SwitchAt(t, i) <=> SwitchAt(s, i + k)
BY DEF Moved, At, AcqAt, SwitchAt

LEMMA MovedPred ==
  ASSUME NEW s, NEW t, NEW k, Moved(s, t, k), NEW i \in Int, i >= 1
  PROVE  /\ \A l : RelAt(t, i, l) <=> RelAt(s, i + k, l)
         /\ PopAt(t, i) <=> PopAt(s, i + k)
         /\ \A l : DeepIn(t, i, l) <=> DeepIn(s, i + k, l)
         /\ Deep(t, i) <=> Deep(s, i + k)
         /\ Opens(t, i) <=> Opens(s, i + k)
<1>0. k \in Nat /\ i + 1 >= 1 /\ i + 3 >= 1 /\ (i + 1) + k = (i + k) + 1 /\ (i + 3) + k = (i + k) + 3
  BY DEF Moved
<1>1. /\ \A l : RelAt(t, i, l) <=> RelAt(s, i + k, l)
      /\ PopAt(t, i) <=> PopAt(s, i + k)
  BY MovedAt DEF RelAt, PopAt
<1>2. \A l : DeepIn(t, i, l) <=> DeepIn(s, i + k, l)
  <2>1. \A l : RelAt(t, i + 1, l) <=> RelAt(s, (i + k) + 1, l)
    BY <1>0, MovedAt DEF RelAt
  <2>2. \A l : RelAt(t, i + 3, l) <=> RelAt(s, (i + k) + 3, l)
    BY <1>0, MovedAt DEF RelAt
  <2> QED
    BY <2>1, <2>2, Zenon DEF DeepIn
<1>3. Deep(t, i) <=> Deep(s, i + k)
  BY <1>2, Zenon DEF Deep
<1>4. (i \in 1 .. Len(t) /\ t[i] \in {<<"iret">>, <<"sti">>, <<"never">>})
      <=> (i + k \in 1 .. Len(s) /\ s[i + k] \in {<<"iret">>, <<"sti">>, <<"never">>})
  BY DEF Moved
<1>5. i = Len(t) + 1 <=> i + k = Len(s) + 1
  BY DEF Moved
<1>6. \A l : AcqAt(t, i, l) <=> AcqAt(s, i + k, l)
  BY MovedAt
<1> QED
  BY <1>1, <1>2, <1>3, <1>4, <1>5, <1>6, Zenon DEF Opens

LEMMA MovedFollows ==
  ASSUME NEW s, NEW t, NEW k, Moved(s, t, k), NEW i \in 1 .. Len(t)
  PROVE  Follows(t, i) <=> Follows(s, i + k)
<1>0. /\ i \in Int /\ k \in Nat /\ i >= 1 /\ i + 1 >= 1 /\ i + 2 >= 1 /\ i + 3 >= 1
      /\ i + 1 \in Int /\ i + 2 \in Int /\ i + 3 \in Int
      /\ (i + 1) + k = (i + k) + 1 /\ (i + 2) + k = (i + k) + 2 /\ (i + 3) + k = (i + k) + 3
  BY DEF Moved
<1>1. t[i] = s[i + k]
  BY DEF Moved
<1>2. /\ \A l : RelAt(t, i + 1, l) <=> RelAt(s, (i + k) + 1, l)
      /\ \A l : DeepIn(t, i + 1, l) <=> DeepIn(s, (i + k) + 1, l)
      /\ \A l : AcqAt(t, i + 1, l) <=> AcqAt(s, (i + k) + 1, l)
      /\ SwitchAt(t, i + 1) <=> SwitchAt(s, (i + k) + 1)
      /\ PopAt(t, i + 1) <=> PopAt(s, (i + k) + 1)
      /\ Opens(t, i + 1) <=> Opens(s, (i + k) + 1)
  <2>1. /\ \A l : RelAt(t, i + 1, l) <=> RelAt(s, (i + 1) + k, l)
        /\ \A l : DeepIn(t, i + 1, l) <=> DeepIn(s, (i + 1) + k, l)
        /\ \A l : AcqAt(t, i + 1, l) <=> AcqAt(s, (i + 1) + k, l)
        /\ SwitchAt(t, i + 1) <=> SwitchAt(s, (i + 1) + k)
        /\ PopAt(t, i + 1) <=> PopAt(s, (i + 1) + k)
        /\ Opens(t, i + 1) <=> Opens(s, (i + 1) + k)
    BY <1>0, MovedAt, MovedPred, Zenon
  <2> QED
    BY <2>1, <1>0, Zenon
<1>3. \A l : RelAt(t, i + 2, l) <=> RelAt(s, (i + k) + 2, l)
  BY <1>0, MovedPred
<1>4. \A l : RelAt(t, i + 3, l) <=> RelAt(s, (i + k) + 3, l)
  BY <1>0, MovedPred
<1> QED
  BY <1>1, <1>2, <1>3, <1>4, Zenon DEF Follows

LEMMA PopPrecedes ==
  ASSUME NEW s, NEW t, Moved(s, t, 1), NEW i \in 1 .. Len(t), Precedes(s, i + 1)
  PROVE  Precedes(t, i)
<1>0. i \in Int /\ i >= 1
  BY DEF Moved
<1>1. t[i] = s[i + 1]
  BY DEF Moved
<1>2. \A j \in {i - 1, i - 2, i - 3, i - 4} : j >= 1 =>
        /\ \A l : RelAt(t, j, l) <=> RelAt(s, j + 1, l)
        /\ \A l : AcqAt(t, j, l) <=> AcqAt(s, j + 1, l)
        /\ SwitchAt(t, j) <=> SwitchAt(s, j + 1)
        /\ PopAt(t, j) <=> PopAt(s, j + 1)
  <2>1. \A j \in {i - 1, i - 2, i - 3, i - 4} : j \in Int
    BY <1>0
  <2> QED
    BY <2>1, MovedAt, MovedPred, Zenon
<1>3. i - 1 \in Int /\ i - 2 \in Int /\ i - 3 \in Int /\ i - 4 \in Int
  BY <1>0
<1>4. /\ (i + 1) - 1 = (i - 1) + 1 /\ (i + 1) - 2 = (i - 2) + 1
      /\ (i + 1) - 3 = (i - 3) + 1 /\ (i + 1) - 4 = (i - 4) + 1
      /\ i # 1 => i - 1 >= 1
      /\ i # 1 /\ i # 2 => i - 2 >= 1
      /\ i # 1 /\ i # 2 /\ i # 3 => i - 3 >= 1
      /\ i # 1 /\ i # 2 /\ i # 3 /\ i # 4 => i - 4 >= 1
      /\ i + 1 # 1 /\ (i + 1 = 2 => i = 1) /\ (i + 1 = 3 => i = 2) /\ (i + 1 = 4 => i = 3)
  BY <1>0
<1> QED
  BY <1>1, <1>2, <1>4, Zenon DEF Precedes

LEMMA PopFormed ==
  ASSUME NEW s, WellFormed(s), s # <<>>
  PROVE  Moved(s, <<>> \o Tail(s), 1) /\ WellFormed(<<>> \o Tail(s))
<1> DEFINE t == <<>> \o Tail(s)
<1>1. s \in Seq(Call)
  BY DEF WellFormed
<1>2. t \in Seq(Call) /\ Len(t) \in Nat /\ Len(t) + 1 = Len(s)
      /\ \A i \in 1 .. Len(t) : t[i] = s[i + 1]
  BY <1>1, PopSeq
<1> HIDE DEF t
<1>3. Moved(s, t, 1)
  BY <1>1, <1>2 DEF Moved
<1>4. ASSUME NEW i \in 1 .. Len(t) PROVE Follows(t, i) /\ Precedes(t, i)
  <2>1. i + 1 \in 1 .. Len(s)
    BY <1>2
  <2>2. Follows(s, i + 1) /\ Precedes(s, i + 1)
    BY <2>1 DEF WellFormed
  <2> QED
    BY <2>2, <1>3, MovedFollows, PopPrecedes, Zenon
<1>5. WellFormed(t)
  BY <1>2, <1>4 DEF WellFormed
<1> QED
  BY <1>3, <1>5 DEF t

\* The first call is replaced by one that plays the same part: the next step of the same
\* acquire(), or what sched() leaves behind.
SamePart(d, e) ==
  \/ \E l \in SpinLocks : d \in Acqs(l) /\ e \in Acqs(l)
  \/ d \in Switches /\ e \in Switches

LEMMA Calls ==
  ASSUME NEW e
  PROVE  e \in Call <=> \/ \E l \in SpinLocks : e \in Acqs(l) \/ e = <<"release", l>>
                        \/ e \in Switches
                        \/ e \in {<<"popcli">>, <<"iret">>, <<"sti">>, <<"never">>}
<1>1. e \in UNION {Acqs(l) : l \in SpinLocks} <=> \E l \in SpinLocks : e \in Acqs(l)
  OBVIOUS
<1>2. e \in {<<"release", l>> : l \in SpinLocks} <=> \E l \in SpinLocks : e = <<"release", l>>
  OBVIOUS
<1> QED
  BY <1>1, <1>2, Zenon DEF Call

\* The first word of a call.
LEMMA Words ==
  /\ \A l : \A f \in Acqs(l) : f[1] \in {"readeflags", "xchg", "cli"} /\ f[2] = l
  /\ \A f \in Switches : f[1] \in {"sched", "pick", "resumed"}
  /\ \A l : <<"release", l>>[1] = "release" /\ <<"release", l>>[2] = l
  /\ <<"popcli">>[1] = "popcli" /\ <<"iret">>[1] = "iret"
  /\ <<"sti">>[1] = "sti" /\ <<"never">>[1] = "never"
<1>1. \A l : \A f \in Acqs(l) : f[1] \in {"readeflags", "xchg", "cli"} /\ f[2] = l
  BY DEF Acqs
<1>2. \A f \in Switches : f[1] \in {"sched", "pick", "resumed"}
  BY DEF Switches, Resumes
<1> QED
  BY <1>1, <1>2

LEMMA SamePartFacts ==
  ASSUME NEW d, NEW e, SamePart(d, e)
  PROVE  /\ e \in Call
         /\ \A l : d \in Acqs(l) <=> e \in Acqs(l)
         /\ d \in Switches <=> e \in Switches
         /\ \A l : d # <<"release", l>> /\ e # <<"release", l>>
         /\ d # <<"popcli">> /\ e # <<"popcli">>
         /\ d \notin {<<"iret">>, <<"sti">>, <<"never">>} /\ e \notin {<<"iret">>, <<"sti">>, <<"never">>}
<1>1. CASE d \in Switches /\ e \in Switches
  <2>1. e \in Call
    BY <1>1, Calls, Zenon
  <2>2. \A f \in Switches :
          /\ \A l : f \notin Acqs(l) /\ f # <<"release", l>>
          /\ f # <<"popcli">> /\ f # <<"iret">> /\ f # <<"sti">> /\ f # <<"never">>
    BY Words
  <2> QED
    BY <1>1, <2>1, <2>2, Zenon
<1>2. ASSUME NEW k \in SpinLocks, d \in Acqs(k), e \in Acqs(k)
      PROVE  /\ e \in Call
             /\ \A l : d \in Acqs(l) <=> e \in Acqs(l)
             /\ d \notin Switches /\ e \notin Switches
             /\ \A l : d # <<"release", l>> /\ e # <<"release", l>>
             /\ d # <<"popcli">> /\ e # <<"popcli">>
             /\ d \notin {<<"iret">>, <<"sti">>, <<"never">>}
             /\ e \notin {<<"iret">>, <<"sti">>, <<"never">>}
  <2>1. e \in Call
    BY <1>2, Calls, Zenon
  <2>2. \A f \in Acqs(k) :
          /\ f \notin Switches /\ \A l : f # <<"release", l>>
          /\ f # <<"popcli">> /\ f # <<"iret">> /\ f # <<"sti">> /\ f # <<"never">>
    BY Words
  <2>3. \A f \in Acqs(k) : \A l : f \in Acqs(l) <=> l = k
    BY Words
  <2> QED
    BY <1>2, <2>1, <2>2, <2>3, Zenon
<1> QED
  BY <1>1, <1>2, Zenon DEF SamePart

\* The call at i plays one part.
LEMMA OnePart ==
  ASSUME NEW s, NEW i \in 1 .. Len(s)
  PROVE  /\ \A l : s[i] \in Acqs(l) =>
              /\ \A k : ~RelAt(s, i, k) /\ (AcqAt(s, i, k) <=> k = l)
              /\ ~PopAt(s, i) /\ ~SwitchAt(s, i) /\ s[i] \notin {<<"iret">>, <<"sti">>, <<"never">>}
         /\ \A l : s[i] = <<"release", l>> =>
              /\ \A k : (RelAt(s, i, k) <=> k = l) /\ ~AcqAt(s, i, k) /\ s[i] # <<"xchg", k>>
              /\ ~PopAt(s, i) /\ ~SwitchAt(s, i) /\ s[i] \notin {<<"iret">>, <<"sti">>, <<"never">>}
         /\ s[i] \in Switches =>
              /\ \A k : ~RelAt(s, i, k) /\ ~AcqAt(s, i, k) /\ s[i] # <<"xchg", k>>
              /\ ~PopAt(s, i) /\ s[i] \notin {<<"iret">>, <<"sti">>, <<"never">>}
         /\ s[i] = <<"popcli">> =>
              /\ \A k : ~RelAt(s, i, k) /\ ~AcqAt(s, i, k) /\ s[i] # <<"xchg", k>>
              /\ ~SwitchAt(s, i) /\ s[i] \notin {<<"iret">>, <<"sti">>, <<"never">>}
         /\ s[i] \in {<<"iret">>, <<"sti">>, <<"never">>} =>
              /\ \A k : ~RelAt(s, i, k) /\ ~AcqAt(s, i, k) /\ s[i] # <<"xchg", k>>
              /\ ~PopAt(s, i) /\ ~SwitchAt(s, i)
<1>0. \A k : <<"xchg", k>>[1] = "xchg"
  OBVIOUS
<1>1. \A l : s[i] \in Acqs(l) => s[i][1] \in {"readeflags", "xchg", "cli"} /\ s[i][2] = l
  BY Words
<1>2. s[i] \in Switches => s[i][1] \in {"sched", "pick", "resumed"}
  BY Words
<1>3. \A l : s[i] = <<"release", l>> => s[i][1] = "release" /\ s[i][2] = l
  BY Words
<1>4. /\ s[i] = <<"popcli">> => s[i][1] = "popcli"
      /\ s[i] \in {<<"iret">>, <<"sti">>, <<"never">>} => s[i][1] \in {"iret", "sti", "never"}
      /\ \A k : s[i] = <<"xchg", k>> => s[i][1] = "xchg"
  BY Words, <1>0
<1>5. \A k, l : s[i] \in Acqs(k) /\ s[i] \in Acqs(l) => k = l
  BY <1>1
<1>6. \A k, l : s[i] = <<"release", k>> /\ s[i] = <<"release", l>> => k = l
  BY <1>3
<1>7. \A l : s[i] \in Acqs(l) => \A k : s[i] # <<"release", k>>
  BY <1>1, <1>3
<1>8. \A l : s[i] \in Acqs(l) => /\ s[i] # <<"popcli">> /\ s[i] \notin Switches
                                /\ s[i] \notin {<<"iret">>, <<"sti">>, <<"never">>}
  BY <1>1, <1>2, <1>4
<1>9. \A l : s[i] = <<"release", l>> =>
         /\ s[i] # <<"popcli">> /\ s[i] \notin Switches /\ \A k : s[i] # <<"xchg", k>>
         /\ s[i] \notin {<<"iret">>, <<"sti">>, <<"never">>}
  BY <1>2, <1>3, <1>4
<1>10. s[i] \in Switches => /\ s[i] # <<"popcli">> /\ \A k : s[i] # <<"xchg", k>>
                            /\ s[i] \notin {<<"iret">>, <<"sti">>, <<"never">>}
  BY <1>2, <1>4
<1>11. s[i] = <<"popcli">> => /\ \A k : s[i] # <<"xchg", k>>
                              /\ s[i] \notin {<<"iret">>, <<"sti">>, <<"never">>}
  BY <1>4
<1>12. s[i] \in {<<"iret">>, <<"sti">>, <<"never">>} => \A k : s[i] # <<"xchg", k>>
  BY <1>4
<1> QED
  BY <1>5, <1>6, <1>7, <1>8, <1>9, <1>10, <1>11, <1>12, Zenon DEF RelAt, PopAt, At, AcqAt, SwitchAt

LEMMA ReplaceAt ==
  ASSUME NEW s \in Seq(Call), s # <<>>, NEW e, SamePart(s[1], e), NEW i
  PROVE  LET t == <<e>> \o Tail(s)
         IN  /\ \A l : AcqAt(t, i, l) <=> AcqAt(s, i, l)
             /\ \A l : RelAt(t, i, l) <=> RelAt(s, i, l)
             /\ PopAt(t, i) <=> PopAt(s, i)
             /\ SwitchAt(t, i) <=> SwitchAt(s, i)
             /\ \A l : DeepIn(t, i, l) <=> DeepIn(s, i, l)
             /\ Deep(t, i) <=> Deep(s, i)
             /\ Opens(t, i) <=> Opens(s, i)
<1> DEFINE t == <<e>> \o Tail(s)
<1>1. /\ t \in Seq(Call) /\ Len(t) = Len(s) /\ Len(t) \in Nat /\ Len(t) > 0
      /\ t[1] = e /\ \A j \in 2 .. Len(t) : t[j] = s[j]
  BY SamePartFacts, ReplaceSeq
<1> HIDE DEF t
<1>a. /\ 1 .. Len(t) = 1 .. Len(s)
      /\ \A j \in 1 .. Len(s) : j = 1 \/ t[j] = s[j]
  BY <1>1
<1>2. \A l, j : RelAt(t, j, l) <=> RelAt(s, j, l)
  BY <1>1, <1>a, SamePartFacts, Zenon DEF RelAt, At
<1>3. \A l : AcqAt(t, i, l) <=> AcqAt(s, i, l)
  BY <1>1, <1>a, SamePartFacts, Zenon DEF AcqAt
<1>4. PopAt(t, i) <=> PopAt(s, i)
  BY <1>1, <1>a, SamePartFacts, Zenon DEF PopAt, At
<1>5. SwitchAt(t, i) <=> SwitchAt(s, i)
  BY <1>1, <1>a, SamePartFacts, Zenon DEF SwitchAt
<1>6. /\ \A l : DeepIn(t, i, l) <=> DeepIn(s, i, l)
      /\ Deep(t, i) <=> Deep(s, i)
  BY <1>2, Zenon DEF DeepIn, Deep
<1>7. (i \in 1 .. Len(t) /\ t[i] \in {<<"iret">>, <<"sti">>, <<"never">>})
      <=> (i \in 1 .. Len(s) /\ s[i] \in {<<"iret">>, <<"sti">>, <<"never">>})
  BY <1>1, <1>a, SamePartFacts, Zenon
<1>8. Opens(t, i) <=> Opens(s, i)
  BY <1>1, <1>3, <1>6, <1>7, Zenon DEF Opens
<1> QED
  BY <1>2, <1>3, <1>4, <1>5, <1>6, <1>8, Zenon DEF t

LEMMA ReplaceFormed ==
  ASSUME NEW s, WellFormed(s), s # <<>>, NEW e, SamePart(s[1], e)
  PROVE  WellFormed(<<e>> \o Tail(s))
<1> DEFINE t == <<e>> \o Tail(s)
<1>0. s \in Seq(Call)
  BY DEF WellFormed
<1>1. /\ t \in Seq(Call) /\ Len(t) = Len(s) /\ Len(t) \in Nat /\ Len(t) > 0
      /\ t[1] = e /\ \A j \in 2 .. Len(t) : t[j] = s[j]
  BY <1>0, SamePartFacts, ReplaceSeq
<1>2. \A i : /\ \A l : AcqAt(t, i, l) <=> AcqAt(s, i, l)
             /\ \A l : RelAt(t, i, l) <=> RelAt(s, i, l)
             /\ PopAt(t, i) <=> PopAt(s, i)
             /\ SwitchAt(t, i) <=> SwitchAt(s, i)
             /\ \A l : DeepIn(t, i, l) <=> DeepIn(s, i, l)
             /\ Opens(t, i) <=> Opens(s, i)
  BY <1>0, ReplaceAt, Zenon
<1> HIDE DEF t
<1>3. ASSUME NEW i \in 2 .. Len(t) PROVE Follows(t, i) /\ Precedes(t, i)
  <2>1. t[i] = s[i] /\ i \in 1 .. Len(s)
    BY <1>1
  <2>2. Follows(s, i) /\ Precedes(s, i)
    BY <2>1 DEF WellFormed
  <2>3. Follows(t, i)
    BY <2>1, <2>2, <1>2, Zenon DEF Follows
  <2>4. Precedes(t, i)
    BY <2>1, <2>2, <1>2, Zenon DEF Precedes
  <2> QED
    BY <2>3, <2>4
<1>4. Follows(t, 1)
  <2>1. Follows(s, 1)
    BY <1>1 DEF WellFormed
  <2>2. t[1] = e
    BY <1>1
  <2> QED
    BY <2>1, <2>2, <1>2, SamePartFacts, Zenon DEF Follows
<1>5. Precedes(t, 1)
  BY <1>1, SamePartFacts DEF Precedes
<1>6. \A i \in 1 .. Len(t) : Follows(t, i) /\ Precedes(t, i)
  <2>1. \A i \in 1 .. Len(t) : i = 1 \/ i \in 2 .. Len(t)
    BY <1>1
  <2> QED
    BY <2>1, <1>3, <1>4, <1>5, Zenon
<1> QED
  BY <1>1, <1>6 DEF WellFormed, t
-----------------------------------------------------------------------------
(* The first calls: what comes after them, and what is held *)

LEMMA PopView ==
  ASSUME NEW s, NEW t, Moved(s, t, 1)
  PROVE  /\ \A l : /\ RelAt(t, 1, l) <=> RelAt(s, 2, l)
                   /\ RelAt(t, 2, l) <=> RelAt(s, 3, l)
                   /\ RelAt(t, 3, l) <=> RelAt(s, 4, l)
                   /\ AcqAt(t, 1, l) <=> AcqAt(s, 2, l)
         /\ PopAt(t, 1) <=> PopAt(s, 2)
         /\ SwitchAt(t, 1) <=> SwitchAt(s, 2)
         /\ \A l : RelAt(t, 4, l) <=> RelAt(s, 5, l)
         /\ \A e : At(t, 1, e) <=> At(s, 2, e)
         /\ Opens(t, 1) <=> Opens(s, 2)
         /\ IretFrom(t, 1) <=> IretFrom(s, 2)
<1>1. \A l : /\ RelAt(t, 1, l) <=> RelAt(s, 2, l)
             /\ RelAt(t, 2, l) <=> RelAt(s, 3, l)
             /\ RelAt(t, 3, l) <=> RelAt(s, 4, l)
             /\ RelAt(t, 4, l) <=> RelAt(s, 5, l)
  BY DEF Moved, RelAt, At
<1>2. \A l : AcqAt(t, 1, l) <=> AcqAt(s, 2, l)
  BY DEF Moved, AcqAt
<1>3. SwitchAt(t, 1) <=> SwitchAt(s, 2)
  BY DEF Moved, SwitchAt
<1>4. \A e : At(t, 1, e) <=> At(s, 2, e)
  BY DEF Moved, At
<1>5. Opens(t, 1) <=> Opens(s, 2)
  BY MovedPred
<1>6. IretFrom(t, 1) <=> IretFrom(s, 2)
  <2>1. ASSUME NEW j \in 1 .. Len(t), t[j] = <<"iret">> PROVE IretFrom(s, 2)
    <3>1. j + 1 \in 2 .. Len(s) /\ s[j + 1] = t[j]
      BY DEF Moved
    <3> QED
      BY <2>1, <3>1, Zenon DEF IretFrom
  <2>2. ASSUME NEW j \in 2 .. Len(s), s[j] = <<"iret">> PROVE IretFrom(t, 1)
    <3>1. j - 1 \in 1 .. Len(t) /\ s[j] = t[j - 1]
      BY DEF Moved
    <3> QED
      BY <2>2, <3>1, Zenon DEF IretFrom
  <2> QED
    BY <2>1, <2>2, Zenon DEF IretFrom
<1>7. PopAt(t, 1) <=> PopAt(s, 2)
  BY <1>4 DEF PopAt
<1> QED
  BY <1>1, <1>2, <1>3, <1>4, <1>5, <1>6, <1>7

LEMMA Outer ==
  ASSUME NEW s, NEW l
  PROVE  OuterOf(s, l) <=> \/ AcqAt(s, 1, "ptable") /\ RelAt(s, 2, "ptable") /\ RelAt(s, 4, l)
                           \/ RelAt(s, 1, "ptable") /\ RelAt(s, 3, l)
                           \/ PopAt(s, 1) /\ RelAt(s, 2, l)
BY DEF OuterOf, DeepIn

LEMMA FollowsFirst ==
  ASSUME NEW s, WellFormed(s), s # <<>>
  PROVE  /\ 1 \in 1 .. Len(s) /\ s[1] \in Call
         /\ \A l \in SpinLocks : s[1] \in Acqs(l) =>
              \/ RelAt(s, 2, l)
              \/ l = "ptable" /\ SwitchAt(s, 2)
              \/ /\ l \in IrqLocks /\ AcqAt(s, 2, "ptable")
                 /\ RelAt(s, 3, "ptable") /\ RelAt(s, 5, l)
         /\ s[1] \in Switches => RelAt(s, 2, "ptable") /\ \A l \in IrqLocks : ~RelAt(s, 4, l)
         /\ s[1] = <<"release", "ptable">> => PopAt(s, 2)
         /\ \A l \in IrqLocks : s[1] = <<"release", l>> =>
              PopAt(s, 2) /\ \A k \in SpinLocks : ~RelAt(s, 3, k)
         /\ s[1] = <<"popcli">> => Opens(s, 2) \/ \E l \in IrqLocks : RelAt(s, 2, l)
         /\ s[1] \in {<<"iret">>, <<"sti">>} => Opens(s, 2)
<1>1. 1 \in 1 .. Len(s) /\ s[1] \in Call /\ Follows(s, 1)
  BY DEF WellFormed
<1>2. \/ \E l \in SpinLocks : s[1] \in Acqs(l) /\ RelAt(s, 2, l)
      \/ s[1] \in Acqs("ptable") /\ SwitchAt(s, 2)
      \/ \E l \in IrqLocks : /\ s[1] \in Acqs(l) /\ AcqAt(s, 2, "ptable")
                             /\ RelAt(s, 3, "ptable") /\ RelAt(s, 5, l)
      \/ s[1] \in Switches /\ RelAt(s, 2, "ptable") /\ \A l \in IrqLocks : ~RelAt(s, 4, l)
      \/ s[1] = <<"release", "ptable">> /\ PopAt(s, 2)
      \/ /\ \E l \in IrqLocks : s[1] = <<"release", l>>
         /\ PopAt(s, 2) /\ \A k \in SpinLocks : ~RelAt(s, 3, k)
      \/ s[1] = <<"popcli">> /\ (Opens(s, 2) \/ \E l \in IrqLocks : RelAt(s, 2, l))
      \/ s[1] \in {<<"iret">>, <<"sti">>} /\ Opens(s, 2)
      \/ s[1] = <<"never">>
  BY <1>1 DEF Follows, DeepIn
<1>3. "ptable" \in SpinLocks /\ IrqLocks \subseteq SpinLocks /\ "ptable" \notin IrqLocks
  BY SpinAssumption DEF SpinLocks
<1>4. /\ \A k : AcqAt(s, 1, k) <=> s[1] \in Acqs(k)
      /\ \A k : RelAt(s, 1, k) <=> s[1] = <<"release", k>>
      /\ SwitchAt(s, 1) <=> s[1] \in Switches
      /\ PopAt(s, 1) <=> s[1] = <<"popcli">>
  BY <1>1, Zenon DEF AcqAt, SwitchAt, RelAt, PopAt, At
<1>5. ASSUME NEW l \in SpinLocks, s[1] \in Acqs(l)
      PROVE  \/ RelAt(s, 2, l)
             \/ l = "ptable" /\ SwitchAt(s, 2)
             \/ /\ l \in IrqLocks /\ AcqAt(s, 2, "ptable")
                /\ RelAt(s, 3, "ptable") /\ RelAt(s, 5, l)
  <2>1. /\ \A k : s[1] # <<"release", k>> /\ (s[1] \in Acqs(k) <=> k = l)
        /\ s[1] # <<"popcli">> /\ s[1] \notin Switches /\ s[1] \notin {<<"iret">>, <<"sti">>, <<"never">>}
    BY <1>1, <1>4, <1>5, OnePart, Zenon
  <2> QED
    BY <1>2, <2>1, Zenon
<1>6. ASSUME s[1] \in Switches
      PROVE  RelAt(s, 2, "ptable") /\ \A l \in IrqLocks : ~RelAt(s, 4, l)
  <2>1. /\ \A k : s[1] # <<"release", k>> /\ s[1] \notin Acqs(k)
        /\ s[1] # <<"popcli">> /\ s[1] \notin {<<"iret">>, <<"sti">>, <<"never">>}
    BY <1>1, <1>4, <1>6, OnePart, Zenon
  <2> QED
    BY <1>2, <2>1, Zenon
<1>7. ASSUME NEW l, s[1] = <<"release", l>>
      PROVE  PopAt(s, 2) /\ (l \in IrqLocks => \A k \in SpinLocks : ~RelAt(s, 3, k))
  <2>1. /\ \A k : (s[1] = <<"release", k>> <=> k = l) /\ s[1] \notin Acqs(k)
        /\ s[1] # <<"popcli">> /\ s[1] \notin Switches /\ s[1] \notin {<<"iret">>, <<"sti">>, <<"never">>}
    BY <1>1, <1>4, <1>7, OnePart, Zenon
  <2> QED
    BY <1>2, <1>3, <2>1, Zenon
<1>8. ASSUME s[1] = <<"popcli">> PROVE Opens(s, 2) \/ \E l \in IrqLocks : RelAt(s, 2, l)
  <2>1. /\ \A k : s[1] # <<"release", k>> /\ s[1] \notin Acqs(k)
        /\ s[1] \notin Switches /\ s[1] \notin {<<"iret">>, <<"sti">>, <<"never">>}
    BY <1>1, <1>4, <1>8, OnePart, Zenon
  <2> QED
    BY <1>2, <2>1, Zenon
<1>9. ASSUME s[1] \in {<<"iret">>, <<"sti">>} PROVE Opens(s, 2)
  <2>1. /\ \A k : s[1] # <<"release", k>> /\ s[1] \notin Acqs(k)
        /\ s[1] # <<"popcli">> /\ s[1] \notin Switches
    BY <1>1, <1>4, <1>9, OnePart, Zenon
  <2>2. s[1] # <<"never">>
    BY <1>9
  <2> QED
    BY <1>2, <2>1, <2>2, Zenon
<1> QED
  BY <1>1, <1>5, <1>6, <1>7, <1>8, <1>9, Zenon

LEMMA First ==
  ASSUME NEW s, WellFormed(s), s # <<>>
  PROVE  /\ \A k : AcqAt(s, 1, k) <=> s[1] \in Acqs(k)
         /\ \A k : RelAt(s, 1, k) <=> s[1] = <<"release", k>>
         /\ SwitchAt(s, 1) <=> s[1] \in Switches
         /\ PopAt(s, 1) <=> s[1] = <<"popcli">>
         /\ \A e : At(s, 1, e) <=> s[1] = e
<1>1. 1 \in 1 .. Len(s)
  BY FollowsFirst
<1> QED
  BY <1>1, Zenon DEF AcqAt, SwitchAt, RelAt, PopAt, At

LEMMA Locks == "ptable" \in SpinLocks /\ IrqLocks \subseteq SpinLocks /\ "ptable" \notin IrqLocks
               /\ \A l \in SpinLocks : l = "ptable" \/ l \in IrqLocks
BY SpinAssumption DEF SpinLocks

\* One call later only one of these can be there.
LEMMA Second ==
  ASSUME NEW s
  PROVE  /\ \A k, l : ~(AcqAt(s, 2, k) /\ RelAt(s, 2, l))
         /\ \A l : ~(SwitchAt(s, 2) /\ RelAt(s, 2, l))
         /\ \A k, l : RelAt(s, 2, k) /\ RelAt(s, 2, l) => k = l
<1>1. \A k, l : ~(AcqAt(s, 2, k) /\ RelAt(s, 2, l))
  BY OnePart, Zenon DEF AcqAt
<1>2. \A l : ~(SwitchAt(s, 2) /\ RelAt(s, 2, l))
  BY OnePart, Zenon DEF SwitchAt
<1>3. \A k, l : RelAt(s, 2, k) /\ RelAt(s, 2, l) => k = l
  BY DEF RelAt, At
<1> QED
  BY <1>1, <1>2, <1>3

LEMMA DeepFirst ==
  ASSUME NEW s
  PROVE  Deep(s, 1) <=> RelAt(s, 2, "ptable") /\ \E l \in IrqLocks : RelAt(s, 4, l)
BY DEF Deep, DeepIn

LEMMA LevelIs ==
  ASSUME NEW s
  PROVE  /\ Level(s) \in {0, 1, 2}
         /\ Level(s) = 0 <=> ~Inner(s) /\ \A l \in IrqLocks : ~OuterOf(s, l)
         /\ (Inner(s) /\ \A l \in IrqLocks : ~OuterOf(s, l)) => Level(s) = 1
         /\ (~Inner(s) /\ \E l \in IrqLocks : OuterOf(s, l)) => Level(s) = 1
         /\ (Inner(s) /\ \E l \in IrqLocks : OuterOf(s, l)) => Level(s) = 2
<1> DEFINE O == \E l \in IrqLocks : OuterOf(s, l)
           I == Inner(s)
<1>1. Level(s) = (IF O THEN 1 ELSE 0) + (IF I THEN 1 ELSE 0)
  BY DEF Level
<1>2. (\A l \in IrqLocks : ~OuterOf(s, l)) <=> ~O
  OBVIOUS
<1> HIDE DEF O, I
<1>3. /\ Level(s) \in {0, 1, 2}
      /\ Level(s) = 0 <=> ~I /\ ~O
      /\ (I /\ ~O) => Level(s) = 1
      /\ (~I /\ O) => Level(s) = 1
      /\ (I /\ O) => Level(s) = 2
  BY <1>1
<1> QED
  BY <1>2, <1>3, Zenon DEF O, I

LEMMA CalmLevel ==
  ASSUME NEW s, WellFormed(s)
  PROVE  /\ Calm(s) <=> Level(s) = 0
         /\ Calm(s) => \A l \in SpinLocks : ~Holds(s, l)
<1>1. CASE s = <<>>
  <2>1. /\ \A l, i : ~RelAt(s, i, l) /\ ~AcqAt(s, i, l) /\ ~At(s, i, l)
        /\ \A i : ~SwitchAt(s, i) /\ ~PopAt(s, i)
        /\ Opens(s, 1)
    BY <1>1 DEF RelAt, AcqAt, PopAt, SwitchAt, At, Opens
  <2> QED
    BY <2>1, LevelIs, Outer, Zenon DEF Calm, Inner, Holds
<1>2. ASSUME s # <<>>, NEW l \in SpinLocks, s[1] \in Acqs(l)
      PROVE  /\ Calm(s) <=> Level(s) = 0
             /\ Calm(s) => \A k \in SpinLocks : ~Holds(s, k)
  <2>1. \A k : ~RelAt(s, 1, k) /\ (AcqAt(s, 1, k) <=> k = l)
    BY <1>2, OnePart, FollowsFirst, Zenon
  <2>2. ~PopAt(s, 1) /\ ~SwitchAt(s, 1) /\ s[1] \notin {<<"iret">>, <<"sti">>, <<"never">>}
    BY <1>2, OnePart, FollowsFirst, Zenon
  <2>3. l \in IrqLocks => ~RelAt(s, 2, "ptable")
    BY <1>2, FollowsFirst, Second, Locks, Zenon
  <2>4. \A k : OuterOf(s, k) <=> l = "ptable" /\ RelAt(s, 2, "ptable") /\ RelAt(s, 4, k)
    BY <2>1, <2>2, Outer, Zenon
  <2>5. Opens(s, 1) <=> ~Deep(s, 1)
    <3>1. 1 # Len(s) + 1
      BY <1>2, FollowsFirst DEF WellFormed
    <3> QED
      BY <3>1, <2>1, <2>2, <1>2, Zenon DEF Opens
  <2>6. Opens(s, 1) <=> \A k \in IrqLocks : ~OuterOf(s, k)
    BY <2>3, <2>4, <2>5, DeepFirst, Locks, Zenon
  <2>7. Inner(s) <=> \E k \in SpinLocks : At(s, 1, <<"xchg", k>>)
    BY <2>1, <2>2, Zenon DEF Inner
  <2>8. \A k \in SpinLocks : Holds(s, k) => k \in IrqLocks /\ OuterOf(s, k)
    BY <2>1, <2>2, Zenon DEF Holds
  <2> QED
    BY <2>6, <2>7, <2>8, LevelIs, Zenon DEF Calm
<1>3. ASSUME s # <<>>, s[1] \in {<<"iret">>, <<"sti">>, <<"never">>}
      PROVE  /\ Calm(s) <=> Level(s) = 0
             /\ Calm(s) => \A k \in SpinLocks : ~Holds(s, k)
  <2>1. \A k : ~RelAt(s, 1, k) /\ ~AcqAt(s, 1, k) /\ s[1] # <<"xchg", k>>
    <3>1. 1 \in 1 .. Len(s)
      BY <1>3, FollowsFirst, Zenon
    <3>2. \A k : ~RelAt(s, 1, k) /\ ~AcqAt(s, 1, k)
      BY <1>3, <3>1, OnePart, Zenon
    <3>3. \A k : s[1] # <<"xchg", k>>
      BY <1>3
    <3> QED
      BY <3>2, <3>3
  <2>2. ~PopAt(s, 1) /\ ~SwitchAt(s, 1)
    BY <1>3, OnePart, FollowsFirst, Zenon
  <2>3. Opens(s, 1)
    BY <1>3, FollowsFirst, Zenon DEF Opens
  <2> QED
    BY <2>1, <2>2, <2>3, <1>3, First, LevelIs, Outer, Zenon DEF Calm, Inner, Holds
<1>4. ASSUME s # <<>>, \/ \E l \in SpinLocks : s[1] = <<"release", l>>
                       \/ s[1] \in Switches \/ s[1] = <<"popcli">>
      PROVE  Inner(s) /\ ~Opens(s, 1)
  <2>1. Inner(s)
    BY <1>4, First, Zenon DEF Inner
  <2>2. (\A k : ~AcqAt(s, 1, k)) /\ s[1] \notin {<<"iret">>, <<"sti">>, <<"never">>}
    BY <1>4, OnePart, FollowsFirst, Zenon
  <2>3. 1 # Len(s) + 1
    BY <1>4, FollowsFirst DEF WellFormed
  <2> QED
    BY <2>1, <2>2, <2>3, Zenon DEF Opens
<1>5. \/ s = <<>>
      \/ s # <<>> /\ \E l \in SpinLocks : s[1] \in Acqs(l)
      \/ s # <<>> /\ s[1] \in {<<"iret">>, <<"sti">>, <<"never">>}
      \/ s # <<>> /\ \/ \E l \in SpinLocks : s[1] = <<"release", l>>
                     \/ s[1] \in Switches \/ s[1] = <<"popcli">>
  BY FollowsFirst, Calls, Zenon
<1> QED
  BY <1>1, <1>2, <1>3, <1>4, <1>5, LevelIs, Zenon DEF Calm
-----------------------------------------------------------------------------
(* Whose calls they are, and the flags saved in them *)

LEMMA MovedSaved ==
  ASSUME NEW s, NEW t, NEW k, Moved(s, t, k), NEW i \in 1 .. Len(t)
  PROVE  /\ t[i] = s[i + k]
         /\ SavedOff(t, i) <=> SavedOff(s, i + k)
         /\ IretFrom(t, i + 1) <=> IretFrom(s, (i + k) + 1)
<1>1. t[i] = s[i + k] /\ i \in Int /\ i >= 1
  BY DEF Moved
<1>2. Deep(t, i) <=> Deep(s, i + k)
  BY <1>1, MovedPred
<1>3. SavedOff(t, i) <=> SavedOff(s, i + k)
  BY <1>1, <1>2, Zenon DEF SavedOff
<1>4. ASSUME NEW j \in i + 1 .. Len(t), t[j] = <<"iret">> PROVE IretFrom(s, (i + k) + 1)
  <2>1. j + k \in (i + k) + 1 .. Len(s) /\ s[j + k] = t[j]
    BY <1>1 DEF Moved
  <2> QED
    BY <1>4, <2>1, Zenon DEF IretFrom
<1>5. ASSUME NEW j \in (i + k) + 1 .. Len(s), s[j] = <<"iret">> PROVE IretFrom(t, i + 1)
  <2>1. j - k \in i + 1 .. Len(t) /\ t[j - k] = s[j]
    BY <1>1 DEF Moved
  <2> QED
    BY <1>5, <2>1, Zenon DEF IretFrom
<1> QED
  BY <1>1, <1>3, <1>4, <1>5, Zenon DEF IretFrom

LEMMA PopOwned ==
  ASSUME NEW s, NEW t, Moved(s, t, 1), NEW x, Owned(x, s)
  PROVE  Owned(x, t)
<1>1. ASSUME NEW i \in 1 .. Len(t)
      PROVE  /\ t[i] \in {<<"pick">>, <<"sti">>} => x \in CPUs
             /\ t[i] = <<"sched">> \/ t[i] \in Resumes => x \in Kthreads
             /\ x \in Kthreads /\ SavedOff(t, i) => IretFrom(t, i + 1)
  <2>1. i + 1 \in 1 .. Len(s)
    BY DEF Moved
  <2>2. /\ t[i] = s[i + 1]
        /\ SavedOff(t, i) <=> SavedOff(s, i + 1)
        /\ IretFrom(t, i + 1) <=> IretFrom(s, (i + 1) + 1)
    BY MovedSaved
  <2> QED
    BY <2>1, <2>2, Zenon DEF Owned
<1> QED
  BY <1>1, Zenon DEF Owned

LEMMA ReplaceOwned ==
  ASSUME NEW s, WellFormed(s), s # <<>>, NEW e, SamePart(s[1], e), NEW x, Owned(x, s),
         NEW t, t = <<e>> \o Tail(s),
         e \in {<<"pick">>, <<"sti">>} => x \in CPUs,
         e = <<"sched">> \/ e \in Resumes => x \in Kthreads,
         x \in Kthreads /\ SavedOff(t, 1) => IretFrom(s, 1)
  PROVE  Owned(x, t) /\ (IretFrom(t, 1) <=> IretFrom(s, 1))
<1>0. s \in Seq(Call)
  BY DEF WellFormed
<1>1. /\ Len(t) = Len(s) /\ Len(t) \in Nat /\ Len(t) > 0
      /\ t[1] = e /\ \A j \in 2 .. Len(t) : t[j] = s[j]
  BY <1>0, SamePartFacts, ReplaceSeq
<1>2. s[1] # <<"iret">> /\ e # <<"iret">>
  BY SamePartFacts, Zenon
<1>3. \A i \in 2 .. Len(s) + 1 : IretFrom(t, i) <=> IretFrom(s, i)
  <2>1. \A i \in 2 .. Len(s) + 1 : \A j \in i .. Len(s) : j \in 2 .. Len(t)
    BY <1>1
  <2> QED
    BY <2>1, <1>1, Zenon DEF IretFrom
<1>4. ASSUME NEW i \in 2 .. Len(t)
      PROVE  /\ t[i] \in {<<"pick">>, <<"sti">>} => x \in CPUs
             /\ t[i] = <<"sched">> \/ t[i] \in Resumes => x \in Kthreads
             /\ x \in Kthreads /\ SavedOff(t, i) => IretFrom(t, i + 1)
  <2>1. t[i] = s[i] /\ i \in 1 .. Len(s) /\ i + 1 \in 2 .. Len(s) + 1
    BY <1>1
  <2>2. Deep(t, i) <=> Deep(s, i)
    BY <1>0, ReplaceAt, Zenon
  <2>3. SavedOff(t, i) <=> SavedOff(s, i)
    BY <2>1, <2>2, Zenon DEF SavedOff
  <2> QED
    BY <2>1, <2>3, <1>3, Zenon DEF Owned
<1>5. IretFrom(t, 2) <=> IretFrom(s, 2)
  BY <1>1, <1>3
<1>6. (IretFrom(t, 1) <=> IretFrom(t, 2)) /\ (IretFrom(s, 1) <=> IretFrom(s, 2))
  <2>1. \A j : /\ j \in 1 .. Len(t) <=> j = 1 \/ j \in 2 .. Len(t)
               /\ j \in 1 .. Len(s) <=> j = 1 \/ j \in 2 .. Len(s)
    BY <1>1
  <2> QED
    BY <2>1, <1>1, <1>2, Zenon DEF IretFrom
<1>7. /\ t[1] \in {<<"pick">>, <<"sti">>} => x \in CPUs
      /\ t[1] = <<"sched">> \/ t[1] \in Resumes => x \in Kthreads
      /\ x \in Kthreads /\ SavedOff(t, 1) => IretFrom(t, 1 + 1)
  BY <1>1, <1>5, <1>6
<1>8. \A i \in 1 .. Len(t) : i = 1 \/ i \in 2 .. Len(t)
  BY <1>1
<1> QED
  BY <1>4, <1>5, <1>6, <1>7, <1>8, Zenon DEF Owned
-----------------------------------------------------------------------------
(* One lemma for each call: the context and its processor stay Good *)

LEMMA Tuples ==
  ASSUME NEW l, NEW b \in BOOLEAN
  PROVE  /\ <<"readeflags", l>> \in Acqs(l) /\ <<"cli", l, b>> \in Acqs(l) /\ <<"xchg", l>> \in Acqs(l)
         /\ <<"resumed", b>> \in Resumes /\ <<"resumed", b>> \in Switches
         /\ <<"sched">> \in Switches /\ <<"pick">> \in Switches
         /\ \A k : <<"readeflags", l>> # <<"xchg", k>> /\ <<"cli", l, b>> # <<"xchg", k>>
         /\ \A d \in BOOLEAN : <<"cli", l, b>> # <<"resumed", d>>
         /\ \A k : \A d \in BOOLEAN : <<"cli", l, b>> = <<"cli", k, d>> => k = l /\ d = b
         /\ \A d \in BOOLEAN : <<"resumed", b>> = <<"resumed", d>> => d = b
         /\ \A k : \A d \in BOOLEAN : <<"resumed", b>> # <<"cli", k, d>>
         /\ \A k : \A d \in BOOLEAN : <<"xchg", k>> # <<"cli", l, b>> /\ <<"xchg", k>> # <<"resumed", b>>
<1>1. /\ <<"readeflags", l>> \in Acqs(l) /\ <<"cli", l, b>> \in Acqs(l) /\ <<"xchg", l>> \in Acqs(l)
      /\ <<"resumed", b>> \in Resumes /\ <<"resumed", b>> \in Switches
      /\ <<"sched">> \in Switches /\ <<"pick">> \in Switches
  BY Zenon DEF Acqs, Resumes, Switches
<1>2. \A k : <<"readeflags", l>> # <<"xchg", k>> /\ <<"cli", l, b>> # <<"xchg", k>>
  OBVIOUS
<1>3. \A d \in BOOLEAN : <<"cli", l, b>> # <<"resumed", d>>
  OBVIOUS
<1>4. \A k : \A d \in BOOLEAN : <<"cli", l, b>> = <<"cli", k, d>> => k = l /\ d = b
  OBVIOUS
<1>5. \A d \in BOOLEAN : <<"resumed", b>> = <<"resumed", d>> => d = b
  OBVIOUS
<1>6. \A k : \A d \in BOOLEAN : <<"resumed", b>> # <<"cli", k, d>>
  OBVIOUS
<1>7. \A k : \A d \in BOOLEAN : <<"xchg", k>> # <<"cli", l, b>> /\ <<"xchg", k>> # <<"resumed", b>>
  OBVIOUS
<1> QED
  BY <1>1, <1>2, <1>3, <1>4, <1>5, <1>6, <1>7, Zenon

LEMMA SameLevel ==
  ASSUME NEW s, NEW t, Inner(s) <=> Inner(t), \A l \in IrqLocks : OuterOf(s, l) <=> OuterOf(t, l)
  PROVE  Level(s) = Level(t)
<1>1. (\E l \in IrqLocks : OuterOf(s, l)) <=> (\E l \in IrqLocks : OuterOf(t, l))
  BY Zenon
<1> QED
  BY <1>1 DEF Level

LEMMA ReplaceView ==
  ASSUME NEW s, WellFormed(s), s # <<>>, NEW e, SamePart(s[1], e), NEW t, t = <<e>> \o Tail(s)
  PROVE  /\ WellFormed(t) /\ t # <<>> /\ t[1] = e
         /\ Deep(t, 1) <=> Deep(s, 1)
         /\ \A l : (OuterOf(t, l) <=> OuterOf(s, l)) /\ (Holds(t, l) <=> Holds(s, l))
         /\ \A l : RelAt(t, 1, l) <=> RelAt(s, 1, l)
         /\ PopAt(t, 1) <=> PopAt(s, 1)
         /\ SwitchAt(t, 1) <=> SwitchAt(s, 1)
<1>0. s \in Seq(Call)
  BY DEF WellFormed
<1>1. /\ Len(t) > 0 /\ t[1] = e
  BY <1>0, SamePartFacts, ReplaceSeq
<1>2. WellFormed(t)
  BY ReplaceFormed
<1>3. \A i : /\ \A l : AcqAt(t, i, l) <=> AcqAt(s, i, l)
             /\ \A l : RelAt(t, i, l) <=> RelAt(s, i, l)
             /\ PopAt(t, i) <=> PopAt(s, i)
             /\ SwitchAt(t, i) <=> SwitchAt(s, i)
             /\ Deep(t, i) <=> Deep(s, i)
  BY <1>0, ReplaceAt, Zenon
<1>4. \A l : OuterOf(t, l) <=> OuterOf(s, l)
  BY <1>3, Outer, Zenon
<1>5. \A l : Holds(t, l) <=> Holds(s, l)
  BY <1>3, <1>4, Zenon DEF Holds
<1>6. t # <<>>
  BY <1>1
<1> QED
  BY <1>1, <1>2, <1>3, <1>4, <1>5, <1>6, Zenon

\* pushcli(): "int eflags = readeflags()".
LEMMA GoodReadeflags ==
  ASSUME NEW c, NEW x, NEW s, NEW n \in Nat, NEW ie \in BOOLEAN, NEW f \in BOOLEAN, NEW lk,
         Good(c, x, s, n, ie, f, lk), NEW l \in SpinLocks, Begins(s, <<"readeflags", l>>),
         NEW t, Puts(s, t, <<"cli", l, f>>)
  PROVE  Good(c, x, t, n, ie, f, lk)
<1> USE DEF Begins, Puts
<1> DEFINE e == <<"cli", l, f>>
<1>1. WellFormed(s) /\ Owned(x, s) /\ Fits(c, x, s, n, ie, f, lk)
  BY DEF Good
<1>0. /\ t = <<e>> \o Tail(s)
      /\ \A k : e # <<"xchg", k>> /\ s[1] # <<"xchg", k>>
      /\ \A b \in BOOLEAN : e # <<"resumed", b>> /\ s[1] # <<"resumed", b>>
      /\ \A b \in BOOLEAN, k \in SpinLocks : e = <<"cli", k, b>> => b = f
  OBVIOUS
<1>2. s[1] \in Acqs(l) /\ e \in Acqs(l)
  BY Tuples
<1> HIDE DEF e
<1>3. SamePart(s[1], e)
  BY <1>2, Zenon DEF SamePart
<1>4. e \notin Switches /\ s[1] \notin Switches /\ e \notin {<<"iret">>, <<"sti">>, <<"never">>}
  BY <1>2, <1>3, SamePartFacts, OnePart, FollowsFirst, First, <1>1, Zenon
<1>5. /\ WellFormed(t) /\ t # <<>> /\ t[1] = e
      /\ Deep(t, 1) <=> Deep(s, 1)
      /\ \A k : (OuterOf(t, k) <=> OuterOf(s, k)) /\ (Holds(t, k) <=> Holds(s, k))
      /\ \A k : RelAt(t, 1, k) <=> RelAt(s, 1, k)
      /\ PopAt(t, 1) <=> PopAt(s, 1)
      /\ SwitchAt(t, 1) <=> SwitchAt(s, 1)
  BY <1>0, <1>1, <1>3, ReplaceView, Zenon
<1>6. \A k : ~At(s, 1, <<"xchg", k>>) /\ ~At(t, 1, <<"xchg", k>>)
  BY <1>0, <1>5, Zenon DEF At
<1>7. Level(t) = Level(s)
  <2>1. Inner(t) <=> Inner(s)
    BY <1>5, <1>6, Zenon DEF Inner
  <2> QED
    BY <1>5, <2>1, SameLevel, Zenon
<1>8. \A b \in BOOLEAN : ~At(s, 1, <<"resumed", b>>)
  BY <1>0, Zenon DEF At
<1>9. ASSUME x \in Kthreads, SavedOff(t, 1) PROVE IretFrom(s, 1)
  <2>1. ~f /\ ~Deep(t, 1)
    BY <1>0, <1>5, <1>9, Zenon DEF SavedOff
  <2>2. Calm(s)
    BY <2>1, <1>1, <1>2, <1>5, <1>6, FollowsFirst, Zenon DEF Calm, Opens, AcqAt
  <2>3. n = 0
    BY <1>1, <2>2, CalmLevel DEF Fits
  <2> QED
    BY <1>1, <1>9, <2>1, <2>3 DEF Fits
<1>10. Owned(x, t) /\ (IretFrom(t, 1) <=> IretFrom(s, 1))
  <2>1. e \notin {<<"pick">>, <<"sti">>} /\ e # <<"sched">> /\ e \notin Resumes
    BY <1>4, Zenon DEF Switches
  <2> QED
    BY <1>0, <1>1, <1>3, <1>9, <2>1, ReplaceOwned, Zenon
<1>11. Fits(c, x, t, n, ie, f, lk)
  BY <1>1, <1>5, <1>7, <1>8, <1>10, Zenon DEF Fits
<1> QED
  BY <1>5, <1>10, <1>11 DEF Good

LEMMA NextLevel ==
  ASSUME NEW s, NEW t, ~Inner(s), Inner(t), \A l \in IrqLocks : OuterOf(s, l) <=> OuterOf(t, l)
  PROVE  Level(t) = Level(s) + 1
<1>1. (\E l \in IrqLocks : OuterOf(s, l)) <=> (\E l \in IrqLocks : OuterOf(t, l))
  BY Zenon
<1> QED
  BY <1>1 DEF Level

\* The rest of pushcli(), and the test of acquire(), which does not panic.
LEMMA CliFree ==
  ASSUME NEW s, WellFormed(s), NEW l \in SpinLocks, NEW b \in BOOLEAN, Begins(s, <<"cli", l, b>>)
  PROVE  ~Holds(s, l)
<1>1. s # <<>> /\ s[1] = <<"cli", l, b>>
  BY DEF Begins
<1>2. s[1] \in Acqs(l)
  BY <1>1, Zenon DEF Acqs
<1>3. /\ \A k : ~RelAt(s, 1, k) /\ (AcqAt(s, 1, k) <=> k = l)
      /\ ~PopAt(s, 1) /\ ~SwitchAt(s, 1) /\ s[1] \notin {<<"iret">>, <<"sti">>, <<"never">>}
  BY <1>1, <1>2, OnePart, FollowsFirst, Zenon
<1> QED
  BY <1>3, Locks, Outer, Zenon DEF Holds

LEMMA GoodCli ==
  ASSUME NEW c, NEW x, NEW s, NEW n \in Nat, NEW ie \in BOOLEAN, NEW f \in BOOLEAN, NEW lk,
         Good(c, x, s, n, ie, f, lk), NEW l \in SpinLocks, NEW b \in BOOLEAN,
         Begins(s, <<"cli", l, b>>), NEW t, Puts(s, t, <<"xchg", l>>)
  PROVE  Good(c, x, t, n + 1, Saves(n, b, ie), FALSE, lk)
<1> USE DEF Begins, Puts, Saves
<1> DEFINE e == <<"xchg", l>>
<1>1. WellFormed(s) /\ Owned(x, s) /\ Fits(c, x, s, n, ie, f, lk)
  BY DEF Good
<1>0. /\ t = <<e>> \o Tail(s)
      /\ \A k : s[1] # <<"xchg", k>>
      /\ \A d \in BOOLEAN : e # <<"resumed", d>> /\ s[1] # <<"resumed", d>>
      /\ \A d \in BOOLEAN, k \in SpinLocks : e # <<"cli", k, d>>
  OBVIOUS
<1>2. s[1] \in Acqs(l) /\ e \in Acqs(l)
  BY Zenon DEF Acqs
<1>a. e = <<"xchg", l>>
  OBVIOUS
<1> HIDE DEF e
<1>3. SamePart(s[1], e)
  BY <1>2, Zenon DEF SamePart
<1>4. e \notin Switches /\ s[1] \notin Switches /\ e \notin {<<"iret">>, <<"sti">>, <<"never">>}
  BY <1>2, Words
<1>5. /\ WellFormed(t) /\ t # <<>> /\ t[1] = e
      /\ Deep(t, 1) <=> Deep(s, 1)
      /\ \A k : (OuterOf(t, k) <=> OuterOf(s, k)) /\ (Holds(t, k) <=> Holds(s, k))
  BY <1>0, <1>1, <1>3, ReplaceView, Zenon
<1>6. /\ \A k : ~RelAt(s, 1, k) /\ (AcqAt(s, 1, k) <=> k = l)
      /\ ~PopAt(s, 1) /\ ~SwitchAt(s, 1) /\ s[1] \notin {<<"iret">>, <<"sti">>, <<"never">>}
  BY <1>1, <1>2, OnePart, FollowsFirst, Zenon
<1>7. Level(t) = Level(s) + 1
  <2>1. ~Inner(s)
    BY <1>0, <1>6, Zenon DEF Inner, At
  <2>2. Inner(t)
    BY <1>5, <1>a, First, Zenon DEF Inner
  <2> QED
    BY <2>1, <2>2, <1>5, NextLevel, Zenon
<1>9. Owned(x, t) /\ (IretFrom(t, 1) <=> IretFrom(s, 1))
  <2>1. e \notin {<<"pick">>, <<"sti">>} /\ e # <<"sched">> /\ e \notin Resumes
    BY <1>4, Zenon DEF Switches
  <2>2. ~SavedOff(t, 1)
    BY <1>0, <1>5, Zenon DEF SavedOff
  <2> QED
    BY <1>0, <1>1, <1>3, <2>1, <2>2, ReplaceOwned, Zenon
<1>10. ASSUME x \in Kthreads, ~IretFrom(t, 1) PROVE IF n = 0 THEN b ELSE ie
  <2>1. CASE n = 0
    <3>1. Calm(s)
      BY <1>1, <2>1, CalmLevel DEF Fits
    <3>2. 1 # Len(s) + 1 /\ 1 \in 1 .. Len(s)
      BY <1>1, FollowsFirst DEF WellFormed
    <3>3. ~Deep(s, 1)
      BY <3>1, <3>2, <1>6, Zenon DEF Calm, Opens
    <3>4. ~IretFrom(s, 2)
      BY <1>9, <1>10 DEF IretFrom
    <3>5. ~SavedOff(s, 1)
      BY <1>1, <1>10, <3>2, <3>4 DEF Owned
    <3>6. b
      BY <3>3, <3>5 DEF SavedOff
    <3> QED
      BY <2>1, <3>6
  <2>2. CASE n # 0
    <3>1. \A d \in BOOLEAN : ~At(s, 1, <<"resumed", d>>)
      BY <1>0, Zenon DEF At
    <3> QED
      BY <1>1, <1>9, <1>10, <2>2, <3>1, Zenon DEF Fits
  <2> QED
    BY <2>1, <2>2
<1>11. Fits(c, x, t, n + 1, IF n = 0 THEN b ELSE ie, FALSE, lk)
  <2>1. n + 1 = Level(t) /\ n + 1 # 0
    BY <1>1, <1>7 DEF Fits
  <2>2. \A k \in SpinLocks : lk[k] = c <=> Holds(t, k)
    BY <1>1, <1>5, Zenon DEF Fits
  <2> QED
    BY <2>1, <2>2, <1>10, Zenon DEF Fits
<1> QED
  BY <1>5, <1>9, <1>11, Zenon DEF Good

LEMMA PopView2 ==
  ASSUME NEW s, WellFormed(s), s # <<>>, NEW x, Owned(x, s), NEW t, t = <<>> \o Tail(s)
  PROVE  /\ Moved(s, t, 1) /\ WellFormed(t) /\ Owned(x, t)
         /\ IretFrom(s, 1) <=> s[1] = <<"iret">> \/ IretFrom(t, 1)
<1>1. Moved(s, t, 1) /\ WellFormed(t)
  BY PopFormed, Zenon
<1>2. Owned(x, t)
  BY <1>1, PopOwned
<1>3. IretFrom(t, 1) <=> IretFrom(s, 2)
  BY <1>1, PopView
<1>4. \A j : j \in 1 .. Len(s) <=> j = 1 \/ j \in 2 .. Len(s)
  BY FollowsFirst DEF WellFormed
<1>5. IretFrom(s, 1) <=> s[1] = <<"iret">> \/ IretFrom(s, 2)
  BY <1>4, Zenon DEF IretFrom
<1> QED
  BY <1>1, <1>2, <1>3, <1>5

LEMMA Exclusive ==
  ASSUME NEW s, NEW i
  PROVE  /\ \A l : RelAt(s, i, l) =>
              /\ \A k : (RelAt(s, i, k) <=> k = l) /\ ~AcqAt(s, i, k) /\ ~At(s, i, <<"xchg", k>>)
              /\ ~PopAt(s, i) /\ ~SwitchAt(s, i)
         /\ \A l : AcqAt(s, i, l) =>
              /\ \A k : ~RelAt(s, i, k) /\ (AcqAt(s, i, k) <=> k = l)
              /\ ~PopAt(s, i) /\ ~SwitchAt(s, i)
         /\ SwitchAt(s, i) =>
              /\ \A k : ~RelAt(s, i, k) /\ ~AcqAt(s, i, k) /\ ~At(s, i, <<"xchg", k>>)
              /\ ~PopAt(s, i)
         /\ PopAt(s, i) =>
              /\ \A k : ~RelAt(s, i, k) /\ ~AcqAt(s, i, k) /\ ~At(s, i, <<"xchg", k>>)
              /\ ~SwitchAt(s, i)
<1>1. SUFFICES ASSUME i \in 1 .. Len(s)
      PROVE  /\ \A l : RelAt(s, i, l) =>
                  /\ \A k : (RelAt(s, i, k) <=> k = l) /\ ~AcqAt(s, i, k) /\ ~At(s, i, <<"xchg", k>>)
                  /\ ~PopAt(s, i) /\ ~SwitchAt(s, i)
             /\ \A l : AcqAt(s, i, l) =>
                  /\ \A k : ~RelAt(s, i, k) /\ (AcqAt(s, i, k) <=> k = l)
                  /\ ~PopAt(s, i) /\ ~SwitchAt(s, i)
             /\ SwitchAt(s, i) =>
                  /\ \A k : ~RelAt(s, i, k) /\ ~AcqAt(s, i, k) /\ ~At(s, i, <<"xchg", k>>)
                  /\ ~PopAt(s, i)
             /\ PopAt(s, i) =>
                  /\ \A k : ~RelAt(s, i, k) /\ ~AcqAt(s, i, k) /\ ~At(s, i, <<"xchg", k>>)
                  /\ ~SwitchAt(s, i)
  BY Zenon DEF RelAt, AcqAt, PopAt, SwitchAt, At
<1>2. /\ \A k : RelAt(s, i, k) <=> s[i] = <<"release", k>>
      /\ \A k : AcqAt(s, i, k) <=> s[i] \in Acqs(k)
      /\ \A k : At(s, i, <<"xchg", k>>) <=> s[i] = <<"xchg", k>>
      /\ PopAt(s, i) <=> s[i] = <<"popcli">>
      /\ SwitchAt(s, i) <=> s[i] \in Switches
  BY <1>1, Zenon DEF RelAt, AcqAt, PopAt, SwitchAt, At
<1> QED
  BY <1>1, <1>2, OnePart, Zenon

\* xchg() finds the lock free.
LEMMA GoodXchg ==
  ASSUME NEW c, NEW x, NEW s, NEW n \in Nat, NEW ie \in BOOLEAN, NEW f \in BOOLEAN, NEW lk,
         Good(c, x, s, n, ie, f, lk), NEW l \in SpinLocks, Begins(s, <<"xchg", l>>),
         NEW t, Pops(s, t),
         NEW lk2, Takes(c, l, lk, lk2)
  PROVE  Good(c, x, t, n, ie, f, lk2)
<1> USE DEF Begins, Pops, Takes
<1>1. WellFormed(s) /\ Owned(x, s) /\ Fits(c, x, s, n, ie, f, lk)
  BY DEF Good
<1>2. /\ Moved(s, t, 1) /\ WellFormed(t) /\ Owned(x, t)
      /\ IretFrom(s, 1) <=> s[1] = <<"iret">> \/ IretFrom(t, 1)
  BY <1>1, PopView2, Zenon
<1>3. s[1] \in Acqs(l) /\ s[1] # <<"iret">> /\ \A b \in BOOLEAN : s[1] # <<"resumed", b>>
  <2>1. s[1] \in Acqs(l)
    BY Zenon DEF Acqs
  <2> QED
    BY <2>1
<1>4. /\ \A k : ~RelAt(s, 1, k) /\ (AcqAt(s, 1, k) <=> k = l)
      /\ ~PopAt(s, 1) /\ ~SwitchAt(s, 1)
  BY <1>1, <1>3, First, Exclusive, Zenon
<1>5. Inner(s) /\ \A k : OuterOf(s, k) <=> l = "ptable" /\ RelAt(s, 2, "ptable") /\ RelAt(s, 4, k)
  BY <1>1, <1>4, First, Outer, Zenon DEF Inner
<1>6. \A k \in SpinLocks : Holds(s, k) <=> k \in IrqLocks /\ OuterOf(s, k)
  BY <1>4, Zenon DEF Holds
<1>7. /\ Level(t) = Level(s)
      /\ \A k \in SpinLocks : Holds(t, k) <=> Holds(s, k) \/ k = l
  <2>1. CASE RelAt(s, 2, l)
    <3>1. /\ \A k : (RelAt(t, 1, k) <=> k = l) /\ ~AcqAt(t, 1, k)
          /\ ~PopAt(t, 1) /\ ~SwitchAt(t, 1)
      <4>1. RelAt(t, 1, l)
        BY <1>2, <2>1, PopView, Zenon
      <4> QED
        BY <4>1, Exclusive, Zenon
    <3>2. Inner(t) /\ \A k : OuterOf(t, k) <=> OuterOf(s, k)
      BY <1>2, <1>5, <2>1, <3>1, PopView, Outer, Zenon DEF Inner
    <3>3. Level(t) = Level(s)
      BY <1>5, <3>2, SameLevel, Zenon
    <3> QED
      BY <1>6, <3>1, <3>2, <3>3, Zenon DEF Holds
  <2>2. CASE l = "ptable" /\ SwitchAt(s, 2)
    <3>1. (\A k : ~RelAt(t, 1, k) /\ ~AcqAt(t, 1, k)) /\ ~PopAt(t, 1) /\ SwitchAt(t, 1)
      BY <1>2, <2>2, PopView, Exclusive, Zenon
    <3>2. \A k : ~OuterOf(t, k) /\ ~OuterOf(s, k)
      BY <1>5, <2>2, <3>1, Outer, Exclusive, Zenon
    <3>3. Level(t) = Level(s)
      BY <1>5, <3>1, <3>2, SameLevel, Zenon DEF Inner
    <3> QED
      BY <1>6, <2>2, <3>1, <3>2, <3>3, Zenon DEF Holds
  <2>3. CASE /\ l \in IrqLocks /\ AcqAt(s, 2, "ptable")
             /\ RelAt(s, 3, "ptable") /\ RelAt(s, 5, l)
    <3>1. /\ \A k : ~RelAt(t, 1, k)
          /\ AcqAt(t, 1, "ptable") /\ ~PopAt(t, 1) /\ ~SwitchAt(t, 1)
      <4>1. AcqAt(t, 1, "ptable")
        BY <1>2, <2>3, PopView, Zenon
      <4> QED
        BY <4>1, Exclusive, Zenon
    <3>2. \A k : OuterOf(t, k) <=> k = l
      <4>1. RelAt(t, 2, "ptable") /\ RelAt(t, 4, l)
        BY <1>2, <2>3, PopView, Zenon
      <4>2. \A k : RelAt(t, 4, k) <=> k = l
        BY <4>1 DEF RelAt, At
      <4> QED
        BY <3>1, <4>1, <4>2, Outer, Zenon
    <3>3. \A k \in SpinLocks : ~At(t, 1, <<"xchg", k>>)
      <4>1. 2 \in 1 .. Len(s) => Precedes(s, 2)
        BY <1>1 DEF WellFormed
      <4>2. 2 # 1
        OBVIOUS
      <4> QED
        BY <1>2, <4>1, <4>2, PopView, Zenon DEF Precedes, At
    <3>4. ~Inner(t)
      BY <3>1, <3>3, Zenon DEF Inner
    <3>5. \A k : ~OuterOf(s, k)
      BY <1>5, <2>3, Locks, Zenon
    <3>6. Level(t) = 1 /\ Level(s) = 1
      BY <1>5, <2>3, <3>2, <3>4, <3>5, LevelIs, Zenon
    <3> QED
      BY <1>6, <2>3, <3>1, <3>2, <3>5, <3>6, Zenon DEF Holds
  <2> QED
    BY <1>1, <1>3, <2>1, <2>2, <2>3, FollowsFirst, Zenon
<1>8. n # 0
  BY <1>1, <1>5, LevelIs DEF Fits
<1>9. \A b \in BOOLEAN : ~At(s, 1, <<"resumed", b>>)
  BY <1>3, Zenon DEF At
<1>10. Fits(c, x, t, n, ie, f, lk2)
  BY <1>1, <1>2, <1>3, <1>7, <1>8, <1>9, Zenon DEF Fits
<1> QED
  BY <1>2, <1>10, Zenon DEF Good

\* release() up to its popcli(): the lock is held, so there is no panic.
LEMMA ReleaseHeld ==
  ASSUME NEW s, WellFormed(s), NEW l \in SpinLocks, Begins(s, <<"release", l>>)
  PROVE  Holds(s, l)
BY First, Zenon DEF Holds, Begins

LEMMA GoodRelease ==
  ASSUME NEW c, NEW x, NEW s, NEW n \in Nat, NEW ie \in BOOLEAN, NEW f \in BOOLEAN, NEW lk,
         Good(c, x, s, n, ie, f, lk), NEW l \in SpinLocks, Begins(s, <<"release", l>>),
         NEW t, Pops(s, t),
         NEW lk2, Drops(c, l, lk, lk2)
  PROVE  Good(c, x, t, n, ie, f, lk2)
<1> USE DEF Begins, Pops, Drops
<1>1. WellFormed(s) /\ Owned(x, s) /\ Fits(c, x, s, n, ie, f, lk)
  BY DEF Good
<1>2. /\ Moved(s, t, 1) /\ WellFormed(t) /\ Owned(x, t)
      /\ IretFrom(s, 1) <=> s[1] = <<"iret">> \/ IretFrom(t, 1)
  BY <1>1, PopView2, Zenon
<1>3. s[1] # <<"iret">> /\ \A b \in BOOLEAN : s[1] # <<"resumed", b>>
  OBVIOUS
<1>4. RelAt(s, 1, l)
  BY <1>1, First, Zenon
<1>5. /\ \A k : (RelAt(s, 1, k) <=> k = l) /\ ~AcqAt(s, 1, k)
      /\ ~PopAt(s, 1) /\ ~SwitchAt(s, 1)
  BY <1>4, Exclusive, Zenon
<1>6. Inner(s) /\ \A k : OuterOf(s, k) <=> l = "ptable" /\ RelAt(s, 3, k)
  BY <1>5, Outer, Zenon DEF Inner
<1>7. PopAt(t, 1) /\ (l \in IrqLocks => \A k \in SpinLocks : ~RelAt(s, 3, k))
  <2>1. PopAt(s, 2) /\ (l \in IrqLocks => \A k \in SpinLocks : ~RelAt(s, 3, k))
    BY <1>1, FollowsFirst, Locks, Zenon
  <2> QED
    BY <2>1, <1>2, PopView, Zenon
<1>8. (\A k : ~RelAt(t, 1, k) /\ ~AcqAt(t, 1, k)) /\ ~SwitchAt(t, 1)
  BY <1>7, Exclusive, Zenon
<1>9. \A k \in SpinLocks : OuterOf(t, k) <=> OuterOf(s, k)
  <2>1. \A k : OuterOf(t, k) <=> RelAt(s, 3, k)
    BY <1>2, <1>7, <1>8, Outer, PopView, Zenon
  <2> QED
    BY <1>6, <1>7, <2>1, Locks, Zenon
<1>10. Level(t) = Level(s)
  <2>1. Inner(t)
    BY <1>7, Zenon DEF Inner
  <2> QED
    BY <1>6, <1>9, <2>1, Locks, SameLevel, Zenon
<1>11. \A k \in SpinLocks : Holds(s, k) <=> k = l \/ (k \in IrqLocks /\ OuterOf(s, k))
  BY <1>5, Zenon DEF Holds
<1>12. \A k \in SpinLocks : Holds(t, k) <=> k \in IrqLocks /\ OuterOf(s, k)
  BY <1>8, <1>9, Zenon DEF Holds
<1>13. l \notin IrqLocks \/ ~OuterOf(s, l)
  BY <1>6, Locks, Zenon
<1>14. n # 0
  BY <1>1, <1>6, LevelIs DEF Fits
<1>15. \A b \in BOOLEAN : ~At(s, 1, <<"resumed", b>>)
  BY <1>3, Zenon DEF At
<1>16. \A k \in SpinLocks : lk2[k] = c <=> Holds(t, k)
  BY <1>1, <1>11, <1>12, <1>13, Zenon DEF Fits
<1>17. Fits(c, x, t, n, ie, f, lk2)
  BY <1>1, <1>2, <1>3, <1>10, <1>14, <1>15, <1>16, Zenon DEF Fits
<1> QED
  BY <1>2, <1>17, Zenon DEF Good

\* popcli(): interrupts are off and ncli is positive, so there is no panic.
LEMMA PopcliOff ==
  ASSUME NEW c, NEW x, NEW s, NEW n \in Nat, NEW ie \in BOOLEAN, NEW f \in BOOLEAN, NEW lk,
         Good(c, x, s, n, ie, f, lk), Begins(s, <<"popcli">>)
  PROVE  ~f /\ n >= 1
<1>1. WellFormed(s) /\ Fits(c, x, s, n, ie, f, lk) /\ s # <<>> /\ s[1] = <<"popcli">>
  BY DEF Good, Begins
<1>2. Inner(s)
  BY <1>1, First, Zenon DEF Inner
<1> QED
  BY <1>1, <1>2, LevelIs DEF Fits

LEMMA GoodPopcli ==
  ASSUME NEW c, NEW x, NEW s, NEW n \in Nat, NEW ie \in BOOLEAN, NEW f \in BOOLEAN, NEW lk,
         Good(c, x, s, n, ie, f, lk), Begins(s, <<"popcli">>),
         NEW t, Pops(s, t)
  PROVE  Good(c, x, t, n - 1, ie, Reopens(n, ie, f), lk)
<1> USE DEF Begins, Pops, Reopens
<1>1. WellFormed(s) /\ Owned(x, s) /\ Fits(c, x, s, n, ie, f, lk)
  BY DEF Good
<1>2. /\ Moved(s, t, 1) /\ WellFormed(t) /\ Owned(x, t)
      /\ IretFrom(s, 1) <=> s[1] = <<"iret">> \/ IretFrom(t, 1)
  BY <1>1, PopView2, Zenon
<1>3. s[1] # <<"iret">> /\ \A b \in BOOLEAN : s[1] # <<"resumed", b>>
  OBVIOUS
<1>4. PopAt(s, 1)
  BY <1>1, First, Zenon
<1>5. (\A k : ~RelAt(s, 1, k) /\ ~AcqAt(s, 1, k)) /\ ~SwitchAt(s, 1)
  BY <1>4, Exclusive, Zenon
<1>6. Inner(s) /\ \A k : OuterOf(s, k) <=> RelAt(s, 2, k)
  BY <1>4, <1>5, Outer, Zenon DEF Inner
<1>7. \A k \in SpinLocks : Holds(s, k) <=> k \in IrqLocks /\ RelAt(s, 2, k)
  BY <1>5, <1>6, Zenon DEF Holds
<1>8. Level(t) = Level(s) - 1 /\ \A k \in SpinLocks : Holds(t, k) <=> Holds(s, k)
  <2>1. CASE Opens(s, 2)
    <3>1. Opens(t, 1)
      BY <1>2, <2>1, PopView, Zenon
    <3>2. \A k \in SpinLocks : ~At(t, 1, <<"xchg", k>>)
      <4>1. 2 \in 1 .. Len(s) => Precedes(s, 2)
        BY <1>1 DEF WellFormed
      <4>2. 2 # 1
        OBVIOUS
      <4> QED
        BY <1>2, <4>1, <4>2, PopView, Zenon DEF Precedes, At
    <3>3. Level(t) = 0 /\ \A k \in SpinLocks : ~Holds(t, k)
      BY <1>2, <3>1, <3>2, CalmLevel, Zenon DEF Calm
    <3>4. \A k : ~RelAt(s, 2, k)
      <4>1. SUFFICES ASSUME NEW k, RelAt(s, 2, k) PROVE ~Opens(s, 2)
        BY <2>1, Zenon
      <4>2. 2 \in 1 .. Len(s) /\ s[2] = <<"release", k>>
        BY <4>1 DEF RelAt, At
      <4>3. 2 # Len(s) + 1
        BY <4>2, <1>1 DEF WellFormed
      <4>4. (\A j : ~AcqAt(s, 2, j)) /\ s[2] \notin {<<"iret">>, <<"sti">>, <<"never">>}
        <5>1. \A j : ~AcqAt(s, 2, j)
          BY <4>1, Exclusive, Zenon
        <5>2. s[2] \notin {<<"iret">>, <<"sti">>, <<"never">>}
          BY <4>2
        <5> QED
          BY <5>1, <5>2
      <4> QED
        BY <4>3, <4>4, Zenon DEF Opens
    <3>5. Level(s) = 1
      BY <1>6, <3>4, LevelIs, Zenon
    <3> QED
      BY <3>3, <3>4, <3>5, <1>7
  <2>2. ASSUME NEW l \in IrqLocks, RelAt(s, 2, l)
        PROVE  Level(t) = Level(s) - 1 /\ \A k \in SpinLocks : Holds(t, k) <=> Holds(s, k)
    <3>1. RelAt(t, 1, l)
      BY <1>2, <2>2, PopView, Zenon
    <3>2. (\A k : (RelAt(t, 1, k) <=> k = l) /\ ~AcqAt(t, 1, k)) /\ ~PopAt(t, 1) /\ ~SwitchAt(t, 1)
      BY <3>1, Exclusive, Zenon
    <3>3. Inner(t) /\ \A k : ~OuterOf(t, k)
      BY <3>2, Locks, Outer, Zenon DEF Inner
    <3>4. Level(t) = 1 /\ Level(s) = 2
      BY <3>3, <1>6, <2>2, LevelIs, Zenon
    <3>5. \A k : RelAt(s, 2, k) <=> k = l
      BY <2>2 DEF RelAt, At
    <3>6. \A k \in SpinLocks : Holds(t, k) <=> Holds(s, k)
      BY <1>7, <3>2, <3>3, <3>5, Zenon DEF Holds
    <3> QED
      BY <3>4, <3>6
  <2> QED
    BY <1>1, <2>1, <2>2, FollowsFirst, Zenon
<1>9. ~f /\ n >= 1 /\ n - 1 = Level(t)
  BY <1>1, <1>6, <1>8, LevelIs DEF Fits
<1>10. \A b \in BOOLEAN : ~At(s, 1, <<"resumed", b>>)
  BY <1>3, Zenon DEF At
<1>11. x \in Kthreads /\ ~IretFrom(t, 1) => ie
  <2>1. n # 0
    BY <1>9
  <2> QED
    BY <2>1, <1>1, <1>2, <1>3, <1>10, Zenon DEF Fits
<1>12. n - 1 = 0 <=> n = 1
  OBVIOUS
<1>13. \A k \in SpinLocks : lk[k] = c <=> Holds(t, k)
  BY <1>1, <1>8, Zenon DEF Fits
<1>14. Fits(c, x, t, n - 1, ie, IF n = 1 /\ ie THEN TRUE ELSE f, lk)
  BY <1>9, <1>11, <1>12, <1>13, Zenon DEF Fits
<1> QED
  BY <1>2, <1>9, <1>14, Zenon DEF Good

\* With a switch to do, or just done, ptable.lock is the only lock held.
LEMMA SwitchHolds ==
  ASSUME NEW s, WellFormed(s), s # <<>>, s[1] \in Switches
  PROVE  Level(s) = 1 /\ \A k \in SpinLocks : Holds(s, k) <=> k = "ptable"
<1>1. SwitchAt(s, 1)
  BY First, Zenon
<1>2. (\A k : ~RelAt(s, 1, k) /\ ~AcqAt(s, 1, k)) /\ ~PopAt(s, 1)
  BY <1>1, Exclusive, Zenon
<1>3. Inner(s) /\ \A k : ~OuterOf(s, k)
  BY <1>1, <1>2, Outer, Zenon DEF Inner
<1> QED
  BY <1>1, <1>2, <1>3, LevelIs, Zenon DEF Holds

LEMMA SwitchPop ==
  ASSUME NEW s, WellFormed(s), s # <<>>, s[1] \in Switches, NEW t, Moved(s, t, 1)
  PROVE  Level(t) = 1 /\ \A k \in SpinLocks : Holds(t, k) <=> k = "ptable"
<1>1. RelAt(s, 2, "ptable") /\ \A l \in IrqLocks : ~RelAt(s, 4, l)
  BY FollowsFirst, Zenon
<1>2. RelAt(t, 1, "ptable") /\ \A l \in IrqLocks : ~RelAt(t, 3, l)
  BY <1>1, PopView, Zenon
<1>3. /\ \A k : (RelAt(t, 1, k) <=> k = "ptable") /\ ~AcqAt(t, 1, k)
      /\ ~PopAt(t, 1) /\ ~SwitchAt(t, 1)
  BY <1>2, Exclusive, Zenon
<1>4. Inner(t) /\ \A k \in IrqLocks : ~OuterOf(t, k)
  BY <1>2, <1>3, Locks, Outer, Zenon DEF Inner
<1> QED
  BY <1>3, <1>4, LevelIs, Zenon DEF Holds

\* sched() after swtch(): intena is what it was when the process called sched().
LEMMA GoodResumed ==
  ASSUME NEW c, NEW x, NEW s, NEW n \in Nat, NEW ie \in BOOLEAN, NEW f \in BOOLEAN, NEW lk,
         Good(c, x, s, n, ie, f, lk), NEW b \in BOOLEAN, Begins(s, <<"resumed", b>>),
         NEW t, Pops(s, t)
  PROVE  Good(c, x, t, n, b, f, lk)
<1> USE DEF Begins, Pops
<1>1. WellFormed(s) /\ Owned(x, s) /\ Fits(c, x, s, n, ie, f, lk)
  BY DEF Good
<1>2. /\ Moved(s, t, 1) /\ WellFormed(t) /\ Owned(x, t)
      /\ IretFrom(s, 1) <=> s[1] = <<"iret">> \/ IretFrom(t, 1)
  BY <1>1, PopView2, Zenon
<1>3. s[1] # <<"iret">>
  OBVIOUS
<1>4. s[1] \in Switches
  BY Zenon DEF Switches, Resumes
<1>5. Level(s) = 1 /\ \A k \in SpinLocks : Holds(s, k) <=> k = "ptable"
  BY <1>1, <1>4, SwitchHolds, Zenon
<1>6. Level(t) = 1 /\ \A k \in SpinLocks : Holds(t, k) <=> k = "ptable"
  BY <1>1, <1>2, <1>4, SwitchPop, Zenon
<1>7. ASSUME x \in Kthreads, ~IretFrom(t, 1) PROVE b
  <2>1. ~IretFrom(s, 2)
    BY <1>2, <1>7, PopView, Zenon
  <2>2. 1 \in 1 .. Len(s)
    BY <1>1, FollowsFirst, Zenon
  <2>3. ~SavedOff(s, 1)
    BY <1>1, <1>7, <2>1, <2>2 DEF Owned
  <2> QED
    BY <2>3, Zenon DEF SavedOff
<1>8. n = 1 /\ n # 0
  BY <1>1, <1>5 DEF Fits
<1>9. Fits(c, x, t, n, b, f, lk)
  BY <1>1, <1>5, <1>6, <1>7, <1>8, Zenon DEF Fits
<1> QED
  BY <1>2, <1>9, Zenon DEF Good

\* The scheduler finds no process to run.
LEMMA GoodPick ==
  ASSUME NEW c, NEW x, NEW s, NEW n \in Nat, NEW ie \in BOOLEAN, NEW f \in BOOLEAN, NEW lk,
         Good(c, x, s, n, ie, f, lk), Begins(s, <<"pick">>), NEW t, Pops(s, t)
  PROVE  x \in CPUs /\ Good(c, x, t, n, ie, f, lk)
<1> USE DEF Begins, Pops
<1>1. WellFormed(s) /\ Owned(x, s) /\ Fits(c, x, s, n, ie, f, lk)
  BY DEF Good
<1>2. Moved(s, t, 1) /\ WellFormed(t) /\ Owned(x, t)
  BY <1>1, PopView2, Zenon
<1>3. 1 \in 1 .. Len(s)
  BY <1>1, FollowsFirst, Zenon
<1>4. s[1] \in Switches
  BY Zenon DEF Switches
<1>5. x \in CPUs
  BY <1>1, <1>3, Zenon DEF Owned
<1>6. x \notin Kthreads
  BY <1>5, SpinAssumption
<1>7. Level(s) = 1 /\ \A k \in SpinLocks : Holds(s, k) <=> k = "ptable"
  BY <1>1, <1>4, SwitchHolds, Zenon
<1>8. Level(t) = 1 /\ \A k \in SpinLocks : Holds(t, k) <=> k = "ptable"
  BY <1>1, <1>2, <1>4, SwitchPop, Zenon
<1>9. Fits(c, x, t, n, ie, f, lk)
  BY <1>1, <1>6, <1>7, <1>8, Zenon DEF Fits
<1> QED
  BY <1>2, <1>5, <1>9, Zenon DEF Good

\* sti and iret: no lock is held, and interrupts are on afterwards.
LEMMA GoodEnable ==
  ASSUME NEW c, NEW x, NEW s, NEW n \in Nat, NEW ie \in BOOLEAN, NEW f \in BOOLEAN, NEW lk,
         Good(c, x, s, n, ie, f, lk), s # <<>>, s[1] \in {<<"sti">>, <<"iret">>},
         NEW t, Pops(s, t)
  PROVE  Good(c, x, t, n, ie, TRUE, lk)
<1> USE DEF Pops
<1>1. WellFormed(s) /\ Owned(x, s) /\ Fits(c, x, s, n, ie, f, lk)
  BY DEF Good
<1>2. Moved(s, t, 1) /\ WellFormed(t) /\ Owned(x, t)
  BY <1>1, PopView2, Zenon
<1>3. 1 \in 1 .. Len(s) /\ s[1] \in {<<"iret">>, <<"sti">>, <<"never">>}
  BY <1>1, FollowsFirst, Zenon
<1>4. Calm(s)
  BY <1>3, OnePart, Zenon DEF Calm, Opens, At
<1>5. Opens(t, 1)
  <2>1. s[1] \in {<<"iret">>, <<"sti">>}
    BY Zenon
  <2> QED
    BY <1>1, <1>2, <2>1, FollowsFirst, PopView, Zenon
<1>6. \A k \in SpinLocks : ~At(t, 1, <<"xchg", k>>)
  <2>1. 2 \in 1 .. Len(s) => Precedes(s, 2)
    BY <1>1 DEF WellFormed
  <2>2. 2 # 1
    OBVIOUS
  <2> QED
    BY <1>2, <2>1, <2>2, PopView, Zenon DEF Precedes, At
<1>7. Level(s) = 0 /\ Level(t) = 0 /\ \A k \in SpinLocks : ~Holds(s, k) /\ ~Holds(t, k)
  BY <1>1, <1>2, <1>4, <1>5, <1>6, CalmLevel, Zenon DEF Calm
<1>8. Fits(c, x, t, n, ie, TRUE, lk)
  BY <1>1, <1>7, Zenon DEF Fits
<1> QED
  BY <1>2, <1>8, Zenon DEF Good

\* sched(): none of its panics; what it leaves on the stack can be resumed anywhere.
LEMMA GoodSched ==
  ASSUME NEW c, NEW x, NEW s, NEW n \in Nat, NEW ie \in BOOLEAN, NEW f \in BOOLEAN, NEW lk,
         Good(c, x, s, n, ie, f, lk), Begins(s, <<"sched">>),
         NEW t, Puts(s, t, <<"resumed", ie>>)
  PROVE  Leaves(c, x, t, n, f, lk)
<1> USE DEF Begins, Puts, Leaves
<1> DEFINE e == <<"resumed", ie>>
<1>1. WellFormed(s) /\ Owned(x, s) /\ Fits(c, x, s, n, ie, f, lk)
  BY DEF Good
<1>0. /\ t = <<e>> \o Tail(s)
      /\ \A d \in BOOLEAN : e = <<"resumed", d>> => d = ie
      /\ \A d \in BOOLEAN : s[1] # <<"resumed", d>>
      /\ \A d \in BOOLEAN, k \in SpinLocks : e # <<"cli", k, d>>
  OBVIOUS
<1>2. s[1] \in Switches /\ e \in Switches /\ e \in Resumes
  BY Zenon DEF Switches, Resumes
<1> HIDE DEF e
<1>3. SamePart(s[1], e)
  BY <1>2, Zenon DEF SamePart
<1>4. 1 \in 1 .. Len(s)
  BY <1>1, FollowsFirst, Zenon
<1>5. x \in Kthreads
  BY <1>1, <1>4, Zenon DEF Owned
<1>6. Level(s) = 1 /\ \A k \in SpinLocks : Holds(s, k) <=> k = "ptable"
  BY <1>1, <1>2, SwitchHolds, Zenon
<1>7. n = 1 /\ ~f /\ \A k \in SpinLocks : lk[k] = c <=> k = "ptable"
  BY <1>1, <1>6 DEF Fits
<1>8. WellFormed(t) /\ t # <<>> /\ t[1] = e
  BY <1>0, <1>1, <1>3, ReplaceView, Zenon
<1>9. SavedOff(t, 1) => IretFrom(s, 1)
  <2>1. SavedOff(t, 1) => ~ie
    BY <1>0, <1>8, Zenon DEF SavedOff
  <2>2. n # 0
    BY <1>7
  <2>3. \A b \in BOOLEAN : ~At(s, 1, <<"resumed", b>>)
    BY <1>0, Zenon DEF At
  <2> QED
    BY <1>1, <1>5, <2>1, <2>2, <2>3, Zenon DEF Fits
<1>10. Owned(x, t)
  <2>1. e \notin {<<"pick">>, <<"sti">>}
    BY DEF e
  <2> QED
    BY <1>0, <1>1, <1>3, <1>5, <1>9, <2>1, ReplaceOwned, Zenon
<1>11. Len(t) > 0
  BY <1>8, FollowsFirst DEF WellFormed
<1>12. AtRest(x, t)
  BY <1>2, <1>5, <1>8, <1>11, Zenon DEF AtRest
<1> QED
  BY <1>5, <1>7, <1>8, <1>10, <1>12, Locks, Zenon
-----------------------------------------------------------------------------
(* Putting calls in front: a system call, a turn of scheduler(), an interrupt *)

LEMMA CalmFirst ==
  ASSUME NEW s, WellFormed(s), Calm(s)
  PROVE  /\ \A k : ~RelAt(s, 1, k)
         /\ ~PopAt(s, 1) /\ ~SwitchAt(s, 1)
         /\ \A k \in SpinLocks : ~At(s, 1, <<"xchg", k>>)
         /\ \A l \in IrqLocks : ~(AcqAt(s, 1, "ptable") /\ RelAt(s, 2, "ptable") /\ RelAt(s, 4, l))
<1>1. Level(s) = 0
  BY CalmLevel, Zenon
<1>2. ~Inner(s) /\ \A l \in IrqLocks : ~OuterOf(s, l)
  BY <1>1, LevelIs, Zenon
<1>3. \A k \in SpinLocks : ~RelAt(s, 1, k)
  BY <1>2, Zenon DEF Inner
<1>4. \A k : RelAt(s, 1, k) => k \in SpinLocks
  <2>1. SUFFICES ASSUME NEW k, RelAt(s, 1, k) PROVE k \in SpinLocks
    BY Zenon
  <2>2. s[1] = <<"release", k>> /\ 1 \in 1 .. Len(s) /\ s[1] \in Call
    BY <2>1 DEF RelAt, At, WellFormed
  <2>3. PICK l \in SpinLocks : s[1] = <<"release", l>>
    <3>1. \A l : s[1] \notin Acqs(l)
      BY <2>2, Words
    <3>2. s[1] \notin Switches
      BY <2>2, Words
    <3>3. s[1] \notin {<<"popcli">>, <<"iret">>, <<"sti">>, <<"never">>}
      BY <2>2
    <3> QED
      BY <2>2, <3>1, <3>2, <3>3, Calls, Zenon
  <2> QED
    BY <2>2, <2>3
<1> QED
  BY <1>2, <1>3, <1>4, Outer, Zenon DEF Inner

LEMMA PushPrecedes ==
  ASSUME NEW s, NEW t, NEW m, Moved(t, s, m), WellFormed(s), Calm(s), NEW i \in 1 .. Len(s)
  PROVE  Precedes(t, i + m)
<1>0. i \in Int /\ i >= 1 /\ m \in Nat
  BY DEF Moved
<1>1. s[i] = t[i + m]
  BY DEF Moved
<1>2. Precedes(s, i)
  BY DEF WellFormed
<1>3. \A j \in {i - 1, i - 2, i - 3, i - 4} : j >= 1 =>
        /\ \A l : RelAt(s, j, l) <=> RelAt(t, j + m, l)
        /\ \A l : AcqAt(s, j, l) <=> AcqAt(t, j + m, l)
        /\ SwitchAt(s, j) <=> SwitchAt(t, j + m)
        /\ PopAt(s, j) <=> PopAt(t, j + m)
  <2>1. \A j \in {i - 1, i - 2, i - 3, i - 4} : j \in Int
    BY <1>0
  <2> QED
    BY <2>1, MovedAt, MovedPred, Zenon
<1>4. /\ (i + m) - 1 = (i - 1) + m /\ (i + m) - 2 = (i - 2) + m
      /\ (i + m) - 3 = (i - 3) + m /\ (i + m) - 4 = (i - 4) + m
      /\ i # 1 => i - 1 >= 1
      /\ i # 1 /\ i # 2 => i - 2 >= 1
      /\ i # 1 /\ i # 2 /\ i # 3 => i - 3 >= 1
      /\ i # 1 /\ i # 2 /\ i # 3 /\ i # 4 => i - 4 >= 1
  BY <1>0
<1>5. i = 1 => /\ \A k : s[i] # <<"release", k>>
               /\ \A k \in SpinLocks : s[i] # <<"xchg", k>>
  <2>1. i = 1 => (\A k : RelAt(s, 1, k) <=> s[i] = <<"release", k>>)
                 /\ \A k : At(s, 1, <<"xchg", k>>) <=> s[i] = <<"xchg", k>>
    BY Zenon DEF RelAt, At
  <2> QED
    BY <2>1, CalmFirst, Zenon
<1>6. i = 2 => ~SwitchAt(s, i - 1) /\ ~PopAt(s, i - 1)
  <2>1. i = 2 => i - 1 = 1
    OBVIOUS
  <2> QED
    BY <2>1, CalmFirst, Zenon
<1>7. i = 3 => \A k : ~RelAt(s, i - 2, k)
  <2>1. i = 3 => i - 2 = 1
    OBVIOUS
  <2> QED
    BY <2>1, CalmFirst, Zenon
<1>8. i = 4 => \A l \in IrqLocks : ~(/\ AcqAt(s, i - 3, "ptable") /\ RelAt(s, i - 2, "ptable")
                                     /\ s[i] = <<"release", l>>)
  <2>1. i = 4 => i - 3 = 1 /\ i - 2 = 2
    OBVIOUS
  <2>2. i = 4 => \A l : RelAt(s, 4, l) <=> s[i] = <<"release", l>>
    BY Zenon DEF RelAt, At
  <2> QED
    BY <2>1, <2>2, CalmFirst, Zenon
<1>9. t[i + m] = <<"release", "ptable">> =>
        \/ AcqAt(t, (i + m) - 1, "ptable")
        \/ SwitchAt(t, (i + m) - 1) /\ AcqAt(t, (i + m) - 2, "ptable")
  BY <1>1, <1>2, <1>3, <1>4, <1>5, <1>6, Zenon DEF Precedes
<1>10. ASSUME NEW l \in IrqLocks, s[i] = <<"release", l>>
       PROVE  \/ AcqAt(t, (i + m) - 1, l)
              \/ /\ PopAt(t, (i + m) - 1)
                 /\ RelAt(t, (i + m) - 2, "ptable")
                 /\ AcqAt(t, (i + m) - 3, "ptable") /\ AcqAt(t, (i + m) - 4, l)
  <2>1. i # 1 /\ (AcqAt(s, i - 1, l) \/ i # 2)
    BY <1>2, <1>5, <1>6, <1>10, Zenon DEF Precedes
  <2>2. CASE AcqAt(s, i - 1, l)
    BY <2>1, <2>2, <1>3, <1>4, Zenon
  <2>3. CASE ~AcqAt(s, i - 1, l)
    <3>1. /\ PopAt(s, i - 1) /\ RelAt(s, i - 2, "ptable")
          /\ \/ i = 3
             \/ AcqAt(s, i - 3, "ptable") /\ (i = 4 \/ AcqAt(s, i - 4, l))
      BY <2>1, <2>3, <1>2, <1>10, Zenon DEF Precedes
    <3>2. i # 3 /\ i # 4
      BY <3>1, <1>7, <1>8, <1>10, Zenon
    <3>3. AcqAt(s, i - 3, "ptable") /\ AcqAt(s, i - 4, l)
      BY <3>1, <3>2, Zenon
    <3> QED
      BY <2>1, <2>3, <3>1, <3>2, <3>3, <1>3, <1>4, Zenon
  <2> QED
    BY <2>2, <2>3
<1>11. \A l \in SpinLocks : t[i + m] # <<"xchg", l>>
  BY <1>1, <1>2, <1>5, Zenon DEF Precedes
<1> QED
  BY <1>1, <1>9, <1>10, <1>11, Zenon DEF Precedes

LEMMA PushFormed ==
  ASSUME NEW s, NEW t, NEW m, Moved(t, s, m), WellFormed(s), Calm(s),
         \A i \in 1 .. m : Follows(t, i) /\ Precedes(t, i)
  PROVE  WellFormed(t)
<1>1. ASSUME NEW i \in 1 .. Len(t), i \notin 1 .. m PROVE Follows(t, i) /\ Precedes(t, i)
  <2>1. i - m \in 1 .. Len(s) /\ (i - m) + m = i
    BY <1>1 DEF Moved
  <2> QED
    BY <2>1, MovedFollows, PushPrecedes DEF WellFormed
<1>2. t \in Seq(Call)
  BY DEF Moved
<1> QED
  BY <1>1, <1>2, Zenon DEF WellFormed

LEMMA PushOwned ==
  ASSUME NEW s, NEW t, NEW m, Moved(t, s, m), NEW x, Owned(x, s),
         \A i \in 1 .. m : /\ t[i] \in {<<"pick">>, <<"sti">>} => x \in CPUs
                           /\ t[i] = <<"sched">> => x \in Kthreads
                           /\ t[i] \notin Resumes
                           /\ \A l \in SpinLocks, b \in BOOLEAN : t[i] # <<"cli", l, b>>
  PROVE  Owned(x, t)
<1>1. ASSUME NEW i \in 1 .. Len(t)
      PROVE  /\ t[i] \in {<<"pick">>, <<"sti">>} => x \in CPUs
             /\ t[i] = <<"sched">> \/ t[i] \in Resumes => x \in Kthreads
             /\ x \in Kthreads /\ SavedOff(t, i) => IretFrom(t, i + 1)
  <2>1. CASE i \in 1 .. m
    <3>1. ~SavedOff(t, i)
      BY <2>1, Zenon DEF SavedOff, Resumes
    <3> QED
      BY <2>1, <3>1, Zenon
  <2>2. CASE i \notin 1 .. m
    <3> DEFINE j == i - m
    <3>1. j \in 1 .. Len(s) /\ j + m = i
      BY <2>2 DEF Moved
    <3> HIDE DEF j
    <3>2. /\ s[j] = t[i]
          /\ SavedOff(s, j) <=> SavedOff(t, i)
          /\ IretFrom(s, j + 1) <=> IretFrom(t, i + 1)
      <4>1. /\ s[j] = t[j + m]
            /\ SavedOff(s, j) <=> SavedOff(t, j + m)
            /\ IretFrom(s, j + 1) <=> IretFrom(t, (j + m) + 1)
        BY <3>1, MovedSaved
      <4> QED
        BY <3>1, <4>1
    <3> QED
      BY <3>1, <3>2, Zenon DEF Owned
  <2> QED
    BY <2>1, <2>2
<1> QED
  BY <1>1, Zenon DEF Owned
LEMMA CallsIn ==
  ASSUME NEW l \in SpinLocks
  PROVE  /\ <<"readeflags", l>> \in Call /\ <<"release", l>> \in Call /\ <<"popcli">> \in Call
         /\ <<"sched">> \in Call /\ <<"pick">> \in Call /\ <<"iret">> \in Call
         /\ <<"sti">> \in Call /\ <<"never">> \in Call
<1>1. <<"readeflags", l>> \in Acqs(l)
  BY Zenon DEF Acqs
<1>2. <<"sched">> \in Switches /\ <<"pick">> \in Switches
  BY Zenon DEF Switches
<1> QED
  BY <1>1, <1>2, Calls, Zenon

LEMMA LitAcq ==
  ASSUME NEW e, NEW l, e = <<"readeflags", l>>
  PROVE  /\ \A k : e # <<"release", k>> /\ e # <<"xchg", k>>
         /\ e[1] = "readeflags"
OBVIOUS

LEMMA LitRel ==
  ASSUME NEW e, NEW l, e = <<"release", l>>
  PROVE  /\ \A k : (e = <<"release", k>> => k = l) /\ e # <<"xchg", k>>
         /\ e[1] = "release"
OBVIOUS

LEMMA LitOther ==
  ASSUME NEW e, e \in {<<"popcli">>, <<"sched">>, <<"pick">>}
  PROVE  /\ \A k : e # <<"release", k>> /\ e # <<"xchg", k>>
         /\ e[1] \in {"popcli", "sched", "pick"}
OBVIOUS

LEMMA MovedOpens ==
  ASSUME NEW s, NEW t, NEW m, Moved(t, s, m), WellFormed(s), Calm(s)
  PROVE  Opens(t, 1 + m) /\ \A k : ~RelAt(t, 1 + m, k)
<1>1. Opens(s, 1) <=> Opens(t, 1 + m)
  BY MovedPred
<1>2. \A k : RelAt(s, 1, k) <=> RelAt(t, 1 + m, k)
  BY MovedPred
<1> QED
  BY <1>1, <1>2, CalmFirst, Zenon DEF Calm

\* acquire(l) with release(l) next opens no section inside another when s opens none.
LEMMA PushCritical ==
  ASSUME NEW s, WellFormed(s), Calm(s), NEW l \in SpinLocks, NEW t, t = Critical(l) \o s
  PROVE  /\ WellFormed(t) /\ Calm(t) /\ Moved(t, s, 3)
         /\ t[1] = <<"readeflags", l>> /\ t[2] = <<"release", l>> /\ t[3] = <<"popcli">>
<1>0. s \in Seq(Call)
  BY DEF WellFormed
<1>1. t \in Seq(Call) /\ Len(t) = Len(s) + 3
      /\ t[1] = <<"readeflags", l>> /\ t[2] = <<"release", l>> /\ t[3] = <<"popcli">>
      /\ \A i \in 1 .. Len(s) : t[i + 3] = s[i]
  BY <1>0, CallsIn DEF Critical, AcquireOf, ReleaseOf
<1>2. Moved(t, s, 3)
  BY <1>0, <1>1 DEF Moved
<1>3. /\ RelAt(t, 2, l) /\ PopAt(t, 3)
      /\ AcqAt(t, 1, l)
  <2>1. <<"readeflags", l>> \in Acqs(l)
    BY Zenon DEF Acqs
  <2>2. 1 \in 1 .. Len(t) /\ 2 \in 1 .. Len(t) /\ 3 \in 1 .. Len(t)
    BY <1>0, <1>1
  <2> QED
    BY <2>1, <2>2, <1>1, Zenon DEF AcqAt, RelAt, PopAt, At
<1>4. Opens(t, 4) /\ \A k : ~RelAt(t, 4, k)
  <2>1. 1 + 3 = 4
    OBVIOUS
  <2> QED
    BY <2>1, <1>2, MovedOpens, Zenon
<1>5. t[1] \in Acqs(l)
  BY <1>3 DEF AcqAt
<1>6. \A k : RelAt(t, 2, k) <=> k = l
  BY <1>3 DEF RelAt, At
<1>7. Follows(t, 1) /\ Follows(t, 2) /\ Follows(t, 3)
  <2>1. 1 + 1 = 2 /\ 2 + 1 = 3 /\ 2 + 2 = 4 /\ 3 + 1 = 4
    OBVIOUS
  <2>2. Follows(t, 1)
    BY <2>1, <1>3, <1>5, Zenon DEF Follows
  <2>3. Follows(t, 2)
    BY <2>1, <1>1, <1>3, <1>4, Locks, Zenon DEF Follows
  <2>4. Follows(t, 3)
    BY <2>1, <1>1, <1>4, Zenon DEF Follows
  <2> QED
    BY <2>2, <2>3, <2>4
<1>8. Precedes(t, 1) /\ Precedes(t, 2) /\ Precedes(t, 3)
  <2>1. /\ \A k : t[1] # <<"release", k>> /\ t[1] # <<"xchg", k>>
        /\ \A k : t[3] # <<"release", k>> /\ t[3] # <<"xchg", k>>
        /\ \A k : t[2] # <<"xchg", k>>
        /\ \A k : t[2] = <<"release", k>> => k = l
    BY <1>1
  <2>2. 2 - 1 = 1
    OBVIOUS
  <2> QED
    BY <2>1, <2>2, <1>3, Zenon DEF Precedes
<1>9. WellFormed(t)
  <2>1. \A i \in 1 .. 3 : i = 1 \/ i = 2 \/ i = 3
    OBVIOUS
  <2> QED
    BY <2>1, <1>2, <1>7, <1>8, PushFormed, Zenon
<1>10. Calm(t)
  <2>1. ~Deep(t, 1)
    BY <1>4, <1>6, DeepFirst, Locks, Zenon
  <2>2. Opens(t, 1)
    BY <1>3, <2>1, Zenon DEF Opens
  <2>3. \A k : t[1] # <<"xchg", k>>
    BY <1>1
  <2> QED
    BY <2>2, <2>3, Zenon DEF Calm, At
<1> QED
  BY <1>1, <1>2, <1>9, <1>10

\* yield(), and scheduler() from its acquire on.
LEMMA PushSwitch ==
  ASSUME NEW s, WellFormed(s), Calm(s), NEW e \in {<<"sched">>, <<"pick">>},
         NEW t, t \in Seq(Call), Len(t) = Len(s) + 4,
         t[1] = <<"readeflags", "ptable">>, t[2] = e, t[3] = <<"release", "ptable">>, t[4] = <<"popcli">>,
         \A i \in 1 .. Len(s) : t[i + 4] = s[i]
  PROVE  WellFormed(t) /\ Calm(t) /\ Moved(t, s, 4)
<1>0. s \in Seq(Call) /\ Len(s) \in Nat /\ Len(t) \in Nat
  BY DEF WellFormed
<1>1. Moved(t, s, 4)
  BY <1>0 DEF Moved
<1>2. e \in Switches /\ t[1] \in Acqs("ptable")
  BY Zenon DEF Switches, Acqs
<1>3. 1 \in 1 .. Len(t) /\ 2 \in 1 .. Len(t) /\ 3 \in 1 .. Len(t) /\ 4 \in 1 .. Len(t)
  BY <1>0
<1>4. AcqAt(t, 1, "ptable") /\ SwitchAt(t, 2) /\ RelAt(t, 3, "ptable") /\ PopAt(t, 4)
  BY <1>2, <1>3, Zenon DEF AcqAt, SwitchAt, RelAt, PopAt, At
<1>5. Opens(t, 5) /\ \A k : ~RelAt(t, 5, k)
  <2>1. Opens(t, 1 + 4) /\ \A k : ~RelAt(t, 1 + 4, k)
    BY <1>1, MovedOpens
  <2> QED
    BY <2>1
<1>6. Follows(t, 1) /\ Follows(t, 2) /\ Follows(t, 3) /\ Follows(t, 4)
  <2>1. 1 + 1 = 2 /\ 2 + 1 = 3 /\ 2 + 3 = 5 /\ 3 + 1 = 4 /\ 4 + 1 = 5
    OBVIOUS
  <2>2. Follows(t, 1)
    BY <2>1, <1>2, <1>4, Zenon DEF Follows
  <2>3. Follows(t, 2)
    BY <2>1, <1>2, <1>4, <1>5, Zenon DEF Follows
  <2>4. Follows(t, 3)
    BY <2>1, <1>4, Zenon DEF Follows
  <2>5. Follows(t, 4)
    BY <2>1, <1>5, Zenon DEF Follows
  <2> QED
    BY <2>2, <2>3, <2>4, <2>5
<1>7. Precedes(t, 1) /\ Precedes(t, 2) /\ Precedes(t, 3) /\ Precedes(t, 4)
  <2>1. /\ \A k : t[1] # <<"release", k>> /\ t[1] # <<"xchg", k>>
        /\ \A k : t[2] # <<"release", k>> /\ t[2] # <<"xchg", k>>
        /\ \A k : t[4] # <<"release", k>> /\ t[4] # <<"xchg", k>>
        /\ \A k : t[3] # <<"xchg", k>>
        /\ \A k : t[3] = <<"release", k>> => k = "ptable"
    <3>1. \A k : t[1] # <<"release", k>> /\ t[1] # <<"xchg", k>>
      BY LitAcq, Zenon
    <3>2. \A k : t[2] # <<"release", k>> /\ t[2] # <<"xchg", k>>
      BY LitOther, Zenon
    <3>3. \A k : t[4] # <<"release", k>> /\ t[4] # <<"xchg", k>>
      BY LitOther, Zenon
    <3>4. \A k : t[3] # <<"xchg", k>>
      BY LitRel, Zenon
    <3>5. \A k : t[3] = <<"release", k>> => k = "ptable"
      BY LitRel, Zenon
    <3> QED
      BY <3>1, <3>2, <3>3, <3>4, <3>5, Zenon
  <2>2. 3 - 1 = 2 /\ 3 - 2 = 1
    OBVIOUS
  <2> QED
    BY <2>1, <2>2, <1>4, Locks, Zenon DEF Precedes
<1>8. WellFormed(t)
  <2>1. \A i \in 1 .. 4 : i = 1 \/ i = 2 \/ i = 3 \/ i = 4
    OBVIOUS
  <2> QED
    BY <2>1, <1>1, <1>6, <1>7, PushFormed, Zenon
<1>9. Calm(t)
  <2>1. ~Deep(t, 1)
    BY <1>4, DeepFirst, Exclusive, Zenon
  <2>2. Opens(t, 1)
    BY <1>4, <2>1, Locks, Zenon DEF Opens
  <2>3. \A k : t[1] # <<"xchg", k>>
    BY LitAcq, Zenon
  <2> QED
    BY <2>2, <2>3, Zenon DEF Calm, At
<1> QED
  BY <1>1, <1>8, <1>9

LEMMA PushOne ==
  ASSUME NEW s, WellFormed(s), Calm(s), NEW e \in {<<"sti">>, <<"iret">>}, NEW t, t = <<e>> \o s
  PROVE  WellFormed(t) /\ Calm(t) /\ Moved(t, s, 1) /\ t[1] = e
<1>0. s \in Seq(Call) /\ e \in Call
  BY CallsIn, Locks DEF WellFormed
<1>1. t \in Seq(Call) /\ Len(t) = Len(s) + 1 /\ t[1] = e /\ \A i \in 1 .. Len(s) : t[i + 1] = s[i]
  BY <1>0
<1>2. Moved(t, s, 1)
  BY <1>0, <1>1 DEF Moved
<1>3. Opens(t, 2)
  <2>1. Opens(s, 1) <=> Opens(t, 1 + 1)
    BY <1>2, MovedPred
  <2> QED
    BY <2>1 DEF Calm
<1>4. Follows(t, 1)
  <2>1. 1 + 1 = 2 /\ t[1] \in {<<"iret">>, <<"sti">>}
    BY <1>1
  <2> QED
    BY <2>1, <1>3, Zenon DEF Follows
<1>5. \A k : t[1] # <<"release", k>> /\ t[1] # <<"xchg", k>>
  BY <1>1
<1>6. Precedes(t, 1)
  BY <1>5, Zenon DEF Precedes
<1>7. WellFormed(t)
  <2>1. \A i \in 1 .. 1 : i = 1
    OBVIOUS
  <2> QED
    BY <2>1, <1>2, <1>4, <1>6, PushFormed, Zenon
<1>8. Calm(t)
  <2>1. 1 \in 1 .. Len(t) /\ t[1] \in {<<"iret">>, <<"sti">>, <<"never">>}
    BY <1>0, <1>1
  <2> QED
    BY <2>1, <1>5, Zenon DEF Calm, Opens, At
<1> QED
  BY <1>1, <1>2, <1>7, <1>8

LEMMA EmptyFormed ==
  /\ WellFormed(<<>>) /\ Calm(<<>>) /\ \A x : Owned(x, <<>>)
<1>1. <<>> \in Seq(Call) /\ Len(<<>>) = 0 /\ 1 .. Len(<<>>) = {}
  OBVIOUS
<1>2. Opens(<<>>, 1)
  BY <1>1 DEF Opens
<1> QED
  BY <1>1, <1>2 DEF WellFormed, Calm, Owned, At

\* A section inside another.
LEMMA NestedFormed ==
  ASSUME NEW l \in IrqLocks, NEW t, t = AcquireOf(l) \o Critical("ptable") \o ReleaseOf(l)
  PROVE  /\ WellFormed(t) /\ Calm(t) /\ Len(t) = 6
         /\ \A i \in 1 .. 6 : t[i][1] \in {"readeflags", "release", "popcli"}
<1>0. l \in SpinLocks /\ "ptable" \in SpinLocks /\ l # "ptable"
  BY Locks
<1>1. t \in Seq(Call) /\ Len(t) = 6
      /\ t[1] = <<"readeflags", l>> /\ t[2] = <<"readeflags", "ptable">> /\ t[3] = <<"release", "ptable">>
      /\ t[4] = <<"popcli">> /\ t[5] = <<"release", l>> /\ t[6] = <<"popcli">>
  BY <1>0, CallsIn DEF Critical, AcquireOf, ReleaseOf
<1>2. t[1] \in Acqs(l) /\ t[2] \in Acqs("ptable")
  BY <1>1, Zenon DEF Acqs
<1>3. /\ 1 \in 1 .. Len(t) /\ 2 \in 1 .. Len(t) /\ 3 \in 1 .. Len(t) /\ 4 \in 1 .. Len(t)
      /\ 5 \in 1 .. Len(t) /\ 6 \in 1 .. Len(t) /\ 7 \notin 1 .. Len(t) /\ 7 = Len(t) + 1
  BY <1>1
<1>4. AcqAt(t, 1, l) /\ AcqAt(t, 2, "ptable") /\ RelAt(t, 3, "ptable") /\ PopAt(t, 4)
      /\ RelAt(t, 5, l) /\ PopAt(t, 6)
  BY <1>1, <1>2, <1>3, Zenon DEF AcqAt, RelAt, PopAt, At
<1>5. Opens(t, 7) /\ \A k : ~RelAt(t, 7, k)
  BY <1>3, Zenon DEF Opens, RelAt, At
<1>6. Follows(t, 1) /\ Follows(t, 2) /\ Follows(t, 3) /\ Follows(t, 4) /\ Follows(t, 5) /\ Follows(t, 6)
  <2>1. /\ 1 + 1 = 2 /\ 2 + 1 = 3 /\ 2 + 3 = 5 /\ 3 + 1 = 4 /\ 4 + 1 = 5
        /\ 5 + 1 = 6 /\ 5 + 2 = 7 /\ 6 + 1 = 7
    OBVIOUS
  <2>2. Follows(t, 1)
    BY <2>1, <1>2, <1>4, Zenon DEF Follows, DeepIn
  <2>3. Follows(t, 2)
    BY <2>1, <1>0, <1>2, <1>4, Zenon DEF Follows
  <2>4. Follows(t, 3)
    BY <2>1, <1>1, <1>4, Zenon DEF Follows
  <2>5. Follows(t, 4)
    BY <2>1, <1>1, <1>4, Zenon DEF Follows
  <2>6. Follows(t, 5)
    BY <2>1, <1>1, <1>4, <1>5, Zenon DEF Follows
  <2>7. Follows(t, 6)
    BY <2>1, <1>1, <1>5, Zenon DEF Follows
  <2> QED
    BY <2>2, <2>3, <2>4, <2>5, <2>6, <2>7
<1>7. /\ Precedes(t, 1) /\ Precedes(t, 2) /\ Precedes(t, 3)
      /\ Precedes(t, 4) /\ Precedes(t, 5) /\ Precedes(t, 6)
  <2>1. /\ \A k : t[1] # <<"release", k>> /\ t[1] # <<"xchg", k>>
        /\ \A k : t[2] # <<"release", k>> /\ t[2] # <<"xchg", k>>
        /\ \A k : t[4] # <<"release", k>> /\ t[4] # <<"xchg", k>>
        /\ \A k : t[6] # <<"release", k>> /\ t[6] # <<"xchg", k>>
        /\ \A k : t[3] # <<"xchg", k>> /\ t[5] # <<"xchg", k>>
        /\ \A k : t[3] = <<"release", k>> => k = "ptable"
        /\ \A k : t[5] = <<"release", k>> => k = l
    <3>1. \A k : t[1] # <<"release", k>> /\ t[1] # <<"xchg", k>>
      BY <1>1, LitAcq, Zenon
    <3>2. \A k : t[2] # <<"release", k>> /\ t[2] # <<"xchg", k>>
      BY <1>1, LitAcq, Zenon
    <3>3. \A k : t[4] # <<"release", k>> /\ t[4] # <<"xchg", k>>
      BY <1>1, LitOther, Zenon
    <3>4. \A k : t[6] # <<"release", k>> /\ t[6] # <<"xchg", k>>
      BY <1>1, LitOther, Zenon
    <3>5. \A k : t[3] # <<"xchg", k>> /\ t[5] # <<"xchg", k>>
      BY <1>1, LitRel, Zenon
    <3>6. \A k : t[3] = <<"release", k>> => k = "ptable"
      BY <1>1, LitRel, Zenon
    <3>7. \A k : t[5] = <<"release", k>> => k = l
      BY <1>1, LitRel, Zenon
    <3> QED
      BY <3>1, <3>2, <3>3, <3>4, <3>5, <3>6, <3>7, Zenon
  <2>2. 3 - 1 = 2 /\ 5 - 1 = 4 /\ 5 - 2 = 3 /\ 5 - 3 = 2 /\ 5 - 4 = 1
    OBVIOUS
  <2>3. Precedes(t, 1) /\ Precedes(t, 2) /\ Precedes(t, 4) /\ Precedes(t, 6)
    BY <2>1, Zenon DEF Precedes
  <2>4. Precedes(t, 3)
    BY <2>1, <2>2, <1>4, Locks, Zenon DEF Precedes
  <2>5. Precedes(t, 5)
    BY <2>1, <2>2, <1>0, <1>4, Zenon DEF Precedes
  <2> QED
    BY <2>3, <2>4, <2>5
<1>8. WellFormed(t)
  <2>1. \A i \in 1 .. Len(t) : i = 1 \/ i = 2 \/ i = 3 \/ i = 4 \/ i = 5 \/ i = 6
    BY <1>1
  <2> QED
    BY <2>1, <1>1, <1>6, <1>7, Zenon DEF WellFormed
<1>9. Calm(t)
  <2>1. ~Deep(t, 1)
    BY <1>4, DeepFirst, Exclusive, Zenon
  <2>2. Opens(t, 1)
    BY <1>0, <1>4, <2>1, Zenon DEF Opens
  <2>3. \A k : t[1] # <<"xchg", k>>
    BY <1>1
  <2> QED
    BY <2>2, <2>3, Zenon DEF Calm, At
<1>10. \A i \in 1 .. 6 : t[i][1] \in {"readeflags", "release", "popcli"}
  <2>1. \A i \in 1 .. 6 : i = 1 \/ i = 2 \/ i = 3 \/ i = 4 \/ i = 5 \/ i = 6
    OBVIOUS
  <2>2. t[1][1] = "readeflags" /\ t[2][1] = "readeflags"
    BY <1>1, LitAcq, Zenon
  <2>3. t[3][1] = "release" /\ t[5][1] = "release"
    BY <1>1, LitRel, Zenon
  <2>4. t[4][1] = "popcli" /\ t[6][1] = "popcli"
    BY <1>1, LitOther, Zenon
  <2> QED
    BY <2>1, <2>2, <2>3, <2>4, Zenon
<1> QED
  BY <1>1, <1>8, <1>9, <1>10
-----------------------------------------------------------------------------
\* The call that a first word stands for.
LEMMA Kinds ==
  ASSUME NEW e \in Call
  PROVE  /\ e[1] = "readeflags" => \E l \in SpinLocks : e = <<"readeflags", l>> /\ e[2] = l
         /\ e[1] = "cli" => \E l \in SpinLocks, b \in BOOLEAN : e = <<"cli", l, b>> /\ e[2] = l /\ e[3] = b
         /\ e[1] = "xchg" => \E l \in SpinLocks : e = <<"xchg", l>> /\ e[2] = l
         /\ e[1] = "release" => \E l \in SpinLocks : e = <<"release", l>> /\ e[2] = l
         /\ e[1] = "resumed" => \E b \in BOOLEAN : e = <<"resumed", b>> /\ e[2] = b
         /\ e[1] = "popcli" => e = <<"popcli">>
         /\ e[1] = "sched" => e = <<"sched">>
         /\ e[1] = "pick" => e = <<"pick">>
         /\ e[1] = "sti" => e = <<"sti">>
         /\ e[1] = "iret" => e = <<"iret">>
<1>1. CASE e \in Switches
  <2>1. \/ e = <<"sched">> \/ e = <<"pick">> \/ \E b \in BOOLEAN : e = <<"resumed", b>>
    BY <1>1, Zenon DEF Switches, Resumes
  <2>2. /\ e = <<"sched">> => e[1] = "sched"
        /\ e = <<"pick">> => e[1] = "pick"
        /\ \A b \in BOOLEAN : e = <<"resumed", b>> => e[1] = "resumed" /\ e[2] = b
    OBVIOUS
  <2> QED
    BY <2>1, <2>2
<1>2. ASSUME NEW l \in SpinLocks, e \in Acqs(l)
      PROVE  /\ e[1] \in {"readeflags", "cli", "xchg"}
             /\ e[1] = "readeflags" => e = <<"readeflags", l>> /\ e[2] = l
             /\ e[1] = "cli" => \E b \in BOOLEAN : e = <<"cli", l, b>> /\ e[2] = l /\ e[3] = b
             /\ e[1] = "xchg" => e = <<"xchg", l>> /\ e[2] = l
  <2>1. e = <<"readeflags", l>> \/ e = <<"xchg", l>> \/ \E b \in BOOLEAN : e = <<"cli", l, b>>
    BY <1>2, Zenon DEF Acqs
  <2>2. /\ e = <<"readeflags", l>> => e[1] = "readeflags" /\ e[2] = l
        /\ e = <<"xchg", l>> => e[1] = "xchg" /\ e[2] = l
        /\ \A b \in BOOLEAN : e = <<"cli", l, b>> => e[1] = "cli" /\ e[2] = l /\ e[3] = b
    OBVIOUS
  <2> QED
    BY <2>1, <2>2
<1>3. ASSUME NEW l \in SpinLocks, e = <<"release", l>> PROVE e[1] = "release" /\ e[2] = l
  BY <1>3
<1>4. CASE e \in {<<"popcli">>, <<"iret">>, <<"sti">>, <<"never">>}
  <2>1. /\ e = <<"popcli">> => e[1] = "popcli"
        /\ e = <<"iret">> => e[1] = "iret"
        /\ e = <<"sti">> => e[1] = "sti"
        /\ e = <<"never">> => e[1] = "never"
    OBVIOUS
  <2> QED
    BY <1>4, <2>1
<1>5. ASSUME NEW l \in SpinLocks, e \in Acqs(l)
      PROVE  /\ e[1] = "readeflags" => \E k \in SpinLocks : e = <<"readeflags", k>> /\ e[2] = k
             /\ e[1] = "cli" => \E k \in SpinLocks, b \in BOOLEAN : e = <<"cli", k, b>> /\ e[2] = k /\ e[3] = b
             /\ e[1] = "xchg" => \E k \in SpinLocks : e = <<"xchg", k>> /\ e[2] = k
             /\ e[1] \notin {"release", "resumed", "popcli", "sched", "pick", "sti", "iret"}
  <2>1. e[1] \notin {"release", "resumed", "popcli", "sched", "pick", "sti", "iret"}
    BY <1>2, <1>5
  <2> QED
    BY <2>1, <1>2, <1>5, Zenon
<1>6. ASSUME NEW l \in SpinLocks, e = <<"release", l>>
      PROVE  /\ \E k \in SpinLocks : e = <<"release", k>> /\ e[2] = k
             /\ e[1] \notin {"readeflags", "cli", "xchg", "resumed", "popcli", "sched", "pick", "sti", "iret"}
  BY <1>3, <1>6
<1> QED
  BY <1>1, <1>4, <1>5, <1>6, Calls
-----------------------------------------------------------------------------
(* The actions *)

\* What SpinInv says of processor c and the context it runs.
LEMMA Running ==
  ASSUME SpinInv, NEW c \in CPUs
  PROVE  /\ on[c] \in Contexts /\ on[c] \in Kthreads \union {c}
         /\ ncli[c] \in Nat /\ intena[c] \in BOOLEAN /\ iflag[c] \in BOOLEAN
         /\ calls[on[c]] \in Seq(Call)
         /\ Good(c, on[c], calls[on[c]], ncli[c], intena[c], iflag[c], locked)
BY DEF SpinInv, SpinTypeOK, Good

\* Processor c goes on with the context it runs, which has still to do t.
LEMMA GoesOn ==
  ASSUME SpinInv, NEW c \in CPUs, NEW t, NEW n \in Nat, NEW ie \in BOOLEAN, NEW f \in BOOLEAN,
         on' = on, fault' = "", calls' = [calls EXCEPT ![on[c]] = t],
         ncli' = [ncli EXCEPT ![c] = n], intena' = [intena EXCEPT ![c] = ie],
         iflag' = [iflag EXCEPT ![c] = f],
         locked' \in [SpinLocks -> CPUs \union {Unheld}],
         Apart(c, locked, locked'),
         Good(c, on[c], t, n, ie, f, locked')
  PROVE  SpinInv'
<1> USE DEF Apart
<1> DEFINE x == on[c]
<1>1. /\ locked \in [SpinLocks -> CPUs \union {Unheld}]
      /\ ncli \in [CPUs -> Nat] /\ intena \in [CPUs -> BOOLEAN] /\ iflag \in [CPUs -> BOOLEAN]
      /\ on \in [CPUs -> Contexts] /\ calls \in [Contexts -> Seq(Call)]
  BY DEF SpinInv, SpinTypeOK
<1>2. WellFormed(t) /\ Owned(x, t) /\ Fits(c, x, t, n, ie, f, locked') /\ t \in Seq(Call)
  BY DEF Good, WellFormed
<1>3. x \in Contexts
  BY <1>1
<1>4. SpinTypeOK'
  BY <1>1, <1>2, <1>3 DEF SpinTypeOK
<1>5. calls'[x] = t /\ \A y \in Contexts : y # x => calls'[y] = calls[y]
  BY <1>1, <1>3
<1>6. /\ ncli'[c] = n /\ intena'[c] = ie /\ iflag'[c] = f
      /\ \A d \in CPUs : d # c => ncli'[d] = ncli[d] /\ intena'[d] = intena[d] /\ iflag'[d] = iflag[d]
  BY <1>1
<1>7. \A y \in Contexts : WellFormed(calls'[y]) /\ Owned(y, calls'[y])
  BY <1>2, <1>5, Zenon DEF SpinInv
<1>8. \A y \in Contexts : (\A d \in CPUs : on'[d] # y) => AtRest(y, calls'[y])
  BY <1>5, Zenon DEF SpinInv
<1>9. ASSUME NEW d \in CPUs
      PROVE  Fits(d, on'[d], calls'[on'[d]], ncli'[d], intena'[d], iflag'[d], locked')
  <2>1. CASE d = c
    BY <2>1, <1>2, <1>5, <1>6, Zenon
  <2>2. CASE d # c
    <3>1. on[d] # x /\ on[d] \in Contexts
      BY <1>1, <2>2 DEF SpinInv
    <3>2. calls'[on'[d]] = calls[on[d]] /\ on'[d] = on[d]
      BY <3>1, <1>5, Zenon
    <3>3. Fits(d, on[d], calls[on[d]], ncli[d], intena[d], iflag[d], locked)
      BY DEF SpinInv
    <3>4. \A l \in SpinLocks : locked'[l] = d <=> locked[l] = d
      BY <2>2
    <3>5. Fits(d, on[d], calls[on[d]], ncli[d], intena[d], iflag[d], locked')
      BY <3>3, <3>4, Zenon DEF Fits
    <3> QED
      BY <2>2, <3>2, <3>5, <1>6, Zenon
  <2> QED
    BY <2>1, <2>2
<1>10. /\ \A d \in CPUs : on'[d] \in Kthreads \union {d}
       /\ \A d, e \in CPUs : on'[d] = on'[e] => d = e
  BY DEF SpinInv
<1> QED
  BY <1>4, <1>7, <1>8, <1>9, <1>10 DEF SpinInv

LEMMA Doing ==
  ASSUME SpinInv, NEW c \in CPUs, NEW w, Does(c, w)
  PROVE  /\ calls[on[c]] # <<>> /\ Head(calls[on[c]]) = calls[on[c]][1]
         /\ calls[on[c]][1] \in Call /\ calls[on[c]][1][1] = w
         /\ fault = ""
<1>1. calls[on[c]] \in Seq(Call) /\ calls[on[c]] # <<>>
  BY Running DEF Does
<1>2. Head(calls[on[c]]) = calls[on[c]][1] /\ calls[on[c]][1] \in Call
  BY <1>1
<1> QED
  BY <1>1, <1>2, Zenon DEF Does

LEMMA Keeps ==
  ASSUME SpinInv, NEW c \in CPUs
  PROVE  /\ ncli = [ncli EXCEPT ![c] = ncli[c]] /\ intena = [intena EXCEPT ![c] = intena[c]]
         /\ iflag = [iflag EXCEPT ![c] = iflag[c]]
         /\ locked \in [SpinLocks -> CPUs \union {Unheld}] /\ Apart(c, locked, locked)
BY DEF SpinInv, SpinTypeOK, Apart

LEMMA ReadeflagsInv ==
  ASSUME SpinInv, NEW c \in CPUs, Readeflags(c)
  PROVE  SpinInv'
<1> DEFINE x == on[c]
           s == calls[x]
           n == ncli[c]
           ie == intena[c]
           f == iflag[c]
           t == << <<"cli", Head(s)[2], f>> >> \o Tail(s)
<1>1. /\ s # <<>> /\ Head(s) = s[1] /\ s[1] \in Call /\ s[1][1] = "readeflags" /\ fault = ""
  BY Doing, Zenon DEF Readeflags
<1>2. /\ n \in Nat /\ ie \in BOOLEAN /\ f \in BOOLEAN
      /\ Good(c, x, s, n, ie, f, locked)
  BY Running, Zenon
<1>0. PICK l \in SpinLocks : s[1] = <<"readeflags", l>> /\ s[1][2] = l
  BY <1>1, Kinds, Zenon
<1>3. Begins(s, <<"readeflags", l>>) /\ Puts(s, t, <<"cli", l, f>>)
  BY <1>1, <1>0 DEF Begins, Pops, Puts
<1>4. calls' = [calls EXCEPT ![x] = t]
  BY DEF Readeflags, Goes
<1>5. /\ on' = on /\ locked' = locked /\ fault' = "" /\ Apart(c, locked, locked')
      /\ ncli' = [ncli EXCEPT ![c] = n] /\ intena' = [intena EXCEPT ![c] = ie]
      /\ iflag' = [iflag EXCEPT ![c] = f] /\ locked' \in [SpinLocks -> CPUs \union {Unheld}]
  BY <1>1, Keeps, Zenon DEF Readeflags
<1> HIDE DEF s, t, n, ie, f
<1>6. Good(c, x, t, n, ie, f, locked)
  BY <1>2, <1>3, GoodReadeflags, Zenon
<1>7. Good(c, x, t, n, ie, f, locked')
  BY <1>5, <1>6, Zenon
<1> QED
  BY <1>2, <1>4, <1>5, <1>7, GoesOn, Zenon

LEMMA PushcliInv ==
  ASSUME SpinInv, NEW c \in CPUs, Pushcli(c)
  PROVE  SpinInv'
<1> DEFINE x == on[c]
           s == calls[x]
           n == ncli[c]
           ie == intena[c]
           f == iflag[c]
           t == << <<"xchg", Head(s)[2]>> >> \o Tail(s)
<1>1. /\ s # <<>> /\ Head(s) = s[1] /\ s[1] \in Call /\ s[1][1] = "cli" /\ fault = ""
  BY Doing, Zenon DEF Pushcli
<1>2. /\ n \in Nat /\ ie \in BOOLEAN /\ f \in BOOLEAN
      /\ Good(c, x, s, n, ie, f, locked)
  BY Running, Zenon
<1>0. PICK l \in SpinLocks, b \in BOOLEAN : s[1] = <<"cli", l, b>> /\ s[1][2] = l /\ s[1][3] = b
  BY <1>1, Kinds, Zenon
<1>3. Begins(s, <<"cli", l, b>>) /\ Puts(s, t, <<"xchg", l>>)
  BY <1>1, <1>0 DEF Begins, Pops, Puts
<1>4. calls' = [calls EXCEPT ![x] = t]
  BY DEF Pushcli, Goes
<1> DEFINE m == n + 1
           ie2 == Saves(n, b, ie)
<1>5. /\ ncli' = [ncli EXCEPT ![c] = m] /\ iflag' = [iflag EXCEPT ![c] = FALSE]
      /\ fault' = (IF locked[l] = c THEN "acquire" ELSE fault)
      /\ on' = on /\ locked' = locked
  BY <1>0, <1>1 DEF Pushcli
<1>6. intena' = [intena EXCEPT ![c] = ie2]
  BY <1>0, <1>1, Keeps DEF Pushcli, Saves
<1>7. /\ locked' \in [SpinLocks -> CPUs \union {Unheld}] /\ Apart(c, locked, locked')
  BY <1>5, Keeps, Zenon
<1>8. m \in Nat
  BY <1>2
<1>9. ie2 \in BOOLEAN /\ FALSE \in BOOLEAN
  BY <1>2, <1>3, Zenon DEF Saves
<1>10. locked[l] # c /\ Good(c, x, t, m, ie2, FALSE, locked)
  <2> HIDE DEF s, t, n, ie, f
  <2>1. locked[l] # c
    <3>1. WellFormed(s) /\ Fits(c, x, s, n, ie, f, locked)
      BY <1>2, Zenon DEF Good
    <3>2. ~Holds(s, l)
      BY <3>1, <1>3, CliFree, Zenon
    <3> QED
      BY <3>1, <3>2, Zenon DEF Fits
  <2>2. Good(c, x, t, m, ie2, FALSE, locked)
    BY <1>2, <1>3, GoodCli, Zenon
  <2> QED
    BY <2>1, <2>2
<1> HIDE DEF s, t, n, ie, f, ie2, m
<1>11. Good(c, x, t, m, ie2, FALSE, locked') /\ fault' = ""
  BY <1>1, <1>5, <1>10, Zenon
<1> QED
  BY <1>4, <1>5, <1>6, <1>7, <1>8, <1>9, <1>11, GoesOn, Zenon

LEMMA AcquireInv ==
  ASSUME SpinInv, NEW c \in CPUs, Acquire(c)
  PROVE  SpinInv'
<1> DEFINE x == on[c]
           s == calls[x]
           n == ncli[c]
           ie == intena[c]
           f == iflag[c]
           t == <<>> \o Tail(s)
<1>1. /\ s # <<>> /\ Head(s) = s[1] /\ s[1] \in Call /\ s[1][1] = "xchg" /\ fault = ""
  BY Doing, Zenon DEF Acquire
<1>2. /\ n \in Nat /\ ie \in BOOLEAN /\ f \in BOOLEAN
      /\ Good(c, x, s, n, ie, f, locked)
  BY Running, Zenon
<1>0. PICK l \in SpinLocks : s[1] = <<"xchg", l>> /\ s[1][2] = l
  BY <1>1, Kinds, Zenon
<1>3. Begins(s, <<"xchg", l>>) /\ Pops(s, t)
  BY <1>1, <1>0 DEF Begins, Pops, Puts
<1>4. calls' = [calls EXCEPT ![x] = t]
  BY DEF Acquire, Goes
<1>5. /\ locked[l] = Unheld /\ locked' = [locked EXCEPT ![l] = c]
  BY <1>0, <1>1 DEF Acquire, Xchg
<1>6. /\ on' = on /\ fault' = ""
      /\ ncli' = [ncli EXCEPT ![c] = n] /\ intena' = [intena EXCEPT ![c] = ie]
      /\ iflag' = [iflag EXCEPT ![c] = f]
  BY <1>1, Keeps, Zenon DEF Acquire
<1>7. /\ locked' \in [SpinLocks -> CPUs \union {Unheld}]
      /\ \A k \in SpinLocks : locked'[k] = IF k = l THEN c ELSE locked[k]
  BY <1>5, Keeps
<1>8. Takes(c, l, locked, locked') /\ Apart(c, locked, locked')
  BY <1>5, <1>7, SpinAssumption DEF Unheld, Takes, Apart
<1> HIDE DEF s, t, n, ie, f
<1>9. Good(c, x, t, n, ie, f, locked')
  BY <1>2, <1>3, <1>8, GoodXchg, Zenon
<1> QED
  BY <1>2, <1>4, <1>6, <1>7, <1>8, <1>9, GoesOn, Zenon

LEMMA ReleaseInv ==
  ASSUME SpinInv, NEW c \in CPUs, Release(c)
  PROVE  SpinInv'
<1> DEFINE x == on[c]
           s == calls[x]
           n == ncli[c]
           ie == intena[c]
           f == iflag[c]
           t == <<>> \o Tail(s)
<1>1. /\ s # <<>> /\ Head(s) = s[1] /\ s[1] \in Call /\ s[1][1] = "release" /\ fault = ""
  BY Doing, Zenon DEF Release
<1>2. /\ n \in Nat /\ ie \in BOOLEAN /\ f \in BOOLEAN
      /\ Good(c, x, s, n, ie, f, locked)
  BY Running, Zenon
<1>0. PICK l \in SpinLocks : s[1] = <<"release", l>> /\ s[1][2] = l
  BY <1>1, Kinds, Zenon
<1>3. Begins(s, <<"release", l>>) /\ Pops(s, t)
  BY <1>1, <1>0 DEF Begins, Pops, Puts
<1>4. calls' = [calls EXCEPT ![x] = t]
  BY DEF Release, Goes
<1> DEFINE lk == [locked EXCEPT ![l] = Unheld]
<1>5. /\ on' = on
      /\ ncli' = [ncli EXCEPT ![c] = n] /\ intena' = [intena EXCEPT ![c] = ie]
      /\ iflag' = [iflag EXCEPT ![c] = f]
  BY Keeps, Zenon DEF Release
<1>6. /\ lk \in [SpinLocks -> CPUs \union {Unheld}]
      /\ \A k \in SpinLocks : lk[k] = IF k = l THEN Unheld ELSE locked[k]
  BY Keeps
<1>7. locked[l] = c => locked' = lk /\ fault' = ""
  BY <1>0, <1>1 DEF Release
<1> HIDE DEF s, t, n, ie, f, lk
<1>8. Drops(c, l, locked, lk)
  BY <1>6, SpinAssumption DEF Unheld, Drops
<1>9. locked[l] = c /\ Good(c, x, t, n, ie, f, lk)
  <2>1. Good(c, x, t, n, ie, f, lk)
    BY <1>2, <1>3, <1>8, GoodRelease, Zenon
  <2>2. locked[l] = c
    <3>1. WellFormed(s) /\ Fits(c, x, s, n, ie, f, locked)
      BY <1>2, Zenon DEF Good
    <3>2. Holds(s, l)
      BY <3>1, <1>3, ReleaseHeld, Zenon
    <3> QED
      BY <3>1, <3>2, Zenon DEF Fits
  <2> QED
    BY <2>1, <2>2
<1>10. Apart(c, locked, lk)
  BY <1>6, <1>9, SpinAssumption DEF Unheld, Apart
<1>11. /\ locked' \in [SpinLocks -> CPUs \union {Unheld}] /\ fault' = ""
       /\ Apart(c, locked, locked') /\ Good(c, x, t, n, ie, f, locked')
  BY <1>6, <1>7, <1>9, <1>10
<1> QED
  BY <1>2, <1>4, <1>5, <1>11, GoesOn, Zenon

LEMMA PopcliInv ==
  ASSUME SpinInv, NEW c \in CPUs, Popcli(c)
  PROVE  SpinInv'
<1> DEFINE x == on[c]
           s == calls[x]
           n == ncli[c]
           ie == intena[c]
           f == iflag[c]
           t == <<>> \o Tail(s)
<1>1. /\ s # <<>> /\ Head(s) = s[1] /\ s[1] \in Call /\ s[1][1] = "popcli" /\ fault = ""
  BY Doing, Zenon DEF Popcli
<1>2. /\ n \in Nat /\ ie \in BOOLEAN /\ f \in BOOLEAN
      /\ Good(c, x, s, n, ie, f, locked)
  BY Running, Zenon
<1>0. s[1] = <<"popcli">>
  BY <1>1, Kinds, Zenon
<1>3. Begins(s, <<"popcli">>) /\ Pops(s, t)
  BY <1>1, <1>0 DEF Begins, Pops, Puts
<1>4. calls' = [calls EXCEPT ![x] = t]
  BY DEF Popcli, Goes
<1> DEFINE m == n - 1
           f2 == Reopens(n, ie, f)
<1>5. /\ on' = on /\ locked' = locked
      /\ ncli' = [ncli EXCEPT ![c] = m]
      /\ fault' = (IF f THEN "popcli - interruptible" ELSE IF n < 1 THEN "popcli" ELSE fault)
  BY DEF Popcli
<1>6. iflag' = [iflag EXCEPT ![c] = f2] /\ intena' = [intena EXCEPT ![c] = ie]
  BY Keeps DEF Popcli, Reopens
<1>7. locked' \in [SpinLocks -> CPUs \union {Unheld}] /\ Apart(c, locked, locked')
  BY <1>5, Keeps, Zenon
<1>8. f2 \in BOOLEAN
  BY <1>2, Zenon DEF Reopens
<1>9. ~f /\ n >= 1 /\ Good(c, x, t, m, ie, f2, locked)
  <2> HIDE DEF s, t, n, ie, f
  <2>1. ~f /\ n >= 1
    BY <1>2, <1>3, PopcliOff, Zenon
  <2>2. Good(c, x, t, m, ie, f2, locked)
    BY <1>2, <1>3, GoodPopcli, Zenon
  <2> QED
    BY <2>1, <2>2, Zenon
<1>13. n \in Nat /\ n >= 1
  BY <1>2, <1>9, Zenon
<1>10. m \in Nat
  BY <1>13
<1>11. fault' = ""
  <2>1. ~(n < 1)
    BY <1>13
  <2>2. fault = "" /\ ~f
    BY <1>1, <1>9, Zenon
  <2> QED
    BY <2>1, <2>2 DEF Popcli
<1> HIDE DEF s, t, n, ie, f, f2, m
<1>12. Good(c, x, t, m, ie, f2, locked')
  BY <1>5, <1>9, Zenon
<1> QED
  BY <1>2, <1>4, <1>5, <1>6, <1>7, <1>8, <1>10, <1>11, <1>12, GoesOn, Zenon

LEMMA ResumedInv ==
  ASSUME SpinInv, NEW c \in CPUs, Resumed(c)
  PROVE  SpinInv'
<1> DEFINE x == on[c]
           s == calls[x]
           n == ncli[c]
           ie == intena[c]
           f == iflag[c]
           t == <<>> \o Tail(s)
<1>1. /\ s # <<>> /\ Head(s) = s[1] /\ s[1] \in Call /\ s[1][1] = "resumed" /\ fault = ""
  BY Doing, Zenon DEF Resumed
<1>2. /\ n \in Nat /\ ie \in BOOLEAN /\ f \in BOOLEAN
      /\ Good(c, x, s, n, ie, f, locked)
  BY Running, Zenon
<1>0. PICK b \in BOOLEAN : s[1] = <<"resumed", b>> /\ s[1][2] = b
  BY <1>1, Kinds, Zenon
<1>3. Begins(s, <<"resumed", b>>) /\ Pops(s, t)
  BY <1>1, <1>0 DEF Begins, Pops, Puts
<1>4. calls' = [calls EXCEPT ![x] = t]
  BY DEF Resumed, Goes
<1>5. /\ on' = on /\ fault' = "" /\ locked' = locked /\ Apart(c, locked, locked')
      /\ ncli' = [ncli EXCEPT ![c] = n] /\ iflag' = [iflag EXCEPT ![c] = f]
      /\ locked' \in [SpinLocks -> CPUs \union {Unheld}]
  BY <1>1, Keeps, Zenon DEF Resumed
<1>6. intena' = [intena EXCEPT ![c] = b]
  BY <1>0, <1>1 DEF Resumed, Restored
<1> HIDE DEF s, t, n, ie, f
<1>7. Good(c, x, t, n, b, f, locked)
  BY <1>2, <1>3, GoodResumed, Zenon
<1>8. Good(c, x, t, n, b, f, locked')
  BY <1>5, <1>7, Zenon
<1> QED
  BY <1>2, <1>3, <1>4, <1>5, <1>6, <1>8, GoesOn, Zenon

LEMMA StiInv ==
  ASSUME SpinInv, NEW c \in CPUs, Sti(c)
  PROVE  SpinInv'
<1> DEFINE x == on[c]
           s == calls[x]
           n == ncli[c]
           ie == intena[c]
           f == iflag[c]
           t == <<>> \o Tail(s)
<1>1. /\ s # <<>> /\ Head(s) = s[1] /\ s[1] \in Call /\ s[1][1] = "sti" /\ fault = ""
  BY Doing, Zenon DEF Sti
<1>2. /\ n \in Nat /\ ie \in BOOLEAN /\ f \in BOOLEAN
      /\ Good(c, x, s, n, ie, f, locked)
  BY Running, Zenon
<1>0. s[1] = <<"sti">>
  BY <1>1, Kinds, Zenon
<1>3. Begins(s, <<"sti">>) /\ Pops(s, t)
  BY <1>1, <1>0 DEF Begins, Pops, Puts
<1>4. calls' = [calls EXCEPT ![x] = t]
  BY DEF Sti, Goes
<1>5. /\ on' = on /\ fault' = "" /\ locked' = locked /\ Apart(c, locked, locked')
      /\ ncli' = [ncli EXCEPT ![c] = n] /\ intena' = [intena EXCEPT ![c] = ie]
      /\ iflag' = [iflag EXCEPT ![c] = TRUE] /\ TRUE \in BOOLEAN
      /\ locked' \in [SpinLocks -> CPUs \union {Unheld}]
  BY <1>1, Keeps, Zenon DEF Sti
<1> HIDE DEF s, t, n, ie, f
<1>6. s # <<>> /\ s[1] \in {<<"sti">>, <<"iret">>}
  BY <1>3 DEF Begins
<1>7. Good(c, x, t, n, ie, TRUE, locked)
  BY <1>2, <1>3, <1>6, GoodEnable, Zenon
<1>8. Good(c, x, t, n, ie, TRUE, locked')
  BY <1>5, <1>7, Zenon
<1> QED
  BY <1>2, <1>4, <1>5, <1>8, GoesOn, Zenon

LEMMA IretInv ==
  ASSUME SpinInv, NEW c \in CPUs, Iret(c)
  PROVE  SpinInv'
<1> DEFINE x == on[c]
           s == calls[x]
           n == ncli[c]
           ie == intena[c]
           f == iflag[c]
           t == <<>> \o Tail(s)
<1>1. /\ s # <<>> /\ Head(s) = s[1] /\ s[1] \in Call /\ s[1][1] = "iret" /\ fault = ""
  BY Doing, Zenon DEF Iret
<1>2. /\ n \in Nat /\ ie \in BOOLEAN /\ f \in BOOLEAN
      /\ Good(c, x, s, n, ie, f, locked)
  BY Running, Zenon
<1>0. s[1] = <<"iret">>
  BY <1>1, Kinds, Zenon
<1>3. Begins(s, <<"iret">>) /\ Pops(s, t)
  BY <1>1, <1>0 DEF Begins, Pops, Puts
<1>4. calls' = [calls EXCEPT ![x] = t]
  BY DEF Iret, Goes
<1>5. /\ on' = on /\ fault' = "" /\ locked' = locked /\ Apart(c, locked, locked')
      /\ ncli' = [ncli EXCEPT ![c] = n] /\ intena' = [intena EXCEPT ![c] = ie]
      /\ iflag' = [iflag EXCEPT ![c] = TRUE] /\ TRUE \in BOOLEAN
      /\ locked' \in [SpinLocks -> CPUs \union {Unheld}]
  BY <1>1, Keeps, Zenon DEF Iret
<1> HIDE DEF s, t, n, ie, f
<1>6. s # <<>> /\ s[1] \in {<<"sti">>, <<"iret">>}
  BY <1>3 DEF Begins
<1>7. Good(c, x, t, n, ie, TRUE, locked)
  BY <1>2, <1>3, <1>6, GoodEnable, Zenon
<1>8. Good(c, x, t, n, ie, TRUE, locked')
  BY <1>5, <1>7, Zenon
<1> QED
  BY <1>2, <1>4, <1>5, <1>8, GoesOn, Zenon

\* Processor c leaves the context it runs with t to do, and takes up y.
LEMMA SwitchesTo ==
  ASSUME SpinInv, NEW c \in CPUs, NEW y \in Kthreads \union {c}, NEW t,
         on' = [on EXCEPT ![c] = y], calls' = [calls EXCEPT ![on[c]] = t], fault' = "",
         locked' = locked, ncli' = ncli, intena' = intena, iflag' = iflag,
         y # on[c], \A d \in CPUs \ {c} : on[d] # y,
         WellFormed(t), Owned(on[c], t), AtRest(on[c], t),
         Fits(c, y, calls[y], ncli[c], intena[c], iflag[c], locked)
  PROVE  SpinInv'
<1> DEFINE x == on[c]
<1>1. /\ locked \in [SpinLocks -> CPUs \union {Unheld}]
      /\ ncli \in [CPUs -> Nat] /\ intena \in [CPUs -> BOOLEAN] /\ iflag \in [CPUs -> BOOLEAN]
      /\ on \in [CPUs -> Contexts] /\ calls \in [Contexts -> Seq(Call)]
  BY DEF SpinInv, SpinTypeOK
<1>2. t \in Seq(Call) /\ x \in Contexts /\ y \in Contexts
  BY <1>1 DEF WellFormed, Contexts
<1>3. SpinTypeOK'
  BY <1>1, <1>2 DEF SpinTypeOK
<1>4. calls'[x] = t /\ \A z \in Contexts : z # x => calls'[z] = calls[z]
  BY <1>1, <1>2
<1>5. on'[c] = y /\ \A d \in CPUs : d # c => on'[d] = on[d]
  BY <1>1
<1>6. \A z \in Contexts : WellFormed(calls'[z]) /\ Owned(z, calls'[z])
  BY <1>4, Zenon DEF SpinInv
<1>7. ASSUME NEW z \in Contexts, \A d \in CPUs : on'[d] # z PROVE AtRest(z, calls'[z])
  <2>1. CASE z = x
    BY <2>1, <1>4, Zenon
  <2>2. CASE z # x
    <3>1. \A d \in CPUs : on[d] # z
      BY <1>5, <1>7, <2>2, Zenon
    <3> QED
      BY <1>4, <2>2, <3>1, Zenon DEF SpinInv
  <2> QED
    BY <2>1, <2>2
<1>8. ASSUME NEW d \in CPUs
      PROVE  Fits(d, on'[d], calls'[on'[d]], ncli'[d], intena'[d], iflag'[d], locked')
  <2>1. CASE d = c
    <3>1. on'[d] = y /\ calls'[on'[d]] = calls[y]
      BY <2>1, <1>2, <1>4, <1>5, Zenon
    <3> QED
      BY <2>1, <3>1, Zenon
  <2>2. CASE d # c
    <3>1. on[d] # x /\ on[d] \in Contexts
      BY <1>1, <2>2 DEF SpinInv
    <3>2. calls'[on'[d]] = calls[on[d]] /\ on'[d] = on[d]
      BY <2>2, <3>1, <1>4, <1>5, Zenon
    <3>3. Fits(d, on[d], calls[on[d]], ncli[d], intena[d], iflag[d], locked)
      BY DEF SpinInv
    <3> QED
      BY <3>2, <3>3, Zenon
  <2> QED
    BY <2>1, <2>2
<1>9. \A d \in CPUs : on'[d] \in Kthreads \union {d}
  BY <1>5 DEF SpinInv
<1>10. \A d, e \in CPUs : on'[d] = on'[e] => d = e
  <2>1. \A d, e \in CPUs : on[d] = on[e] => d = e
    BY DEF SpinInv
  <2>2. \A d \in CPUs : d # c => on'[d] # y
    BY <1>5
  <2> QED
    BY <1>5, <2>1, <2>2
<1> QED
  BY <1>3, <1>6, <1>7, <1>8, <1>9, <1>10 DEF SpinInv

LEMMA SchedInv ==
  ASSUME SpinInv, NEW c \in CPUs, Sched(c)
  PROVE  SpinInv'
<1> DEFINE x == on[c]
           s == calls[x]
           n == ncli[c]
           ie == intena[c]
           f == iflag[c]
           t == << <<"resumed", ie>> >> \o Tail(s)
<1>1. /\ s # <<>> /\ Head(s) = s[1] /\ s[1] \in Call /\ s[1][1] = "sched" /\ fault = ""
  BY Doing, Zenon DEF Sched
<1>2. /\ n \in Nat /\ ie \in BOOLEAN /\ f \in BOOLEAN
      /\ Good(c, x, s, n, ie, f, locked)
  BY Running, Zenon
<1>3. s[1] = <<"sched">>
  BY <1>1, Kinds, Zenon
<1>4. Begins(s, <<"sched">>) /\ Puts(s, t, <<"resumed", ie>>)
  BY <1>1, <1>3 DEF Begins, Puts
<1>5. /\ x \in Kthreads /\ locked["ptable"] = c /\ n = 1 /\ ~f
      /\ \A k \in SpinLocks : locked[k] = c <=> k = "ptable"
      /\ WellFormed(t) /\ Owned(x, t) /\ AtRest(x, t)
  <2> HIDE DEF s, t, n, ie, f
  <2>1. Leaves(c, x, t, n, f, locked)
    BY <1>2, <1>4, GoodSched, Zenon
  <2> QED
    BY <2>1, Zenon DEF Leaves
<1>6. calls' = [calls EXCEPT ![x] = t] /\ on' = [on EXCEPT ![c] = c]
      /\ locked' = locked /\ ncli' = ncli /\ intena' = intena /\ iflag' = iflag
  BY DEF Sched, Goes
<1>7. fault' = ""
  BY <1>1, <1>5 DEF Sched
<1>8. c # x /\ (\A d \in CPUs : on[d] # c) /\ c \in Contexts /\ c \notin Kthreads
  BY <1>5, SpinAssumption DEF SpinInv, Contexts
<1>9. At(calls[c], 1, <<"pick">>) /\ WellFormed(calls[c])
  BY <1>8, Zenon DEF SpinInv, AtRest
<1>10. calls[c] # <<>> /\ calls[c][1] \in Switches
  BY <1>9 DEF At, Switches
<1>11. Level(calls[c]) = 1 /\ \A k \in SpinLocks : Holds(calls[c], k) <=> k = "ptable"
  BY <1>9, <1>10, SwitchHolds, Zenon
<1>12. Fits(c, c, calls[c], n, ie, f, locked)
  <2> HIDE DEF s, t, n, ie, f
  <2> QED
    BY <1>5, <1>8, <1>11, Zenon DEF Fits
<1>13. c \in Kthreads \union {c}
  OBVIOUS
<1> HIDE DEF t
<1> QED
  BY <1>5, <1>6, <1>7, <1>8, <1>12, <1>13, SwitchesTo, Zenon

\* A process that can be switched to holds ptable.lock only, on the scheduler's behalf.
LEMMA RestHolds ==
  ASSUME NEW y \in Kthreads, NEW s, WellFormed(s), AtRest(y, s), s # <<>>,
         s[1][1] \in {"resumed", "release"}
  PROVE  /\ Level(s) = 1 /\ \A k \in SpinLocks : Holds(s, k) <=> k = "ptable"
         /\ IretFrom(s, 1) \/ \E b \in BOOLEAN : At(s, 1, <<"resumed", b>>)
<1>1. CASE s[1] \in Resumes
  <2>1. s[1] \in Switches
    BY <1>1 DEF Switches
  <2>2. \E b \in BOOLEAN : At(s, 1, <<"resumed", b>>)
    BY <1>1, First, Zenon DEF Resumes
  <2> QED
    BY <2>1, <2>2, SwitchHolds, Zenon
<1>2. CASE RelAt(s, 1, "ptable") /\ At(s, 3, <<"iret">>)
  <2>1. /\ \A k : (RelAt(s, 1, k) <=> k = "ptable") /\ ~AcqAt(s, 1, k)
        /\ ~PopAt(s, 1) /\ ~SwitchAt(s, 1)
    BY <1>2, Exclusive, Zenon
  <2>2. \A k : ~RelAt(s, 3, k)
    BY <1>2 DEF RelAt, At
  <2>3. Inner(s) /\ \A k : ~OuterOf(s, k)
    BY <2>1, <2>2, Outer, Locks, Zenon DEF Inner
  <2>4. Level(s) = 1
    BY <2>3, LevelIs, Zenon
  <2>5. \A k \in SpinLocks : Holds(s, k) <=> k = "ptable"
    BY <2>1, <2>3, Zenon DEF Holds
  <2>6. IretFrom(s, 1)
    BY <1>2 DEF At, IretFrom
  <2> QED
    BY <2>4, <2>5, <2>6
<1>3. s[1] # <<"never">> /\ ~At(s, 1, <<"pick">>)
  BY First
<1> QED
  BY <1>1, <1>2, <1>3, Zenon DEF AtRest

LEMMA PickInv ==
  ASSUME SpinInv, NEW c \in CPUs, Pick(c)
  PROVE  SpinInv'
<1> DEFINE x == on[c]
           s == calls[x]
           n == ncli[c]
           ie == intena[c]
           f == iflag[c]
           t == <<>> \o Tail(s)
<1>1. /\ s # <<>> /\ Head(s) = s[1] /\ s[1] \in Call /\ s[1][1] = "pick" /\ fault = ""
  BY Doing, Zenon DEF Pick
<1>2. /\ n \in Nat /\ ie \in BOOLEAN /\ f \in BOOLEAN
      /\ Good(c, x, s, n, ie, f, locked)
  BY Running, Zenon
<1>3. s[1] = <<"pick">>
  BY <1>1, Kinds, Zenon
<1>4. Begins(s, <<"pick">>) /\ Pops(s, t)
  BY <1>1, <1>3 DEF Begins, Pops
<1>5. /\ fault' = "" /\ locked' = locked /\ ncli' = ncli /\ intena' = intena /\ iflag' = iflag
  BY <1>1 DEF Pick
<1>6. CASE Goes(c, <<>>) /\ UNCHANGED on
  <2>1. /\ calls' = [calls EXCEPT ![x] = t] /\ on' = on
        /\ Apart(c, locked, locked') /\ ncli' = [ncli EXCEPT ![c] = n]
        /\ intena' = [intena EXCEPT ![c] = ie] /\ iflag' = [iflag EXCEPT ![c] = f]
        /\ locked' \in [SpinLocks -> CPUs \union {Unheld}]
    BY <1>5, <1>6, Keeps DEF Goes
  <2> HIDE DEF s, t, n, ie, f
  <2>2. Good(c, x, t, n, ie, f, locked)
    BY <1>2, <1>4, GoodPick, Zenon
  <2>3. Good(c, x, t, n, ie, f, locked')
    BY <1>5, <2>2, Zenon
  <2> QED
    BY <1>2, <1>5, <2>1, <2>3, GoesOn, Zenon
<1>7. ASSUME NEW y \in Kthreads, Waiting(y), on' = [on EXCEPT ![c] = y], UNCHANGED calls
      PROVE  SpinInv'
  <2>a. s[1] \in Switches
    BY <1>3, Zenon DEF Switches
  <2>b. WellFormed(s) /\ Owned(x, s) /\ Fits(c, x, s, n, ie, f, locked)
    BY <1>2, Zenon DEF Good
  <2>1. WellFormed(s) /\ Owned(x, s) /\ Fits(c, x, s, n, ie, f, locked) /\ s[1] \in Switches
    BY <2>a, <2>b, Zenon
  <2>2. x \in CPUs /\ At(s, 1, <<"pick">>)
    <3>1. 1 \in 1 .. Len(s)
      BY <1>1, <2>1, FollowsFirst, Zenon
    <3> QED
      BY <1>3, <2>1, <3>1, Zenon DEF Owned, At
  <2>3. calls' = [calls EXCEPT ![x] = s]
    BY <1>7 DEF SpinInv, SpinTypeOK
  <2>4. AtRest(x, s)
    BY <2>2, Zenon DEF AtRest
  <2>5. \A d \in CPUs : on[d] # y
    BY <1>7, Zenon DEF Waiting
  <2>6. y \in Contexts /\ calls[y] \in Seq(Call)
    BY DEF Contexts, SpinInv, SpinTypeOK
  <2>7. WellFormed(calls[y]) /\ AtRest(y, calls[y])
    BY <2>5, <2>6, Zenon DEF SpinInv
  <2>8. calls[y] # <<>> /\ calls[y][1][1] \in {"resumed", "release"}
    BY <1>7, <2>6 DEF Waiting
  <2>9. /\ Level(calls[y]) = 1 /\ \A k \in SpinLocks : Holds(calls[y], k) <=> k = "ptable"
        /\ IretFrom(calls[y], 1) \/ \E b \in BOOLEAN : At(calls[y], 1, <<"resumed", b>>)
    BY <2>7, <2>8, RestHolds, Zenon
  <2>10. Level(s) = 1 /\ \A k \in SpinLocks : Holds(s, k) <=> k = "ptable"
    BY <1>1, <2>1, SwitchHolds, Zenon
  <2>11. n = 1 /\ ~f /\ \A k \in SpinLocks : locked[k] = c <=> k = "ptable"
    BY <2>1, <2>10 DEF Fits
  <2>12. Fits(c, y, calls[y], n, ie, f, locked)
    <3>1. 1 # 0
      OBVIOUS
    <3> HIDE DEF n, ie, f
    <3> QED
      BY <2>9, <2>11, <3>1, Zenon DEF Fits
  <2>13. y # x /\ y \in Kthreads \union {c} /\ \A d \in CPUs \ {c} : on[d] # y
    BY <2>5
  <2> HIDE DEF s
  <2> QED
    BY <1>5, <1>7, <2>1, <2>3, <2>4, <2>12, <2>13, SwitchesTo, Zenon
<1> QED
  BY <1>6, <1>7 DEF Pick

\* A context with no lock to release: what SpinCall, Interrupt and the scheduler's loop add
\* calls to.
Quiet(x, s) == WellFormed(s) /\ Calm(s) /\ Owned(x, s)

LEMMA MovedIret ==
  ASSUME NEW s, NEW t, NEW m, Moved(t, s, m)
  PROVE  IretFrom(s, 1) => IretFrom(t, 1)
BY DEF Moved, IretFrom

\* Calls of these kinds belong to any context.
LEMMA OwnedWords ==
  ASSUME NEW s, NEW t, NEW m, Moved(t, s, m), NEW x, Owned(x, s),
         \A i \in 1 .. m : \/ t[i][1] \in {"readeflags", "release", "popcli", "iret"}
                           \/ t[i] = <<"sched">> /\ x \in Kthreads
                           \/ t[i] \in {<<"pick">>, <<"sti">>} /\ x \in CPUs
  PROVE  Owned(x, t)
<1>1. ASSUME NEW i \in 1 .. m
      PROVE  /\ t[i] \in {<<"pick">>, <<"sti">>} => x \in CPUs
             /\ t[i] = <<"sched">> => x \in Kthreads
             /\ t[i] \notin Resumes
             /\ \A l \in SpinLocks, b \in BOOLEAN : t[i] # <<"cli", l, b>>
  <2> DEFINE e == t[i]
  <2>1. \/ e[1] \in {"readeflags", "release", "popcli", "iret"}
        \/ e = <<"sched">> /\ x \in Kthreads
        \/ e \in {<<"pick">>, <<"sti">>} /\ x \in CPUs
    OBVIOUS
  <2> HIDE DEF e
  <2>2. e \in {<<"pick">>, <<"sti">>} => x \in CPUs
    BY <2>1
  <2>3. e = <<"sched">> => x \in Kthreads
    BY <2>1
  <2>4. e \notin Resumes
    <3>1. \A b \in BOOLEAN : e # <<"resumed", b>>
      BY <2>1
    <3> QED
      BY <3>1 DEF Resumes
  <2>5. \A l \in SpinLocks, b \in BOOLEAN : e # <<"cli", l, b>>
    BY <2>1
  <2> QED
    BY <2>2, <2>3, <2>4, <2>5 DEF e
<1> QED
  BY <1>1, PushOwned, Zenon

LEMMA QuietCritical ==
  ASSUME NEW x, NEW s, Quiet(x, s), NEW l \in SpinLocks, NEW t, t = Critical(l) \o s
  PROVE  Quiet(x, t) /\ Moved(t, s, 3)
<1>1. /\ WellFormed(t) /\ Calm(t) /\ Moved(t, s, 3)
      /\ t[1] = <<"readeflags", l>> /\ t[2] = <<"release", l>> /\ t[3] = <<"popcli">>
  BY PushCritical, Zenon DEF Quiet
<1>2. \A i \in 1 .. 3 : t[i][1] \in {"readeflags", "release", "popcli"}
  <2>1. \A i \in 1 .. 3 : i = 1 \/ i = 2 \/ i = 3
    OBVIOUS
  <2>2. t[1][1] = "readeflags"
    BY <1>1, LitAcq, Zenon
  <2>3. t[2][1] = "release"
    BY <1>1, LitRel, Zenon
  <2>4. t[3][1] = "popcli"
    BY <1>1, LitOther, Zenon
  <2> QED
    BY <2>1, <2>2, <2>3, <2>4, Zenon
<1>3. Owned(x, t)
  BY <1>1, <1>2, OwnedWords, Zenon DEF Quiet
<1> QED
  BY <1>1, <1>3, Zenon DEF Quiet

LEMMA QuietYield ==
  ASSUME NEW x \in Kthreads, NEW s, Quiet(x, s), NEW t, t = YieldOf \o s
  PROVE  Quiet(x, t) /\ Moved(t, s, 4)
<1>1. s \in Seq(Call) /\ WellFormed(s) /\ Calm(s)
  BY DEF Quiet, WellFormed
<1>2. /\ t \in Seq(Call) /\ Len(t) = Len(s) + 4
      /\ t[1] = <<"readeflags", "ptable">> /\ t[2] = <<"sched">>
      /\ t[3] = <<"release", "ptable">> /\ t[4] = <<"popcli">>
      /\ \A i \in 1 .. Len(s) : t[i + 4] = s[i]
  BY <1>1, Locks, CallsIn DEF YieldOf, AcquireOf, ReleaseOf
<1>3. WellFormed(t) /\ Calm(t) /\ Moved(t, s, 4)
  BY <1>1, <1>2, PushSwitch, Zenon
<1>4. Owned(x, t)
  <2>1. \A i \in 1 .. 4 : i = 1 \/ i = 2 \/ i = 3 \/ i = 4
    OBVIOUS
  <2>2. t[1][1] = "readeflags"
    BY <1>2, LitAcq, Zenon
  <2>3. t[3][1] = "release"
    BY <1>2, LitRel, Zenon
  <2>4. t[4][1] = "popcli"
    BY <1>2, LitOther, Zenon
  <2>5. \A i \in 1 .. 4 : \/ t[i][1] \in {"readeflags", "release", "popcli", "iret"}
                          \/ t[i] = <<"sched">> /\ x \in Kthreads
    BY <1>2, <2>1, <2>2, <2>3, <2>4, Zenon
  <2> QED
    BY <1>3, <2>5, OwnedWords, Zenon DEF Quiet
<1> QED
  BY <1>3, <1>4, Zenon DEF Quiet

LEMMA QuietIret ==
  ASSUME NEW x, NEW s, Quiet(x, s), NEW t, t = << <<"iret">> >> \o s
  PROVE  Quiet(x, t) /\ IretFrom(t, 1)
<1>1. WellFormed(t) /\ Calm(t) /\ Moved(t, s, 1) /\ t[1] = <<"iret">>
  BY PushOne, Zenon DEF Quiet
<1>2. \A i \in 1 .. 1 : t[i][1] \in {"readeflags", "release", "popcli", "iret"}
  BY <1>1
<1>3. Owned(x, t)
  BY <1>1, <1>2, OwnedWords, Zenon DEF Quiet
<1>4. IretFrom(t, 1)
  <2>1. 1 \in 1 .. Len(t)
    BY <1>1 DEF Moved
  <2> QED
    BY <1>1, <2>1 DEF IretFrom
<1> QED
  BY <1>1, <1>3, <1>4, Zenon DEF Quiet

LEMMA QuietLoop ==
  ASSUME NEW c \in CPUs
  PROVE  Quiet(c, SchedulerLoop)
<1> DEFINE s == << <<"readeflags", "ptable">>, <<"pick">>, <<"release", "ptable">>, <<"popcli">> >>
           t == << <<"sti">> >> \o s
<1>1. SchedulerLoop = t
  BY DEF SchedulerLoop, AcquireOf, ReleaseOf
<1>2. /\ s \in Seq(Call) /\ Len(s) = Len(<<>>) + 4
      /\ s[1] = <<"readeflags", "ptable">> /\ s[2] = <<"pick">>
      /\ s[3] = <<"release", "ptable">> /\ s[4] = <<"popcli">>
      /\ \A i \in 1 .. Len(<<>>) : s[i + 4] = <<>>[i]
  <2>1. /\ <<"readeflags", "ptable">> \in Call /\ <<"release", "ptable">> \in Call
        /\ <<"popcli">> \in Call /\ <<"pick">> \in Call
    BY Locks, CallsIn, Zenon
  <2>2. s \in Seq(Call)
    BY <2>1
  <2>3. Len(s) = 4 /\ Len(<<>>) = 0 /\ 1 .. Len(<<>>) = {}
    OBVIOUS
  <2>4. /\ s[1] = <<"readeflags", "ptable">> /\ s[2] = <<"pick">>
        /\ s[3] = <<"release", "ptable">> /\ s[4] = <<"popcli">>
    OBVIOUS
  <2> QED
    BY <2>2, <2>3, <2>4
<1>3. t = << <<"sti">> >> \o s
  OBVIOUS
<1> HIDE DEF s, t
<1>4. WellFormed(s) /\ Calm(s) /\ Moved(s, <<>>, 4)
  BY <1>2, EmptyFormed, PushSwitch, Zenon
<1>5. Owned(c, s)
  <2>1. \A i \in 1 .. 4 : i = 1 \/ i = 2 \/ i = 3 \/ i = 4
    OBVIOUS
  <2>2. s[1][1] = "readeflags"
    BY <1>2, LitAcq, Zenon
  <2>3. s[3][1] = "release"
    BY <1>2, LitRel, Zenon
  <2>4. s[4][1] = "popcli"
    BY <1>2, LitOther, Zenon
  <2>5. \A i \in 1 .. 4 : \/ s[i][1] \in {"readeflags", "release", "popcli", "iret"}
                          \/ s[i] \in {<<"pick">>, <<"sti">>} /\ c \in CPUs
    BY <1>2, <2>1, <2>2, <2>3, <2>4, Zenon
  <2> QED
    BY <1>4, <2>5, EmptyFormed, OwnedWords, Zenon
<1>6. WellFormed(t) /\ Calm(t) /\ Moved(t, s, 1) /\ t[1] = <<"sti">>
  BY <1>3, <1>4, PushOne, Zenon
<1>7. \A i \in 1 .. 1 : t[i] \in {<<"pick">>, <<"sti">>} /\ c \in CPUs
  BY <1>6
<1>8. Owned(c, t)
  BY <1>5, <1>6, <1>7, OwnedWords, Zenon
<1> QED
  BY <1>1, <1>6, <1>8, Zenon DEF Quiet

\* What a system call puts on the stack of a context with nothing to do.
LEMMA QuietCall ==
  ASSUME NEW x \in Kthreads,
         NEW t \in {YieldOf} \union {Critical(l) : l \in SpinLocks}
                   \union {AcquireOf(l) \o Critical("ptable") \o ReleaseOf(l) : l \in IrqLocks}
  PROVE  Quiet(x, t)
<1>0. Quiet(x, <<>>)
  BY EmptyFormed, Zenon DEF Quiet
<1>1. CASE t = YieldOf
  <2>1. t = YieldOf \o <<>>
    BY <1>1 DEF YieldOf, AcquireOf, ReleaseOf
  <2> QED
    BY <1>0, <2>1, QuietYield, Zenon
<1>2. ASSUME NEW l \in SpinLocks, t = Critical(l) PROVE Quiet(x, t)
  <2>1. t = Critical(l) \o <<>>
    BY <1>2 DEF Critical, AcquireOf, ReleaseOf
  <2> QED
    BY <1>0, <2>1, QuietCritical, Zenon
<1>3. ASSUME NEW l \in IrqLocks, t = AcquireOf(l) \o Critical("ptable") \o ReleaseOf(l) PROVE Quiet(x, t)
  <2>1. /\ WellFormed(t) /\ Calm(t) /\ Len(t) = 6
        /\ \A i \in 1 .. 6 : t[i][1] \in {"readeflags", "release", "popcli"}
    BY <1>3, NestedFormed, Zenon
  <2>2. Moved(t, <<>>, 6)
    BY <2>1 DEF Moved, WellFormed
  <2>3. Owned(x, t)
    BY <2>1, <2>2, EmptyFormed, OwnedWords, Zenon
  <2> QED
    BY <2>1, <2>3, Zenon DEF Quiet
<1> QED
  BY <1>1, <1>2, <1>3

\* Calls are added where no lock is held; n and the locks stay as they are.
LEMMA GoodQuiet ==
  ASSUME NEW c, NEW x, NEW s, NEW n \in Nat, NEW ie \in BOOLEAN, NEW f \in BOOLEAN, NEW lk,
         Good(c, x, s, n, ie, f, lk), Calm(s), NEW t, Quiet(x, t), NEW f2 \in BOOLEAN,
         x \in Kthreads /\ ~IretFrom(t, 1) => f2
  PROVE  Good(c, x, t, n, ie, f2, lk)
<1>1. WellFormed(s) /\ Fits(c, x, s, n, ie, f, lk) /\ WellFormed(t) /\ Calm(t) /\ Owned(x, t)
  BY DEF Good, Quiet
<1>2. /\ Level(s) = 0 /\ Level(t) = 0
      /\ \A l \in SpinLocks : ~Holds(s, l) /\ ~Holds(t, l)
  BY <1>1, CalmLevel, Zenon
<1>3. n = 0 /\ \A l \in SpinLocks : lk[l] = c <=> Holds(t, l)
  BY <1>1, <1>2, Zenon DEF Fits
<1>4. Fits(c, x, t, n, ie, f2, lk)
  BY <1>2, <1>3, Zenon DEF Fits
<1> QED
  BY <1>1, <1>4, Zenon DEF Good

LEMMA SchedulerInv ==
  ASSUME SpinInv, NEW c \in CPUs, Scheduler(c)
  PROVE  SpinInv'
<1> DEFINE x == on[c]
           s == calls[x]
           n == ncli[c]
           ie == intena[c]
           f == iflag[c]
           t == SchedulerLoop
<1>1. x = c /\ s = <<>> /\ calls' = [calls EXCEPT ![x] = t] /\ on' = on
  BY DEF Scheduler
<1>2. /\ n \in Nat /\ ie \in BOOLEAN /\ f \in BOOLEAN
      /\ Good(c, x, s, n, ie, f, locked)
  BY Running, Zenon
<1>3. Calm(s) /\ Quiet(x, t)
  BY <1>1, EmptyFormed, QuietLoop, Zenon
<1>4. x \notin Kthreads
  BY <1>1, SpinAssumption
<1>5. /\ fault' = "" /\ locked' = locked /\ Apart(c, locked, locked')
      /\ ncli' = [ncli EXCEPT ![c] = n] /\ intena' = [intena EXCEPT ![c] = ie]
      /\ iflag' = [iflag EXCEPT ![c] = f] /\ locked' \in [SpinLocks -> CPUs \union {Unheld}]
  BY Keeps, Zenon DEF Scheduler
<1> HIDE DEF s, t, n, ie, f
<1>6. Good(c, x, t, n, ie, f, locked)
  BY <1>2, <1>3, <1>4, GoodQuiet, Zenon
<1>7. Good(c, x, t, n, ie, f, locked')
  BY <1>5, <1>6, Zenon
<1> QED
  BY <1>1, <1>2, <1>5, <1>7, GoesOn, Zenon

LEMMA SpinCallInv ==
  ASSUME SpinInv, NEW c \in CPUs, SpinCall(c)
  PROVE  SpinInv'
<1> DEFINE x == on[c]
           s == calls[x]
           n == ncli[c]
           ie == intena[c]
           f == iflag[c]
<1>1. x \in Kthreads /\ s = <<>> /\ on' = on
  BY DEF SpinCall
<1>2. PICK t \in {YieldOf} \union {Critical(l) : l \in SpinLocks}
                 \union {AcquireOf(l) \o Critical("ptable") \o ReleaseOf(l) : l \in IrqLocks} :
         calls' = [calls EXCEPT ![x] = t]
  BY DEF SpinCall
<1>3. /\ n \in Nat /\ ie \in BOOLEAN /\ f \in BOOLEAN
      /\ Good(c, x, s, n, ie, f, locked)
  BY Running, Zenon
<1>4. Quiet(x, t)
  BY <1>1, QuietCall, Zenon
<1>5. Calm(s)
  BY <1>1, EmptyFormed, Zenon
<1>6. /\ fault' = "" /\ locked' = locked /\ Apart(c, locked, locked')
      /\ ncli' = [ncli EXCEPT ![c] = n] /\ intena' = [intena EXCEPT ![c] = ie]
      /\ iflag' = [iflag EXCEPT ![c] = f] /\ locked' \in [SpinLocks -> CPUs \union {Unheld}]
  BY Keeps, Zenon DEF SpinCall
<1>7. ~IretFrom(s, 1)
  BY <1>1 DEF IretFrom
<1> HIDE DEF s, n, ie, f
<1>8. f
  <2>1. WellFormed(s) /\ Fits(c, x, s, n, ie, f, locked)
    BY <1>3, Zenon DEF Good
  <2>2. Level(s) = 0
    BY <1>5, <2>1, CalmLevel, Zenon
  <2> QED
    BY <1>1, <1>7, <2>1, <2>2, Zenon DEF Fits
<1>9. Good(c, x, t, n, ie, f, locked)
  BY <1>3, <1>4, <1>5, <1>8, GoodQuiet, Zenon
<1>10. Good(c, x, t, n, ie, f, locked')
  BY <1>6, <1>9, Zenon
<1> QED
  BY <1>1, <1>2, <1>3, <1>6, <1>10, GoesOn, Zenon

LEMMA InterruptInv ==
  ASSUME SpinInv, NEW c \in CPUs, Interrupt(c)
  PROVE  SpinInv'
<1> DEFINE x == on[c]
           s == calls[x]
           n == ncli[c]
           ie == intena[c]
           f == iflag[c]
           u == << <<"iret">> >> \o s
<1>1. f /\ on' = on
  BY DEF Interrupt
<1>2. PICK l \in IrqLocks, yields \in {<<>>} \union (IF x \in Kthreads THEN {YieldOf} ELSE {}) :
         calls' = [calls EXCEPT ![x] = Critical(l) \o (yields \o (<< <<"iret">> >> \o @))]
  BY DEF Interrupt
<1> DEFINE v == yields \o u
           t == Critical(l) \o v
<1>3. calls' = [calls EXCEPT ![x] = t]
  BY <1>2, Running DEF SpinInv, SpinTypeOK
<1>4. /\ n \in Nat /\ ie \in BOOLEAN /\ f \in BOOLEAN
      /\ Good(c, x, s, n, ie, f, locked)
  BY Running, Zenon
<1>5. /\ fault' = "" /\ locked' = locked /\ Apart(c, locked, locked')
      /\ ncli' = [ncli EXCEPT ![c] = n] /\ intena' = [intena EXCEPT ![c] = ie]
      /\ iflag' = [iflag EXCEPT ![c] = FALSE] /\ FALSE \in BOOLEAN
      /\ locked' \in [SpinLocks -> CPUs \union {Unheld}]
  BY Keeps, Zenon DEF Interrupt
<1>6. u = << <<"iret">> >> \o s /\ v = yields \o u /\ t = Critical(l) \o v
  OBVIOUS
<1> HIDE DEF s, n, ie, f, u, v, t
<1>7. WellFormed(s) /\ Owned(x, s) /\ Fits(c, x, s, n, ie, f, locked)
  BY <1>4, Zenon DEF Good
<1>8. n = 0 /\ n = Level(s)
  BY <1>1, <1>7, Zenon DEF Fits
<1>9. Calm(s) /\ Quiet(x, s)
  BY <1>7, <1>8, CalmLevel, Zenon DEF Quiet
<1>10. Quiet(x, u) /\ IretFrom(u, 1)
  BY <1>6, <1>9, QuietIret, Zenon
<1>11. Quiet(x, v) /\ IretFrom(v, 1)
  <2>1. CASE yields = <<>>
    <3>1. v = u
      BY <1>6, <1>10, <2>1 DEF Quiet, WellFormed
    <3> QED
      BY <1>10, <3>1, Zenon
  <2>2. CASE x \in Kthreads /\ yields = YieldOf
    <3>1. Quiet(x, v) /\ Moved(v, u, 4)
      BY <1>6, <1>10, <2>2, QuietYield, Zenon
    <3> QED
      BY <1>10, <3>1, MovedIret, Zenon
  <2> QED
    BY <1>2, <2>1, <2>2
<1>12. Quiet(x, t) /\ IretFrom(t, 1)
  <2>1. l \in SpinLocks
    BY Locks
  <2>2. Quiet(x, t) /\ Moved(t, v, 3)
    BY <1>6, <1>11, <2>1, QuietCritical, Zenon
  <2> QED
    BY <1>11, <2>2, MovedIret, Zenon
<1>13. Good(c, x, t, n, ie, FALSE, locked)
  BY <1>4, <1>5, <1>9, <1>12, GoodQuiet, Zenon
<1>14. Good(c, x, t, n, ie, FALSE, locked')
  BY <1>5, <1>13, Zenon
<1> QED
  BY <1>1, <1>3, <1>4, <1>5, <1>14, GoesOn, Zenon
-----------------------------------------------------------------------------
(* The initial state, and the theorems *)

LEMMA ForkretGood ==
  ASSUME NEW x \in Kthreads
  PROVE  WellFormed(Forkret) /\ Owned(x, Forkret) /\ AtRest(x, Forkret)
<1> DEFINE t == Forkret
<1>1. /\ t \in Seq(Call) /\ Len(t) = 3
      /\ t[1] = <<"release", "ptable">> /\ t[2] = <<"popcli">> /\ t[3] = <<"iret">>
  <2>1. <<"release", "ptable">> \in Call /\ <<"popcli">> \in Call /\ <<"iret">> \in Call
    BY Locks, CallsIn, Zenon
  <2> DEFINE p == << <<"release", "ptable">>, <<"popcli">> >>
             q == << <<"iret">> >>
  <2>2. p \in Seq(Call) /\ q \in Seq(Call) /\ Len(p) = 2 /\ Len(q) = 1 /\ t = p \o q
        /\ p[1] = <<"release", "ptable">> /\ p[2] = <<"popcli">> /\ q[1] = <<"iret">>
    BY <2>1 DEF Forkret, ReleaseOf
  <2> HIDE DEF p, q, t
  <2>3. /\ t \in Seq(Call) /\ Len(t) = Len(p) + Len(q)
        /\ \A i \in 1 .. Len(p) : t[i] = p[i]
        /\ \A i \in 1 .. Len(q) : t[i + Len(p)] = q[i]
    BY <2>2, PushSeq
  <2>4. t[1] = p[1] /\ t[2] = p[2] /\ t[1 + 2] = q[1] /\ Len(t) = 3
    BY <2>2, <2>3
  <2> QED
    BY <2>2, <2>3, <2>4
<1> HIDE DEF t
<1>2. RelAt(t, 1, "ptable") /\ PopAt(t, 2) /\ At(t, 3, <<"iret">>)
  BY <1>1 DEF RelAt, PopAt, At
<1>3. Opens(t, 4) /\ Opens(t, 3)
  BY <1>1 DEF Opens
<1>4. 1 + 1 = 2 /\ 2 + 1 = 3 /\ 3 + 1 = 4
  OBVIOUS
<1>5. Follows(t, 1) /\ Follows(t, 2) /\ Follows(t, 3)
  <2>1. Follows(t, 1)
    BY <1>1, <1>2, <1>4, Zenon DEF Follows
  <2>2. Follows(t, 2)
    BY <1>1, <1>3, <1>4, Zenon DEF Follows
  <2>3. Follows(t, 3)
    BY <1>1, <1>3, <1>4, Zenon DEF Follows
  <2> QED
    BY <2>1, <2>2, <2>3
<1>6. /\ \A k : t[2] # <<"release", k>> /\ t[2] # <<"xchg", k>>
      /\ \A k : t[3] # <<"release", k>> /\ t[3] # <<"xchg", k>>
      /\ \A k : t[1] # <<"xchg", k>>
  BY <1>1
<1>7. Precedes(t, 1) /\ Precedes(t, 2) /\ Precedes(t, 3)
  BY <1>6, Zenon DEF Precedes
<1>8. \A i \in 1 .. Len(t) : i = 1 \/ i = 2 \/ i = 3
  BY <1>1
<1>9. WellFormed(t)
  BY <1>1, <1>5, <1>7, <1>8, Zenon DEF WellFormed
<1>10. \A i \in 1 .. 3 : t[i][1] \in {"readeflags", "release", "popcli", "iret"}
  BY <1>1
<1>11. Moved(t, <<>>, 3)
  BY <1>1 DEF Moved
<1>12. Owned(x, t)
  BY <1>10, <1>11, EmptyFormed, OwnedWords, Zenon
<1>13. AtRest(x, t)
  BY <1>2, Zenon DEF AtRest
<1> QED
  BY <1>9, <1>12, <1>13 DEF t

LEMMA NeverGood ==
  ASSUME NEW x
  PROVE  /\ Quiet(x, << <<"never">> >>)
         /\ x \in Kthreads => AtRest(x, << <<"never">> >>)
<1> DEFINE t == << <<"never">> >>
<1>1. t \in Seq(Call) /\ Len(t) = 1 /\ t[1] = <<"never">> /\ t # <<>>
  <2>1. <<"never">> \in Call
    BY Locks, CallsIn, Zenon
  <2> QED
    BY <2>1
<1> HIDE DEF t
<1>2. /\ \A k : t[1] # <<"release", k>> /\ t[1] # <<"xchg", k>>
      /\ \A k \in SpinLocks, b \in BOOLEAN : t[1] # <<"cli", k, b>>
      /\ \A b \in BOOLEAN : t[1] # <<"resumed", b>>
      /\ t[1] # <<"sched">> /\ t[1] # <<"pick">> /\ t[1] # <<"sti">>
  BY <1>1
<1>3. 1 \in 1 .. Len(t) /\ \A i \in 1 .. Len(t) : i = 1
  BY <1>1
<1>4. WellFormed(t)
  BY <1>1, <1>2, <1>3, Zenon DEF WellFormed, Follows, Precedes
<1>5. Calm(t)
  BY <1>1, <1>2, <1>3, Zenon DEF Calm, Opens, At
<1>6. Owned(x, t)
  BY <1>2, <1>3, Zenon DEF Owned, SavedOff, Resumes
<1>7. x \in Kthreads => AtRest(x, t)
  BY <1>1 DEF AtRest
<1> QED
  BY <1>4, <1>5, <1>6, <1>7 DEF t, Quiet

LEMMA SpinInitInv ==
  ASSUME SpinInit
  PROVE  SpinInv
<1>1. PICK m \in Machines :
        calls = [x \in Contexts |-> IF x \in m[1] THEN <<>>
                                    ELSE IF x \in m[2] THEN Forkret ELSE << <<"never">> >>]
  BY DEF SpinInit
<1>2. m[1] \subseteq CPUs /\ m[2] \subseteq Kthreads
  BY SpinAssumption
<1>3. ASSUME NEW x \in CPUs
      PROVE  x \in Contexts /\ x \notin Kthreads /\ calls[x] \in {<<>>, << <<"never">> >>}
  BY <1>1, <1>2, SpinAssumption DEF Contexts
<1>4. ASSUME NEW x \in Kthreads
      PROVE  x \in Contexts /\ x \notin CPUs /\ calls[x] \in {Forkret, << <<"never">> >>}
  BY <1>1, <1>2, SpinAssumption DEF Contexts
<1>5. ASSUME NEW x \in CPUs PROVE Quiet(x, calls[x])
  BY <1>3, EmptyFormed, NeverGood DEF Quiet
<1>6. ASSUME NEW x \in Kthreads
      PROVE  WellFormed(calls[x]) /\ Owned(x, calls[x]) /\ AtRest(x, calls[x])
  BY <1>4, ForkretGood, NeverGood DEF Quiet
<1>7. \A x \in Contexts : WellFormed(calls[x]) /\ Owned(x, calls[x]) /\ calls[x] \in Seq(Call)
  BY <1>5, <1>6 DEF Quiet, Contexts, WellFormed
<1>8. SpinTypeOK
  <2>1. calls \in [Contexts -> Seq(Call)]
    BY <1>1, <1>7
  <2> QED
    BY <2>1 DEF SpinTypeOK, SpinInit, Contexts
<1>9. ASSUME NEW c \in CPUs
      PROVE  Fits(c, on[c], calls[on[c]], ncli[c], intena[c], iflag[c], locked)
  <2>1. on[c] = c /\ ncli[c] = 0 /\ ~iflag[c] /\ \A l \in SpinLocks : locked[l] # c
    BY SpinAssumption DEF SpinInit, Unheld
  <2>2. Level(calls[c]) = 0 /\ \A l \in SpinLocks : ~Holds(calls[c], l)
    BY <1>5, CalmLevel, Zenon DEF Quiet
  <2> QED
    BY <1>3, <2>1, <2>2, Zenon DEF Fits
<1>10. \A x \in Contexts : (\A c \in CPUs : on[c] # x) => AtRest(x, calls[x])
  BY <1>6 DEF SpinInit, Contexts
<1>11. /\ \A c \in CPUs : on[c] \in Kthreads \union {c}
       /\ \A c, d \in CPUs : on[c] = on[d] => c = d
       /\ fault = ""
  BY DEF SpinInit
<1> QED
  BY <1>7, <1>8, <1>9, <1>10, <1>11 DEF SpinInv

LEMMA SpinStepInv ==
  ASSUME SpinInv, [SpinNext]_spinvars
  PROVE  SpinInv'
<1>1. CASE SpinNext
  <2>1. PICK c \in CPUs : SpinStep(c) \/ Interrupt(c)
    BY <1>1 DEF SpinNext
  <2> QED
    BY <2>1, ReadeflagsInv, PushcliInv, AcquireInv, ReleaseInv, PopcliInv, SchedInv, ResumedInv,
       SchedulerInv, StiInv, PickInv, SpinCallInv, IretInv, InterruptInv, Zenon DEF SpinStep
<1>2. CASE UNCHANGED spinvars
  BY <1>2 DEF spinvars, SpinInv, SpinTypeOK
<1> QED
  BY <1>1, <1>2

\* Between acquire(l) and release(l) the lock counts as held.
LEMMA SectionHolds ==
  ASSUME NEW s, WellFormed(s), NEW l \in SpinLocks, NEW i \in 1 .. Len(s), s[i] = <<"release", l>>,
         \A j \in 1 .. i - 1 : s[j] \notin Acqs(l)
  PROVE  Holds(s, l)
<1>1. RelAt(s, i, l) /\ Precedes(s, i) /\ Len(s) \in Nat
  BY DEF RelAt, At, WellFormed
<1>2. /\ i # 1 => ~AcqAt(s, i - 1, l)
      /\ i # 1 /\ i # 2 => ~AcqAt(s, i - 2, l)
      /\ i # 1 /\ i # 2 /\ i # 3 /\ i # 4 => ~AcqAt(s, i - 4, l)
  BY <1>1 DEF AcqAt
<1>3. 2 - 1 = 1 /\ 3 - 1 = 2 /\ 3 - 2 = 1 /\ 4 - 1 = 3 /\ 4 - 2 = 2 /\ 4 - 3 = 1
  OBVIOUS
<1>4. CASE l = "ptable"
  BY <1>1, <1>2, <1>3, <1>4, Zenon DEF Precedes, Holds
<1>5. CASE l \in IrqLocks
  <2>1. \/ i = 1
        \/ i = 2 /\ PopAt(s, 1)
        \/ i = 3 /\ RelAt(s, 1, "ptable")
        \/ i = 4 /\ AcqAt(s, 1, "ptable") /\ RelAt(s, 2, "ptable")
    BY <1>1, <1>2, <1>3, <1>5, Zenon DEF Precedes
  <2>2. RelAt(s, 1, l) \/ OuterOf(s, l)
    BY <1>1, <2>1, Outer, Zenon
  <2> QED
    BY <1>5, <2>2, Zenon DEF Holds
<1> QED
  BY <1>4, <1>5, Locks

LEMMA SpinProtects ==
  ASSUME SpinInv
  PROVE  LocksProtect
<1>1. ASSUME NEW c \in CPUs, NEW l \in SpinLocks, InSection(on[c], l)
      PROVE  locked[l] = c /\ ncli[c] > 0 /\ ~iflag[c]
  <2> DEFINE s == calls[on[c]]
             n == ncli[c]
             f == iflag[c]
  <2>1. /\ n \in Nat /\ s \in Seq(Call) /\ WellFormed(s)
        /\ Fits(c, on[c], s, n, intena[c], f, locked)
    BY Running, Zenon DEF Good
  <2>2. PICK i \in DOMAIN s :
          /\ s[i] = <<"release", l>>
          /\ \A j \in 1 .. i - 1 : s[j] \notin {<<"readeflags", l>>, <<"xchg", l>>,
                                                <<"cli", l, TRUE>>, <<"cli", l, FALSE>>}
    BY <1>1, Zenon DEF InSection
  <2> HIDE DEF s, n, f
  <2>3. i \in 1 .. Len(s)
    BY <2>1
  <2>4. \A j \in 1 .. i - 1 : s[j] \notin Acqs(l)
    <3>1. \A b \in BOOLEAN : b = TRUE \/ b = FALSE
      BY Zenon
    <3> QED
      BY <2>2, <3>1, Zenon DEF Acqs
  <2>5. Holds(s, l)
    BY <2>1, <2>2, <2>3, <2>4, SectionHolds, Zenon
  <2>6. Inner(s) \/ \E k \in IrqLocks : OuterOf(s, k)
    BY <2>5, Zenon DEF Holds, Inner
  <2>7. Level(s) # 0
    BY <2>6, LevelIs, Zenon
  <2>8. locked[l] = c
    BY <2>1, <2>5, Zenon DEF Fits
  <2>9. n = Level(s) /\ (f => n = 0)
    BY <2>1, Zenon DEF Fits
  <2>10. n > 0
    BY <2>1, <2>7, <2>9
  <2>11. ~f
    BY <2>7, <2>9, Zenon
  <2> QED
    BY <2>8, <2>10, <2>11 DEF n, f
<1>2. fault = ""
  BY DEF SpinInv
<1> QED
  BY <1>1, <1>2, Zenon DEF LocksProtect

LEMMA SpinRestores ==
  ASSUME SpinInv
  PROVE  InterruptsRestored
<1>1. ASSUME NEW c \in CPUs, on[c] \in Kthreads, calls[on[c]] = <<>>
      PROVE  iflag[c] /\ ncli[c] = 0
  <2>1. Fits(c, on[c], <<>>, ncli[c], intena[c], iflag[c], locked)
    BY <1>1 DEF SpinInv
  <2>2. Level(<<>>) = 0
    BY EmptyFormed, CalmLevel, Zenon
  <2>3. ~IretFrom(<<>>, 1)
    BY DEF IretFrom
  <2> QED
    BY <1>1, <2>1, <2>2, <2>3, Zenon DEF Fits
<1> QED
  BY <1>1, Zenon DEF InterruptsRestored

LEMMA SpinAlways == SpinSpec => []SpinInv
<1>1. SpinInit => SpinInv
  BY SpinInitInv
<1>2. SpinInv /\ [SpinNext]_spinvars => SpinInv'
  BY SpinStepInv
<1> QED
  BY <1>1, <1>2, PTL DEF SpinSpec

\* acquire() and release() of spinlock.c protect, however many processors, locks and nested
\* interrupts there are: a context between acquire and release runs on the processor that
\* lk->cpu names, with interrupts off, and no panic of acquire, release, popcli or sched is
\* reached.
THEOREM SpinLocksProtect == SpinSpec => []LocksProtect
<1>1. SpinInv => LocksProtect
  BY SpinProtects
<1> QED
  BY <1>1, SpinAlways, PTL

\* pushcli() and popcli() nest, and sched() carries intena: a process with no lock and no
\* handler to finish has its interrupts on, on whichever processor it was resumed.
THEOREM SpinInterruptsRestored == SpinSpec => []InterruptsRestored
<1>1. SpinInv => InterruptsRestored
  BY SpinRestores
<1> QED
  BY <1>1, SpinAlways, PTL
=============================================================================
