------------------------------ MODULE Console -------------------------------
(***************************************************************************)
(* The console (console.c): the ring of typed characters, filled by the    *)
(* keyboard and serial interrupts and read by processes, and the cursor.   *)
(*                                                                         *)
(* As in Pipe, what is done under cons.lock is one step, but for the test  *)
(* of killed and the sleep() that follows it.  A character is "x", "nl"    *)
(* (newline or return), "eof" (^D), "erase" (^H, DEL), "kill" (^U), or     *)
(* "none": ^P, whose procdump() only prints, and NUL.                      *)
(***************************************************************************)
EXTENDS Integers, Sequences, FiniteSetsExt

CONSTANTS
  INPUT_BUF,  \* size of the ring
  INDEXES,    \* numbers a uint can hold: 2^32
  Clients,    \* processes that read the console
  Wanted,     \* how much they ask for
  COLS, ROWS  \* the screen: 80 by 25

Nobody == "nobody"

ASSUME ConsoleAssumption ==
  /\ INPUT_BUF \in Nat \ {0} /\ INDEXES \in Nat /\ INPUT_BUF < INDEXES
  /\ INDEXES % INPUT_BUF = 0
  /\ COLS \in Nat \ {0} /\ ROWS \in Nat /\ ROWS > 1
  /\ Wanted \subseteq Nat /\ Nobody \notin Clients

VARIABLES
  input,      \* buf, r, w, e
  reading,    \* n and target of each process's consoleread(), or Done
  copied,     \* what it has copied to dst
  asleep,     \* the processes that sleep on &input.r
  doomed,     \* the processes with killed set
  conslock,   \* the process that holds cons.lock into sleep(), or Nobody
  pos         \* the cursor, from the CRT controller

consvars == <<input, reading, copied, asleep, doomed, conslock, pos>>

Done == [n |-> 0, target |-> 0]

ConsoleInit ==
  /\ input = [buf |-> [i \in 0 .. INPUT_BUF - 1 |-> "x"], r |-> 0, w |-> 0, e |-> 0]
  /\ reading = [t \in Clients |-> Done]
  /\ copied = [t \in Clients |-> <<>>]
  /\ asleep = {} /\ doomed = {} /\ conslock = Nobody
  /\ pos = 0
-----------------------------------------------------------------------------
(* Output *)

\* Fault: the scrolling test allows the last row.
Scroll_Late(p) == IF p \div COLS >= ROWS THEN p - COLS ELSE p

Scroll(p) == IF p \div COLS >= ROWS - 1 THEN p - COLS ELSE p

\* cgaputc(c): where the cursor goes; BACKSPACE is "erase".
Cgaputc(p, c) ==
  Scroll(CASE c = "nl"    -> p + COLS - (p % COLS)
           [] c = "erase" -> IF p > 0 THEN p - 1 ELSE 0
           [] OTHER       -> p + 1)

\* n times consputc(BACKSPACE)
Backspaces(n) ==
  LET b[i \in 0 .. n] == IF i = 0 THEN pos ELSE Cgaputc(b[i - 1], "erase")
  IN  b[n]

(* Input *)

Wrap(n) == IF n < 0 THEN n + INDEXES ELSE IF n < INDEXES THEN n ELSE n - INDEXES
Ring(n) == input.buf[n % INPUT_BUF]
Between(from, to) == Wrap(to - from)
CharsFrom(from, to) == [i \in 1 .. Between(from, to) |-> Ring(Wrap(from + i - 1))]

\* What C('U') erases: back to the last newline, or to input.w.
LineLength ==
  LET back == {n \in 0 .. Between(input.w, input.e) :
                 n = Between(input.w, input.e) \/ Ring(Wrap(input.e - n - 1)) = "nl"}
  IN  Min(back)

Erased(n) ==
  /\ input' = [input EXCEPT !.e = Wrap(@ - n)]
  /\ pos' = Backspaces(n)
  /\ UNCHANGED asleep

\* The line is complete: its end, or no place left.
LineDone(c, e) == c # "x" \/ e = Wrap(input.r + INPUT_BUF)

Typed(c) ==
  LET e == Wrap(input.e + 1)
  IN  IF Between(input.r, input.e) >= INPUT_BUF THEN UNCHANGED <<input, pos, asleep>>
      ELSE /\ pos' = Cgaputc(pos, c)
           /\ input' = [input EXCEPT !.buf[input.e % INPUT_BUF] = c, !.e = e,
                                     !.w = IF LineDone(c, e) THEN e ELSE @]
           /\ asleep' = IF LineDone(c, e) THEN {} ELSE asleep

\* consoleintr(): one turn of its loop.
Consoleintr(c) ==
  /\ conslock = Nobody
  /\ CASE c = "kill"  -> Erased(LineLength)
       [] c = "erase" -> Erased(IF input.e # input.w THEN 1 ELSE 0)
       [] c = "none"  -> UNCHANGED <<input, pos, asleep>>
       [] OTHER       -> Typed(c)
  /\ UNCHANGED <<reading, copied, doomed, conslock>>

ConsoleCall(t) ==
  /\ reading[t] = Done /\ t \notin doomed
  /\ \E n \in Wanted : reading' = [reading EXCEPT ![t] = [n |-> n, target |-> n]]
  /\ copied' = [copied EXCEPT ![t] = <<>>]
  /\ UNCHANGED <<input, asleep, doomed, conslock, pos>>

\* In its loop, with cons.lock.
InRead(t) == conslock = Nobody /\ reading[t].n > 0 /\ t \notin asleep

\* Fault: ^D is always taken.
SaveEof_Not(t, n) == FALSE

\* "Save ^D for next time, to make sure caller gets a 0-byte result."
SaveEof(t, n) == n < reading[t].target

\* consoleread(): the characters there are, up to n and to the end of the line.  If
\* these are too few a killed process returns -1, another is about to sleep.
Consoleread(t) ==
  LET n == reading[t].n
      chars == CharsFrom(input.r, input.w)
      k == Min({n, Len(chars)} \union {i \in DOMAIN chars : chars[i] # "x"})
      eof == k > 0 /\ chars[k] = "eof"
      text == SubSeq(chars, 1, IF eof THEN k - 1 ELSE k)
      over == k = n \/ (k > 0 /\ chars[k] # "x")
  IN  /\ InRead(t)
      /\ input' = [input EXCEPT
                     !.r = Wrap(@ + IF eof /\ SaveEof(t, n - (k - 1)) THEN k - 1 ELSE k)]
      /\ copied' = [copied EXCEPT ![t] = @ \o text]
      /\ IF over \/ t \in doomed
         THEN reading' = [reading EXCEPT ![t] = Done] /\ UNCHANGED conslock
         ELSE reading' = [reading EXCEPT ![t].n = n - k] /\ conslock' = t
      /\ UNCHANGED <<asleep, doomed, pos>>

ConsoleSleep(t) ==
  /\ conslock = t
  /\ conslock' = Nobody /\ asleep' = asleep \union {t}
  /\ UNCHANGED <<input, reading, copied, doomed, pos>>

\* consolewrite(), and cprintf(): a character at a time, under cons.lock.
Consolewrite(c) ==
  /\ conslock = Nobody
  /\ pos' = Cgaputc(pos, c)
  /\ UNCHANGED <<input, reading, copied, asleep, doomed, conslock>>

ConsoleKill(t) ==
  /\ t \notin doomed
  /\ doomed' = doomed \union {t} /\ asleep' = asleep \ {t}
  /\ UNCHANGED <<input, reading, copied, conslock, pos>>

ConsoleNext ==
  \/ \E c \in {"x", "nl", "eof", "erase", "kill", "none"} : Consoleintr(c)
  \/ \E c \in {"x", "nl"} : Consolewrite(c)
  \/ \E t \in Clients : ConsoleCall(t) \/ Consoleread(t) \/ ConsoleSleep(t) \/ ConsoleKill(t)

ConsoleSpec == ConsoleInit /\ [][ConsoleNext]_consvars
-----------------------------------------------------------------------------
Lines == INSTANCE LineInput WITH
  Room <- INPUT_BUF, ready <- CharsFrom(input.r, input.w),
  edited <- CharsFrom(input.w, input.e), dst <- copied

\* What is typed is delivered in complete lines, once and in order, whatever is erased
\* meanwhile and however the three indexes wrap; ^D ends a read of its own.
\* (consoleintr and consoleread of console.c)
ConsoleIsLineInput == Lines!LineSpec

\* The cursor never gets to the last row, so cgaputc() neither panics nor writes past
\* the screen; a reader sleeps only while no line is complete.
\* (cgaputc, and the wakeup in consoleintr)
ConsoleSane ==
  /\ pos \in 0 .. (ROWS - 1) * COLS - 1
  /\ asleep # {} => input.r = input.w
=============================================================================
