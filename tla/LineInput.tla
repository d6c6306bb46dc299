------------------------------ MODULE LineInput -----------------------------
(***************************************************************************)
(* What the console's input promises: characters can be erased until their *)
(* line is complete, complete lines are delivered once and in the order    *)
(* they were typed, and characters are refused only when there is no room. *)
(***************************************************************************)
EXTENDS Integers, Sequences

CONSTANTS Room, Clients

VARIABLES
  ready,      \* the characters of complete lines, not yet delivered
  edited,     \* the line being typed
  dst         \* what each client's read has delivered so far

LineInit == ready = <<>> /\ edited = <<>> /\ dst = [t \in Clients |-> <<>>]

\* A character is added; an end of line or the last free place completes the line.
Type(c) ==
  /\ Len(ready) + Len(edited) < Room
  /\ IF c # "x" \/ Len(ready) + Len(edited) = Room - 1
     THEN ready' = ready \o Append(edited, c) /\ edited' = <<>>
     ELSE edited' = Append(edited, c) /\ UNCHANGED ready
  /\ UNCHANGED dst

\* The end of the edited line is erased.
Erase ==
  /\ \E n \in 0 .. Len(edited) - 1 : edited' = SubSeq(edited, 1, n)
  /\ UNCHANGED <<ready, dst>>

\* A client takes the next n characters, none beyond the end of a line.  The end of
\* file stays for the next read unless this one has delivered nothing.
Deliver(t, n) ==
  LET took == SubSeq(ready, 1, n)
      text == IF took[n] = "eof" THEN SubSeq(took, 1, n - 1) ELSE took
      all == dst[t] \o text
      gone == IF took[n] = "eof" /\ all # <<>> THEN n - 1 ELSE n
  IN  /\ \A i \in 1 .. n - 1 : took[i] = "x"
      /\ dst' = [dst EXCEPT ![t] = all]
      /\ ready' = SubSeq(ready, gone + 1, Len(ready))
      /\ UNCHANGED edited

Reread(t) == dst' = [dst EXCEPT ![t] = <<>>] /\ UNCHANGED <<ready, edited>>

LineNext ==
  \/ Erase
  \/ \E c \in {"x", "nl", "eof"} : Type(c)
  \/ \E t \in Clients : Reread(t) \/ \E n \in 1 .. Len(ready) : Deliver(t, n)

LineSpec == LineInit /\ [][LineNext]_<<ready, edited, dst>>
=============================================================================
