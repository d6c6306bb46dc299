-------------------------------- MODULE Fifo --------------------------------
(***************************************************************************)
(* What a pipe promises: a bounded queue of bytes with two ends.  The      *)
(* bytes of a write go in together, as far as they fit, in pieces if they  *)
(* must; they come out in the order they went in, each once; and a reader  *)
(* is told of the end of file only when nothing is left and nobody can     *)
(* write.                                                                  *)
(***************************************************************************)
EXTENDS Integers, Sequences

CONSTANTS Capacity,
          Users, Offers     \* who may write, and what

VARIABLES
  q,        \* the bytes in the queue, oldest first
  last,     \* what the last successful read delivered
  ends,     \* the ends still open
  left      \* what each user's write has yet to put into the queue

FifoInit == q = <<>> /\ last = <<>> /\ ends = {"read", "write"} /\ left = [t \in Users |-> <<>>]

Offer(t) ==
  /\ "write" \in ends /\ left[t] = <<>>
  /\ \E b \in Offers : left' = [left EXCEPT ![t] = b]
  /\ UNCHANGED <<q, last, ends>>

\* The next bytes of a write are appended, never more than fit; the rest waits or is given up.
Put(t) ==
  /\ "write" \in ends
  /\ \E n \in 0 .. Len(left[t]) :
       /\ q' = q \o SubSeq(left[t], 1, n)
       /\ \E rest \in {<<>>, SubSeq(left[t], n + 1, Len(left[t]))} : left' = [left EXCEPT ![t] = rest]
  /\ Len(q') <= Capacity
  /\ UNCHANGED <<last, ends>>

\* The oldest bytes are delivered.
Get ==
  /\ "read" \in ends
  /\ \E n \in 1 .. Len(q) : last' = SubSeq(q, 1, n) /\ q' = SubSeq(q, n + 1, Len(q))
  /\ UNCHANGED <<ends, left>>

EndOfFile ==
  /\ ends = {"read"} /\ q = <<>>
  /\ last' = <<>>
  /\ UNCHANGED <<q, ends, left>>

CloseEnd == \E end \in ends : ends' = ends \ {end} /\ UNCHANGED <<q, last, left>>

FifoNext == Get \/ EndOfFile \/ CloseEnd \/ \E t \in Users : Offer(t) \/ Put(t)

FifoSpec == FifoInit /\ [][FifoNext]_<<q, last, ends, left>>
=============================================================================
