-------------------------------- MODULE Fifo --------------------------------
(***************************************************************************)
(* What a byte channel promises: a queue of at most Size bytes.  Bytes     *)
(* leave in the order in which they came, each one once.                   *)
(***************************************************************************)
EXTENDS Naturals, Sequences

CONSTANTS Bytes, Size

VARIABLE q      \* the bytes in the channel, the oldest first

Init == q = <<>>

Put(v) == Len(q) < Size /\ q' = Append(q, v)

Get == q # <<>> /\ q' = Tail(q)

Next == Get \/ \E v \in Bytes : Put(v)

Spec == Init /\ [][Next]_q
=============================================================================
