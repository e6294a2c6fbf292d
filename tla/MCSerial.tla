------------------------------ MODULE MCSerial ------------------------------
(* Two threads that print and write, one of which may panic; a ring of     *)
(* eight bytes in place of 64, which gives away two when it is full.  Of   *)
(* the messages one ends when it has just filled the ring, and one when it *)
(* has wrapped it.                                                         *)
EXTENDS SerialLine

ASSUME Sr!SerialAssumption
=============================================================================
