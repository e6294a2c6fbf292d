------------------------------- MODULE MCTraps -------------------------------
(***************************************************************************)
(* Two processes on two harts, so that each can move to the other hart.    *)
(* p1 has two instructions, where a lost program counter shows, and sleeps *)
(* one tick; p2 sleeps for a negative time.  At most one hart has main()'s *)
(* software interrupt pending.                                             *)
(***************************************************************************)
EXTENDS Traps

MCUserPcs == ("p1" :> 2) @@ ("p2" :> 1)
MCLengths == ("p1" :> {1}) @@ ("p2" :> {-1})

=============================================================================
