-------------------------------- MODULE MCBio --------------------------------
(* Fewer buffers than blocks, so that they are recycled; two pins and the  *)
(* buffer of one process use them up, and bget() finds none for the other. *)
EXTENDS Bio, TLC

Symmetry == Permutations(Procs) \cup Permutations(Blocks)
=============================================================================
