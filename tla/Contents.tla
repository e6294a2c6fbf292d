------------------------------ MODULE Contents ------------------------------
(***************************************************************************)
(* What read() and write() promise of files: each is a sequence of bytes.  *)
(* A write() stores a part of its bytes in one step, where the file ends   *)
(* or over what it holds, or several parts in several steps.  When a copy  *)
(* from the program fails in a part, the bytes behind it may be torn: they *)
(* are unspecified until they are written again.  A crash goes back to     *)
(* what was saved, and what is saved is the files as they were at once.    *)
(***************************************************************************)
EXTENDS Naturals, Sequences

CONSTANTS Inums, Procs, UserByte(_, _), Torn

VARIABLES content, saved

vars == <<content, saved>>

Init == content = saved

\* new is old with consecutive bytes of p's buffer stored from off on, up to
\* end, and torn bytes behind them which do not make it longer.
Stored(p, old, new, off, end) ==
    /\ off <= Len(old) /\ end >= off
    /\ Len(new) = IF end > Len(old) THEN end ELSE Len(old)
    /\ SubSeq(new, 1, off) = SubSeq(old, 1, off)
    /\ end > off => \E from \in 0..Len(new) : \A k \in off + 1..end : new[k] = UserByte(p, from + k - off)
    /\ \E upto \in end..Len(new) :
          \A k \in end + 1..Len(new) : new[k] = IF k <= upto THEN Torn ELSE old[k]

Others(i, new, old) == \A j \in Inums \ {i} : new[j] = old[j]

Write(i, new) ==
    /\ Others(i, new, content)
    /\ \E p \in Procs, off \in 0..Len(content[i]), end \in 0..Len(new[i]) :
          Stored(p, content[i], new[i], off, end)
    /\ UNCHANGED saved

Truncate(i, new) ==
    /\ Others(i, new, content)
    /\ new[i] = <<>>
    /\ UNCHANGED saved

\* Torn bytes are saved as what they happen to be.
Save(new) ==
    /\ \A i \in Inums : /\ Len(new[i]) = Len(content[i])
                        /\ \A k \in DOMAIN new[i] : content[i][k] \in {Torn, new[i][k]}
    /\ UNCHANGED content

Crash == content' = saved /\ UNCHANGED saved

Next ==
    \/ \E i \in Inums : Write(i, content') \/ Truncate(i, content')
    \/ Save(saved')
    \/ Crash

Spec == Init /\ [][Next]_vars
=============================================================================
