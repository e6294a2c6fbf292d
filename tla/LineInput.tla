------------------------------ MODULE LineInput ------------------------------
(***************************************************************************)
(* What a line discipline promises: what is typed can be edited until its  *)
(* line is complete, and complete lines are read in the order in which     *)
(* they were typed, each character once.                                   *)
(***************************************************************************)
EXTENDS Naturals, Sequences

CONSTANTS
    Chars,      \* what can be typed into a line
    Ends,       \* the characters that complete it
    Size        \* how much can be held

VARIABLES
    line,       \* the line being typed
    ready       \* what may be read, the oldest first

Init == line = <<>> /\ ready = <<>>

\* A character is typed.  It completes the line if it ends it or if there is
\* room for no more.
Type(c) ==
    /\ Len(line) + Len(ready) < Size
    /\ IF c \in Ends \/ Len(line) + Len(ready) + 1 = Size
       THEN line' = <<>> /\ ready' = ready \o Append(line, c)
       ELSE line' = Append(line, c) /\ UNCHANGED ready

Erase ==
    /\ line # <<>>
    /\ line' = SubSeq(line, 1, Len(line) - 1)
    /\ UNCHANGED ready

EraseLine == line' = <<>> /\ UNCHANGED ready

Read ==
    /\ ready # <<>>
    /\ ready' = Tail(ready)
    /\ UNCHANGED line

Next == Erase \/ EraseLine \/ Read \/ \E c \in Chars : Type(c)

Spec == Init /\ [][Next]_<<line, ready>>
=============================================================================
