------------------------------- MODULE Threads -------------------------------
(***************************************************************************)
(* What the trap code promises the program of a process: it runs as if it  *)
(* were alone.  An instruction follows the one before it, a system call    *)
(* returns to the instruction after it, and the program ends only when it  *)
(* was killed or did something forbidden.  Interrupts, the time slices of  *)
(* the other processes and the moves from hart to hart do not appear.      *)
(***************************************************************************)
EXTENDS Naturals

CONSTANTS
    Procs,
    UserPcs     \* UserPcs[p]: instructions of the program of p, which starts again after the last

VARIABLES
    at,         \* at[p]: "user", "syscall" (about to run its body), "wait" or "dead"
    upc,        \* upc[p]: the instruction of the program to execute next
    killed

vars == <<at, upc, killed>>

Init ==
    /\ at = [p \in Procs |-> "user"]
    /\ upc = [p \in Procs |-> 0]
    /\ killed = {}

Advance(p) == upc' = [upc EXCEPT ![p] = (@ + 1) % UserPcs[p]]
Go(p, from, to) == at[p] = from /\ at' = [at EXCEPT ![p] = to]

Instr(p) == at[p] = "user" /\ Advance(p) /\ UNCHANGED <<at, killed>>

Ecall(p) == Go(p, "user", "syscall") /\ Advance(p) /\ UNCHANGED killed

Wait(p) == Go(p, "syscall", "wait") /\ UNCHANGED <<upc, killed>>

\* The end of a system call, which may have killed a process
Return(p) ==
    /\ \/ Go(p, "syscall", "user") /\ \E q \in Procs : killed' \in {killed, killed \union {q}}
       \/ Go(p, "wait", "user") /\ UNCHANGED killed
    /\ UNCHANGED upc

Fault(p) == at[p] = "user" /\ killed' = killed \union {p} /\ UNCHANGED <<at, upc>>

Exit(p) == p \in killed /\ Go(p, "user", "dead") /\ UNCHANGED <<upc, killed>>

Next == \E p \in Procs : Instr(p) \/ Ecall(p) \/ Wait(p) \/ Return(p) \/ Fault(p) \/ Exit(p)

Spec == Init /\ [][Next]_vars
=============================================================================
