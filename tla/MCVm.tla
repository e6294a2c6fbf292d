-------------------------------- MODULE MCVm --------------------------------
(***************************************************************************)
(* Processes (Proc) and their memory (Vm with Bootmem).  The two models    *)
(* share no state, so a behaviour follows one of them and the other rests. *)
(*                                                                         *)
(* Three process slots, init and two others, on two CPUs; and machines and *)
(* programs for Vm and Bootmem.                                            *)
(***************************************************************************)
EXTENDS Proc, UserMemory, TLC

VARIABLE part       \* the part this behaviour follows

ASSUME M!VmAssumption /\ M!BootmemAssumption

-----------------------------------------------------------------------------
(* Machines and programs                                                   *)

\* The arithmetic of the code as built, words wider than ints: eight bits and four,
\* so that a few dozen pages meet every case of it.  Two nodes of 16 and 24 pages
\* follow each other; single pages, no frees, and a kernel below the first node.
\* The board of the repository's boot log has its kernel inside node 0, where
\* bootmem_init() fails: that is BuiltKernelInNode.
Built ==
    [base |-> [n0 |-> 4, n1 |-> 20], size |-> [n0 |-> 16, n1 |-> 24], kernelEnd |-> 4,
     word |-> 8, int |-> 4, requests |-> {1}, mayFree |-> FALSE]

\* Shifts as wide as the words, a small node, and everything callers may do.
Wide ==
    [base |-> [n0 |-> 4], size |-> [n0 |-> 12], kernelEnd |-> 4,
     word |-> 4, int |-> 4, requests |-> {1, 2, 3}, mayFree |-> TRUE]

\* The code as built with user processes, who alone ask for memory; the node has
\* page tables for two address spaces and a part of a third.
Running ==
    [base |-> [n0 |-> 4], size |-> [n0 |-> 16], kernelEnd |-> 4,
     word |-> 8, int |-> 4, requests |-> {}, mayFree |-> FALSE]

BootAndUser == {Built, Wide, Running}

\* Three machines on which the code as built fails (README, section 6).
BuiltFrees == {[Built EXCEPT !.mayFree = TRUE]}
BuiltLargeRequest == {[Built EXCEPT !.requests = {1, 2}]}
BuiltKernelInNode == {[Built EXCEPT !.kernelEnd = 6]}

\* What kinit() finds: enough for one process, its exec() and half of another.
KernelPages == 100..106

\* Two segments, the second below the first; a segment of no bytes.
TwoSegments == <<[vaddr |-> 0, end |-> 2], [vaddr |-> 0, end |-> 1]>>
Empty == <<[vaddr |-> 0, end |-> 0]>>
SomePrograms == {TwoSegments, Empty}

GrowOrShrink == {3, -3}

-----------------------------------------------------------------------------
MemoryVars == <<machine, bitmap, nextOff, count, freelist, mstate, sz, trapframe, pt, mpc, job>>

ProcessesInit ==
    /\ part \in {"proc", "memory"} /\ Init /\ M!Init
    /\ part = "proc" => machine = Wide

\* The kernel stops when init exits, and the model when the pids are used up.
Rest == (pc[InitProc] = "panic" \/ nextpid > MaxPid) /\ UNCHANGED vars

ProcNext == part = "proc" /\ (Next \/ Rest) /\ UNCHANGED <<part, MemoryVars>>
MemoryNext == part = "memory" /\ M!Next /\ UNCHANGED <<part, vars>>

ProcessesSpec == ProcessesInit /\ [][ProcNext \/ MemoryNext]_<<part, vars, MemoryVars>>

\* The processes alone, under the fairness of LiveSpec.
ProcInit == ProcessesInit /\ part = "proc"
ProcLiveSpec == ProcInit /\ [][ProcNext]_<<part, vars, MemoryVars>> /\ Fairness

Symmetry == Permutations(Procs \ {InitProc}) \cup Permutations(Cpus)
=============================================================================
