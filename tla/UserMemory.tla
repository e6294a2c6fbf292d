----------------------------- MODULE UserMemory -----------------------------
(***************************************************************************)
(* The memory of user processes, Vm with Bootmem, under names of its own,  *)
(* so that it can stand beside the model of the processes.                 *)
(***************************************************************************)
CONSTANTS Tasks, InitTask, Machines, ByteBits, BitsPerPage, KPages, PGSIZE, Fan, LEVELS, Grows, Programs,
          MaxArgs

VARIABLES machine, bitmap, nextOff, count, freelist, mstate, sz, trapframe, pt, mpc, job

M == INSTANCE Vm WITH Procs <- Tasks, InitProc <- InitTask, state <- mstate, pc <- mpc

\* MemInv of kalloc.c, vm.c and bootmem.c: a page has one owner, and a process in
\* user mode has exactly the pages of its p->sz; nothing panics.
MemInv == M!MemInv

\* ImageStays of vm.c, proc.c and exec.c: the pages of a process below p->sz stay
\* what they are until its exec() commits.
ImageStays == M!ImageStays
=============================================================================
