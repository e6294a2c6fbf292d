-------------------------------- MODULE File --------------------------------
(***************************************************************************)
(* Open files: the file table of kernel/file.c, the descriptor tables that *)
(* point into it (kernel/sysfile.c: dup, close, open and pipe), pipealloc()*)
(* of kernel/pipe.c, and the part of fork() and exit() that copies and     *)
(* closes descriptors.                                                     *)
(*                                                                         *)
(* A step is a critical section of ftable.lock with what the process does  *)
(* to its own state before and after it.  What a reference of the file     *)
(* table stands for, the ends of a pipe and the references to inodes, is   *)
(* kept as well, because fileclose() drops it after ftable.lock.           *)
(***************************************************************************)
EXTENDS Naturals, Sequences, FiniteSets

CONSTANTS
    Procs, InitProc,    \* processes; the first one
    Pipes,              \* pages that kalloc() can give to pipes
    NoFile, NoPipe, NoProc,
    NFILE, NOFILE

Files == 1..NFILE
Fds == 0..NOFILE - 1

\* What the constants have to be.
FileAssumption ==
    /\ InitProc \in Procs /\ NoProc \notin Procs /\ NoPipe \notin Pipes
    /\ NFILE \in Nat /\ NOFILE \in Nat /\ NoFile \notin Files
    /\ IsFiniteSet(Procs) /\ IsFiniteSet(Pipes)

VARIABLES
    ref, type, writable, pipe,      \* struct file
    ofile,      \* ofile[p][fd]: p->ofile
    pc,         \* pc[p]: where p is
    hand,       \* hand[p]: the files whose reference p has in local variables
    ff,         \* ff[p]: what p's fileclose(), or failed open(), has still to drop
    child,      \* child[p]: np of p's fork()
    kpages,     \* the pages kalloc() has given to pipes
    ends,       \* the open ends of pipes: <<pipe, writable>>
    iref        \* the references to inodes that processes and files have

file == <<ref, type, writable, pipe>>
objects == <<kpages, ends, iref>>
vars == <<file, ofile, pc, hand, ff, child, objects>>

Nothing == [type |-> "FD_NONE", pipe |-> NoPipe, writable |-> FALSE]
Inode == [type |-> "FD_INODE", pipe |-> NoPipe, writable |-> FALSE]

TypeOK ==
    /\ ref \in [Files -> Nat]
    /\ type \in [Files -> {"FD_NONE", "FD_PIPE", "FD_INODE"}]
    /\ writable \in [Files -> BOOLEAN]
    /\ pipe \in [Files -> Pipes \cup {NoPipe}]
    /\ ofile \in [Procs -> [Fds -> Files \cup {NoFile}]]
    /\ pc \in [Procs -> {"unused", "idle", "closing", "open", "open_fd", "pipe1",
                         "pipe_page", "pipe_fds", "fork", "exit"}]
    /\ hand \in [Procs -> Seq(Files)]
    /\ ff \in [Procs -> {Nothing, Inode} \cup
                         [type : {"FD_PIPE"}, pipe : Pipes, writable : BOOLEAN]]
    /\ child \in [Procs -> Procs \cup {NoProc}]
    /\ kpages \subseteq Pipes /\ ends \subseteq Pipes \X BOOLEAN
    /\ iref \in Nat

\* userinit(): one process, which has a current directory.
Init ==
    /\ ref = [f \in Files |-> 0] /\ type = [f \in Files |-> "FD_NONE"]
    /\ writable = [f \in Files |-> FALSE] /\ pipe = [f \in Files |-> NoPipe]
    /\ ofile = [p \in Procs |-> [fd \in Fds |-> NoFile]]
    /\ pc = [p \in Procs |-> IF p = InitProc THEN "idle" ELSE "unused"]
    /\ hand = [p \in Procs |-> <<>>]
    /\ ff = [p \in Procs |-> Nothing]
    /\ child = [p \in Procs |-> NoProc]
    /\ kpages = {} /\ ends = {} /\ iref = 1

-----------------------------------------------------------------------------
(* kernel/file.c                                                           *)

GoTo(p, label) == pc' = [pc EXCEPT ![p] = label]

FreeFiles == {f \in Files : ref[f] = 0}
FreeFds(p) == {fd \in Fds : ofile[p][fd] = NoFile}
Lowest(S) == CHOOSE x \in S : \A y \in S : x <= y

\* filealloc(), when a file is free: the first one.
filealloc(p) ==
    LET f == Lowest(FreeFiles)
    IN /\ ref' = [ref EXCEPT ![f] = 1]
       /\ hand' = [hand EXCEPT ![p] = Append(@, f)]
       /\ UNCHANGED <<type, writable, pipe>>

filedup(f) ==
    /\ ref' = [ref EXCEPT ![f] = @ + 1]
    /\ UNCHANGED <<type, writable, pipe>>

\* What the last close of f, of type t, has to drop.
StandsFor(f, t) ==
    CASE t = "FD_NONE"  -> Nothing
      [] t = "FD_INODE" -> Inode
      [] t = "FD_PIPE"  -> [type |-> t, pipe |-> pipe[f], writable |-> writable[f]]

\* fileclose() by p, under ftable.lock: the last reference copies what the file
\* stands for, to be dropped after the lock, and clears the file.  A file that
\* was never given a type stands for nothing, and its caller has something else
\* to drop.  (The code leaves f->pipe and f->writable as they are; nothing reads
\* them before they are set again.)
fileclose(p, f, then) ==
    /\ ref' = [ref EXCEPT ![f] = @ - 1]
    /\ type' = [type EXCEPT ![f] = IF ref[f] = 1 THEN "FD_NONE" ELSE @]
    /\ ff' = [ff EXCEPT ![p] = IF then # Nothing THEN then
                               ELSE IF ref[f] = 1
                               THEN StandsFor(f, type[f]) ELSE Nothing]
    /\ writable' = [writable EXCEPT ![f] = ref[f] > 1 /\ @]
    /\ pipe' = [pipe EXCEPT ![f] = IF ref[f] = 1 THEN NoPipe ELSE @]

\* The rest of fileclose(): pipeclose(), or iput() in a transaction.
Drop(p) ==
    /\ ff[p].type # "FD_NONE"
    /\ ff' = [ff EXCEPT ![p] = Nothing]
    /\ IF ff[p].type = "FD_PIPE"
       THEN /\ ends' = ends \ {<<ff[p].pipe, ff[p].writable>>}
            /\ kpages' = IF <<ff[p].pipe, ~ ff[p].writable>> \in ends
                         THEN kpages ELSE kpages \ {ff[p].pipe}
            /\ UNCHANGED iref
       ELSE iref' = iref - 1 /\ UNCHANGED <<kpages, ends>>
    /\ UNCHANGED <<file, ofile, pc, hand, child>>

\* Close the files in hand, one by one, and return.
CloseNext(p) ==
    /\ pc[p] = "closing" /\ ff[p] = Nothing
    /\ IF hand[p] = <<>>
       THEN GoTo(p, "idle") /\ UNCHANGED <<file, hand, ff>>
       ELSE /\ fileclose(p, Head(hand[p]), Nothing)
            /\ hand' = [hand EXCEPT ![p] = Tail(@)]
            /\ UNCHANGED pc
    /\ UNCHANGED <<ofile, child, objects>>

-----------------------------------------------------------------------------
(* System calls of kernel/sysfile.c                                        *)

sys_dup(p, fd) ==
    /\ pc[p] = "idle" /\ ofile[p][fd] # NoFile /\ FreeFds(p) # {}
    /\ ofile' = [ofile EXCEPT ![p][Lowest(FreeFds(p))] = ofile[p][fd]]
    /\ filedup(ofile[p][fd])
    /\ UNCHANGED <<pc, hand, ff, child, objects>>

sys_close(p, fd) ==
    /\ pc[p] = "idle" /\ ofile[p][fd] # NoFile
    /\ ofile' = [ofile EXCEPT ![p][fd] = NoFile]
    /\ hand' = [hand EXCEPT ![p] = <<ofile[p][fd]>>]
    /\ GoTo(p, "closing")
    /\ UNCHANGED <<file, ff, child, objects>>

\* sys_open() has found or created an inode,
sys_open(p) ==
    /\ pc[p] = "idle"
    /\ iref' = iref + 1
    /\ GoTo(p, "open")
    /\ UNCHANGED <<file, ofile, hand, ff, child, kpages, ends>>

\* ... gets a file or drops the inode,
OpenAlloc(p) ==
    /\ pc[p] = "open"
    /\ IF FreeFiles # {}
       THEN filealloc(p) /\ GoTo(p, "open_fd") /\ UNCHANGED ff
       ELSE /\ ff' = [ff EXCEPT ![p] = Inode]
            /\ GoTo(p, "closing")
            /\ UNCHANGED <<file, hand>>
    /\ UNCHANGED <<ofile, child, objects>>

\* ... and gets a descriptor, or closes the file and drops the inode.
OpenFd(p) ==
    /\ pc[p] = "open_fd"
    /\ hand' = [hand EXCEPT ![p] = <<>>]
    /\ LET f == Head(hand[p])
       IN IF FreeFds(p) # {}
          THEN /\ ofile' = [ofile EXCEPT ![p][Lowest(FreeFds(p))] = f]
               /\ type' = [type EXCEPT ![f] = "FD_INODE"]
               /\ GoTo(p, "idle")
               /\ UNCHANGED <<ref, writable, pipe, ff>>
          ELSE /\ fileclose(p, f, Inode)
               /\ GoTo(p, "closing")
               /\ UNCHANGED ofile
    /\ UNCHANGED <<child, objects>>

\* pipealloc(): a file,
sys_pipe(p) ==
    /\ pc[p] = "idle" /\ FreeFiles # {}
    /\ filealloc(p)
    /\ GoTo(p, "pipe1")
    /\ UNCHANGED <<ofile, ff, child, objects>>

\* ... another one,
PipeAlloc1(p) ==
    /\ pc[p] = "pipe1"
    /\ IF FreeFiles # {}
       THEN filealloc(p) /\ GoTo(p, "pipe_page")
       ELSE GoTo(p, "closing") /\ UNCHANGED <<file, hand>>
    /\ UNCHANGED <<ofile, ff, child, objects>>

\* ... and a page.
PipePage(p) ==
    /\ pc[p] = "pipe_page"
    /\ LET f0 == hand[p][1]  f1 == hand[p][2]
       IN \/ \E pi \in Pipes \ kpages :
                /\ kpages' = kpages \cup {pi}
                /\ ends' = ends \cup {<<pi, FALSE>>, <<pi, TRUE>>}
                /\ type' = [type EXCEPT ![f0] = "FD_PIPE", ![f1] = "FD_PIPE"]
                /\ writable' = [writable EXCEPT ![f0] = FALSE, ![f1] = TRUE]
                /\ pipe' = [pipe EXCEPT ![f0] = pi, ![f1] = pi]
                /\ GoTo(p, "pipe_fds")
                /\ UNCHANGED ref
          \/ /\ Pipes = kpages
             /\ GoTo(p, "closing")
             /\ UNCHANGED <<file, kpages, ends>>
    /\ UNCHANGED <<ofile, hand, ff, child, iref>>

\* sys_pipe() whose failure leaves the first descriptor behind.
PipeFdsMutant(p) ==
    /\ pc[p] = "pipe_fds"
    /\ \/ /\ Cardinality(FreeFds(p)) >= 2
          /\ LET fd0 == Lowest(FreeFds(p))  fd1 == Lowest(FreeFds(p) \ {fd0})
             IN ofile' = [ofile EXCEPT ![p][fd0] = hand[p][1], ![p][fd1] = hand[p][2]]
          /\ hand' = [hand EXCEPT ![p] = <<>>]
          /\ GoTo(p, "idle")
       \/ /\ GoTo(p, "closing")
          /\ ofile' = [ofile EXCEPT ![p] = [fd \in Fds |->
                          IF FreeFds(p) # {} /\ fd = Lowest(FreeFds(p)) THEN hand[p][1] ELSE @[fd]]]
          /\ UNCHANGED hand
    /\ UNCHANGED <<file, ff, child, objects>>

\* Two descriptors, unless there are too few or copyout() fails; then the ones
\* that were taken are cleared and both files are closed.
PipeFds(p) ==
    /\ pc[p] = "pipe_fds"
    /\ \/ /\ Cardinality(FreeFds(p)) >= 2
          /\ LET fd0 == Lowest(FreeFds(p))  fd1 == Lowest(FreeFds(p) \ {fd0})
             IN ofile' = [ofile EXCEPT ![p][fd0] = hand[p][1], ![p][fd1] = hand[p][2]]
          /\ hand' = [hand EXCEPT ![p] = <<>>]
          /\ GoTo(p, "idle")
       \/ GoTo(p, "closing") /\ UNCHANGED <<ofile, hand>>
    /\ UNCHANGED <<file, ff, child, objects>>

-----------------------------------------------------------------------------
(* fork() and exit()                                                       *)

Fork(p, q) ==
    /\ pc[p] = "idle" /\ pc[q] = "unused" /\ \A r \in Procs : child[r] # q
    /\ child' = [child EXCEPT ![p] = q]
    /\ GoTo(p, "fork")
    /\ UNCHANGED <<file, ofile, hand, ff, objects>>

\* filedup() for each descriptor; then idup(p->cwd), and the child can run.
ForkDup(p) ==
    /\ pc[p] = "fork"
    /\ LET q == child[p]
           todo == {fd \in Fds : ofile[p][fd] # ofile[q][fd]}
       IN IF todo # {}
          THEN /\ filedup(ofile[p][Lowest(todo)])
               /\ ofile' = [ofile EXCEPT ![q][Lowest(todo)] = ofile[p][Lowest(todo)]]
               /\ UNCHANGED <<pc, child, iref>>
          ELSE /\ iref' = iref + 1
               /\ pc' = [pc EXCEPT ![p] = "idle", ![q] = "idle"]
               /\ child' = [child EXCEPT ![p] = NoProc]
               /\ UNCHANGED <<file, ofile>>
    /\ UNCHANGED <<hand, ff, kpages, ends>>

\* The first process does not exit.
Exit(p) ==
    /\ pc[p] = "idle" /\ p # InitProc
    /\ GoTo(p, "exit")
    /\ UNCHANGED <<file, ofile, hand, ff, child, objects>>

\* exit() closes the descriptors one by one, then drops the current directory.
ExitClose(p) ==
    /\ pc[p] = "exit" /\ ff[p] = Nothing
    /\ LET open == Fds \ FreeFds(p)
       IN IF open # {}
          THEN /\ fileclose(p, ofile[p][Lowest(open)], Nothing)
               /\ ofile' = [ofile EXCEPT ![p][Lowest(open)] = NoFile]
               /\ UNCHANGED <<pc, iref>>
          ELSE /\ iref' = iref - 1
               /\ GoTo(p, "unused")
               /\ UNCHANGED <<file, ofile, ff>>
    /\ UNCHANGED <<hand, child, kpages, ends>>

-----------------------------------------------------------------------------
\* What p does once it is in a system call.
Advance(p) ==
    \/ Drop(p) \/ CloseNext(p) \/ OpenAlloc(p) \/ OpenFd(p)
    \/ PipeAlloc1(p) \/ PipePage(p) \/ PipeFds(p) \/ ForkDup(p) \/ ExitClose(p)

Next ==
    \E p \in Procs :
        \/ Advance(p)
        \/ \E fd \in Fds : sys_dup(p, fd) \/ sys_close(p, fd)
        \/ sys_open(p) \/ sys_pipe(p) \/ Exit(p)
        \/ \E q \in Procs : Fork(p, q)

Spec == Init /\ [][Next]_vars

-----------------------------------------------------------------------------
(* Properties.                                                             *)

\* The references to f that descriptors and local variables hold.
Holders(f) ==
    {h \in Procs \X Fds : ofile[h[1]][h[2]] = f}
    \cup {h \in Procs \X {NOFILE + 1, NOFILE + 2} :
              h[2] - NOFILE <= Len(hand[h[1]]) /\ hand[h[1]][h[2] - NOFILE] = f}

\* f->ref counts exactly the descriptors and local variables that refer to f: no
\* failure path of open() or pipe(), fork() or exit() leaks a file, and none is
\* reused while something refers to it ("filedup" and "fileclose" cannot panic).
RefExact == \A f \in Files : ref[f] = Cardinality(Holders(f))

\* What is still to be dropped for pipe end e.
Owners(e) ==
    {"file"} \X {f \in Files : /\ ref[f] > 0 /\ type[f] = "FD_PIPE"
                              /\ e = <<pipe[f], writable[f]>>}
    \cup {"close"} \X {p \in Procs : /\ ff[p].type = "FD_PIPE"
                                     /\ e = <<ff[p].pipe, ff[p].writable>>}

\* An end of a pipe is open exactly as long as one file, or a close of it under
\* way, stands for it, and a pipe's page is allocated as long as an end is open:
\* no end is closed twice, none is leaked, no freed page is used.
PipeEndsExact ==
    /\ \A pi \in Pipes, w \in BOOLEAN :
          Cardinality(Owners(<<pi, w>>)) = IF <<pi, w>> \in ends THEN 1 ELSE 0
    /\ kpages = {e[1] : e \in ends}

\* The references to inodes are those of current directories, of files, and of
\* system calls under way.
InodeRefsExact ==
    iref = Cardinality({p \in Procs : pc[p] # "unused"})
           + Cardinality({f \in Files : ref[f] > 0 /\ type[f] = "FD_INODE"})
           + Cardinality({p \in Procs : pc[p] \in {"open", "open_fd"}})
           + Cardinality({p \in Procs : ff[p].type = "FD_INODE"})

\* A descriptor that a program can use refers to a file with a type: fileread()
\* and filewrite() cannot panic.
UsableHasType ==
    \A p \in Procs, fd \in Fds :
        ofile[p][fd] # NoFile => ref[ofile[p][fd]] > 0 /\ type[ofile[p][fd]] # "FD_NONE"

\* Every count in ftable, however a system call failed on the way, matches the
\* descriptors that refer to the file, and such a file can be used.  What a file
\* refers to outside ftable, an end of a pipe or an inode, is given back when the
\* last descriptor is closed, once and not earlier, although fileclose() does so
\* after it has left ftable.lock.
FileInv == TypeOK /\ RefExact /\ UsableHasType /\ PipeEndsExact /\ InodeRefsExact
=============================================================================
