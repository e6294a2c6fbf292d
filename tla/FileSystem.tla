----------------------------- MODULE FileSystem -----------------------------
(***************************************************************************)
(* Open files (File) and the names of files (Names), each under names of   *)
(* its own, so that they can stand beside each other and beside pipes.     *)
(* The two share no state.                                                 *)
(***************************************************************************)
CONSTANTS
    FileProcs, InitProc, Pipes, NoFile, NoPipe, NoProc, NFILE, NOFILE,  \* of File
    NameProcs, NoHolder, NInodes, FileNames, Workloads                  \* of Names

VARIABLES
    fref, ftype, writable, pipe, ofile, fpc, hand, ff, child, kpages, ends, iref,   \* of File
    type, nlink, dent, dotdot, iuse, valid, ilock, cwd, file, npc, calls, call, path, ip, dp, put, ifreed   \* of Names

fileVars == <<fref, ftype, writable, pipe, ofile, fpc, hand, ff, child, kpages, ends, iref>>
nameVars == <<type, nlink, dent, dotdot, iuse, valid, ilock, cwd, file, npc, calls, call, path, ip, dp, put, ifreed>>

F == INSTANCE File WITH Procs <- FileProcs, ref <- fref, type <- ftype, pc <- fpc

N == INSTANCE Names WITH Procs <- NameProcs, Nobody <- NoHolder, ref <- iuse, lock <- ilock, pc <- npc, freed <- ifreed

\* FileInv of file.c and sysfile.c: the counts of ftable match the descriptors,
\* and what a file refers to is given back once, with the last of them.
FileInv == F!FileInv

\* NamesInv of fs.c and sysfile.c: no system call ever meets an inode that was
\* freed under it, and links and references are counted.  Programs that remove the
\* parent of a directory in use, or create names in a directory that is being
\* removed, are not among those of the runs: for them it is not true.
NamesInv == N!NamesInv

\* LostOnlyAfterFree of fs.c: whoever drops the last reference to an inode without
\* links frees it, unless it was freed and given to a new file before.
LostOnlyAfterFree == N!LostOnlyAfterFree

\* FreedWhenUnused of fs.c: when no call is under way, an inode is allocated
\* exactly if it has a link or somebody refers to it.  Not true of this code.
FreedWhenUnused == N!FreedWhenUnused
=============================================================================
