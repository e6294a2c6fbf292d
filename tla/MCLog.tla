-------------------------------- MODULE MCLog --------------------------------
(* The log, and the files that fs.c keeps on the disk the log provides.    *)
(* Blocks has its own disk, as the log promises it, so a behaviour follows *)
(* one of the two models and the other one rests.  Three operations on two *)
(* blocks; the log admits two at a time.  Two processes write and read two *)
(* files on a disk that they can fill.                                     *)
EXTENDS Log, TLC

CONSTANTS Procs, Nobody, Files, Ino, Size, BSIZE, NDIRECT, FileOpBlocks, Starts, Lengths, MaxCalls

VARIABLES
    layer,      \* the layer this behaviour follows
    fcache, fhome, flh, fops, fwrote, inode, lock, off, fpc, req, calls, shown, torn    \* of Blocks

fileVars == <<fcache, fhome, flh, fops, fwrote, inode, lock, off, fpc, req, calls, shown, torn>>

B == INSTANCE Blocks WITH
    Inums <- {1, 2}, MAXOPBLOCKS <- FileOpBlocks,
    cache <- fcache, home <- fhome, lh <- flh, ops <- fops, wrote <- fwrote, pc <- fpc

ASSUME B!BlocksAssumption

-----------------------------------------------------------------------------
(* Disks with two files, of which three open files are                     *)

MCIno == [f \in 1..3 |-> IF f = 3 THEN 2 ELSE 1]
Pair(x, y) == [k \in 0..1 |-> IF k = 0 THEN x ELSE y]

EmptyDisk ==
    [b \in 0..Size - 1 |-> CASE b = 1 -> [i \in {1, 2} |-> [size |-> 0, addrs |-> Pair(0, 0)]]
                            [] b = 2 -> 0..2
                            [] OTHER -> Pair(0, 0)]

\* A file of three bytes, the last one behind an indirect block, one of two,
\* which would need such a block to grow, and a single free block
UsedDisk ==
    [EmptyDisk EXCEPT ![1] = (1 :> [size |-> 3, addrs |-> Pair(3, 4)]) @@ (2 :> [size |-> 2, addrs |-> Pair(6, 0)]),
                      ![2] = 0..6,
                      ![3] = Pair(91, 92), ![4] = Pair(5, 0), ![5] = Pair(93, 0), ![6] = Pair(94, 95)]

EmptyOrUsed == {EmptyDisk, UsedDisk}

-----------------------------------------------------------------------------
StorageInit ==
    /\ layer \in {"log", "files"} /\ Init /\ B!Init
    /\ layer = "log" => fcache = EmptyDisk
    /\ off[1] <= off[2]     \* open files of one inode, which nothing else tells apart

LogNext == layer = "log" /\ Next /\ UNCHANGED <<layer, fileVars>>
FilesNext == layer = "files" /\ B!Next /\ UNCHANGED <<layer, vars>>

\* The fairness is that of LiveSpec.
StorageSpec ==
    /\ StorageInit /\ [][LogNext \/ FilesNext]_<<layer, vars, fileVars>>
    /\ WF_vars(layer = "log" /\ Recover)
    /\ \A o \in Ops : WF_vars(layer = "log" /\ EndOp(o)) /\ WF_vars(layer = "log" /\ CommitStep(o))

\* BlocksInv of fs.c: every block has one owner, in memory and on the disk at
\* every moment a crash may come, and an operation fits the log.
BlocksInv == layer = "files" => B!BlocksInv

\* RefinesContents of fs.c and file.c: what write() promises of a file's bytes,
\* with a full disk, failed copies and crashes.
RefinesContents == B!RefinesContents
=============================================================================
