---------------------------- MODULE MCFileSystem -----------------------------
(* Names in directories (Names) and open files (File).  Their models share *)
(* no state, so a behaviour follows one of them and the other one rests.   *)
(* Processes run out of files, of descriptors and of pages for pipes.      *)
EXTENDS FileSystem, Sequences, TLC

VARIABLE layer      \* the layer this behaviour follows

ASSUME N!NamesAssumption /\ F!FileAssumption

-----------------------------------------------------------------------------
(* System calls on names                                                   *)

Abs(o, p) == [op |-> o, abs |-> TRUE, path |-> p]
Rel(o, p) == [op |-> o, abs |-> FALSE, path |-> p]
LinkTo(p, q) == [op |-> "link", abs |-> TRUE, path |-> p, to |-> q]

\* A directory "d" that stays, and files "f" and "g" in it and in the root that
\* are created, linked, opened and removed.
FileCalls ==
    {Abs("mkdir", <<"d">>), Abs("creat", <<"f">>), Abs("creat", <<"d", "g">>),
     Abs("open", <<"f">>), Abs("unlink", <<"f">>), Abs("unlink", <<"d", "g">>),
     LinkTo(<<"f">>, <<"d", "g">>), Abs("chdir", <<"f">>)}

\* Directories are removed as well, while one may be somebody's current directory.
DirCalls ==
    {Abs("mkdir", <<"d">>), Abs("unlink", <<"d">>), Abs("chdir", <<"d">>),
     Rel("chdir", <<"..">>), Rel("open", <<"..">>), Rel("unlink", <<"..">>)}

\* A file is created in a directory that is removed: LinksExact fails (README,
\* section 6).
OrphanCalls ==
    {Abs("mkdir", <<"d">>), Abs("unlink", <<"d">>), Abs("creat", <<"d", "f">>)}

\* A directory is removed with its parent, and is somebody's current directory:
\* NoPanic fails.
DotDotCalls ==
    {Abs("mkdir", <<"d">>), Abs("mkdir", <<"d", "f">>), Abs("chdir", <<"d", "f">>),
     Abs("unlink", <<"d", "f">>), Abs("unlink", <<"d">>), Rel("open", <<"..">>)}

FilesOrDirs == {FileCalls, DirCalls}
Orphans == {OrphanCalls}
DotDots == {DotDotCalls}

-----------------------------------------------------------------------------
FsInit ==
    /\ layer \in {"names", "file"} /\ N!Init /\ F!Init
    /\ layer = "file" => calls = DirCalls

NamesNext == layer = "names" /\ N!Next /\ UNCHANGED <<layer, fileVars>>
FileNext == layer = "file" /\ F!Next /\ UNCHANGED <<layer, nameVars>>

FsSpec == FsInit /\ [][NamesNext \/ FileNext]_<<layer, nameVars, fileVars>>

Symmetry == Permutations(NameProcs)
=============================================================================
