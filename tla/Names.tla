-------------------------------- MODULE Names --------------------------------
(***************************************************************************)
(* The directory tree: path look-up (namex) and the inode table's          *)
(* references of kernel/fs.c, with create(), sys_open(), sys_mkdir(),      *)
(* sys_chdir(), sys_link() and sys_unlink() of kernel/sysfile.c.           *)
(*                                                                         *)
(* A step is what a process does between two moments at which it holds no  *)
(* lock or waits for another one; locks that are held meanwhile are        *)
(* variables.  An iput() is one such step, and two if it frees the inode:  *)
(* there it lets go of all locks between the free and ref--.  An inode has *)
(* one copy here: the code writes every change back (iupdate) before it    *)
(* unlocks the inode.  The table is large enough.  "." is left out:        *)
(* looking it up changes nothing.                                          *)
(***************************************************************************)
EXTENDS Naturals, Sequences, FiniteSets

CONSTANTS
    Procs, Nobody,  \* processes; the holder of a free lock
    NInodes,        \* sb.ninodes - 1
    FileNames,      \* names in directories, other than "." and ".."
    Workloads       \* the sets of system calls that programs may make

Inums == 1..NInodes
Root == 1
None == 0           \* no inode

\* A call has a path, a sequence of names that starts at the root or in the
\* current directory, and link() a second one.
Paths == Seq(FileNames \cup {".."})
Ops == {"open", "creat", "mkdir", "chdir", "unlink", "link"}

NamesAssumption ==
    /\ Nobody \notin Procs /\ NInodes \in Nat \ {0} /\ ".." \notin FileNames
    /\ IsFiniteSet(Procs) /\ IsFiniteSet(FileNames)
    /\ \A c \in UNION Workloads :
          /\ c.op \in Ops /\ {c.abs} \subseteq BOOLEAN
          /\ c.path \in Paths /\ c.path # <<>>
          /\ c.op = "link" => c.to \in Paths /\ c.to # <<>>

VARIABLES
    type, nlink,    \* struct inode
    dent,           \* dent[d]: what the names in directory d stand for
    dotdot,         \* dotdot[d]: its ".."
    ref, valid,     \* of the inode's entry in the table
    lock,           \* lock[i]: who holds ip->lock
    cwd, file,      \* cwd[p], file[p]: p's current directory and open file
    pc,             \* pc[p]: where p is
    calls,          \* the system calls that programs make; never changes
    call, path,     \* p's system call, and what is left of its path
    ip, dp,         \* the locals of p's call
    put,            \* put[p]: the inode that p is in iput() with, or None
    freed           \* freed[p]: that iput() has freed it; ref-- is left

inode == <<type, nlink, dent, dotdot>>
entry == <<ref, valid>>
locals == <<call, path, ip, dp>>
iputs == <<put, freed>>
vars == <<inode, entry, lock, cwd, file, pc, calls, locals, iputs>>

NoCall == [op |-> "none", path |-> <<>>, abs |-> TRUE]
NoNames == [n \in FileNames |-> None]

TypeOK ==
    /\ calls \in Workloads
    /\ type \in [Inums -> {"free", "T_DIR", "T_FILE"}]
    /\ nlink \in [Inums -> Nat]
    /\ dent \in [Inums -> [FileNames -> Inums \cup {None}]]
    /\ dotdot \in [Inums -> Inums \cup {None}]
    /\ ref \in [Inums -> Nat] /\ valid \in [Inums -> BOOLEAN]
    /\ lock \in [Inums -> Procs \cup {Nobody}]
    /\ cwd \in [Procs -> Inums] /\ file \in [Procs -> Inums \cup {None}]
    /\ ip \in [Procs -> Inums \cup {None}] /\ dp \in [Procs -> Inums \cup {None}]
    /\ put \in [Procs -> Inums \cup {None}] /\ freed \in [Procs -> BOOLEAN]

\* What mkfs leaves: a root directory, whose ".." is itself.
Init ==
    /\ calls \in Workloads
    /\ type = [i \in Inums |-> IF i = Root THEN "T_DIR" ELSE "free"]
    /\ nlink = [i \in Inums |-> IF i = Root THEN 1 ELSE 0]
    /\ dent = [i \in Inums |-> NoNames]
    /\ dotdot = [i \in Inums |-> IF i = Root THEN Root ELSE None]
    /\ ref = [i \in Inums |-> IF i = Root THEN Cardinality(Procs) ELSE 0]
    /\ valid = [i \in Inums |-> FALSE]
    /\ lock = [i \in Inums |-> Nobody]
    /\ cwd = [p \in Procs |-> Root] /\ file = [p \in Procs |-> None]
    /\ pc = [p \in Procs |-> "idle"]
    /\ call = [p \in Procs |-> NoCall] /\ path = [p \in Procs |-> <<>>]
    /\ ip = [p \in Procs |-> None] /\ dp = [p \in Procs |-> None]
    /\ put = [p \in Procs |-> None] /\ freed = [p \in Procs |-> FALSE]

-----------------------------------------------------------------------------
(* kernel/fs.c                                                             *)

GoTo(p, label) == pc' = [pc EXCEPT ![p] = label]

\* The call is over; its locals mean nothing any more.
Return(p) ==
    /\ GoTo(p, "idle")
    /\ call' = [call EXCEPT ![p] = NoCall] /\ path' = [path EXCEPT ![p] = <<>>]
    /\ ip' = [ip EXCEPT ![p] = None] /\ dp' = [dp EXCEPT ![p] = None]

\* iget(): the counts with one more reference to i, and the entries that are
\* still valid (a recycled one is not).
Iget(i) == [ref EXCEPT ![i] = @ + 1]
StillValid(i) == [valid EXCEPT ![i] = @ /\ ref[i] > 0]

\* p calls iput(i), with the lock of i released if it had it.
Iput(p, i) == put' = [put EXCEPT ![p] = i] /\ UNCHANGED freed

\* An iput() that frees whatever has no links.
FreesMutant(i) == valid[i] /\ nlink[i] = 0

\* An iput() that looks for the last reference after it has dropped its own.
FreesLateMutant(i) == ref[i] = 0 /\ valid[i] /\ nlink[i] = 0

\* iput() frees an inode with its last reference if it has no links.
Frees(i) == ref[i] = 1 /\ valid[i] /\ nlink[i] = 0

\* itrunc(), type 0 and valid = 0, with ip->lock held; itable.lock is released
\* before and taken again after it, and meanwhile ref is what it was.
IputFree(p) ==
    /\ put[p] # None /\ ~ freed[p] /\ Frees(put[p]) /\ lock[put[p]] = Nobody
    /\ type' = [type EXCEPT ![put[p]] = "free"]
    /\ dent' = [dent EXCEPT ![put[p]] = NoNames]
    /\ dotdot' = [dotdot EXCEPT ![put[p]] = None]
    /\ valid' = [valid EXCEPT ![put[p]] = FALSE]
    /\ freed' = [freed EXCEPT ![p] = TRUE]
    /\ UNCHANGED <<nlink, ref, lock, cwd, file, pc, locals, put>>

\* ip->ref--
IputDrop(p) ==
    /\ put[p] # None /\ (freed[p] \/ ~ Frees(put[p]))
    /\ ref' = [ref EXCEPT ![put[p]] = @ - 1]
    /\ put' = [put EXCEPT ![p] = None] /\ freed' = [freed EXCEPT ![p] = FALSE]
    /\ UNCHANGED <<inode, valid, lock, cwd, file, pc, locals>>

\* ilock(i) reads the inode if the entry is not valid; it is then that it may
\* find "no type".
Unlocked(i) == lock[i] = Nobody
NoType(i) == ~ valid[i] /\ type[i] = "free"
Valid(i) == [valid EXCEPT ![i] = TRUE]

\* ilock(i) panics.
IlockPanics(p, i) ==
    /\ Unlocked(i) /\ NoType(i)
    /\ GoTo(p, "panic")
    /\ UNCHANGED <<inode, entry, lock, cwd, file, locals, iputs>>

dirlookup(d, n) == IF n = ".." THEN dotdot[d] ELSE dent[d][n]

isdirempty(d) == dent[d] = NoNames

-----------------------------------------------------------------------------
(* namex(): namei() goes to the end of the path, nameiparent() stops one   *)
(* level early.                                                            *)

WantsParent(p) == call[p].op \in {"creat", "mkdir", "unlink"} \/ pc[p] = "walk_to"

Start(p, c) ==
    /\ pc[p] = "idle" /\ (c.op \in {"open", "creat"} => file[p] = None)
    /\ LET i == IF c.abs THEN Root ELSE cwd[p]
       IN /\ ip' = [ip EXCEPT ![p] = i]
          /\ ref' = Iget(i) /\ valid' = StillValid(i)
    /\ call' = [call EXCEPT ![p] = c] /\ path' = [path EXCEPT ![p] = c.path]
    /\ GoTo(p, "walk")
    /\ UNCHANGED <<inode, lock, cwd, file, dp, iputs>>

\* The inode that p's look-up has reached: ip, or for link()'s second path dp.
Reached(p) == IF pc[p] = "walk_to" THEN dp[p] ELSE ip[p]

\* One round of the loop in namex(): lock, look up, unlock and put.
Walk(p) ==
    /\ pc[p] \in {"walk", "walk_to"}
    /\ path[p] # <<>> /\ ~ (WantsParent(p) /\ Len(path[p]) = 1)
    /\ LET i == Reached(p)
           next == dirlookup(i, Head(path[p]))
           found == type[i] = "T_DIR" /\ next # None
       IN \/ IlockPanics(p, i)
          \/ /\ Unlocked(i) /\ ~ NoType(i) /\ found
             /\ ref' = Iget(next) /\ valid' = [Valid(i) EXCEPT ![next] = @ /\ ref[next] > 0]
             /\ Iput(p, i)
             /\ IF pc[p] = "walk_to"
                THEN dp' = [dp EXCEPT ![p] = next] /\ UNCHANGED ip
                ELSE ip' = [ip EXCEPT ![p] = next] /\ UNCHANGED dp
             /\ path' = [path EXCEPT ![p] = Tail(@)]
             /\ UNCHANGED <<inode, lock, cwd, file, pc, call>>
          \/ /\ Unlocked(i) /\ ~ NoType(i) /\ ~ found
             /\ valid' = Valid(i) /\ Iput(p, i)
             /\ IF pc[p] = "walk_to" THEN GoTo(p, "link_bad") /\ UNCHANGED locals ELSE Return(p)
             /\ UNCHANGED <<inode, ref, lock, cwd, file>>

\* nameiparent() returns: the directory is locked to see that it is one, and
\* unlocked again.
WalkParent(p) ==
    /\ pc[p] \in {"walk", "walk_to"} /\ WantsParent(p) /\ Len(path[p]) = 1
    /\ LET i == Reached(p)
       IN \/ IlockPanics(p, i)
          \/ /\ Unlocked(i) /\ ~ NoType(i) /\ type[i] = "T_DIR"
             /\ valid' = Valid(i)
             /\ dp' = [dp EXCEPT ![p] = i]
             /\ GoTo(p, IF pc[p] = "walk_to" THEN "link_parent" ELSE "parent")
             /\ UNCHANGED <<inode, ref, lock, cwd, file, call, path, ip, iputs>>
          \/ /\ Unlocked(i) /\ ~ NoType(i) /\ type[i] # "T_DIR"
             /\ valid' = Valid(i) /\ Iput(p, i)
             /\ IF pc[p] = "walk_to" THEN GoTo(p, "link_bad") /\ UNCHANGED locals ELSE Return(p)
             /\ UNCHANGED <<inode, ref, lock, cwd, file>>

-----------------------------------------------------------------------------
(* open(), close() and chdir()                                             *)

AtEnd(p, op) == pc[p] = "walk" /\ path[p] = <<>> /\ call[p].op = op

\* The rest of sys_open(), with ip locked: p has the file open, or files or
\* descriptors have run out, and iunlockput(ip).
Opened(p, ok) ==
    IF ok THEN file' = [file EXCEPT ![p] = ip[p]] /\ UNCHANGED iputs
          ELSE Iput(p, ip[p]) /\ UNCHANGED file

sys_open(p, ok) ==
    /\ AtEnd(p, "open")
    /\ \/ IlockPanics(p, ip[p])
       \/ /\ Unlocked(ip[p]) /\ ~ NoType(ip[p])
          /\ valid' = Valid(ip[p])
          /\ Opened(p, ok)
          /\ Return(p)
          /\ UNCHANGED <<inode, ref, lock, cwd>>

\* fileclose(): the last thing it does is iput().
sys_close(p) ==
    /\ pc[p] = "idle" /\ file[p] # None
    /\ Iput(p, file[p])
    /\ file' = [file EXCEPT ![p] = None]
    /\ UNCHANGED <<inode, entry, lock, cwd, pc, locals>>

\* The new directory is seen to be one, and unlocked; iput() of the old one.
sys_chdir(p) ==
    /\ AtEnd(p, "chdir")
    /\ \/ IlockPanics(p, ip[p])
       \/ /\ Unlocked(ip[p]) /\ ~ NoType(ip[p]) /\ type[ip[p]] = "T_DIR"
          /\ valid' = Valid(ip[p])
          /\ Iput(p, cwd[p])
          /\ cwd' = [cwd EXCEPT ![p] = ip[p]]
          /\ Return(p)
          /\ UNCHANGED <<inode, ref, lock, file>>
       \/ /\ Unlocked(ip[p]) /\ ~ NoType(ip[p]) /\ type[ip[p]] # "T_DIR"
          /\ valid' = Valid(ip[p])
          /\ Iput(p, ip[p])
          /\ Return(p)
          /\ UNCHANGED <<inode, ref, lock, cwd, file>>

-----------------------------------------------------------------------------
(* create(), for open(O_CREATE) and mkdir()                                *)

Name(p) == path[p][1]
NewType(p) == IF call[p].op = "mkdir" THEN "T_DIR" ELSE "T_FILE"

\* ilock(dp), by create() and unlink()
ParentLock(p) ==
    /\ pc[p] = "parent"
    /\ \/ IlockPanics(p, dp[p])
       \/ /\ Unlocked(dp[p]) /\ ~ NoType(dp[p])
          /\ lock' = [lock EXCEPT ![dp[p]] = p] /\ valid' = Valid(dp[p])
          /\ GoTo(p, call[p].op)
          /\ UNCHANGED <<inode, ref, cwd, file, locals, iputs>>

\* iunlockput(dp)
PutParent(p) ==
    /\ lock' = [lock EXCEPT ![dp[p]] = Nobody]
    /\ Iput(p, dp[p])

\* The name exists.
CreateExists(p) ==
    /\ pc[p] \in {"creat", "mkdir"}
    /\ LET i == dirlookup(dp[p], Name(p))
       IN /\ i # None
          /\ ref' = Iget(i) /\ valid' = StillValid(i)
          /\ ip' = [ip EXCEPT ![p] = i]
    /\ PutParent(p)
    /\ GoTo(p, "create_found")
    /\ UNCHANGED <<inode, cwd, file, call, path, dp>>

\* It is returned if it is a file and a file is wanted, to sys_open().
CreateFound(p, ok) ==
    /\ pc[p] = "create_found"
    /\ \/ IlockPanics(p, ip[p])
       \/ /\ Unlocked(ip[p]) /\ ~ NoType(ip[p])
          /\ valid' = Valid(ip[p])
          /\ Opened(p, ok /\ NewType(p) = "T_FILE" /\ type[ip[p]] = "T_FILE")
          /\ Return(p)
          /\ UNCHANGED <<inode, ref, lock, cwd>>

FreeInums == {i \in Inums : type[i] = "free"}

\* ialloc() finds no inode.
CreateFull(p) ==
    /\ pc[p] \in {"creat", "mkdir"} /\ dirlookup(dp[p], Name(p)) = None
    /\ FreeInums = {}
    /\ PutParent(p)
    /\ Return(p)
    /\ UNCHANGED <<inode, entry, cwd, file>>

\* ialloc() takes the first free inode, and dirlink() enters ".." in it and its
\* name in the parent, where a ".." counts as a link.  If a dirlink() fails,
\* because the disk is full, nlink is set to 0.
CreateNew(p, ok) ==
    /\ pc[p] \in {"creat", "mkdir"} /\ dirlookup(dp[p], Name(p)) = None
    /\ FreeInums # {}
    /\ LET i == CHOOSE x \in FreeInums : \A y \in FreeInums : x <= y
       IN /\ Unlocked(i) /\ lock' = [lock EXCEPT ![i] = p]
          /\ ref' = Iget(i) /\ valid' = Valid(i)
          /\ type' = [type EXCEPT ![i] = NewType(p)]
          /\ dotdot' = [dotdot EXCEPT ![i] = IF NewType(p) = "T_DIR" THEN dp[p] ELSE None]
          /\ ip' = [ip EXCEPT ![p] = i]
          /\ nlink' = [nlink EXCEPT ![i] = IF ok THEN 1 ELSE 0,
                                    ![dp[p]] = IF ok /\ NewType(p) = "T_DIR" THEN @ + 1 ELSE @]
          /\ dent' = IF ok THEN [dent EXCEPT ![dp[p]][Name(p)] = i] ELSE dent
    /\ GoTo(p, IF ok THEN "create_put" ELSE "create_fail")
    /\ UNCHANGED <<cwd, file, call, path, dp, iputs>>

\* iunlockput(dp), after the new inode is in place.
CreatePut(p) ==
    /\ pc[p] = "create_put"
    /\ PutParent(p)
    /\ GoTo(p, "created")
    /\ UNCHANGED <<inode, entry, cwd, file, locals>>

\* sys_open() goes on with the new inode; mkdir() puts it.
Created(p, ok) ==
    /\ pc[p] = "created"
    /\ lock' = [lock EXCEPT ![ip[p]] = Nobody]
    /\ Opened(p, ok /\ call[p].op = "creat")
    /\ Return(p)
    /\ UNCHANGED <<inode, entry, cwd>>

\* iunlockput(ip) gives the new inode back,
CreateFail(p) ==
    /\ pc[p] = "create_fail"
    /\ lock' = [lock EXCEPT ![ip[p]] = Nobody]
    /\ Iput(p, ip[p])
    /\ GoTo(p, "bad")
    /\ UNCHANGED <<inode, entry, cwd, file, locals>>

\* ... and iunlockput(dp) ends a create() or unlink() that failed.
Bad(p) ==
    /\ pc[p] = "bad"
    /\ PutParent(p)
    /\ Return(p)
    /\ UNCHANGED <<inode, entry, cwd, file>>

-----------------------------------------------------------------------------
(* sys_unlink()                                                            *)

\* dp is locked.  Look the name up; "." and ".." cannot be unlinked.
UnlinkLookup(p) ==
    /\ pc[p] = "unlink"
    /\ LET i == IF Name(p) = ".." THEN None ELSE dirlookup(dp[p], Name(p))
       IN IF i = None
          THEN GoTo(p, "bad") /\ UNCHANGED <<ip, entry>>
          ELSE /\ ip' = [ip EXCEPT ![p] = i]
               /\ ref' = Iget(i) /\ valid' = StillValid(i)
               /\ GoTo(p, "unlink_ip")
    /\ UNCHANGED <<inode, lock, cwd, file, call, path, dp, iputs>>

\* ilock(ip).  A directory that is not empty stays; else the entry is cleared.
UnlinkEntry(p) ==
    /\ pc[p] = "unlink_ip"
    /\ LET i == ip[p]  isdir == type[ip[p]] = "T_DIR"
       IN \/ IlockPanics(p, i)
          \/ /\ Unlocked(i) /\ ~ NoType(i) /\ nlink[i] < 1
             /\ GoTo(p, "panic")
             /\ UNCHANGED <<inode, entry, lock, iputs>>
          \/ /\ Unlocked(i) /\ ~ NoType(i) /\ nlink[i] >= 1 /\ isdir /\ ~ isdirempty(i)
             /\ valid' = Valid(i) /\ Iput(p, i)
             /\ GoTo(p, "bad")
             /\ UNCHANGED <<inode, ref, lock>>
          \/ /\ Unlocked(i) /\ ~ NoType(i) /\ nlink[i] >= 1 /\ (isdir => isdirempty(i))
             /\ lock' = [lock EXCEPT ![i] = p] /\ valid' = Valid(i)
             /\ dent' = [dent EXCEPT ![dp[p]][Name(p)] = None]
             /\ nlink' = [nlink EXCEPT ![dp[p]] = IF isdir THEN @ - 1 ELSE @]
             /\ GoTo(p, "unlink_put")
             /\ UNCHANGED <<type, dotdot, ref, iputs>>
    /\ UNCHANGED <<cwd, file, locals>>

\* iunlockput(dp)
UnlinkPut(p) ==
    /\ pc[p] = "unlink_put"
    /\ PutParent(p)
    /\ GoTo(p, "unlinked")
    /\ UNCHANGED <<inode, entry, cwd, file, locals>>

\* ip->nlink--, and
UnlinkCount(p) ==
    /\ pc[p] = "unlinked"
    /\ nlink' = [nlink EXCEPT ![ip[p]] = @ - 1]
    /\ GoTo(p, "put_ip")
    /\ UNCHANGED <<type, dent, dotdot, entry, lock, cwd, file, locals, iputs>>

\* iunlockput(ip), which ends unlink() and a link() that failed.
PutIp(p) ==
    /\ pc[p] = "put_ip"
    /\ lock' = [lock EXCEPT ![ip[p]] = Nobody]
    /\ Iput(p, ip[p])
    /\ Return(p)
    /\ UNCHANGED <<inode, entry, cwd, file>>

-----------------------------------------------------------------------------
(* sys_link()                                                              *)

\* The file to link: not a directory.  Its nlink is incremented, and the look-up
\* of the second path starts.
sys_link(p) ==
    /\ AtEnd(p, "link")
    /\ \/ IlockPanics(p, ip[p])
       \/ /\ Unlocked(ip[p]) /\ ~ NoType(ip[p]) /\ type[ip[p]] = "T_DIR"
          /\ valid' = Valid(ip[p])
          /\ Iput(p, ip[p])
          /\ Return(p)
          /\ UNCHANGED <<inode, ref, lock, cwd, file>>
       \/ /\ Unlocked(ip[p]) /\ ~ NoType(ip[p]) /\ type[ip[p]] # "T_DIR"
          /\ nlink' = [nlink EXCEPT ![ip[p]] = @ + 1]
          /\ LET d == IF call[p].abs THEN Root ELSE cwd[p]
             IN /\ dp' = [dp EXCEPT ![p] = d]
                /\ ref' = Iget(d) /\ valid' = [StillValid(d) EXCEPT ![ip[p]] = TRUE]
          /\ path' = [path EXCEPT ![p] = call[p].to]
          /\ GoTo(p, "walk_to")
          /\ UNCHANGED <<type, dent, dotdot, lock, cwd, file, call, ip, iputs>>

\* ilock(dp), dirlink() and iunlockput(dp).  dirlink() fails if the name exists
\* or the disk is full.
LinkEntry(p) ==
    /\ pc[p] = "link_parent"
    /\ \/ IlockPanics(p, dp[p])
       \/ /\ Unlocked(dp[p]) /\ ~ NoType(dp[p])
          /\ valid' = Valid(dp[p])
          /\ Iput(p, dp[p])
          /\ GoTo(p, "link_bad")
          /\ UNCHANGED <<inode, ref, lock, cwd, file, locals>>
       \/ /\ Unlocked(dp[p]) /\ ~ NoType(dp[p]) /\ dirlookup(dp[p], Name(p)) = None
          /\ lock' = [lock EXCEPT ![dp[p]] = p] /\ valid' = Valid(dp[p])
          /\ dent' = [dent EXCEPT ![dp[p]][Name(p)] = ip[p]]
          /\ GoTo(p, "link_put_dp")
          /\ UNCHANGED <<type, nlink, dotdot, ref, cwd, file, locals, iputs>>

\* iunlockput(dp), and
LinkPutParent(p) ==
    /\ pc[p] = "link_put_dp"
    /\ PutParent(p)
    /\ GoTo(p, "link_put")
    /\ UNCHANGED <<inode, entry, cwd, file, locals>>

\* iput(ip).
LinkPut(p) ==
    /\ pc[p] = "link_put"
    /\ Iput(p, ip[p])
    /\ Return(p)
    /\ UNCHANGED <<inode, entry, lock, cwd, file>>

\* bad: ilock(ip), ip->nlink--, and iunlockput(ip).
LinkBad(p) ==
    /\ pc[p] = "link_bad" /\ Unlocked(ip[p])
    /\ lock' = [lock EXCEPT ![ip[p]] = p]
    /\ nlink' = [nlink EXCEPT ![ip[p]] = @ - 1]
    /\ GoTo(p, "put_ip")
    /\ UNCHANGED <<type, dent, dotdot, entry, cwd, file, locals, iputs>>

-----------------------------------------------------------------------------
\* A step of a system call of p, outside iput().
Step(p) ==
    \/ \E c \in calls : Start(p, c)
    \/ Walk(p) \/ WalkParent(p) \/ sys_close(p) \/ sys_chdir(p)
    \/ \E ok \in BOOLEAN : sys_open(p, ok) \/ CreateFound(p, ok) \/ CreateNew(p, ok) \/ Created(p, ok)
    \/ ParentLock(p) \/ CreateExists(p) \/ CreateFull(p)
    \/ CreatePut(p) \/ CreateFail(p) \/ Bad(p)
    \/ UnlinkLookup(p) \/ UnlinkEntry(p) \/ UnlinkPut(p) \/ UnlinkCount(p) \/ PutIp(p)
    \/ sys_link(p) \/ LinkEntry(p) \/ LinkPutParent(p) \/ LinkPut(p) \/ LinkBad(p)

Next ==
    /\ UNCHANGED calls
    /\ \E p \in Procs :
        \/ put[p] = None /\ Step(p)
        \/ IputFree(p) \/ IputDrop(p)

Spec == Init /\ [][Next]_vars

-----------------------------------------------------------------------------
(* Properties.                                                             *)

\* No panic of ilock(), "no type", or of unlink(), "nlink < 1": no look-up ever
\* reaches an inode that was freed.
NoPanic == \A p \in Procs : pc[p] # "panic"

\* The links to inode i: its names, and the ".." of the directories in it.  The
\* root has one from nowhere.
Links(i) ==
    (IF i = Root THEN 1 ELSE 0)
    + Cardinality({x \in Inums \X FileNames : dent[x[1]][x[2]] = i})
    + Cardinality({d \in Inums \ {Root} : dotdot[d] = i /\ nlink[d] > 0})

\* No system call is under way.
Quiet == \A p \in Procs : pc[p] = "idle" /\ put[p] = None

\* "the number of links referring to it" (fs.c line 102): when no call is under
\* way nlink counts the directory entries that refer to the inode.
LinksExact == Quiet => \A i \in Inums : type[i] # "free" => nlink[i] = Links(i)

\* "ip->ref tracks the number of in-memory pointers to the entry (open files and
\* current directories)" (fs.c line 124): exactly those when no call is under way.
RefsExact ==
    Quiet => \A i \in Inums :
        ref[i] = Cardinality({p \in Procs : cwd[p] = i})
                 + Cardinality({p \in Procs : file[p] = i})

\* "ip->ref == 1 means no other process can have ip locked, so this
\* acquire_sleep() won't block (or deadlock)" (fs.c line 319): it would sleep with
\* itable.lock held.
IputNeverBlocks ==
    \A p \in Procs : put[p] # None /\ ~ freed[p] /\ Frees(put[p]) => lock[put[p]] = Nobody

\* An inode that somebody has open keeps its contents: it is neither freed nor
\* given to another file.
OpenKept == \A p \in Procs : file[p] # None => type[file[p]] # "free"

\* Counts of links and references are exact, and no system call ever meets an inode
\* that was freed under it, however the calls of several processes meet.  Of programs
\* that remove the parent of a directory in use, or create names in a directory that
\* is being removed, this is not true (README, section 6).
NamesInv == TypeOK /\ NoPanic /\ OpenKept /\ LinksExact /\ RefsExact /\ IputNeverBlocks

\* "iput() frees if the reference and link counts have fallen to zero" (fs.c line
\* 119): when no call is under way, an inode is allocated exactly if it has a link
\* or a reference.  Not true of this code, because iput() frees first and drops its
\* reference later, under no lock in between (README, section 6).
FreedWhenUnused ==
    Quiet => \A i \in Inums : type[i] = "free" <=> nlink[i] = 0 /\ ref[i] = 0

\* An inode that nobody can reach or free any more.
Lost(i) == type[i] # "free" /\ nlink[i] = 0 /\ ref[i] = 0

\* What is true of iput(): whoever drops the last reference to an inode without
\* links frees it.  The one exception is an iput() that has freed the inode already,
\* if ialloc() has given it to a new file before ref-- (fs.c lines 330 to 335).
LostOnlyAfterFree ==
    [][NoPanic => \A i \in Inums :
          Lost(i)' => Lost(i) \/ \E p \in Procs : put[p] = i /\ freed[p]]_vars
=============================================================================
