------------------------------- MODULE TxDisk -------------------------------
(***************************************************************************)
(* What the log of kernel/log.c promises to the file system: a set of      *)
(* blocks with a current and a durable version.  File-system operations    *)
(* update the current version; the durable version only ever becomes a     *)
(* copy of it, in one step, at a moment when no operation is under way     *)
(* ("The logging system only commits when there are no FS system calls     *)
(* active", log.c line 13).  A crash throws the current version away.      *)
(***************************************************************************)
CONSTANTS Ops, Blocks, Vals, InitVal

VARIABLES
    cur,        \* cur[b]: what the file system reads in block b
    durable,    \* durable[b]: what it would read after a crash
    active      \* the operations under way

vars == <<cur, durable, active>>

Init ==
    /\ durable = [b \in Blocks |-> InitVal]
    /\ cur = durable
    /\ active = {}

Begin(o) ==
    /\ o \notin active
    /\ active' = active \cup {o}
    /\ UNCHANGED <<cur, durable>>

Write(o, b, v) ==
    /\ o \in active
    /\ cur' = [cur EXCEPT ![b] = v]
    /\ UNCHANGED <<durable, active>>

End(o) ==
    /\ o \in active
    /\ active' = active \ {o}
    /\ UNCHANGED <<cur, durable>>

Commit ==
    /\ active = {}
    /\ durable' = cur
    /\ UNCHANGED <<cur, active>>

Crash ==
    /\ cur' = durable
    /\ active' = {}
    /\ UNCHANGED durable

Next ==
    \/ \E o \in Ops : Begin(o) \/ End(o) \/ \E b \in Blocks, v \in Vals : Write(o, b, v)
    \/ Commit
    \/ Crash

Spec == Init /\ [][Next]_vars
=============================================================================
