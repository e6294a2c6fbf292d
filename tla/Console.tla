------------------------------- MODULE Console -------------------------------
(***************************************************************************)
(* Console input: console_intr() and console_read() of kernel/console.c.   *)
(*                                                                         *)
(* console_intr() holds cons.lock from its start to its end and is one     *)
(* step.  console_read() holds it from iteration to iteration and gives it *)
(* up only to sleep; an iteration is a step, because kill() does not need  *)
(* cons.lock.  Characters are the classes that the code tells apart.       *)
(***************************************************************************)
EXTENDS Integers, Sequences

CONSTANTS
    Procs,              \* processes that read the console
    Nobody,             \* cons.lock is free
    Plain,              \* ordinary characters
    INPUT_BUF_SIZE,
    CntMod,             \* r, w and e are counted modulo CntMod (2^32)
    MaxN                \* longest read

Newline == "newline"
CtrlD == "^D"
Chars == Plain \cup {Newline, CtrlD}

ASSUME ConsoleAssumption ==
    /\ Nobody \notin Procs /\ Plain \cap {Newline, CtrlD} = {}
    /\ INPUT_BUF_SIZE \in Nat \ {0} /\ MaxN \in Nat
    /\ CntMod \in Nat /\ CntMod > INPUT_BUF_SIZE /\ CntMod % INPUT_BUF_SIZE = 0

VARIABLES
    buf, r, w, e,       \* cons
    lock,               \* who holds cons.lock
    pc,                 \* pc[p]: where p is
    left,               \* left[p]: n of p's console_read()
    fresh,              \* fresh[p]: n == target, nothing was copied yet
    killed              \* killed[p]: p->killed

cons == <<buf, r, w, e>>
vars == <<cons, lock, pc, left, fresh, killed>>

TypeOK ==
    /\ buf \in [0..INPUT_BUF_SIZE - 1 -> Chars]
    /\ {r, w, e} \subseteq 0..CntMod - 1
    /\ lock \in Procs \cup {Nobody}
    /\ pc \in [Procs -> {"idle", "read", "loop", "empty", "asleep"}]
    /\ left \in [Procs -> 0..MaxN]
    /\ fresh \in [Procs -> BOOLEAN]
    /\ killed \in [Procs -> BOOLEAN]

\* console_init(); cons is zero, which stands for any character.
Init ==
    /\ buf = [k \in 0..INPUT_BUF_SIZE - 1 |-> CtrlD]
    /\ r = 0 /\ w = 0 /\ e = 0
    /\ lock = Nobody
    /\ pc = [p \in Procs |-> "idle"]
    /\ left = [p \in Procs |-> 0]
    /\ fresh = [p \in Procs |-> TRUE]
    /\ killed = [p \in Procs |-> FALSE]

-----------------------------------------------------------------------------
(* console_intr()                                                          *)

Distance(from, to) == (to - from) % CntMod
At(k) == buf[k % INPUT_BUF_SIZE]

WakeAll == pc' = [p \in Procs |-> IF pc[p] = "asleep" THEN "read" ELSE pc[p]]

\* A line that is complete only when it ends.
CompletesMutant(c, k) == c \in {Newline, CtrlD}

\* A line is handed over when it ends, or when the buffer is full at edit
\* index k.
Completes(c, k) == c \in {Newline, CtrlD} \/ Distance(r, k) = INPUT_BUF_SIZE

\* A handler that does not wake the readers.
TypedQuietMutant(c) ==
    /\ lock = Nobody
    /\ Distance(r, e) < INPUT_BUF_SIZE
    /\ buf' = [buf EXCEPT ![e % INPUT_BUF_SIZE] = c]
    /\ e' = (e + 1) % CntMod
    /\ w' = IF Completes(c, e') THEN e' ELSE w
    /\ UNCHANGED <<r, lock, pc, left, fresh, killed>>

\* The default case.  A character for which there is no room is dropped.
Typed(c) ==
    /\ lock = Nobody
    /\ Distance(r, e) < INPUT_BUF_SIZE
    /\ buf' = [buf EXCEPT ![e % INPUT_BUF_SIZE] = c]
    /\ e' = (e + 1) % CntMod
    /\ IF Completes(c, e')
       THEN w' = e' /\ WakeAll
       ELSE UNCHANGED <<w, pc>>
    /\ UNCHANGED <<r, lock, left, fresh, killed>>

\* A backspace that compares the edit index with the read index.
BackspaceMutant ==
    /\ lock = Nobody
    /\ e # r
    /\ e' = (e - 1) % CntMod
    /\ UNCHANGED <<buf, r, w, lock, pc, left, fresh, killed>>

\* C('H') and '\x7f'
Backspace ==
    /\ lock = Nobody
    /\ e # w
    /\ e' = (e - 1) % CntMod
    /\ UNCHANGED <<buf, r, w, lock, pc, left, fresh, killed>>

\* C('U'): back to the last index that follows a newline, or to w.
KillLine ==
    /\ lock = Nobody
    /\ LET stops == {d \in 0..Distance(w, e) :
                        d = Distance(w, e) \/ At((e - d - 1) % CntMod) = Newline}
           back == CHOOSE d \in stops : \A x \in stops : d <= x
       IN e' = (e - back) % CntMod
    /\ UNCHANGED <<buf, r, w, lock, pc, left, fresh, killed>>

Intr == Backspace \/ KillLine \/ \E c \in Chars : Typed(c)

-----------------------------------------------------------------------------
(* console_read()                                                          *)

CallRead(p, m) ==
    /\ pc[p] = "idle" /\ ~ killed[p]
    /\ pc' = [pc EXCEPT ![p] = "read"]
    /\ left' = [left EXCEPT ![p] = m] /\ fresh' = [fresh EXCEPT ![p] = TRUE]
    /\ UNCHANGED <<cons, lock, killed>>

\* acquire(&cons.lock), at the start or when sleep() returns.
Lock(p) ==
    /\ pc[p] = "read" /\ lock = Nobody
    /\ lock' = p
    /\ pc' = [pc EXCEPT ![p] = "loop"]
    /\ UNCHANGED <<cons, left, fresh, killed>>

\* release(&cons.lock) and return.
Return(p) ==
    /\ lock' = Nobody
    /\ pc' = [pc EXCEPT ![p] = "idle"]
    /\ left' = [left EXCEPT ![p] = 0] /\ fresh' = [fresh EXCEPT ![p] = TRUE]

\* Nothing to read: return -1 if killed, else go to sleep.
Wait(p) ==
    /\ pc[p] = "loop" /\ left[p] > 0 /\ r = w
    /\ IF killed[p]
       THEN Return(p)
       ELSE pc' = [pc EXCEPT ![p] = "empty"] /\ UNCHANGED <<lock, left, fresh>>
    /\ UNCHANGED <<cons, killed>>

\* sleep(&cons.r, &cons.lock)
Sleep(p) ==
    /\ pc[p] = "empty"
    /\ lock' = Nobody
    /\ pc' = [pc EXCEPT ![p] = "asleep"]
    /\ UNCHANGED <<cons, left, fresh, killed>>

\* A ^D ends the read; it is left for the next one unless it comes first.
TakeEof(p) ==
    /\ pc[p] = "loop" /\ left[p] > 0 /\ r # w /\ At(r) = CtrlD
    /\ r' = IF fresh[p] THEN (r + 1) % CntMod ELSE r
    /\ Return(p)
    /\ UNCHANGED <<buf, w, e, killed>>

\* Another character; a newline ends the read, and so does a copy that fails.
Take(p, copied) ==
    /\ pc[p] = "loop" /\ left[p] > 0 /\ r # w /\ At(r) # CtrlD
    /\ r' = (r + 1) % CntMod
    /\ IF copied /\ At(r) # Newline
       THEN /\ left' = [left EXCEPT ![p] = @ - 1]
            /\ fresh' = [fresh EXCEPT ![p] = FALSE]
            /\ UNCHANGED <<lock, pc>>
       ELSE Return(p)
    /\ UNCHANGED <<buf, w, e, killed>>

\* n is 0.
Done(p) ==
    /\ pc[p] = "loop" /\ left[p] = 0
    /\ Return(p)
    /\ UNCHANGED <<cons, killed>>

\* kill(): wakes the victim if it sleeps.
Kill(p) ==
    /\ ~ killed[p] /\ pc[p] # "idle"
    /\ killed' = [killed EXCEPT ![p] = TRUE]
    /\ pc' = [pc EXCEPT ![p] = IF @ = "asleep" THEN "read" ELSE @]
    /\ UNCHANGED <<cons, lock, left, fresh>>

-----------------------------------------------------------------------------
Advance(p) ==
    \/ Wait(p) \/ Sleep(p) \/ TakeEof(p) \/ Done(p)
    \/ \E copied \in BOOLEAN : Take(p, copied)

Next ==
    \/ Intr
    \/ \E p \in Procs :
          \/ \E m \in 0..MaxN : CallRead(p, m)
          \/ Lock(p) \/ Advance(p) \/ Kill(p)

Spec == Init /\ [][Next]_vars

\* A process in the kernel goes on and gets cons.lock in the end; nothing is
\* assumed of what is typed.
LiveSpec ==
    Spec /\ \A p \in Procs : WF_vars(Advance(p)) /\ SF_vars(Lock(p))

-----------------------------------------------------------------------------
(* Properties.                                                             *)

\* The part of the ring from index a on.
Part(a, len) == [k \in 1..len |-> At((a + k - 1) % CntMod)]

\* A line being typed, and a queue of complete lines
Abs == INSTANCE LineInput
    WITH Ends <- {Newline, CtrlD}, Size <- INPUT_BUF_SIZE,
         line <- Part(w, Distance(w, e)), ready <- Part(r, Distance(r, w))

\* A full buffer can be read: typing until nothing more fits cannot wedge the
\* console, with every key dropped and every reader waiting for a newline.
FullIsReadable == Distance(r, e) = INPUT_BUF_SIZE => w = e

\* "Save ^D for next time, to make sure caller gets a 0-byte result" (line
\* 107): a ^D leaves the buffer only in a read that has copied nothing.
EofGivesEmptyRead ==
    [][\A p \in Procs : lock = p /\ r' # r /\ At(r) = CtrlD => fresh[p]]_vars

\* The ring with its three wrapping indices is a line being typed and a queue
\* of complete lines: editing never reaches a line that was handed over, no
\* character is lost, repeated or overtaken, and a ^D gives an empty read.
RefinesLineInput == Abs!Spec /\ EofGivesEmptyRead

\* A reader in the kernel returns once there is a complete line, unless other
\* readers take it.
ReadReturns ==
    \A p \in Procs : pc[p] # "idle" /\ r # w ~> pc[p] = "idle" \/ r = w

\* On the ring w lies between r and e, and e less than a turn ahead of r, or just one:
\* nothing that was typed overwrites what is to be read, and nothing erased takes e
\* back behind w.
InOrder == Distance(r, w) + Distance(w, e) <= INPUT_BUF_SIZE

\* The three indices stay in order, however they wrap, and the buffer never fills up
\* unreadably.
ConsoleInv == TypeOK /\ InOrder /\ FullIsReadable
=============================================================================
