------------------------------- MODULE Printk -------------------------------
(***************************************************************************)
(* Kernel output: printk() and panic() of kernel/printk/printk.c and the   *)
(* ring buffer of kernel/printk/ring_buffer.c that each printk() has on    *)
(* its stack.                                                              *)
(*                                                                         *)
(* What vsprintf() does is to put some number of bytes into the ring; the  *)
(* bytes of a message are numbered from 1.  pr.lock keeps threads apart    *)
(* until one of them panics and turns locking off.  Module Serial says     *)
(* what out_func, console_putchar(), does with a byte.                     *)
(***************************************************************************)
EXTENDS Integers, Sequences

CONSTANTS
    Threads,    \* that print, each on a hart
    Nobody,     \* pr.lock is free
    Capacity,   \* MAX_RING_BUF_SIZE
    Lengths,    \* bytes in a message
    MayPanic    \* threads that may call panic()

\* What the constants have to be.
PrintkAssumption ==
    /\ Nobody \notin Threads
    /\ Capacity \in Nat /\ Capacity >= 4
    /\ Lengths \subseteq Nat
    /\ MayPanic \subseteq Threads

VARIABLES
    head, tail, full, buffer,   \* the ring of each thread's current printk()
    quota,      \* quota[h]: len of its ring_buf_flush_part()
    len,        \* len[h]: length of the message h prints
    nput,       \* nput[h]: bytes of it put into the ring
    line,       \* line[h]: bytes of it that out_func has sent, in order
    pc,         \* pc[h]: where h is in printk()
    locking,    \* pr.locking
    holds,      \* holds[h]: the local locking of h's printk()
    lock,       \* who holds pr.lock
    left,       \* left[h]: printk()s that h's panic() has left, 0: no panic
    panicked

ringVars == <<head, tail, full, buffer, quota>>
printkVars == <<ringVars, len, nput, line, pc, locking, holds, lock, left, panicked>>

Slots == 0..Capacity - 1
PCs == {"idle", "acquire", "put", "part", "release", "done", "halt"}

PrintkTypeOK ==
    /\ head \in [Threads -> Slots] /\ tail \in [Threads -> Slots]
    /\ full \in [Threads -> BOOLEAN]
    /\ buffer \in [Threads -> [Slots -> Nat]] /\ quota \in [Threads -> Nat]
    /\ len \in [Threads -> Nat] /\ nput \in [Threads -> Nat]
    /\ line \in [Threads -> Seq(Nat)]
    /\ pc \in [Threads -> PCs]
    /\ locking \in BOOLEAN /\ panicked \in BOOLEAN
    /\ holds \in [Threads -> BOOLEAN]
    /\ lock \in Threads \cup {Nobody}
    /\ left \in [Threads -> 0..3]

\* printk_init()
PrintkInit ==
    /\ head = [h \in Threads |-> 0] /\ tail = [h \in Threads |-> 0]
    /\ full = [h \in Threads |-> FALSE]
    /\ buffer = [h \in Threads |-> [i \in Slots |-> 0]]
    /\ quota = [h \in Threads |-> 0]
    /\ len = [h \in Threads |-> 0] /\ nput = [h \in Threads |-> 0]
    /\ line = [h \in Threads |-> <<>>]
    /\ pc = [h \in Threads |-> "idle"]
    /\ locking = TRUE /\ panicked = FALSE
    /\ holds = [h \in Threads |-> FALSE]
    /\ lock = Nobody
    /\ left = [h \in Threads |-> 0]

-----------------------------------------------------------------------------
(* The ring buffer.                                                        *)

GoTo(h, label) == pc' = [pc EXCEPT ![h] = label]

\* ring_buf_size()
RingSize(h) ==
    IF tail[h] < head[h] THEN tail[h] + Capacity - head[h] ELSE tail[h] - head[h]

\* ring_buf_empty()
RingEmpty(h) == head[h] = tail[h] /\ ~ full[h]

\* ring_buf_full()
RingFull(h) == head[h] = tail[h] /\ full[h]

\* ring_buf_put() of the next k bytes of the message, while the ring has room.
\* The ring is on the thread's own stack, so nobody can tell them apart.
Put(h, k) ==
    LET end == (tail[h] + k) % Capacity
    IN  /\ buffer' = [buffer EXCEPT ![h] = [i \in Slots |->
                         LET d == (i - tail[h]) % Capacity
                         IN  IF d < k THEN nput[h] + 1 + d ELSE @[i]]]
        /\ nput' = [nput EXCEPT ![h] = @ + k]
        /\ tail' = [tail EXCEPT ![h] = end]
        /\ full' = [full EXCEPT ![h] = k > 0 /\ end = head[h]]

-----------------------------------------------------------------------------
(* printk() and panic()                                                    *)

\* printk() of n bytes: an empty ring, and pr.locking is read.
Start(h, n) ==
    /\ pc[h] = "idle"
    /\ len' = [len EXCEPT ![h] = n]
    /\ holds' = [holds EXCEPT ![h] = locking]
    /\ GoTo(h, IF locking THEN "acquire" ELSE "put")
    /\ UNCHANGED <<ringVars, nput, line, locking, lock, left, panicked>>

\* printk() that writes without waiting for the lock.
AcquireMutant(h) ==
    /\ pc[h] = "acquire"
    /\ lock' = h
    /\ GoTo(h, "put")
    /\ UNCHANGED <<ringVars, len, nput, line, locking, holds, left, panicked>>

Acquire(h) ==
    /\ pc[h] = "acquire" /\ lock = Nobody
    /\ lock' = h
    /\ GoTo(h, "put")
    /\ UNCHANGED <<ringVars, len, nput, line, locking, holds, left, panicked>>

\* vsprintf() puts bytes until the ring is full or the message ends.  A full
\* ring gives a quarter of its bytes away before it takes the next; when
\* vsprintf() is done, ring_buf_flush().
PutBytes(h) ==
    /\ pc[h] = "put" /\ ~ RingFull(h) /\ nput[h] < len[h]
    /\ \E k \in 1..len[h] - nput[h] :
          /\ k = Capacity - RingSize(h) \/ (k = len[h] - nput[h] /\ k < Capacity - RingSize(h))
          /\ Put(h, k)
    /\ UNCHANGED <<head, quota, len, line, pc, locking, holds, lock, left, panicked>>

FlushPart(h) ==
    /\ pc[h] = "put" /\ (nput[h] = len[h] \/ RingFull(h))
    /\ quota' = [quota EXCEPT ![h] = IF nput[h] < len[h] THEN Capacity \div 4 ELSE RingSize(h)]
    /\ GoTo(h, "part")
    /\ UNCHANGED <<head, tail, full, buffer, len, nput, line, locking, holds, lock, left,
                   panicked>>

\* A head that does not wrap where the ring does.
OutByteMutant(h) ==
    /\ pc[h] = "part" /\ ~ RingEmpty(h) /\ quota[h] > 0
    /\ line' = [line EXCEPT ![h] = Append(@, buffer[h][head[h]])]
    /\ head' = [head EXCEPT ![h] = (@ + 1) % (Capacity - 1)]
    /\ quota' = [quota EXCEPT ![h] = @ - 1]
    /\ UNCHANGED <<tail, full, buffer, len, nput, pc, locking, holds, lock, left, panicked>>

\* ring_buf_flush_part() takes a byte and calls out_func(), which sends it.
OutByte(h) ==
    /\ pc[h] = "part" /\ ~ RingEmpty(h) /\ quota[h] > 0
    /\ line' = [line EXCEPT ![h] = Append(@, buffer[h][head[h]])]
    /\ head' = [head EXCEPT ![h] = (@ + 1) % Capacity]
    /\ quota' = [quota EXCEPT ![h] = @ - 1]
    /\ UNCHANGED <<tail, full, buffer, len, nput, pc, locking, holds, lock, left, panicked>>

\* ring_buf_flush_part() returns, to ring_buf_put() or to the end of printk().
FlushEnd(h) ==
    /\ pc[h] = "part" /\ (RingEmpty(h) \/ quota[h] = 0)
    /\ IF nput[h] < len[h]
       THEN Put(h, 1) /\ GoTo(h, "put")
       ELSE /\ full' = [full EXCEPT ![h] = FALSE]
            /\ GoTo(h, "release")
            /\ UNCHANGED <<tail, buffer, nput>>
    /\ quota' = [quota EXCEPT ![h] = 0]
    /\ UNCHANGED <<head, len, line, locking, holds, lock, left, panicked>>

\* printk() returns; a panic() goes on to its next message or stops the hart.
Return(h) ==
    /\ pc[h] = "release"
    /\ lock' = IF holds[h] THEN Nobody ELSE lock
    /\ left' = [left EXCEPT ![h] = IF @ = 0 THEN 0 ELSE @ - 1]
    /\ IF left[h] = 1
       THEN GoTo(h, "halt") /\ panicked' = TRUE
       ELSE GoTo(h, "done") /\ UNCHANGED panicked
    /\ UNCHANGED <<ringVars, len, nput, line, locking, holds>>

\* The locals of a printk() that is over mean nothing any more; the next one
\* starts with ring_buf_init().
Forget(h) ==
    /\ head' = [head EXCEPT ![h] = 0] /\ tail' = [tail EXCEPT ![h] = 0]
    /\ full' = [full EXCEPT ![h] = FALSE]
    /\ buffer' = [buffer EXCEPT ![h] = [i \in Slots |-> 0]]
    /\ quota' = [quota EXCEPT ![h] = 0]
    /\ len' = [len EXCEPT ![h] = 0] /\ nput' = [nput EXCEPT ![h] = 0]
    /\ line' = [line EXCEPT ![h] = <<>>]
    /\ holds' = [holds EXCEPT ![h] = FALSE]
    /\ GoTo(h, "idle")

\* The thread goes on with other work.
Resume(h) ==
    /\ pc[h] = "done"
    /\ Forget(h)
    /\ UNCHANGED <<locking, lock, left, panicked>>

\* panic(): no more locking, then three printk()s.  A trap can make a thread
\* panic in the middle of a printk(), with pr.lock held.
Panic(h) ==
    /\ h \in MayPanic /\ pc[h] \in {"idle", "put"} /\ left[h] = 0
    /\ locking' = FALSE
    /\ left' = [left EXCEPT ![h] = 3]
    /\ Forget(h)
    /\ UNCHANGED <<lock, panicked>>

\* The steps of printk() between calls of out_func().
PrintkStep(h) == PutBytes(h) \/ FlushPart(h) \/ FlushEnd(h) \/ Return(h)
=============================================================================
