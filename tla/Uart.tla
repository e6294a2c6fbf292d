-------------------------------- MODULE Uart --------------------------------
(***************************************************************************)
(* Console output through kernel/uart.c: uartputc() for write(), and       *)
(* uartputc_sync() for echo and kernel messages, which takes no lock.      *)
(*                                                                         *)
(* The UART is a 16550 with its FIFOs enabled (uartinit): LSR_TX_IDLE says *)
(* that the transmit FIFO is empty.  No process runs uartintr():           *)
(* devintr() of kernel/trap.c answers UART0_IRQ with console_intr() and    *)
(* nothing else, so uartstart() is only ever called by uartputc().         *)
(* Module Serial composes this driver with printk().                       *)
(***************************************************************************)
EXTENDS Integers

CONSTANTS
    Procs,              \* the threads that print
    Nobody,             \* uart_tx_lock is free
    Bytes,
    UART_TX_BUF_SIZE,
    CntMod              \* uart_tx_w and uart_tx_r modulo CntMod (2^64)

VARIABLES
    uart_tx_buf, uart_tx_w, uart_tx_r,
    lock,       \* who holds uart_tx_lock
    fifo,       \* bytes in the UART's transmit FIFO
    panicked,   \* of printk.c
    pc,         \* pc[p]: where p is
    c           \* c[p]: the byte p passed to uartputc()

tx == <<uart_tx_buf, uart_tx_w, uart_tx_r>>

NoByte == CHOOSE b \in Bytes : TRUE     \* what a variable that is not used holds

PCs == {"idle", "spin", "acquire", "putc", "asleep", "room", "start", "thr",
        "sync", "sync_thr"}

TypeOK ==
    /\ uart_tx_buf \in [0..UART_TX_BUF_SIZE - 1 -> Bytes]
    /\ {uart_tx_w, uart_tx_r} \subseteq 0..CntMod - 1
    /\ lock \in Procs \cup {Nobody}
    /\ fifo \in Nat
    /\ pc \in [Procs -> PCs]
    /\ c \in [Procs -> Bytes]

\* uartinit()
Init ==
    /\ uart_tx_buf = [k \in 0..UART_TX_BUF_SIZE - 1 |-> NoByte]
    /\ uart_tx_w = 0 /\ uart_tx_r = 0
    /\ lock = Nobody
    /\ fifo = 0
    /\ pc = [p \in Procs |-> "idle"]
    /\ c = [p \in Procs |-> NoByte]

GoTo(p, label) == pc' = [pc EXCEPT ![p] = label]
Hold(p, byte) == c' = [c EXCEPT ![p] = byte]

-----------------------------------------------------------------------------
(* uartputc()                                                              *)

CallPutc(p, byte) ==
    /\ pc[p] = "idle"
    /\ GoTo(p, "acquire") /\ Hold(p, byte)
    /\ UNCHANGED <<tx, lock, fifo, panicked>>

\* acquire(&uart_tx_lock), and for (;;) if the kernel has panicked.
Acquire(p) ==
    /\ pc[p] = "acquire" /\ lock = Nobody
    /\ lock' = p
    /\ GoTo(p, IF panicked THEN "spin" ELSE "putc")
    /\ UNCHANGED <<tx, fifo, panicked, c>>

\* sleep() takes the lock again before it returns.
Reacquire(p) ==
    /\ pc[p] = "room" /\ lock = Nobody
    /\ lock' = p
    /\ GoTo(p, "putc")
    /\ UNCHANGED <<tx, fifo, panicked, c>>

\* A test that forgets that uart_tx_r wraps.
FullMutant == uart_tx_w = uart_tx_r + UART_TX_BUF_SIZE

Full == uart_tx_w = (uart_tx_r + UART_TX_BUF_SIZE) % CntMod

\* The buffer is full: sleep(&uart_tx_r, &uart_tx_lock).
Sleep(p) ==
    /\ pc[p] = "putc" /\ Full
    /\ lock' = Nobody
    /\ GoTo(p, "asleep")
    /\ UNCHANGED <<tx, fifo, panicked, c>>

Store(p) ==
    /\ pc[p] = "putc" /\ ~ Full
    /\ uart_tx_buf' = [uart_tx_buf EXCEPT ![uart_tx_w % UART_TX_BUF_SIZE] = c[p]]
    /\ uart_tx_w' = (uart_tx_w + 1) % CntMod
    /\ GoTo(p, "start") /\ Hold(p, NoByte)
    /\ UNCHANGED <<uart_tx_r, lock, fifo, panicked>>

-----------------------------------------------------------------------------
(* uartstart(), called with the lock held                                  *)

\* ReadReg(LSR) & LSR_TX_IDLE
TxIdle == fifo = 0

\* Take a byte from the buffer, and wakeup(&uart_tx_r).
StartTake(p) ==
    /\ pc[p] = "start" /\ uart_tx_w # uart_tx_r /\ TxIdle
    /\ uart_tx_r' = (uart_tx_r + 1) % CntMod
    /\ pc' = [q \in Procs |-> IF q = p THEN "thr"
                              ELSE IF pc[q] = "asleep" THEN "room" ELSE pc[q]]
    /\ UNCHANGED <<uart_tx_buf, uart_tx_w, lock, fifo, panicked, c>>

\* WriteReg(THR, c), and round the loop.
StartWrite(p) ==
    /\ pc[p] = "thr"
    /\ fifo' = fifo + 1
    /\ GoTo(p, "start")
    /\ UNCHANGED <<tx, lock, panicked, c>>

\* Nothing to send, or the UART is busy; uartputc() releases the lock.
StartReturn(p) ==
    /\ pc[p] = "start" /\ (uart_tx_w = uart_tx_r \/ ~ TxIdle)
    /\ lock' = Nobody
    /\ GoTo(p, "idle")
    /\ UNCHANGED <<tx, fifo, panicked, c>>

-----------------------------------------------------------------------------
(* uartputc_sync(), and the UART                                           *)

\* if (panicked) for (;;)
CallSync(p) ==
    /\ pc[p] = "idle"
    /\ GoTo(p, IF panicked THEN "spin" ELSE "sync")
    /\ UNCHANGED <<tx, lock, fifo, panicked, c>>

\* Wait for LSR_TX_IDLE.
SyncWait(p) ==
    /\ pc[p] = "sync" /\ TxIdle
    /\ GoTo(p, "sync_thr")
    /\ UNCHANGED <<tx, lock, fifo, panicked, c>>

\* WriteReg(THR, c)
SyncWrite(p) ==
    /\ pc[p] = "sync_thr"
    /\ fifo' = fifo + 1
    /\ GoTo(p, "idle")
    /\ UNCHANGED <<tx, lock, panicked, c>>

\* p panics here, and never comes back.
Abandon(p) ==
    /\ pc[p] \in {"idle", "putc", "start"}
    /\ GoTo(p, "idle") /\ Hold(p, NoByte)
    /\ UNCHANGED <<tx, lock, fifo>>

\* The UART sends a byte.
Send ==
    /\ fifo > 0 /\ fifo' = fifo - 1
    /\ UNCHANGED <<tx, lock, panicked, pc, c>>

-----------------------------------------------------------------------------
\* The steps inside a call that wait for nothing.
Advance(p) ==
    \/ Sleep(p) \/ Store(p) \/ StartTake(p) \/ StartWrite(p) \/ StartReturn(p)
    \/ SyncWrite(p)

-----------------------------------------------------------------------------
\* The bytes in the transmit buffer, the oldest first.
Contents == [k \in 1..(uart_tx_w - uart_tx_r) % CntMod |->
                uart_tx_buf[(uart_tx_r + k - 1) % UART_TX_BUF_SIZE]]
=============================================================================
