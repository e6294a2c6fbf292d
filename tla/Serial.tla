------------------------------- MODULE Serial -------------------------------
(***************************************************************************)
(* The serial line: printk() and panic() (module Printk) and write()s that *)
(* reach uartputc() (module Uart), in several threads on one UART.         *)
(*                                                                         *)
(* The out_func of printk()'s ring is console_putchar(), which is          *)
(* uartputc_sync(): each byte that leaves a ring is a call of the driver.  *)
(***************************************************************************)
EXTENDS Printk, FiniteSets

CONSTANTS
    Bytes, UART_TX_BUF_SIZE, CntMod,    \* see Uart
    FifoDepth                           \* of the UART's transmit FIFO

\* No more threads print at once than the FIFO has places (8 harts, 16 places).
SerialAssumption ==
    /\ PrintkAssumption /\ IsFiniteSet(Threads) /\ Bytes # {}
    /\ UART_TX_BUF_SIZE \in Nat \ {0}
    /\ CntMod \in Nat /\ CntMod > UART_TX_BUF_SIZE /\ CntMod % UART_TX_BUF_SIZE = 0
    /\ FifoDepth \in Nat /\ Cardinality(Threads) <= FifoDepth

VARIABLES
    uart_tx_buf, uart_tx_w, uart_tx_r, uart_tx_lock, fifo,
    upc,        \* upc[h]: where h is in the driver
    c           \* c[h]: the byte h passed to uartputc()

U == INSTANCE Uart WITH Procs <- Threads, lock <- uart_tx_lock, pc <- upc

uartVars == <<uart_tx_buf, uart_tx_w, uart_tx_r, uart_tx_lock, fifo, upc, c>>
vars == <<printkVars, uartVars>>

TypeOK == PrintkTypeOK /\ U!TypeOK

Init == PrintkInit /\ U!Init

-----------------------------------------------------------------------------
\* Steps of printk() outside the driver.
Message(h) == upc[h] = "idle" /\ PrintkStep(h) /\ UNCHANGED uartVars

BeginPrintk(h) ==
    /\ upc[h] = "idle"
    /\ \E n \in Lengths : Start(h, n)
    /\ UNCHANGED uartVars

TakeLock(h) == Acquire(h) /\ UNCHANGED uartVars

EndPrintk(h) == Resume(h) /\ UNCHANGED uartVars

\* console_putchar().  printk() goes on when the driver is idle again.
Putchar(h) == OutByte(h) /\ U!CallSync(h)

\* A write() to the console calls uartputc().
Write(h) ==
    /\ pc[h] = "idle" /\ left[h] = 0
    /\ \E b \in Bytes : U!CallPutc(h, b)
    /\ UNCHANGED printkVars

\* Steps inside the driver.
Drive(h) == U!Advance(h) /\ UNCHANGED printkVars
DriveWait(h) ==
    /\ U!Acquire(h) \/ U!Reacquire(h) \/ U!SyncWait(h)
    /\ UNCHANGED printkVars

\* A thread that traps in printk() or in uartputc(), with a lock or without.
Trap(h) == Panic(h) /\ U!Abandon(h)

Transmit == U!Send /\ UNCHANGED printkVars

Next ==
    \/ Transmit
    \/ \E h \in Threads :
          \/ BeginPrintk(h) \/ TakeLock(h) \/ Message(h) \/ EndPrintk(h)
          \/ Putchar(h) \/ Write(h) \/ Drive(h) \/ DriveWait(h)
          \/ Trap(h)

Spec == Init /\ [][Next]_vars

-----------------------------------------------------------------------------
(* Properties.                                                             *)

\* "Flush the buffer" (internal.h line 25): when printk() returns, every byte of
\* its message has been given to the UART, once and in order.  Not true of this
\* code, see README, section 6.
AllPrinted ==
    \A h \in Threads : pc[h] \in {"done", "halt"} => line[h] = [k \in 1..len[h] |-> k]

\* A message of n bytes ends just when it has filled the ring: it is full at
\* Capacity bytes, and again after every quarter that it gave away.
EndsFull(n) == n >= Capacity /\ (n - Capacity) % (Capacity \div 4) = 0

\* The bytes at its end that are not printed
Unprinted(n) == IF EndsFull(n) THEN Capacity ELSE 0

\* What printk() prints of a message, of any length and whatever other threads do:
\* all its bytes, once and in order, except that ring_buf_flush() sends nothing of a
\* full ring, for which ring_buf_size() is 0 (ring_buffer.c line 46).
PrintedExactly ==
    \A h \in Threads : pc[h] \in {"done", "halt"} =>
        line[h] = [k \in 1..len[h] - Unprinted(len[h]) |-> k]

\* "lock to avoid interleaving concurrent printk's" (printk.c line 23): until a
\* thread panics, no two of them are in the middle of their output.
NotInterleaved ==
    locking => \A h, g \in Threads :
        pc[h] \in {"put", "part"} /\ pc[g] \in {"put", "part"} => h = g

\* A panic gets its message out whoever holds pr.lock or uart_tx_lock, a call of
\* its own that can no longer finish included (printk.c line 63): once panic()
\* has started, its thread waits for nothing but the UART.
PanicNeverWaits ==
    \A h \in Threads : left[h] > 0 =>
        pc[h] # "acquire" /\ upc[h] \notin {"acquire", "asleep", "room"}

\* Although uartputc_sync() takes no lock, several threads that have all seen the
\* UART idle never write more than its FIFO holds: no byte is lost there.
NoOverrun == fifo <= FifoDepth

\* The transmit buffer is a FIFO of UART_TX_BUF_SIZE bytes, for any number of
\* writers and over any wrap of its indices.
Abs == INSTANCE Fifo WITH Size <- UART_TX_BUF_SIZE, q <- U!Contents
RefinesFifo == Abs!Spec

\* "buffer is full. wait for uartstart() to open up space in the buffer" (uart.c
\* line 93), which "will interrupt when it's ready for a new byte" (line 136):
\* nobody sleeps for room while the UART is idle and nobody starts it.  Not true
\* of this code, see README, section 6.
TxNotStuck ==
    \A h \in Threads : upc[h] = "asleep" /\ ~ panicked =>
        fifo > 0 \/ \E g \in Threads : upc[g] \in {"putc", "start", "thr"}

\* The UART is shared without loss or mixing, by its FIFO and by pr.lock, and a
\* panic waits for neither lock.
SerialInv == TypeOK /\ NoOverrun /\ NotInterleaved /\ PanicNeverWaits
=============================================================================
