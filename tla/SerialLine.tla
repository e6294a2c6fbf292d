----------------------------- MODULE SerialLine -----------------------------
(***************************************************************************)
(* The output side of the terminal, Serial with Printk and Uart, under     *)
(* names of its own, so that it can stand beside the model of its input.   *)
(***************************************************************************)
CONSTANTS Threads, NoThread, Capacity, Lengths, MayPanic, Bytes, UART_TX_BUF_SIZE, TxMod, FifoDepth

VARIABLES head, tail, full, buffer, quota, len, nput, line, ppc, locking, holds, prlock, todo, panicked,
          uart_tx_buf, uart_tx_w, uart_tx_r, uart_tx_lock, fifo, upc, uc

Sr == INSTANCE Serial WITH
    Nobody <- NoThread, CntMod <- TxMod, pc <- ppc, lock <- prlock, left <- todo, c <- uc

SerialSpec == Sr!Init /\ [][Sr!Next]_(Sr!vars)

\* SerialInv of printk.c and uart.c: the UART's FIFO is not overrun, output of
\* several threads does not mix until one panics, and a panic waits for no lock.
SerialInv == Sr!SerialInv

\* PrintedExactly of printk.c and ring_buffer.c: when printk() returns the UART has had
\* all bytes of its message, once and in order, or all but the last full ring if the
\* message ended with one.
PrintedExactly == Sr!PrintedExactly

\* The transmit buffer of uart.c implements Fifo.
RefinesFifo == Sr!RefinesFifo
=============================================================================
