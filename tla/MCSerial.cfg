SPECIFICATION SerialSpec
CONSTANTS
    Threads = {h1, h2}
    NoThread = NoThread
    Capacity = 8
    Lengths = {8, 9}
    MayPanic = {h1}
    Bytes = {1, 2}
    UART_TX_BUF_SIZE = 2
    TxMod = 4
    FifoDepth = 2
CHECK_DEADLOCK FALSE
INVARIANTS SerialInv PrintedExactly
PROPERTIES RefinesFifo
