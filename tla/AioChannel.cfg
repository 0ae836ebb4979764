\* Three writers compete for one iocb.
SPECIFICATION Spec
CONSTANTS
    w1 = w1
    w2 = w2
    w3 = w3
    Free = Free
    Slots = {s1}
    Writers <- MCWriters
    Segments <- MCSegments
    Invalid = {w3}
    Cancellable = {w2}
INVARIANTS SlotsConserved KernelTracked LoopNeverBlocks OkIsWritten
PROPERTIES WritesReturn CloseReturns
CHECK_DEADLOCK FALSE
