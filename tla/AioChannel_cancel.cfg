\* A caller cancels while the kernel has its buffer.
SPECIFICATION Spec
CONSTANTS
    w1 = w1
    w2 = w2
    w3 = w3
    Free = Free
    Slots = {s1, s2}
    Writers <- MCWriters
    Segments <- MCSegments
    Invalid = {w3}
    Cancellable = {w2}
INVARIANT WaitsForCompletions
CHECK_DEADLOCK FALSE
