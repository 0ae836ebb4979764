\* A request dispatched when the processor has exited.
SPECIFICATION Spec
CONSTANTS
    c1 = c1
    c2 = c2
    c3 = c3
    k1 = k1
    k2 = k2
    Callers <- MCCallers
    Keys <- MCKeys
    KeyOf <- MCKeyOf
    LowPriority <- MCLowPriority
    NoGet <- MCNoGet
    MaxBatch = 2
    QueueCap = 1
PROPERTY DispatchAfterStopFails
CHECK_DEADLOCK FALSE
