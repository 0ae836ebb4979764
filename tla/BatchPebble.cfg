\* Batches of at most two of three requests, a channel of one.
SPECIFICATION Spec
CONSTANTS
    c1 = c1
    c2 = c2
    c3 = c3
    k1 = k1
    k2 = k2
    Callers <- MCCallers
    Keys <- MCKeys
    KeyOf <- MCKeyOf
    LowPriority <- MCLowPriority
    NoGet <- MCNoGet
    MaxBatch = 2
    QueueCap = 1
INVARIANTS AllOrNothing AnswerMatchesStore PutIfAbsent
PROPERTIES CommitsOnOpenDb CallersServed StopReturns
CHECK_DEADLOCK FALSE
