\* Two workers, one with two calls and one with one, over two iocbs; any
\* transfer may be short or fail.
SPECIFICATION Spec
CONSTANTS
    Workers = {w1, w2}
    Slots = {c1, c2}
    w1 = w1
    w2 = w2
    Rounds <- MCRounds
    Free = Free
INVARIANTS OwnResult BooksAgree
PROPERTIES WaitForReturns
CHECK_DEADLOCK FALSE
