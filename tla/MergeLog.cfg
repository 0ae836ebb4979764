\* Counters modulo 8; documents stamped or not, deleted or not.
SPECIFICATION MergeSpec
CONSTANTS
    WordSize = 8
    Missing = Missing
    NoValue = NoValue
    Operands <- MCOperands
    MaxMerges = 4
INVARIANT GroupingIrrelevant
CHECK_DEADLOCK FALSE
