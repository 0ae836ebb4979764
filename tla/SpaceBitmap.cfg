\* Three spaces, the last with one block; zeroed two at a time.
SPECIFICATION Spec
CONSTANTS
    WordSize = 8
    Missing = Missing
    NoValue = NoValue
    TotalBlocks = 13
    BlockSize = 2
    ByteBits = 2
    SpaceLen = 3
    InitKeys = 2
    Extents <- MCExtents
    MaxUpdates = 4
INVARIANTS BitmapExact LoadExact
