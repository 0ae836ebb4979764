\* Two uploads of up to two chunks on a device of three blocks, one crash;
\* the context of u2 may be cancelled.
SPECIFICATION Spec
CONSTANTS
    u1 = u1
    u2 = u2
    n1 = n1
    None = None
    Blocks = {b1, b2, b3}
    Uploads <- MCUploads
    Names = {n1}
    NameOf <- MCNameOf
    ChunkSizes = {1, 2}
    MaxChunks = 2
    MinAllocSize = 2
    NoGet = {u1}
    Cancellable = {u2}
    MaxCrashes = 1
INVARIANTS OneOwner CommittedDataIntact SuccessIsDurable UsedExact
PROPERTIES FailureReleasesAll RequestsAnswered
CHECK_DEADLOCK FALSE
