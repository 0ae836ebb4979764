\* Clients that send any payloads without waiting for the answers, end,
\* break or cancel, over channels of capacity one.
SPECIFICATION Spec
CONSTANTS
    Payloads = {"start", "put", "both", "complete", "timeout", "unknown", "broken"}
    MaxPayloads = 3
    ReqCap = 1
    OutCap = 1
    MayCancel = TRUE
INVARIANTS AnswersInOrder VerdictIsServers
PROPERTIES ChannelFinishes OnlyFullOutBlocks
CHECK_DEADLOCK FALSE
