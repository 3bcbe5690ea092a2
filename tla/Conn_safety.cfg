CONSTANTS
    NumReqs = 3
    ReqCap = 1
    RespCap = 1
    ReadFails = TRUE
    HandlerFails = TRUE
    WriteFails = TRUE
SPECIFICATION Spec
INVARIANT TypeOK
INVARIANT WriteFailureReported
INVARIANT RepliesDeliveredUnlessFailed
PROPERTY ServiceRefined
CHECK_DEADLOCK FALSE
