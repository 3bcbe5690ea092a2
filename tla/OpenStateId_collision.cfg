CONSTANTS
    MaxSlotID = 15
    MaxSeq = 2
    p1 = p1
    p2 = p2
    f1 = f1
    f2 = f2
    f3 = f3
    Paths <- MCPaths
    FileIds <- MCFileIds
    SlotIds <- MCSlotIds
SPECIFICATION Spec
INVARIANT OpenStateIdMatchesPath
CHECK_DEADLOCK FALSE
