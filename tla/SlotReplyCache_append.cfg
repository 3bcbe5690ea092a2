\* Sequential client caching every request: the second cached reply of a slot.
CONSTANTS
    sp = sp
    sn = sn
    z0 = z0
    z1 = z1
    Sessions <- MCSessions
    PersistentSessions <- MCPersistent
    SlotIds <- MCSlotIds1
    MaxSeq = 2
    MaxReqs = 4
    CacheThisChoices = {TRUE}
    RetransmitWhileBusy = FALSE
SPECIFICATION Spec
INVARIANT ReplayReturnsOriginalReply
CHECK_DEADLOCK FALSE
