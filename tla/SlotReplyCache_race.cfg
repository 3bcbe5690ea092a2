\* A client that asks for every request to be cached, on one persistent and
\* one plain session; the network may deliver a request again while its
\* first delivery is still being served (a retransmission after a reconnect).
CONSTANTS
    sp = sp
    sn = sn
    z0 = z0
    z1 = z1
    Sessions <- MCSessions
    PersistentSessions <- MCPersistent
    SlotIds <- MCSlotIds1
    MaxSeq = 3
    MaxReqs = 6
    CacheThisChoices = {TRUE}
    RetransmitWhileBusy = TRUE
SPECIFICATION Spec
INVARIANT CachedRequestExecutedOnce
CHECK_DEADLOCK FALSE
