\* A cached SEQUENCE, a DESTROY_SESSION of its session and one other
\* compound, on connections served concurrently.
CONSTANTS
    b1 = b1  b2 = b2  b3 = b3  b4 = b4  b5 = b5  b6 = b6
    a = a  d = d  o = o  nil = nil
    Bufs <- MCBufs
    Reqs <- MCReqs
    SeqReqs = {a}
    DestroyReqs = {d}
    SeqOf <- MCSeqOf
    CacheOf <- MCCacheOf
    None = nil
SPECIFICATION Spec
\* Every request is answered and then nothing is left to do.
CHECK_DEADLOCK FALSE
INVARIANT NoCrossRequestData
