----------------------------- MODULE MCBufPool -----------------------------
(* Model-checking instance of BufPool: a SEQUENCE that asks for its reply  *)
(* to be cached, a DESTROY_SESSION of the same session, and an unrelated   *)
(* compound, all in flight at once.                                        *)
EXTENDS BufPool

CONSTANTS b1, b2, b3, b4, b5, b6, a, d, o, nil

MCBufs == {b1, b2, b3, b4, b5, b6}
MCReqs == {a, d, o}
MCSeqOf == [r \in {a} |-> 1]
MCCacheOf == [r \in {a} |-> TRUE]
=============================================================================
