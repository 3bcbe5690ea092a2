----------------------------- MODULE MCWorker ------------------------------
(* Model-checking instance of Worker: ids, names, verifiers, credentials,  *)
(* keys, workers, files and goroutines are model values.                   *)
EXTENDS Worker, TLC

CONSTANTS i1, i2, k1, n1, v1, c1, c2, s1, w1, w2, w3, f1, f2, h1, h2

MCClientIds == {i1, i2}
MCCacheIds == {k1}
MCNames == {n1}
MCVerifiers == {v1}
MCCreds == {c1, c2}
MCCreds1 == {c1}
MCKeys == {s1}
MCWorkerIds == {w1, w2}
MCFileIds == {f1, f2}
MCHandlers == {h1, h2}

\* Every id below is only compared for equality.
Symmetry == Permutations(MCClientIds) \cup Permutations(MCCreds)
            \cup Permutations(MCWorkerIds) \cup Permutations(MCFileIds)
            \cup Permutations(MCHandlers)
=============================================================================
