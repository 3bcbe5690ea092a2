------------------------- MODULE MCClientRegistry --------------------------
(* Model-checking instance of ClientRegistry: random ids are model values  *)
(* and only compared for equality, so they are symmetric.                  *)
EXTENDS ClientRegistry

CONSTANTS i1, i2, i3, k1, k2, n1, v1, v2, c1, c2

MCClientIds == {i1, i2, i3}
MCCacheIds == {k1, k2}
MCNames == {n1}
MCVerifiers == {v1, v2}
MCCreds == {c1, c2}

IdSymmetry == Permutations(MCClientIds) \cup Permutations(MCCacheIds)
=============================================================================
