---------------------------- MODULE MCCompound ----------------------------
EXTENDS Compound, TLC

CONSTANTS x1, x2, a, b, e, r, f, d1, d2, g1, i1, i2, s1, s2, noObj, noPath, noFH

MCCtxs1 == {x1}
MCCtxs2 == {x1, x2}
MCNames == {a, b}
MCDirObjs1 == {d1}
MCDirObjs2 == {d1, d2}
MCFileObjs == {g1}
MCNoFileObjs == {}
MCFileIds == {i1, i2}
MCFileIds1 == {i1}
MCSeqs == {s1, s2}
MCSeqs1 == {s1}
\* Contexts are interchangeable; so are the directories Mkdir may create,
\* the file ids AddFile may draw and the owner sequence ids (compared only
\* for equality).
Symmetry == Permutations(MCCtxs2) \cup Permutations(MCDirObjs2)
              \cup Permutations(MCFileIds) \cup Permutations(MCSeqs)

=============================================================================
