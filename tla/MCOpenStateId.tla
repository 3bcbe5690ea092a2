--------------------------- MODULE MCOpenStateId ---------------------------
EXTENDS OpenStateId, TLC

CONSTANTS p1, p2, f1, f2, f3

MCPaths == {p1, p2}
MCFileIds == {f1, f2, f3}
\* The lowest and the highest slot of a session.
MCSlotIds == {0, 15}
Symmetry == Permutations(MCPaths) \cup Permutations(MCFileIds)
=============================================================================
