------------------------- MODULE MCSlotReplyCache --------------------------
(* Model-checking instance of SlotReplyCache: the constants are given in   *)
(* the .cfg files; this module adds the symmetry of slot ids.              *)
EXTENDS SlotReplyCache, TLC

CONSTANTS sp, sn, z0, z1

MCSessions == {sp, sn}
MCPersistent == {sp}
MCSlotIds1 == {z0}
MCSlotIds2 == {z0, z1}

SlotSymmetry == Permutations({z0, z1})
=============================================================================
