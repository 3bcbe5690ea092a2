------------------------------ MODULE MCLister ------------------------------
(* Model-checking instance of Lister: directories, random verifiers,      *)
(* lister objects and goroutines are model values.                        *)
EXTENDS Lister

CONSTANTS d1, d2, r1, o1, o2, o3, h1, h2

MCDirs == {d1, d2}
MCRandVerfs == {r1}
MCObjs == {o1, o2, o3}
MCHandlers == {h1, h2}
=============================================================================
