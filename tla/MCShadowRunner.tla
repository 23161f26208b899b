--------------------------- MODULE MCShadowRunner ---------------------------
(* Small instances of ShadowRunner for TLC.  Comparisons are               *)
(* interchangeable.                                                        *)
EXTENDS ShadowRunner, TLC

Symmetry == Permutations(Job)
=============================================================================
