---------------------------- MODULE MCContentQueue ----------------------------
(* Instances of ContentQueue for TLC.                                       *)
EXTENDS ContentQueue, TLC

CONSTANTS a, b, w1, w2

Items == {a, b}
InBacklog == <<b>>
InDrafted == <<a>>
Workers == {w1, w2}
Symmetry == Permutations(Workers)
=============================================================================
