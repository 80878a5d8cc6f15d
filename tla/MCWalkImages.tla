---------------------------- MODULE MCWalkImages ----------------------------
(* Finite instances of WalkImages.                                          *)
EXTENDS WalkImages, TLC

CONSTANTS t1, t2, t3, t4, t5, w1, w2, w3

\* Every tag may fail alike, and workers are interchangeable.
Symmetry == Permutations(Tags) \cup Permutations(Workers)
=============================================================================
