----------------------------- MODULE MCDimIndex -----------------------------
(* Finite instances of DimIndex.                                            *)
EXTENDS DimIndex, TLC

CONSTANTS r1, r2, t1, t2, d1, d2, w1, w2, w3, h1, h2

\* Workers and handlers are interchangeable, and so are tags and digests.
Symmetry == Permutations(Tags) \cup Permutations(Digests)
            \cup Permutations(Workers) \cup Permutations(Requests)
=============================================================================
