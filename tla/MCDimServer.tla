----------------------------- MODULE MCDimServer -----------------------------
(* Finite instances of DimServer.                                           *)
EXTENDS DimServer, TLC

CONSTANTS r1, r2, t1, noTag, d1, d2, w1, w2, h1, h2

\* Workers and handlers are interchangeable, and so are repositories and digests.
Symmetry == Permutations(Repos) \cup Permutations(Digests)
            \cup Permutations(Workers) \cup Permutations(Requests)
=============================================================================
