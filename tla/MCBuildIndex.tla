---------------------------- MODULE MCBuildIndex ----------------------------
(* Finite instances of BuildIndex.                                          *)
EXTENDS BuildIndex, TLC

CONSTANTS r1, r2, r3, r4, t1, t2, p1, p2

\* A catalog that fills its pages exactly, and an image that may be unreadable.
FullPages == <<r1, r2, r3, r4>>
OneSuspect == {<<r1, t1>>}

\* A push or a delete of another image of the last page may arrive during Build.
OneNotified == {<<r3, t2>>}
=============================================================================
