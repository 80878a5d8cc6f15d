---------------------------- MODULE MCIndexHooks ----------------------------
(* Finite instances of IndexHooks: which hook runs on which event.          *)
EXTENDS IndexHooks

CONSTANTS r1, r2, t1, d1, w1, w2, h1, onPush, onDelete

EventOfHook == [k \in Hooks |-> IF k = onPush THEN "push" ELSE "delete"]
=============================================================================
