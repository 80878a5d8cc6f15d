----------------------------- MODULE ImageStream -----------------------------
(****************************************************************************)
(* What the channel returned by WalkImages promises to its reader: one item *)
(* for every tag of the repository, none twice, and the channel is closed   *)
(* only after the last of them, or at once if the tags cannot be listed.    *)
(****************************************************************************)
CONSTANT Tags           \* the tags of the repository

VARIABLES
    wanted,     \* tags with nothing sent yet
    open        \* the channel can still be sent to

vars == <<wanted, open>>

Init == wanted = Tags /\ open = TRUE

Send(t) ==
    /\ open
    /\ t \in wanted
    /\ wanted' = wanted \ {t}
    /\ UNCHANGED open

Close ==
    /\ open
    /\ wanted \in {{}, Tags}
    /\ open' = FALSE
    /\ UNCHANGED wanted

Next == (\E t \in Tags : Send(t)) \/ Close

Spec == Init /\ [][Next]_vars
==============================================================================
