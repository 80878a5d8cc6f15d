------------------------------ MODULE Catalogue ------------------------------
(****************************************************************************)
(* What dim promises about the content of its index, with none of the       *)
(* machinery that maintains it: an image is found under a name only if the  *)
(* registry was pushed that image under that name, and a name disappears    *)
(* only if the registry was asked to delete an image once pushed under it.  *)
(* DimIndex implements this specification.                                  *)
(****************************************************************************)
CONSTANTS
    Names,      \* full names, repository:tag
    Digests,    \* manifest digests, the ID of an indexed image
    None        \* no image

VARIABLES
    pushed,     \* every <<name, digest>> the registry ever accepted
    deleted,    \* every digest whose manifest the registry ever deleted
    index       \* the image found under each name, or None

vars == <<pushed, deleted, index>>

Init ==
    /\ pushed = {}
    /\ deleted = {}
    /\ index = [F \in Names |-> None]

Push(F, d) ==
    /\ pushed' = pushed \cup {<<F, d>>}
    /\ UNCHANGED <<deleted, index>>

Delete(d) ==
    /\ deleted' = deleted \cup {d}
    /\ UNCHANGED <<pushed, index>>

Appear(F, d) ==
    /\ <<F, d>> \in pushed
    /\ index' = [index EXCEPT ![F] = d]
    /\ UNCHANGED <<pushed, deleted>>

Disappear(F, d) ==
    /\ <<F, d>> \in pushed
    /\ d \in deleted
    /\ index' = [index EXCEPT ![F] = None]
    /\ UNCHANGED <<pushed, deleted>>

Next ==
    \/ \E F \in Names, d \in Digests :
          Push(F, d) \/ Appear(F, d) \/ Disappear(F, d)
    \/ \E d \in Digests : Delete(d)

Spec == Init /\ [][Next]_vars
==============================================================================
