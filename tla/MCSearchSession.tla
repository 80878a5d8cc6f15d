--------------------------- MODULE MCSearchSession ---------------------------
(* Finite instances of SearchSession.                                       *)
EXTENDS SearchSession

CONSTANTS n1, n2, n3, plain, labelled, a, b, empty, alice, bob, dim

\* A change of the index may move a document past all others.
Order(F, G, H) == [N \in {n1, n2, n3} |-> CASE N = F -> 1 [] N = G -> 2 [] N = H -> 3]
TwoRankings == {Order(n1, n2, n3), Order(n3, n1, n2)}

\* Label a has a short value in one image and a long one in the other; the value
\* of label empty is the empty string.
ConfigOfImages ==
    [i \in Images |-> CASE i = plain -> [l \in {a, empty} |-> IF l = a THEN 3 ELSE 0]
                        [] i = labelled -> [l \in {a, b} |-> 9]]
LengthOfKeys == [l \in {a, b, empty} |-> 2]
CellsOfNames == [F \in {n1, n2, n3} |->
                    CASE F = n1 -> <<8, 3>> [] F = n2 -> <<4, 6>> [] F = n3 -> <<12, 0>>]
CellsOfImages == [i \in Images |-> IF i = plain THEN <<10, 0, 2>> ELSE <<11, 4, 7>>]

\* "Name", "Tag", "Created", "Labels", "Volumes", "Ports"
Columns == <<4, 3, 7, 6, 7, 5>>

\* A wide table printed at once, a narrow one row by row, and a template.
Wide == [bulk |-> 0, unlimited |-> TRUE, template |-> FALSE, width |-> 60]
Narrow == [bulk |-> 1, unlimited |-> FALSE, template |-> FALSE, width |-> 38]
Template == [bulk |-> 0, unlimited |-> FALSE, template |-> TRUE, width |-> 60]
SomeOptions == {Wide, Narrow, Template}

Rule(requests, users) == [requests |-> requests, everyone |-> FALSE, users |-> users]

\* The rules of doc/SERVER.md before a registry that only dim may use; a registry
\* that knows its users behind a dim without rules; everything for everyone
\* but searches.
Sites ==
    [o \in SomeOptions |->
        CASE o = Wide ->
               [rules |-> <<Rule({"search"}, {alice, bob}),
                            Rule({"catalog", "search"}, {bob})>>,
                proxy |-> dim, accepted |-> {dim}]
          [] o = Narrow ->
               [rules |-> <<>>, proxy |-> NoCredentials, accepted |-> {bob}]
          [] OTHER ->
               [rules |-> <<Rule({"search"}, {alice}),
                            [requests |-> Requests, everyone |-> TRUE, users |-> {}]>>,
                proxy |-> NoCredentials,
                accepted |-> {NoCredentials, alice, bob, dim}]]
==============================================================================
