------------------------------ MODULE SearchPages ------------------------------
(****************************************************************************)
(* One run of "dim search" (runSearch of cmd/search.go) against a server    *)
(* whose index changes meanwhile.  The command asks for one page of results *)
(* after another; the server answers each request (Search of                *)
(* server/server.go) with a query of its own, and then with one more query  *)
(* for each hit (SearchImages and searchDetails of lib/index/index.go).     *)
(* Each page is appended to a printer and printed as rows of one table, or  *)
(* with the template the user gave.                                         *)
(****************************************************************************)
EXTENDS TablePrinter

CONSTANTS
    Names,          \* the full names
    Rankings,       \* the orders in which bleve may rank the documents
    Images,         \* the images a document can describe
    Config,         \* the labels of each image, each with the length of its value
    KeyLength,      \* the length of the name of each label
    NameCells,      \* the lengths of the name and of the tag of a full name
    OtherCells,     \* of an image: those of its age, of its volumes and ports joined
    Header,         \* those of the titles of the columns
    Wanted,         \* the images the query matches
    Options,        \* combinations of the command's flags; bulk 0 asks for the
                    \* server's default, no template prints a table of some width
    DefaultSize,    \* results in a page by default; 10 in the code
    QueryMayFail,   \* can a query fail?
    MaxChanges,     \* bound on the changes of the index
    None            \* no document

AllLabels == UNION {DOMAIN Config[i] : i \in Images}

\* Parse keeps the labels that have a value, as Label, and their names, as
\* Labels.
Labels == [i \in Images |-> {l \in DOMAIN Config[i] : Config[i][l] > 0}]

ASSUME RankingsAssumption ==
    /\ IsFiniteSet(Names)
    /\ \A r \in Rankings : /\ r \in [Names -> 1 .. Cardinality(Names)]
                           /\ \A F, G \in Names : r[F] = r[G] => F = G
ASSUME SizeAssumption ==
    /\ Options \subseteq
          [bulk : Nat, unlimited : BOOLEAN, template : BOOLEAN, width : Int]
    /\ DefaultSize \in Nat \ {0} /\ MaxChanges \in Nat
ASSUME CellsAssumption ==
    /\ \A i \in Images :
          Config[i] \in [DOMAIN Config[i] -> Nat] /\ IsFiniteSet(DOMAIN Config[i])
    /\ KeyLength \in [AllLabels -> Nat]
    /\ NameCells \in [Names -> Nat \X Nat]
    /\ OtherCells \in [Images -> Nat \X Nat \X Nat]
    /\ Header \in Seq(Nat \ {0}) /\ Len(Header) = 6
ASSUME WantedAssumption == Wanted \subseteq Images /\ None \notin Images

VARIABLES
    index,      \* the image of each document
    rank,       \* the rank that its score gives each document
    options,    \* the command's flags
    pc,         \* "search", "details", "append", "print", "over" or "failed"
    total,      \* NumResults of the last answer
    fetched,    \* results received so far: the offset of the next request
    hits,       \* the server's: the hits of the query it is answering
    found,      \* the server's: their details, as far as it got
    rows,       \* the results appended to the printer
    table,      \* the printer's: its rows, titles included
    widths,     \* the printer's: the widths of the columns, once computed
    position,   \* the printer's: how many rows it has printed
    output,     \* lines and ends of lines on the terminal
    changes,    \* changes of the index so far
    \* History, from the first query on:
    grown, shrunk,  \* did matches appear or disappear?
    reordered,  \* did two documents that match change places?
    kept,       \* the names that always matched
    replaced    \* the rows whose document changed between their two queries

server == <<hits, found>>
printer == <<rows, table, widths, position, output>>
history == <<changes, grown, shrunk, reordered, kept, replaced>>
vars == <<index, rank, options, pc, total, fetched, server, printer, history>>

\* The documents that match, and the place among them that a document's rank is.
Matches == {F \in Names : index[F] \in Wanted}
Place(F) == Cardinality({G \in Matches : rank[G] <= rank[F]})

\* What bleve answers: the names that match, in the order of their ranks.
Matching == [n \in 1 .. Cardinality(Matches) |-> CHOOSE F \in Matches : Place(F) = n]

Results == [name : Names, image : Images, labels : SUBSET AllLabels]

\* printAppend makes six cells of a result; a template is taken to print the
\* full name, as --quiet does.
Cells(result) ==
    LET name == NameCells[result.name]
        cells == OtherCells[result.image]
        length == [l \in result.labels |->
                      KeyLength[l] + 1 + Config[result.image][l]]
    IN  IF options.template THEN <<name[1] + 1 + name[2]>>
        ELSE <<name[1], name[2], cells[1], FlatMap(result.labels, length),
               cells[2], cells[3]>>

TypeOK ==
    /\ index \in [Names -> Images \cup {None}] /\ rank \in Rankings
    /\ options \in Options
    /\ pc \in {"search", "details", "append", "print", "over", "failed"}
    /\ total \in Nat
    /\ hits \in Seq([name : Names, labels : SUBSET AllLabels])
    /\ found \in Seq(Results) /\ Len(found) <= Len(hits)
    /\ rows \in Seq(Results)
    /\ table \in Seq(Seq(Nat)) /\ position \in 0 .. Len(table)
    /\ output \in Seq(Seq(Nat))
    /\ widths \in Seq(Int) /\ Len(widths) \in {0, Len(Header)}
    /\ fetched = Len(rows)
    /\ changes \in 0 .. MaxChanges
    /\ {grown, shrunk, reordered} \subseteq BOOLEAN
    /\ kept \subseteq Names /\ replaced \subseteq Nat

Init ==
    /\ index \in [Names -> Images \cup {None}] /\ rank \in Rankings
    /\ options \in Options
    /\ pc = "search"
    /\ total = 0 /\ fetched = 0
    /\ hits = <<>> /\ found = <<>>
    /\ rows = <<>> /\ table = <<>> /\ widths = <<>>
    /\ position = 0 /\ output = <<>>
    /\ changes = 0
    /\ grown = FALSE /\ shrunk = FALSE /\ reordered = FALSE
    /\ kept = Matches /\ replaced = {}

------------------------------------------------------------------------------
(* The index changes: a notification is applied.                            *)

SameOrder ==
    \A G, H \in Matches \cap Matches' : rank[G] < rank[H] => rank'[G] < rank'[H]

\* The hits whose details are still to be fetched.
Pending == IF pc = "details" THEN Len(found) + 1 .. Len(hits) ELSE {}

\* The scores depend on all documents: one more or less, or another image under a
\* name, may put any others in another order.  What happens before the first query
\* is in Init.
Change(F, i) ==
    /\ pc \notin {"over", "failed"}
    /\ pc # "search" \/ fetched > 0
    /\ changes < MaxChanges
    /\ i # index[F]
    /\ index' = [index EXCEPT ![F] = i]
    /\ rank' \in Rankings
    /\ changes' = changes + 1
    /\ grown' = (grown \/ (i \in Wanted /\ index[F] \notin Wanted))
    /\ shrunk' = (shrunk \/ (i \notin Wanted /\ index[F] \in Wanted))
    /\ reordered' = (reordered \/ ~SameOrder)
    /\ kept' = IF i \in Wanted THEN kept ELSE kept \ {F}
    /\ replaced' = replaced \cup {fetched + k : k \in {l \in Pending : hits[l].name = F}}
    /\ UNCHANGED <<options, pc, total, fetched, server, printer>>

------------------------------------------------------------------------------
(* The server answers one request.                                          *)

Size == IF options.bulk = 0 THEN DefaultSize ELSE options.bulk

PageFrom(k) ==
    SubSeq(Matching, k, IF k + Size <= Len(Matching) + 1 THEN k + Size - 1
                                                         ELSE Len(Matching))

\* Mutant: a page starts with the last hit of the page before.
PageFromLast == PageFrom(IF fetched = 0 THEN 1 ELSE fetched)

\* The hits after the offset, as many as a page holds.
Page == PageFrom(fetched + 1)

\* The hits come with the names of their labels, not with the labels' values.
Query ==
    /\ pc = "search"
    /\ total' = Len(Matching)
    /\ hits' = [k \in DOMAIN Page |->
                   [name |-> Page[k], labels |-> Labels[index[Page[k]]]]]
    /\ found' = <<>>
    /\ pc' = "details"
    /\ UNCHANGED <<index, rank, options, fetched, printer, history>>

\* The request is answered with an error and the command returns it.
QueryFails ==
    /\ QueryMayFail
    /\ pc \in {"search", "details"}
    /\ pc' = "failed"
    /\ UNCHANGED <<index, rank, options, total, fetched, server, printer, history>>

\* The hit whose details are fetched next.
Hit == hits[Len(found) + 1]

\* Mutant: the labels of the page's first hit are asked for.
AskedOfFirst == hits[1].labels

\* The label fields asked for: those the first query saw.
Asked == Hit.labels

\* searchDetails finds the document under the hit's name, whatever it holds now.
Details ==
    /\ pc = "details"
    /\ Len(found) < Len(hits)
    /\ index[Hit.name] # None
    /\ found' = Append(found, [name |-> Hit.name, image |-> index[Hit.name],
                               labels |-> Asked \cap Labels[index[Hit.name]]])
    /\ UNCHANGED <<index, rank, options, pc, total, fetched, hits, printer, history>>

\* The document is gone: sr.Hits[0] panics, and the connection is closed.
DetailsPanic ==
    /\ pc = "details"
    /\ Len(found) < Len(hits)
    /\ index[Hit.name] = None
    /\ pc' = "failed"
    /\ UNCHANGED <<index, rank, options, total, fetched, server, printer, history>>

------------------------------------------------------------------------------
(* The command.                                                             *)

\* The titles of a table come with the first results.
Titles == IF options.template \/ rows # <<>> \/ found = <<>> THEN <<>> ELSE <<Header>>

\* Mutant: the offset is set to the length of the last page.
AnswerLastPage ==
    /\ pc = "details"
    /\ Len(found) = Len(hits)
    /\ rows' = rows \o found
    /\ table' = table \o Titles \o [k \in DOMAIN found |-> Cells(found[k])]
    /\ fetched' = Len(found)
    /\ pc' = "append"
    /\ UNCHANGED <<index, rank, options, total, server, widths, position, output, history>>

\* The results are appended to the printer.
Answer ==
    /\ pc = "details"
    /\ Len(found) = Len(hits)
    /\ rows' = rows \o found
    /\ table' = table \o Titles \o [k \in DOMAIN found |-> Cells(found[k])]
    /\ fetched' = fetched + Len(found)
    /\ pc' = "append"
    /\ UNCHANGED <<index, rank, options, total, server, widths, position, output, history>>

\* Mutant: PrintAll computes the widths of all rows each time.
PrintAllAnew ==
    /\ pc = "append"
    /\ widths' = IF options.template \/ table = <<>> THEN <<>>
                 ELSE ComputeWidths(table, options.width)
    /\ pc' = "print"
    /\ UNCHANGED <<index, rank, options, total, fetched, server, rows, table, position, output,
                   history>>

\* PrintAll computes the widths when it is called first.
PrintAll ==
    /\ pc = "append"
    /\ widths' = IF options.template \/ table = <<>> \/ widths # <<>> THEN widths
                 ELSE ComputeWidths(table, options.width)
    /\ pc' = "print"
    /\ UNCHANGED <<index, rank, options, total, fetched, server, rows, table, position, output,
                   history>>

\* The rows of the first page are printed at once; unless --unlimited was given,
\* those of the others each wait for the Enter key.
Waits == ~options.unlimited /\ fetched > Len(found)

\* The key ends a line on the terminal.
Enter == IF Waits THEN <<EndOfLine>> ELSE <<>>

EndOfRow == IF ~Waits /\ position' # Len(table) THEN <<EndOfLine>> ELSE <<>>

RowPanics ==
    ~options.template /\ \E i \in DOMAIN Header :
        FormatPanics(table[position + 1][i], widths[i])

Line(row) ==
    IF options.template THEN row ELSE [i \in DOMAIN row |-> Format(row[i], widths[i])]

\* PrintAll prints what was appended since it was called last.
PrintRow ==
    /\ pc = "print"
    /\ position < Len(table)
    /\ ~RowPanics
    /\ position' = position + 1
    /\ output' = output \o Enter \o <<Line(table[position + 1])>> \o EndOfRow
    /\ UNCHANGED <<index, rank, options, pc, total, fetched, server, rows, table, widths,
                   history>>

\* format panics in the middle of a row: the command dies.
PrintPanics ==
    /\ pc = "print"
    /\ position < Len(table)
    /\ RowPanics
    /\ pc' = "failed"
    /\ UNCHANGED <<index, rank, options, total, fetched, server, printer, history>>

\* The user's template does not parse, or names no field of a result.
TemplateFails ==
    /\ pc = "print"
    /\ options.template
    /\ pc' = "failed"
    /\ UNCHANGED <<index, rank, options, total, fetched, server, printer, history>>

\* Mutant: the loop leaves the last page out.
MoreThanAPage == total > fetched + Size

\* The total is that of the last answer, not of the first.
MoreToFetch == total > fetched

\* Without results the command only says so.
Loop ==
    /\ pc = "print"
    /\ position = Len(table)
    /\ pc' = IF MoreToFetch THEN "search" ELSE "over"
    /\ output' = IF MoreToFetch /\ options.unlimited THEN Append(output, EndOfLine)
                                                    ELSE output
    /\ UNCHANGED <<index, rank, options, total, fetched, server, rows, table, widths, position,
                   history>>

------------------------------------------------------------------------------
Ended == pc \in {"over", "failed"}

SearchStep ==
    \/ Query \/ Details \/ DetailsPanic \/ Answer
    \/ PrintAll \/ PrintRow \/ PrintPanics \/ Loop

Disturbance ==
    \/ QueryFails \/ TemplateFails
    \/ \E F \in Names, i \in Images \cup {None} : Change(F, i)

Next == SearchStep \/ Disturbance \/ (Ended /\ UNCHANGED vars)

Spec == Init /\ [][Next]_vars

------------------------------------------------------------------------------
(* Properties                                                               *)

Shown == {rows[k].name : k \in 1 .. position - (Len(table) - Len(rows))}

\* The pages of runSearch show each name that matched from the first query to the
\* end, unless a match disappeared meanwhile or the scores moved two matches past
\* each other: then a name may slip to a page that was read before.
NothingMissed == pc = "over" /\ ~shrunk /\ ~reordered => kept \subseteq Shown

\* They repeat nothing, unless a name began to match meanwhile or the scores moved
\* two matches past each other.
NothingTwice ==
    ~grown /\ ~reordered => \A k, l \in DOMAIN rows : rows[k].name = rows[l].name => k = l

\* SearchImages describes an image with all of its labels, whatever the name held
\* before: only the row whose document changed between the query of its page and
\* that of its details lacks some, and even it has none of another image.
AllLabelsShown ==
    \A k \in DOMAIN rows :
        \/ rows[k].labels = Labels[rows[k].image]
        \/ k \in replaced /\ rows[k].labels \subseteq Labels[rows[k].image]

\* Whatever the pages, runSearch and PrintAll together put each row on a line of
\* its own and align the columns of all lines, those of later pages too.
LinesAlign ==
    \A k \in DOMAIN output :
        /\ output[k] = EndOfLine <=> k % 2 = 0
        /\ output[k] # EndOfLine /\ ~options.template => output[k] = output[1]

\* computeWidths leaves room for the separators: no line is wider than --width.
FitsWidth ==
    \A k \in DOMAIN output : ~options.template /\ output[k] # EndOfLine =>
        TotalLength(output[k]) + Len(output[k]) - 1 <= options.width

\* dim search ends, whatever happens to the index between the pages, unless it
\* waits for the user to press a key (fairness: see SearchSession).
SearchEnds == <>Ended \/ <>[](pc = "print" /\ Waits)
==============================================================================
