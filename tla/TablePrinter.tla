----------------------------- MODULE TablePrinter -----------------------------
(****************************************************************************)
(* The table of cli/tabprinter.go.  A cell is the length of its text, in    *)
(* bytes, and a line the lengths of the cells printed on it, between which  *)
(* a separator of one byte stands.                                          *)
(****************************************************************************)
EXTENDS Integers, Sequences, FiniteSets, SequencesExt, FiniteSetsExt

\* An item of the output is a line or the end of a line.
EndOfLine == <<>>

\* The average of the cells of a column that are not empty, rounded down each
\* time a cell is added to it.
Average(table, i) ==
    LET upTo[k \in 0 .. Len(table)] ==
            IF k = 0 THEN [entries |-> 0, width |-> 0]
            ELSE LET mean == upTo[k - 1]
                     cell == table[k][i]
                 IN  IF cell = 0 THEN mean
                     ELSE [entries |-> mean.entries + 1,
                           width |-> (mean.width * mean.entries + cell)
                                         \div (mean.entries + 1)]
    IN  upTo[Len(table)].width

\* The length of a line without its separators.
TotalLength(line) == FoldLeft(LAMBDA sum, n : sum + n, 0, line)

\* Mutant: the separators are forgotten.
WholeLine(width, columns) == width

\* What the separators leave of a line.
Room(width, columns) == width - columns + 1

\* A division rounds towards zero.
Quotient(n, d) == IF n < 0 THEN -((-n) \div d) ELSE n \div d

\* computeWidths: the columns share the line in proportion to their averages.
\* (A header of empty cells alone would be a division by zero.)
ComputeWidths(table, width) ==
    LET columns == DOMAIN table[1]
        averages == [i \in columns |-> Average(table, i)]
    IN  [i \in columns |-> Quotient(averages[i] * Room(width, Len(table[1])),
                                    TotalLength(averages))]

\* format panics when it has to write three dots and has no room for them.
FormatPanics(cell, width) == cell > width /\ width < 3

\* It pads a cell with blanks or cuts it.
Format(cell, width) == IF cell < width THEN cell + (width - cell)
                       ELSE IF cell = width THEN cell
                       ELSE width

\* FlatMap of lib/utils/utils.go: the entries, with a comma and a blank between.
FlatMap(entries, length) ==
    IF entries = {} THEN 0
    ELSE MapThenSumSet(LAMBDA e : length[e], entries) + 2 * (Cardinality(entries) - 1)
==============================================================================
