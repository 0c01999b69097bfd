------------------------------- MODULE Chart -------------------------------
(***************************************************************************)
(* What the chart page and its line chart make of the record: pure         *)
(* operators on a record, which is the sequence of its readings from the   *)
(* oldest to the newest.  (The documents' keys are the times of the        *)
(* readings; the pages sort them with SplayTreeMap.)                       *)
(***************************************************************************)
EXTENDS Integers, Sequences, FiniteSets, SequencesExt

Step == 8           \* rows that a tap on the last tile adds
Most == 32          \* sugarCount at which no more are added
Spots == 7          \* readings in the line chart

\* Keep the first k entries: list..length = k, if the list is longer.
Cut(s, k) == IF Len(s) > k THEN SubSeq(s, 1, k) ELSE s

\* Mutant of Line: the list is cut after it is turned round.
LineOldest(record) == Cut(record, Spots)

\* The line chart's spots: sorted from the newest, cut, and turned round.
Line(record) == Reverse(Cut(Reverse(record), Spots))

\* Its labels, made from another map that is sorted from the oldest.
Labels(record) ==
    IF Len(record) > Spots THEN Reverse(Cut(Reverse(record), Spots)) ELSE record

\* Mutant of IsRow: the last item is a row, too.
IsRowToo(index, count) == index < count

\* The items of the history, and those that are rows; the others are the tile
\* that asks for more.
ItemCount(n, count) == IF count > n THEN n ELSE count
IsRow(index, count) == index < count - 1

Rows(n, count) ==
    Cardinality({i \in 0..ItemCount(n, count) - 1 : IsRow(i, count)})

\* The rows of the history, from the newest.
History(record, count) == Cut(Reverse(record), Rows(Len(record), count))

ExpandTile(n, count) ==
    \E i \in 0..ItemCount(n, count) - 1 : ~IsRow(i, count)
============================================================================
