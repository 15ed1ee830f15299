------------------------------ MODULE Readings ------------------------------
(***************************************************************************)
(* How the reads turn what a broker answers into numbers and tables        *)
(* (ops/_util.py, and the row limits of the read modules).  Percentages,   *)
(* ratios and rates are integers in tenths.                                *)
(***************************************************************************)
EXTENDS Integers, FiniteSets

CONSTANT Missing        \* a field the broker did not report, or of a failed read

ASSUME MissingAssumption == Missing \notin Int \cup BOOLEAN

\* num, as_int, rate: an absent cell counts as 0.
Num(v) == IF v = Missing THEN 0 ELSE v

\* The integer nearest to a / b, an even one in the middle (Python's round).
RoundDiv(a, b) ==
    LET q == a \div b
        r == a % b
    IN  IF 2 * r > b \/ (2 * r = b /\ q % 2 = 1) THEN q + 1 ELSE q

\* pct: in tenths of a percent, and 0 of nothing.
Pct(part, whole) == IF whole = 0 THEN 0 ELSE RoundDiv(1000 * part, whole)

\* Mutant: cut without sorting.
FirstUnsorted(rows, n, column) ==
    {kept \in SUBSET rows :
        Cardinality(kept) = IF Cardinality(rows) < n THEN Cardinality(rows) ELSE n}

\* Sorting by a column, largest first, and cutting at n rows keeps one of these
\* sets: rows of equal value are left in any order.
First(rows, n, column) ==
    {kept \in SUBSET rows :
        /\ Cardinality(kept) = IF Cardinality(rows) < n THEN Cardinality(rows) ELSE n
        /\ \A r \in kept, s \in rows \ kept : r[column] >= s[column]}

\* One finding, if its condition holds.
When(condition, finding) == IF condition THEN {finding} ELSE {}

=============================================================================
