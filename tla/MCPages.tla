------------------------------ MODULE MCPages ------------------------------
(* The instance of Pages for TLC.                                          *)
EXTENDS Pages, TLC

\* Lengths of the record around those at which the charts change.
MCLengths == {0, 1, 7, 8, 15, 31, 32}

\* Genders and pictures are interchangeable.
MCSymmetry ==
    Permutations(Gender) \cup Permutations(Picture)

\* Three edits and readings in all, or two uploads, and one of them with a
\* longer record, which the forms do not look at.
MCFew ==
    /\ edits + others + taken + uploaded <= IF Len(record) <= 2 THEN 3 ELSE 1
    /\ uploaded > 0 => edits + others + taken = 0
============================================================================
