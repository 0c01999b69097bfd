--------------------------- MODULE MCRecordStore ---------------------------
(* Instances of RecordStore for TLC.                                       *)
EXTENDS RecordStore, TLC

CONSTANTS c1, c2, d1, d2, MaxAnomalies

\* Horizon = 2 gives three instants: two of one day, and one of the next.
MCDay == 0 :> 1 @@ 1 :> 1 @@ 2 :> 2

\* The limit and a number above it, which is refused; or two that are not.
MCTyped == {200, 201}
MCTypedTwo == {90, 200}

\* All calls on one device, or one of them on another.
MCOneDevice == [c \in Call |-> d1]
MCTwoDevices == [c \in Call |-> IF c = c2 THEN d2 ELSE d1]

\* Bound: how many different anomalies one behaviour combines.
FewAnomalies == Cardinality(anomaly) <= MaxAnomalies

\* Bound: one anomaly of the four that break most properties, or
\* two of the others.
FewTroubles ==
    FewAnomalies /\ \A x \in {"missed", "race", "switch", "rejected"} :
                       x \in anomaly => anomaly = {x}

\* Bound: the fields in all records together, for a run with two accounts.
FewFields ==
    FewAnomalies /\ Cardinality(UNION {{a} \X Keys(a) : a \in Account}) <= 2

\* The locals of a call that has ended are dead.
Live(f) == [c \in Call |-> IF pc[c] = "settled" THEN 0 ELSE f[c]]
LiveRead(f) == [c \in Call |-> IF pc[c] = "got" THEN f[c] ELSE 0]
LiveWrite(f) == [c \in Call |-> IF pc[c] \in Kind THEN f[c] ELSE 0]
MCView == <<records, user, pc, Live(s), Live(i), Live(from),
            LiveRead(seen), LiveWrite(to), LiveWrite(key), ahead, copy,
            anomaly>>

\* Calls of one device, and accounts, are interchangeable.
MCSymmetry == Permutations(Call \ {c2}) \cup Permutations(Account)
============================================================================
