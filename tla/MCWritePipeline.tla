-------------------------- MODULE MCWritePipeline --------------------------
(* Instances of WritePipeline for TLC.                                     *)
EXTENDS WritePipeline

\* Writes are told apart only by the order in which they are issued, so that
\* one order is enough.
IssuedInOrder == Issued = 1..Cardinality(Issued)

\* Users are interchangeable, so that it is enough to follow the behaviours in
\* which one of them, always the same, issues the first write.
FirstUser == CHOOSE u \in User : TRUE
FirstByFirstUser == Issued # {} => 1 \in Elements(issued[FirstUser])

\* Bound: writes, faults, waits and stray commits in one behaviour, together.
MaxTogether == 5
Together ==
    /\ IssuedInOrder
    /\ FirstByFirstUser
    /\ Cardinality(Issued) + faults + Cardinality(waiters) + Cardinality(released)
           + Cardinality(crossed) <= MaxTogether
============================================================================
