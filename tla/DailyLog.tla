------------------------------ MODULE DailyLog ------------------------------
(***************************************************************************)
(* What the record page promises, without the document, its keys, or the   *)
(* steps of updateUser: one reading for each account and day.  A press of  *)
(* the button asks for a reading to be recorded; the requests of one       *)
(* account are recorded in the order they were made, each at once and      *)
(* exactly as asked, unless the app is killed or signed out first.         *)
(***************************************************************************)
CONSTANTS Account, Call, DayId, Reading, NoReading, Nothing

VARIABLES
    log,        \* log[a][d]: the reading of account a for day d
    ask,        \* ask[c]: an outstanding request
    before      \* before[c]: the requests to be recorded before that of c

vars == <<log, ask, before>>

Request == [account : Account, day : DayId, value : Reading]

Init ==
    /\ log = [a \in Account |-> [d \in DayId |-> NoReading]]
    /\ ask = [c \in Call |-> Nothing]
    /\ before = [c \in Call |-> {}]

Outstanding(a) == {c \in Call : ask[c] # Nothing /\ ask[c].account = a}

Ask(c, r) ==
    /\ ask[c] = Nothing
    /\ ask' = [ask EXCEPT ![c] = r]
    /\ before' = [before EXCEPT ![c] = Outstanding(r.account)]
    /\ UNCHANGED log

\* The requests in C are over.
Close(C) ==
    /\ ask' = [c \in Call |-> IF c \in C THEN Nothing ELSE ask[c]]
    /\ before' = [c \in Call |-> IF c \in C THEN {} ELSE before[c] \ C]

Record(c) ==
    /\ ask[c] # Nothing
    /\ before[c] = {}
    /\ log' = [log EXCEPT ![ask[c].account][ask[c].day] = ask[c].value]
    /\ Close({c})

\* The app is killed or signed out before the requests in C are recorded.
Drop(C) ==
    /\ Close(C)
    /\ UNCHANGED log

Next ==
    \/ \E c \in Call, r \in Request : Ask(c, r)
    \/ \E c \in Call : Record(c)
    \/ \E C \in SUBSET Call : Drop(C)

Spec == Init /\ [][Next]_vars
=============================================================================
