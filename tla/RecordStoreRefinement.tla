----------------------- MODULE RecordStoreRefinement -----------------------
(***************************************************************************)
(* RecordStore implements DailyLog as long as nothing goes wrong.          *)
(***************************************************************************)
EXTENDS RecordStoreProofs

\* The states of behaviours in which nothing goes wrong.
QuietInv == Inv /\ anomaly = {}

LEMMA QuietInvHolds == QuietSpec => []QuietInv
<1>1. Init => QuietInv
    BY InvInit DEF Init, QuietInv
<1>2. QuietInv /\ [Next /\ anomaly' = {}]_vars => QuietInv'
    BY InvStep DEF QuietInv, vars
<1> QED
    BY <1>1, <1>2, PTL DEF QuietSpec

---------------------------------------------------------------------------
(* The abstract state.                                                     *)

\* The log has the reading of the field of a day.
LEMMA LogOfKey ==
    ASSUME NEW a \in Account, NEW t \in Keys(a),
           \A u, v \in Keys(a) : Day[u] = Day[v] => u = v
    PROVE  LogOf(a)[Day[t]] = records[a][t]
<1>1. t \in Time /\ Day[t] \in DayId
    BY DEF Keys, DayId
<1>2. (CHOOSE u \in Keys(a) : Day[u] = Day[t]) = t
    OBVIOUS
<1> QED
    BY <1>1, <1>2 DEF LogOf

\* The log has no reading for a day without a field.
LEMMA LogOfNoKey ==
    ASSUME NEW a \in Account, NEW d \in DayId,
           \A u \in Keys(a) : Day[u] # d
    PROVE  LogOf(a)[d] = NoReading
BY DEF LogOf

\* Steps that change no document change no log.
LEMMA LogOfKept ==
    ASSUME UNCHANGED records
    PROVE  [a \in Account |-> LogOf(a)]' = [a \in Account |-> LogOf(a)]
BY DEF LogOf, Keys

\* A request is not Nothing.
LEMMA AskOfSomething ==
    ASSUME TypeOK, NEW c \in Call, pc[c] # "settled"
    PROVE  /\ AskOf(c) # Nothing
           /\ AskOf(c).account = from[c]
           /\ AskOf(c).day = Day[s[c]]
           /\ AskOf(c).value = i[c]
<1>1. from[c] \in Account /\ Day[s[c]] \in Nat /\ i[c] \in Reading
    BY ConstantsAssumption DEF TypeOK
<1>2. AskOf(c) \in [account : Account, day : Nat, value : Reading]
    BY <1>1 DEF AskOf
<1> QED
    BY <1>2, ConstantsAssumption DEF AskOf

\* The outstanding requests of an account are its calls in flight.
LEMMA OutstandingInFlight ==
    ASSUME TypeOK, NEW a \in Account
    PROVE  Log!Outstanding(a) = InFlight(a)
<1>1. \A c \in Call : pc[c] = "settled" => AskOf(c) = Nothing
    BY DEF AskOf
<1> QED
    BY <1>1, AskOfSomething DEF Log!Outstanding, InFlight

\* When nothing goes wrong, the queued writes of an account are those of its
\* calls in flight that have read, all on one device.
LEMMA QuietQueue ==
    ASSUME QuietInv, NEW a \in Account
    PROVE  /\ Queued(a) = {c \in InFlight(a) : pc[c] \notin Reads}
           /\ \A c \in InFlight(a) : Queue(DeviceOf[c], a) = Queued(a)
<1>1. \A X : Usual(X)
    BY DEF QuietInv, Usual
<1>2. \A c \in Call : pc[c] \in {"settled"} \cup Reads \cup Kind
    BY <1>1 DEF QuietInv, Inv, TypeOK, ResetsNothing, Awaits
<1>3. \A c \in Call : pc[c] \in Kind => to[c] = from[c]
    BY <1>1 DEF QuietInv, Inv, SameAccount
<1>4. Queued(a) = {c \in InFlight(a) : pc[c] \notin Reads}
    BY <1>2, <1>3, Places DEF Queued, InFlight
<1>5. \A c, e \in InFlight(a) : DeviceOf[c] = DeviceOf[e]
    BY <1>1 DEF QuietInv, Inv, OneDevice
<1> QED
    BY <1>4, <1>5 DEF Queue

---------------------------------------------------------------------------
(* Steps.                                                                  *)

\* The button of the record page asks for a reading.
LEMMA SubmitAsks ==
    ASSUME QuietInv, NEW c \in Call, NEW t \in Time, NEW v \in Typed,
           Submit(c, t, v), anomaly' = {}
    PROVE  \E r \in Log!Request : Log!Ask(c, r)
<1> DEFINE a == user[DeviceOf[c]]
           r == [account |-> a, day |-> Day[t], value |-> v]
<1>1. /\ a \in Account /\ v \in Reading /\ Day[t] \in DayId
      /\ UNCHANGED <<records, to, ahead>>
      /\ pc[c] = "settled"
      /\ \A e \in Call : /\ pc'[e] = IF e = c THEN "get" ELSE pc[e]
                         /\ s'[e] = IF e = c THEN t ELSE s[e]
                         /\ i'[e] = IF e = c THEN v ELSE i[e]
                         /\ from'[e] = IF e = c THEN a ELSE from[e]
    BY ConstantsAssumption DEF QuietInv, Inv, TypeOK, Submit, Reading, DayId
<1>2. r \in Log!Request
    BY <1>1 DEF Log!Request
<1>3. AskOf(c) = Nothing
    BY <1>1 DEF AskOf
<1>4. \A e \in Call : AskOf(e)' = IF e = c THEN r ELSE AskOf(e)
    BY <1>1 DEF AskOf
<1>5. Log!Outstanding(a) = Queued(a)
    <2>1. ~ \E e \in InFlight(a) : pc[e] \in Reads
        BY DEF Submit, StartAnomaly
    <2>2. Queued(a) = InFlight(a)
        BY <1>1, <2>1, QuietQueue DEF InFlight
    <2> QED
        BY <1>1, <2>2, OutstandingInFlight DEF QuietInv, Inv
<1>6. \A e \in Call : pc'[e] \in Kind <=> pc[e] \in Kind
    BY <1>1 DEF Kind
<1>7. \A b : {e \in Call : pc'[e] \in Kind /\ to'[e] = b} = Queued(b)
    BY <1>1, <1>6 DEF Queued
<1>8. \A e \in Call : BeforeOf(e)' = IF e = c THEN Queued(a) ELSE BeforeOf(e)
    <2> SUFFICES ASSUME NEW e \in Call
                 PROVE  BeforeOf(e)' = IF e = c THEN Queued(a) ELSE BeforeOf(e)
        OBVIOUS
    <2>1. BeforeOf(e)' = IF pc'[e] \in Awaits
                         THEN {x \in Call : pc'[x] \in Kind /\ to'[x] = from'[e]}
                         ELSE ahead'[e]
        BY DEF BeforeOf, Queued
    <2>2. BeforeOf(e)' = IF pc'[e] \in Awaits THEN Queued(from'[e]) ELSE ahead[e]
        BY <1>1, <1>7, <2>1
    <2> QED
        BY <1>1, <2>2, Places DEF BeforeOf
<1>9. Log!Ask(c, r)
    <2>1. [e \in Call |-> AskOf(e)]' = [[e \in Call |-> AskOf(e)] EXCEPT ![c] = r]
        BY <1>4
    <2>2. [e \in Call |-> BeforeOf(e)]'
              = [[e \in Call |-> BeforeOf(e)] EXCEPT ![c] = Log!Outstanding(r.account)]
        BY <1>5, <1>8
    <2> QED
        BY <1>1, <1>3, <2>1, <2>2, LogOfKept DEF Log!Ask
<1> QED
    BY <1>2, <1>9

\* A read that is answered changes nothing that DailyLog sees.
LEMMA AnswerStutters ==
    ASSUME QuietInv, NEW c \in Call, GetReturns(c) \/ GetCached(c)
    PROVE  UNCHANGED Log!vars
<1>1. /\ UNCHANGED <<records, s, i, from, to, ahead>>
      /\ \A e \in Call : /\ pc'[e] \in Awaits <=> pc[e] \in Awaits
                         /\ pc'[e] \in Kind <=> pc[e] \in Kind
                         /\ pc'[e] = "settled" <=> pc[e] = "settled"
    <2>1. TypeOK
        BY DEF QuietInv, Inv
    <2> QED
        BY <2>1, AnswerEffect, Places
<1>2. \A e \in Call : AskOf(e)' = AskOf(e)
    BY <1>1 DEF AskOf
<1>3. \A b : {x \in Call : pc'[x] \in Kind /\ to'[x] = b} = Queued(b)
    BY <1>1 DEF Queued
<1>4. \A e \in Call : BeforeOf(e)' = BeforeOf(e)
    <2> SUFFICES ASSUME NEW e \in Call
                 PROVE  BeforeOf(e)' = BeforeOf(e)
        OBVIOUS
    <2>1. BeforeOf(e)' = IF pc'[e] \in Awaits
                         THEN {x \in Call : pc'[x] \in Kind /\ to'[x] = from[e]}
                         ELSE ahead[e]
        BY <1>1 DEF BeforeOf, Queued
    <2> QED
        BY <1>1, <1>3, <2>1 DEF BeforeOf
<1> QED
    BY <1>1, <1>2, <1>4, LogOfKept DEF Log!vars

\* A call that is signed out when it goes on drops its request.
LEMMA ProceedDrops ==
    ASSUME QuietInv, NEW c \in Call, Proceed(c), user[DeviceOf[c]] = NoUser
    PROVE  Log!Drop({c})
<1>1. /\ pc[c] = "got" /\ UNCHANGED <<records, s, i, from>> /\ TypeOK
      /\ Settle(c)
    BY DEF Proceed, Catch, Write, QuietInv, Inv
<1>2. \A e \in Call : c \notin ahead[e] /\ ahead[c] = {}
    BY <1>1, Places DEF QuietInv, Inv, QueueOrder
<1>3. /\ \A e \in Call : pc'[e] = IF e = c THEN "settled" ELSE pc[e]
      /\ \A e \in Call : ahead'[e] = ahead[e]
      /\ UNCHANGED to
    <2>1. /\ \A e \in Call : pc'[e] = IF e = c THEN "settled" ELSE pc[e]
          /\ \A e \in Call : ahead'[e] = IF e = c THEN {} ELSE ahead[e] \ {c}
          /\ UNCHANGED to
        BY <1>1, SettleEffect
    <2> QED
        BY <1>2, <2>1
<1>4. \A e \in Call : AskOf(e)' = IF e \in {c} THEN Nothing ELSE AskOf(e)
    BY <1>1, <1>3 DEF AskOf
<1>5. \A b : /\ {x \in Call : pc'[x] \in Kind /\ to'[x] = b} = Queued(b)
             /\ c \notin Queued(b)
    BY <1>1, <1>3, Places DEF Queued
<1>6. \A e \in Call : BeforeOf(e)' = IF e \in {c} THEN {} ELSE BeforeOf(e) \ {c}
    <2> SUFFICES ASSUME NEW e \in Call
                 PROVE  BeforeOf(e)' = IF e = c THEN {} ELSE BeforeOf(e) \ {c}
        OBVIOUS
    <2>1. BeforeOf(e)' = IF pc'[e] \in Awaits
                         THEN {x \in Call : pc'[x] \in Kind /\ to'[x] = from[e]}
                         ELSE ahead[e]
        BY <1>1, <1>3 DEF BeforeOf, Queued
    <2>2. c \notin BeforeOf(e)
        BY <1>2, <1>5 DEF BeforeOf
    <2>3. CASE e = c
        BY <1>2, <1>3, <2>1, <2>3, Places
    <2>4. CASE e # c
        <3>1. BeforeOf(e)' = BeforeOf(e)
            BY <1>3, <1>5, <2>1, <2>4 DEF BeforeOf
        <3> QED
            BY <2>2, <2>4, <3>1
    <2> QED
        BY <2>3, <2>4
<1> QED
    BY <1>1, <1>4, <1>6, LogOfKept DEF Log!Drop, Log!Close

\* Otherwise, it queues its write, which changes nothing that DailyLog sees.
LEMMA ProceedStutters ==
    ASSUME QuietInv, NEW c \in Call, Proceed(c), user[DeviceOf[c]] # NoUser
    PROVE  UNCHANGED Log!vars
<1> DEFINE d == DeviceOf[c]
           a == from[c]
<1>0. /\ pc[c] = "got" /\ a \in Account /\ user[d] = a /\ a # NoUser
      /\ c \in InFlight(a)
      /\ UNCHANGED <<records, s, i, from>>
    BY ConstantsAssumption, Places
    DEF QuietInv, Inv, TypeOK, SameAccount, Usual, Proceed, InFlight
<1>10. PICK kind \in Kind : \E k : Enqueue(c, kind, a, k)
    BY <1>0 DEF Proceed, Catch, Write, Kind
<1>1. PICK k : Enqueue(c, kind, a, k)
    BY <1>10
<1>2. Queue(d, a) = Queued(a) /\ c \notin Queued(a)
    BY <1>0, QuietQueue, Places
<1>3. \A e \in Call : c \notin ahead[e]
    BY <1>0, Places DEF QuietInv, Inv, QueueOrder
<1>4. \A e \in Call : /\ pc'[e] = IF e = c THEN kind ELSE pc[e]
                      /\ to'[e] = IF e = c THEN a ELSE to[e]
                      /\ ahead'[e] = IF e = c THEN Queued(a) ELSE ahead[e]
    <2>0. pc = [e \in Call |-> pc[e]] /\ to = [e \in Call |-> to[e]]
        BY DEF QuietInv, Inv, TypeOK
    <2>1. \A e \in Call : /\ pc'[e] = IF e = c THEN kind ELSE pc[e]
                          /\ to'[e] = IF e = c THEN a ELSE to[e]
        BY <1>1, <2>0 DEF Enqueue
    <2>2. ahead' = [Dequeued(c) EXCEPT ![c] = Queue(d, a) \ {c}]
        BY <1>1 DEF Enqueue
    <2>3. \A e \in Call : ahead'[e] = IF e = c THEN Queue(d, a) \ {c}
                                      ELSE ahead[e] \ {c}
        BY <2>2 DEF Dequeued
    <2>4. Queue(d, a) \ {c} = Queued(a) /\ \A e \in Call : ahead[e] \ {c} = ahead[e]
        BY <1>2, <1>3
    <2> QED
        BY <2>1, <2>3, <2>4
<1>5. kind \notin Awaits /\ kind # "settled" /\ pc[c] \in Awaits
    BY <1>0, Places
<1>6. \A e \in Call : AskOf(e)' = AskOf(e)
    BY <1>0, <1>4, <1>5 DEF AskOf
<1>7. \A e \in Call : BeforeOf(e)' = BeforeOf(e)
    <2> SUFFICES ASSUME NEW e \in Call
                 PROVE  BeforeOf(e)' = BeforeOf(e)
        OBVIOUS
    <2>1. CASE e = c
        BY <1>0, <1>4, <1>5, <2>1 DEF BeforeOf
    <2>2. CASE e # c /\ pc[e] \notin Awaits
        BY <1>4, <2>2 DEF BeforeOf
    <2>3. CASE e # c /\ pc[e] \in Awaits
        <3>1. from[e] # a
            <4>1. e \in InFlight(from[e]) /\ from[e] \in Account
                BY <2>3, Places DEF InFlight, QuietInv, Inv, TypeOK
            <4>2. pc[e] \in Reads /\ pc[c] \in Reads
                BY <1>0, <2>3, Places
                DEF QuietInv, Inv, ResetsNothing, Usual, Awaits
            <4> QED
                BY <1>0, <2>3, <4>1, <4>2 DEF QuietInv, Inv, OneReader, Usual
        <3>2. BeforeOf(e)' = {x \in Call : pc'[x] \in Kind /\ to'[x] = from[e]}
            BY <1>0, <1>4, <2>3 DEF BeforeOf, Queued
        <3>3. \A x \in Call : (pc'[x] \in Kind /\ to'[x] = from[e])
                          <=> (pc[x] \in Kind /\ to[x] = from[e])
            BY <1>0, <1>4, <3>1, Places
        <3> QED
            BY <2>3, <3>2, <3>3 DEF BeforeOf, Queued
    <2> QED
        BY <2>1, <2>2, <2>3
<1> QED
    BY <1>0, <1>6, <1>7, LogOfKept DEF Log!vars

\* What a write does to the log of its account.
LEMMA CommitLogs ==
    ASSUME QuietInv, NEW c \in Call, WriteCommits(c), OneRecordPerDay',
           anomaly' = {}, NEW a \in Account, NEW d \in DayId
    PROVE  LogOf(a)'[d] = IF a = from[c] /\ d = Day[s[c]]
                          THEN i[c] ELSE LogOf(a)[d]
<1>1. /\ pc[c] \in Kind /\ to[c] = from[c] /\ to[c] \in Account
      /\ key[c] \in Time /\ Day[key[c]] = Day[s[c]]
      /\ i[c] \in Reading /\ i[c] # NoReading
      /\ pc[c] = "reset" => Keys(to[c]) = {}
    BY ConstantsAssumption
    DEF WriteCommits, Sendable, QuietInv, Inv, TypeOK, SameAccount,
        InStampOrder, ResetsNothing, Usual
<1>2. \A t \in Time : records'[a][t] = IF a = to[c] /\ t = key[c]
                                       THEN i[c] ELSE records[a][t]
    BY <1>1 DEF WriteCommits, Keys, Empty, QuietInv, Inv, TypeOK
<1>3. /\ \A t, u \in Keys(a)' : Day[t] = Day[u] => t = u
      /\ \A t, u \in Keys(a) : Day[t] = Day[u] => t = u
    BY DEF OneRecordPerDay, QuietInv, Inv, UniqueDays, Usual
<1>4. \A t \in Keys(a)' : LogOf(a)'[Day[t]] = records'[a][t]
    <2> SUFFICES ASSUME NEW t \in Keys(a)'
                 PROVE  LogOf(a)'[Day[t]] = records'[a][t]
        OBVIOUS
    <2>1. t \in Time /\ Day[t] \in DayId
        BY DEF Keys, DayId
    <2>2. (CHOOSE u \in Keys(a)' : Day[u] = Day[t]) = t
        BY <1>3
    <2> QED
        BY <2>1, <2>2 DEF LogOf
<1>5. \A t \in Keys(a) : LogOf(a)[Day[t]] = records[a][t]
    BY <1>3, LogOfKey
<1>6. /\ (\A u \in Keys(a)' : Day[u] # d) => LogOf(a)'[d] = NoReading
      /\ (\A u \in Keys(a) : Day[u] # d) => LogOf(a)[d] = NoReading
    BY DEF LogOf
<1>7. \A t \in Time : t \in Keys(a)' <=>
          t \in Keys(a) \/ (a = to[c] /\ t = key[c])
    BY <1>1, <1>2 DEF Keys
<1>8. Keys(a) \subseteq Time /\ Keys(a)' \subseteq Time
    BY DEF Keys
<1>9. CASE a = to[c] /\ d = Day[key[c]]
    BY <1>1, <1>2, <1>4, <1>7, <1>9
<1>10. CASE ~ (a = to[c] /\ d = Day[key[c]])
    <2>1. CASE \E t \in Keys(a) : Day[t] = d
        <3>1. PICK t \in Keys(a) : Day[t] = d
            BY <2>1
        <3>2. t \in Keys(a)' /\ records'[a][t] = records[a][t]
            BY <1>2, <1>7, <1>8, <1>10, <3>1
        <3> QED
            BY <1>1, <1>4, <1>5, <1>10, <3>1, <3>2
    <2>2. CASE \A t \in Keys(a) : Day[t] # d
        <3>1. \A t \in Keys(a)' : Day[t] # d
            BY <1>7, <1>8, <1>10, <2>2
        <3> QED
            BY <1>1, <1>6, <1>10, <2>2, <3>1
    <2> QED
        BY <2>1, <2>2
<1> QED
    BY <1>9, <1>10

\* A write that the server carries out records the reading that was asked.
LEMMA CommitRecords ==
    ASSUME QuietInv, NEW c \in Call, WriteCommits(c), OneRecordPerDay',
           anomaly' = {}
    PROVE  Log!Record(c)
<1>1. /\ pc[c] \in Kind /\ pc[c] # "settled" /\ pc[c] \notin Awaits
      /\ ahead[c] = {}
      /\ UNCHANGED <<s, i, from, to>>
      /\ from[c] \in Account /\ Day[s[c]] \in DayId
      /\ \A e \in Call : /\ pc'[e] = IF e = c THEN "settled" ELSE pc[e]
                         /\ ahead'[e] = IF e = c THEN {} ELSE ahead[e] \ {c}
    BY SettleEffect, Places
    DEF WriteCommits, Sendable, QuietInv, Inv, TypeOK, DayId
<1>2. /\ AskOf(c) # Nothing
      /\ AskOf(c).account = from[c]
      /\ AskOf(c).day = Day[s[c]]
      /\ AskOf(c).value = i[c]
    BY <1>1, AskOfSomething DEF QuietInv, Inv
<1>3. BeforeOf(c) = {}
    BY <1>1 DEF BeforeOf
<1>4. \A e \in Call : AskOf(e)' = IF e \in {c} THEN Nothing ELSE AskOf(e)
    BY <1>1 DEF AskOf
<1>5. \A e \in Call : BeforeOf(e)' = IF e \in {c} THEN {} ELSE BeforeOf(e) \ {c}
    <2> SUFFICES ASSUME NEW e \in Call
                 PROVE  BeforeOf(e)' = IF e = c THEN {} ELSE BeforeOf(e) \ {c}
        OBVIOUS
    <2>1. CASE e = c
        BY <1>1, <2>1, Places DEF BeforeOf
    <2>2. CASE e # c /\ pc[e] \notin Awaits
        BY <1>1, <2>2 DEF BeforeOf
    <2>3. CASE e # c /\ pc[e] \in Awaits
        <3>1. BeforeOf(e)' = {x \in Call : pc'[x] \in Kind /\ to'[x] = from[e]}
            BY <1>1, <2>3 DEF BeforeOf, Queued
        <3>2. \A x \in Call : (pc'[x] \in Kind /\ to'[x] = from[e])
                          <=> (x # c /\ pc[x] \in Kind /\ to[x] = from[e])
            BY <1>1 DEF Kind
        <3> QED
            BY <2>3, <3>1, <3>2 DEF BeforeOf, Queued
    <2> QED
        BY <2>1, <2>2, <2>3
<1>6. Log!Close({c})
    BY <1>4, <1>5 DEF Log!Close
<1>7. [a \in Account |-> LogOf(a)]' =
          [[a \in Account |-> LogOf(a)] EXCEPT ![from[c]][Day[s[c]]] = i[c]]
    <2>1. \A a \in Account : LogOf(a)' =
              IF a = from[c] THEN [LogOf(a) EXCEPT ![Day[s[c]]] = i[c]]
                             ELSE LogOf(a)
        <3> SUFFICES ASSUME NEW a \in Account
                     PROVE  LogOf(a)' =
                                IF a = from[c]
                                THEN [LogOf(a) EXCEPT ![Day[s[c]]] = i[c]]
                                ELSE LogOf(a)
            OBVIOUS
        <3>1. /\ LogOf(a) = [d \in DayId |-> LogOf(a)[d]]
              /\ LogOf(a)' = [d \in DayId |-> LogOf(a)'[d]]
            BY DEF LogOf
        <3>2. \A d \in DayId : LogOf(a)'[d] =
                  IF a = from[c] /\ d = Day[s[c]] THEN i[c] ELSE LogOf(a)[d]
            BY CommitLogs
        <3> QED
            BY <3>1, <3>2
    <2> QED
        BY <1>1, <2>1
<1> QED
    BY <1>2, <1>3, <1>6, <1>7 DEF Log!Record

\* A restart drops the requests whose calls were still reading.
LEMMA CrashDrops ==
    ASSUME QuietInv, NEW d \in Device, Crash(d)
    PROVE  \E C \in SUBSET Call : Log!Drop(C)
<1> DEFINE C == {c \in Call : DeviceOf[c] = d /\ pc[c] \in Awaits}
<1>1. /\ UNCHANGED <<records, s, i, from, to, ahead>>
      /\ \A e \in Call : /\ pc'[e] \in Kind <=> pc[e] \in Kind
                         /\ e \in C => pc'[e] = "settled"
                         /\ e \notin C => /\ pc'[e] \in Awaits <=> pc[e] \in Awaits
                                          /\ pc'[e] = "settled" <=> pc[e] = "settled"
    BY DEF Crash, Kind, Awaits, Reads
<1>2. \A e \in Call : AskOf(e)' = IF e \in C THEN Nothing ELSE AskOf(e)
    BY <1>1 DEF AskOf
<1>3. \A e \in Call : BeforeOf(e)' = IF e \in C THEN {} ELSE BeforeOf(e) \ C
    <2> SUFFICES ASSUME NEW e \in Call
                 PROVE  BeforeOf(e)' = IF e \in C THEN {} ELSE BeforeOf(e) \ C
        OBVIOUS
    <2>1. \A x \in C : x \notin ahead[e] /\ \A b : x \notin Queued(b)
        BY Places DEF QuietInv, Inv, QueueOrder, Queued
    <2>2. \A b : {x \in Call : pc'[x] \in Kind /\ to'[x] = b} = Queued(b)
        BY <1>1 DEF Queued
    <2>3. BeforeOf(e)' = IF pc'[e] \in Awaits
                         THEN {x \in Call : pc'[x] \in Kind /\ to'[x] = from[e]}
                         ELSE ahead[e]
        BY <1>1 DEF BeforeOf, Queued
    <2>4. CASE e \in C
        BY <1>1, <2>3, <2>4, Places DEF QuietInv, Inv, QueueOrder
    <2>5. CASE e \notin C
        <3>1. BeforeOf(e)' = BeforeOf(e)
            BY <1>1, <2>2, <2>3, <2>5 DEF BeforeOf
        <3>2. BeforeOf(e) \ C = BeforeOf(e)
            BY <2>1 DEF BeforeOf
        <3> QED
            BY <2>5, <3>1, <3>2
    <2> QED
        BY <2>4, <2>5
<1> HIDE DEF C
<1>4. Log!Drop(C)
    BY <1>1, <1>2, <1>3, LogOfKept DEF Log!Drop, Log!Close
<1> QED
    BY <1>4 DEF C

\* Signing in and out and a new copy change nothing that DailyLog sees.
LEMMA OutsideStutters ==
    ASSUME UNCHANGED <<records, pc, s, i, from, to, key, ahead>>
    PROVE  UNCHANGED Log!vars
<1>1. \A e \in Call : AskOf(e)' = AskOf(e) /\ BeforeOf(e)' = BeforeOf(e)
    BY DEF AskOf, BeforeOf, Queued
<1> QED
    BY <1>1, LogOfKept DEF Log!vars

---------------------------------------------------------------------------

\* As long as nothing goes wrong, updateUser, the document and the client's
\* queue implement the log with one reading per day and account, written in
\* the order in which the button was pressed.
THEOREM Refinement == QuietSpec => ImplementsDailyLog
<1>1. Init => Log!Init
    <2> SUFFICES ASSUME Init
                 PROVE  Log!Init
        OBVIOUS
    <2>1. \A a \in Account : Keys(a) = {}
        BY DEF Init, Keys, Empty
    <2>2. \A a \in Account : LogOf(a) = [d \in DayId |-> NoReading]
        BY <2>1 DEF LogOf
    <2>3. \A c \in Call : AskOf(c) = Nothing /\ BeforeOf(c) = {}
        BY Places DEF Init, AskOf, BeforeOf
    <2> QED
        BY <2>2, <2>3 DEF Log!Init
<1>2. QuietInv /\ QuietInv' /\ [Next /\ anomaly' = {}]_vars
          => [Log!Next]_(Log!vars)
    <2> SUFFICES ASSUME QuietInv, QuietInv', [Next /\ anomaly' = {}]_vars
                 PROVE  [Log!Next]_(Log!vars)
        OBVIOUS
    <2>0. OneRecordPerDay' /\ anomaly' = {}
        BY DEF QuietInv, Inv, UniqueDays, OneRecordPerDay
    <2>1. ASSUME NEW c \in Call, NEW t \in Time, NEW v \in Typed,
                 Submit(c, t, v)
          PROVE  Log!Next
        BY <2>0, <2>1, SubmitAsks DEF Log!Next
    <2>2. ASSUME NEW c \in Call, GetReturns(c) \/ GetCached(c)
          PROVE  UNCHANGED Log!vars
        BY <2>2, AnswerStutters
    <2>3. ASSUME NEW c \in Call, Proceed(c)
          PROVE  [Log!Next]_(Log!vars)
        <3>1. CASE user[DeviceOf[c]] = NoUser
            <4>1. {c} \in SUBSET Call
                OBVIOUS
            <4> QED
                BY <2>3, <3>1, <4>1, ProceedDrops DEF Log!Next
        <3>2. CASE user[DeviceOf[c]] # NoUser
            BY <2>3, <3>2, ProceedStutters
        <3> QED
            BY <3>1, <3>2
    <2>4. ASSUME NEW c \in Call, WriteCommits(c)
          PROVE  Log!Next
        BY <2>0, <2>4, CommitRecords DEF Log!Next
    <2>5. ASSUME NEW c \in Call, GetThrows(c) \/ Caught(c) \/ WriteRejected(c)
          PROVE  FALSE
        BY <2>0, <2>5
        DEF GetThrows, Caught, WriteRejected, QuietInv, Inv, ResetsNothing, Usual
    <2>6. ASSUME NEW d \in Device, Crash(d)
          PROVE  Log!Next
        BY <2>6, CrashDrops DEF Log!Next
    <2>7. CASE \/ \E d \in Device : RecordArrives(d)
               \/ \E d \in Device, a \in Account : SignIn(d, a)
               \/ \E d \in Device : SignOut(d)
               \/ UNCHANGED vars
        <3>1. UNCHANGED <<records, pc, s, i, from, to, key, ahead>>
            BY <2>7, OutsideEffect
        <3> QED
            BY <3>1, OutsideStutters
    <2> QED
        BY <2>1, <2>2, <2>3, <2>4, <2>5, <2>6, <2>7 DEF Next
<1> QED
    BY <1>1, <1>2, QuietInvHolds, PTL DEF QuietSpec, ImplementsDailyLog, Log!Spec
============================================================================
