------------------------- MODULE RecordStoreProofs -------------------------
(***************************************************************************)
(* Proofs about RecordStore, for all accounts, devices, calls, calendars   *)
(* and horizons.                                                           *)
(***************************************************************************)
EXTENDS RecordStore, WellFoundedInduction, TLAPS

---------------------------------------------------------------------------
(* Lemmas about the operators.                                             *)

\* A non-empty set of instants has a maximum, and Max is it: list[0] of the
\* sorted keys is the newest one.
LEMMA MaxInstant ==
    ASSUME NEW K \in SUBSET Time, K # {}
    PROVE  /\ Max(K) \in K
           /\ \A k \in K : k <= Max(K)
<1> DEFINE D == {Horizon - k : k \in K}
<1>1. /\ D \subseteq Nat
      /\ D # {}
    <2>1. \A k \in K : Horizon - k \in Nat
        BY ConstantsAssumption DEF Time
    <2>2. PICK k \in K : TRUE
        OBVIOUS
    <2>3. Horizon - k \in D
        OBVIOUS
    <2> QED
        BY <2>1, <2>3
<1>2. PICK m \in D : \A n \in D : ~ (<<n, m>> \in OpToRel(<, Nat))
    BY <1>1, WFMin, NatLessThanWellFounded
<1>3. \A n \in D : m <= n
    <2> SUFFICES ASSUME NEW n \in D, n < m
                 PROVE  FALSE
        BY <1>1
    <2>1. <<n, m>> \in OpToRel(<, Nat)
        BY <1>1 DEF OpToRel
    <2> QED
        BY <2>1, <1>2
<1>4. PICK x \in K : m = Horizon - x
    OBVIOUS
<1>5. \A y \in K : x >= y
    <2> SUFFICES ASSUME NEW y \in K
                 PROVE  x >= y
        OBVIOUS
    <2>1. m <= Horizon - y
        BY <1>3
    <2> QED
        BY <2>1, <1>4, ConstantsAssumption DEF Time
<1>6. /\ Max(K) \in K
      /\ \A y \in K : Max(K) >= y
    BY <1>5 DEF Max
<1> QED
    BY <1>6, ConstantsAssumption DEF Time

\* What a read returns is a set of instants.
LEMMA OverlaidInstants ==
    ASSUME TypeOK, NEW d \in Device, NEW a \in Account, NEW K \in SUBSET Time
    PROVE  Overlaid(d, a, K) \in SUBSET Time
<1>1. \A c \in Call : key[c] \in Time
    BY DEF TypeOK
<1>2. Queue(d, a) \subseteq Call
    BY DEF Queue, Queued
<1> QED
    BY <1>1, <1>2 DEF Overlaid

LEMMA SeenInstants ==
    ASSUME TypeOK, NEW d \in Device, NEW a \in Account
    PROVE  Seen(d, a) \in SUBSET Time
<1>1. Keys(a) \in SUBSET Time
    BY DEF Keys
<1> QED
    BY <1>1, OverlaidInstants DEF Seen

\* The field updateUser writes is an instant.
LEMMA ChosenInstant ==
    ASSUME NEW K \in SUBSET Time, K # {}, NEW t \in Time
    PROVE  Chosen(K, t) \in Time
BY MaxInstant DEF Chosen

\* A call that has reached a write either ends or queues it.
LEMMA WriteCases ==
    ASSUME TypeOK, NEW c \in Call, NEW kind, NEW k, Write(c, kind, k)
    PROVE  \/ Settle(c)
           \/ /\ user[DeviceOf[c]] \in Account
              /\ Enqueue(c, kind, user[DeviceOf[c]], k)
BY ConstantsAssumption DEF TypeOK, Write

\* What a call changes when it ends or queues a write is well typed.
LEMMA SettleType ==
    ASSUME TypeOK, NEW c \in Call, Settle(c)
    PROVE  /\ pc' \in [Call -> {"settled"} \cup Awaits \cup Kind]
           /\ to' \in [Call -> Account]
           /\ key' \in [Call -> Time]
           /\ ahead' \in [Call -> SUBSET Call]
BY DEF TypeOK, Settle, Dequeued

LEMMA EnqueueType ==
    ASSUME TypeOK, NEW c \in Call, NEW kind \in Kind, NEW a \in Account,
           NEW k \in Time, Enqueue(c, kind, a, k)
    PROVE  /\ pc' \in [Call -> {"settled"} \cup Awaits \cup Kind]
           /\ to' \in [Call -> Account]
           /\ key' \in [Call -> Time]
           /\ ahead' \in [Call -> SUBSET Call]
<1>1. Queue(DeviceOf[c], a) \ {c} \in SUBSET Call
    BY DEF Queue, Queued
<1>2. Dequeued(c) \in [Call -> SUBSET Call]
    BY DEF TypeOK, Dequeued
<1> QED
    BY <1>1, <1>2 DEF TypeOK, Enqueue

\* The continuations of updateUser end or queue a write of a kind they choose.
LEMMA ProceedCases ==
    ASSUME TypeOK, NEW c \in Call, Proceed(c)
    PROVE  \/ Settle(c)
           \/ /\ user[DeviceOf[c]] \in Account
              /\ seen[c] = {}
              /\ Enqueue(c, "reset", user[DeviceOf[c]], s[c])
           \/ /\ user[DeviceOf[c]] \in Account
              /\ seen[c] # {}
              /\ Enqueue(c, "merge", user[DeviceOf[c]], Chosen(seen[c], s[c]))
BY WriteCases DEF Proceed, Catch

LEMMA CaughtCases ==
    ASSUME TypeOK, NEW c \in Call, Caught(c)
    PROVE  \/ Settle(c)
           \/ /\ user[DeviceOf[c]] \in Account
              /\ Enqueue(c, "reset", user[DeviceOf[c]], s[c])
BY WriteCases DEF Caught, Catch

\* The field that a call chooses is its stamp or one that it has seen.
LEMMA ChosenAmong ==
    ASSUME NEW K \in SUBSET Time, K # {}, NEW t \in Time
    PROVE  Chosen(K, t) = t \/ Chosen(K, t) \in K
BY MaxInstant DEF Chosen

---------------------------------------------------------------------------
(* Effects of the steps, call by call.                                     *)

\* The values of pc.
LEMMA Places ==
    /\ \A k \in Kind : k \notin Awaits /\ k \notin Reads /\ k # "settled"
    /\ \A k \in Reads : k \in Awaits /\ k \notin Kind /\ k # "settled"
    /\ \A k \in Awaits : k \notin Kind /\ k # "settled"
    /\ "settled" \notin Kind /\ "settled" \notin Awaits /\ "settled" \notin Reads
    /\ "get" \in Reads /\ "got" \in Reads /\ "failed" \in Awaits
    /\ "failed" \notin Reads
    /\ "merge" \in Kind /\ "reset" \in Kind /\ "orphan" \in Kind
BY DEF Kind, Awaits, Reads

LEMMA SettleEffect ==
    ASSUME TypeOK, NEW c \in Call, Settle(c)
    PROVE  /\ \A x \in Call :
                  /\ pc'[x] = IF x = c THEN "settled" ELSE pc[x]
                  /\ ahead'[x] = IF x = c THEN {} ELSE ahead[x] \ {c}
           /\ UNCHANGED <<to, key>>
BY DEF TypeOK, Settle, Dequeued

LEMMA EnqueueEffect ==
    ASSUME TypeOK, NEW c \in Call, NEW kind \in Kind, NEW a \in Account,
           NEW k \in Time, Enqueue(c, kind, a, k)
    PROVE  /\ pc'[c] = kind /\ to'[c] = a /\ key'[c] = k
           /\ ahead'[c] = Queue(DeviceOf[c], a) \ {c}
           /\ \A x \in Call : x # c =>
                  /\ pc'[x] = pc[x] /\ to'[x] = to[x] /\ key'[x] = key[x]
                  /\ ahead'[x] = ahead[x] \ {c}
<1>1. \A x \in Call : /\ pc'[x] = IF x = c THEN kind ELSE pc[x]
                      /\ to'[x] = IF x = c THEN a ELSE to[x]
                      /\ key'[x] = IF x = c THEN k ELSE key[x]
    BY DEF Enqueue, TypeOK
<1>2. \A x \in Call : ahead'[x] = IF x = c THEN Queue(DeviceOf[c], a) \ {c}
                                          ELSE ahead[x] \ {c}
    BY DEF Enqueue, Dequeued
<1> QED
    BY <1>1, <1>2

\* Either way of going on ends the call or queues a write.
LEMMA GoOnCases ==
    ASSUME TypeOK, NEW c \in Call, Proceed(c) \/ Caught(c)
    PROVE  \/ Settle(c)
           \/ \E kind \in Kind, a \in Account, k \in Time :
                  user[DeviceOf[c]] = a /\ Enqueue(c, kind, a, k)
<1>1. seen[c] \in SUBSET Time /\ s[c] \in Time
      /\ "merge" \in Kind /\ "reset" \in Kind
    BY Places DEF TypeOK
<1> QED
    BY <1>1, ProceedCases, CaughtCases, ChosenInstant

\* get() is answered or throws.
LEMMA AnswerEffect ==
    ASSUME TypeOK, NEW c \in Call,
           GetReturns(c) \/ GetCached(c) \/ GetThrows(c)
    PROVE  /\ pc[c] = "get" /\ pc'[c] \in {"got", "failed"}
           /\ \A x \in Call : x # c => pc'[x] = pc[x] /\ seen'[x] = seen[x]
           /\ UNCHANGED <<records, user, s, i, from, to, key, ahead>>
BY DEF TypeOK, GetReturns, GetCached, GetThrows, Answer

\* A write is refused.
LEMMA RejectEffect ==
    ASSUME TypeOK, NEW c \in Call, WriteRejected(c)
    PROVE  /\ pc[c] \in Kind /\ user[DeviceOf[c]] = to[c]
           /\ pc'[c] \in {"failed", "settled"}
           /\ \A x \in Call :
                  /\ x # c => pc'[x] = pc[x]
                  /\ ahead'[x] = IF x = c THEN {} ELSE ahead[x] \ {c}
           /\ UNCHANGED <<records, user, s, i, from, seen, to, key, copy>>
BY DEF TypeOK, WriteRejected, Sendable, Dequeued

\* Steps that only change accounts, copies or nothing.
LEMMA OutsideEffect ==
    ASSUME \/ \E d \in Device : RecordArrives(d)
           \/ \E d \in Device, a \in Account : SignIn(d, a)
           \/ \E d \in Device : SignOut(d)
           \/ UNCHANGED vars
    PROVE  UNCHANGED <<records, pc, s, i, from, seen, to, key, ahead>>
BY DEF RecordArrives, SignIn, SignOut, vars

LEMMA CrashEffect ==
    ASSUME TypeOK, NEW d \in Device, Crash(d)
    PROVE  /\ \A x \in Call :
                  /\ pc'[x] \in Kind <=> pc[x] \in Kind
                  /\ pc'[x] = "reset" <=> pc[x] = "reset"
                  /\ pc'[x] = "settled" \/ pc'[x] = pc[x] \/ pc'[x] = "orphan"
                  /\ pc[x] = "settled" => pc'[x] = "settled"
                  /\ pc'[x] \in Awaits => pc'[x] = pc[x]
           /\ UNCHANGED <<records, user, s, i, from, seen, to, key, ahead, copy>>
<1>1. /\ UNCHANGED <<records, user, s, i, from, seen, to, key, ahead, copy>>
      /\ \A x \in Call :
             pc'[x] = CASE DeviceOf[x] = d /\ pc[x] \in Awaits -> "settled"
                        [] DeviceOf[x] = d /\ pc[x] = "merge" -> "orphan"
                        [] OTHER -> pc[x]
    BY DEF Crash
<1> QED
    BY <1>1 DEF Awaits, Reads, Kind

---------------------------------------------------------------------------
(* Type correctness.                                                       *)

LEMMA TypeInit == Init => TypeOK
BY ConstantsAssumption DEF Init, TypeOK, Empty

LEMMA TypeStep == TypeOK /\ [Next]_vars => TypeOK'
<1> SUFFICES ASSUME TypeOK, [Next]_vars
             PROVE  TypeOK'
    OBVIOUS
<1>1. ASSUME NEW c \in Call, NEW t \in Time, NEW v \in Typed, Submit(c, t, v)
      PROVE  TypeOK'
    <2>1. /\ v \in Reading
          /\ user[DeviceOf[c]] \in Account
        BY <1>1, ConstantsAssumption DEF Submit, Reading, TypeOK
    <2>2. StartAnomaly(DeviceOf[c], user[DeviceOf[c]], t) \subseteq Anomaly
        BY DEF StartAnomaly, Anomaly
    <2>3. pc' \in [Call -> {"settled"} \cup Awaits \cup Kind]
        BY <1>1 DEF Submit, TypeOK, Awaits, Reads
    <2> QED
        BY <1>1, <2>1, <2>2, <2>3 DEF Submit, TypeOK
<1>2. ASSUME NEW c \in Call, GetReturns(c) \/ GetCached(c) \/ GetThrows(c)
      PROVE  TypeOK'
    <2> DEFINE d == DeviceOf[c]
    <2>1. d \in Device /\ from[c] \in Account /\ Keys(from[c]) \in SUBSET Time
        BY ConstantsAssumption DEF TypeOK, Keys
    <2>2. copy[d][from[c]] \in SUBSET Time
        BY <2>1 DEF TypeOK
    <2>3. /\ Seen(d, from[c]) \in SUBSET Time
          /\ Overlaid(d, from[c], copy[d][from[c]]) \in SUBSET Time
        BY <2>1, <2>2, SeenInstants, OverlaidInstants
    <2>4. seen' \in [Call -> SUBSET Time]
        BY <1>2, <2>3 DEF GetReturns, GetCached, GetThrows, Answer, TypeOK
    <2>5. copy' \in [Device -> [Account -> SUBSET Time]]
        <3>1. copy' = [copy EXCEPT ![d][from[c]] = Keys(from[c])] \/ copy' = copy
            BY <1>2 DEF GetReturns, GetCached, GetThrows
        <3>2. copy \in [Device -> [Account -> SUBSET Time]]
            BY DEF TypeOK
        <3> QED
            BY <2>1, <3>1, <3>2
    <2>6. anomaly' \subseteq Anomaly
        BY <1>2 DEF GetReturns, GetCached, GetThrows, Answer, TypeOK, Anomaly
    <2>7. pc' \in [Call -> {"settled"} \cup Awaits \cup Kind]
        BY <1>2 DEF GetReturns, GetCached, GetThrows, Answer, TypeOK, Awaits, Reads
    <2> QED
        BY <1>2, <2>4, <2>5, <2>6, <2>7, AnswerEffect DEF TypeOK
<1>3. ASSUME NEW c \in Call, Proceed(c)
      PROVE  TypeOK'
    <2>1. anomaly' \subseteq Anomaly
        BY <1>3 DEF Proceed, TypeOK, Anomaly
    <2> QED
        BY <1>3, <2>1, GoOnCases, SettleType, EnqueueType DEF Proceed, TypeOK
<1>4. ASSUME NEW c \in Call, Caught(c)
      PROVE  TypeOK'
    BY <1>4, GoOnCases, SettleType, EnqueueType DEF Caught, TypeOK
<1>5. ASSUME NEW c \in Call, WriteRejected(c)
      PROVE  TypeOK'
    <2>1. pc' \in [Call -> {"settled"} \cup Awaits \cup Kind]
        BY <1>5 DEF WriteRejected, TypeOK, Awaits
    <2>2. ahead' \in [Call -> SUBSET Call] /\ anomaly' \subseteq Anomaly
        BY <1>5 DEF WriteRejected, Dequeued, TypeOK, Anomaly
    <2> QED
        BY <1>5, <2>1, <2>2, RejectEffect DEF TypeOK
<1>6. ASSUME NEW c \in Call, WriteCommits(c)
      PROVE  TypeOK'
    <2>1. records' \in [Account -> [Time -> Reading \cup {NoReading}]]
        BY <1>6 DEF WriteCommits, TypeOK, Empty
    <2>2. copy' \in [Device -> [Account -> SUBSET Time]]
        <3> DEFINE K == IF pc[c] = "reset" THEN {key[c]}
                        ELSE IF copy[DeviceOf[c]][to[c]] = {} THEN {}
                        ELSE copy[DeviceOf[c]][to[c]] \cup {key[c]}
        <3>1. /\ DeviceOf[c] \in Device /\ to[c] \in Account /\ key[c] \in Time
              /\ copy[DeviceOf[c]][to[c]] \in SUBSET Time
            BY ConstantsAssumption DEF TypeOK
        <3>2. copy' = [copy EXCEPT ![DeviceOf[c]][to[c]] = K]
            BY <1>6 DEF WriteCommits, Acknowledged
        <3>3. K \in SUBSET Time
            BY <3>1
        <3> HIDE DEF K
        <3> QED
            BY <3>1, <3>2, <3>3 DEF TypeOK
    <2> QED
        BY <1>6, <2>1, <2>2, SettleType DEF WriteCommits, TypeOK
<1>7. ASSUME NEW d \in Device, RecordArrives(d)
      PROVE  TypeOK'
    <2>1. user[d] \in Account /\ Keys(user[d]) \in SUBSET Time
        BY <1>7 DEF RecordArrives, TypeOK, Keys
    <2>2. copy' \in [Device -> [Account -> SUBSET Time]]
        BY <1>7, <2>1 DEF RecordArrives, TypeOK
    <2> QED
        BY <1>7, <2>2 DEF RecordArrives, TypeOK
<1>8. ASSUME NEW d \in Device, Crash(d)
      PROVE  TypeOK'
    <2>1. pc' \in [Call -> {"settled"} \cup Awaits \cup Kind]
        BY <1>8 DEF Crash, TypeOK, Awaits, Reads, Kind
    <2> QED
        BY <1>8, <2>1 DEF Crash, TypeOK
<1>9. ASSUME NEW d \in Device, NEW a \in Account, SignIn(d, a)
      PROVE  TypeOK'
    BY <1>9 DEF SignIn, TypeOK, Anomaly
<1>10. ASSUME NEW d \in Device, SignOut(d)
       PROVE  TypeOK'
    BY <1>10 DEF SignOut, TypeOK
<1>11. CASE UNCHANGED vars
    BY <1>11 DEF vars, TypeOK
<1> QED
    BY <1>1, <1>2, <1>3, <1>4, <1>5, <1>6, <1>7, <1>8, <1>9, <1>10, <1>11 DEF Next

\* Every field, local variable and queue of every reachable state is well
\* typed; in particular only numbers up to the limit of Push3 are stored.
THEOREM TypeCorrect == Spec => []TypeOK
BY TypeInit, TypeStep, PTL DEF Spec

---------------------------------------------------------------------------
(* The queues.                                                             *)

\* A call that ends leaves its queue in order.
LEMMA SettleOrder ==
    ASSUME TypeOK, QueueOrder, NEW c \in Call, Settle(c)
    PROVE  QueueOrder'
BY DEF TypeOK, QueueOrder, Settle, Dequeued, Kind

\* So does one whose write is refused.
LEMMA RejectOrder ==
    ASSUME TypeOK, QueueOrder, NEW c \in Call, WriteRejected(c)
    PROVE  QueueOrder'
<1>1. PICK v \in {"failed", "settled"} : pc' = [pc EXCEPT ![c] = v]
    BY DEF WriteRejected
<1>2. ahead' = Dequeued(c) /\ to' = to
    BY DEF WriteRejected
<1> QED
    BY <1>1, <1>2 DEF TypeOK, QueueOrder, Dequeued, Kind

\* A call that queues a write comes last in the queue.
LEMMA EnqueueOrder ==
    ASSUME TypeOK, QueueOrder, NEW c \in Call, NEW kind \in Kind,
           NEW a \in Account, NEW k \in Time, Enqueue(c, kind, a, k)
    PROVE  QueueOrder'
<1> DEFINE Q == Queue(DeviceOf[c], a) \ {c}
<1>1. \A x \in Call : ahead'[x] = IF x = c THEN Q ELSE ahead[x] \ {c}
    BY DEF Enqueue, Dequeued, TypeOK
<1>2. \A x \in Call : /\ pc'[x] = IF x = c THEN kind ELSE pc[x]
                      /\ to'[x] = IF x = c THEN a ELSE to[x]
    BY DEF Enqueue, TypeOK
<1>3. \A x \in Call : x \in Q <=> /\ x # c /\ pc[x] \in Kind /\ to[x] = a
                                 /\ DeviceOf[x] = DeviceOf[c]
    BY DEF Queue, Queued
<1> HIDE DEF Q
<1>4. \A x \in Call : pc'[x] \notin Kind => ahead'[x] = {}
    BY <1>1, <1>2 DEF QueueOrder
<1>5. ASSUME NEW x \in Call, NEW y \in Call, x \in ahead'[y]
      PROVE  /\ pc'[x] \in Kind /\ y \notin ahead'[x] /\ x # y
             /\ to'[x] = to'[y] /\ DeviceOf[x] = DeviceOf[y]
    <2>1. CASE y = c
        <3>1. x \in Q
            BY <1>1, <1>5, <2>1
        <3>2. /\ x # c /\ pc[x] \in Kind /\ to[x] = a
              /\ DeviceOf[x] = DeviceOf[c]
            BY <3>1, <1>3
        <3>3. y \notin ahead'[x]
            BY <1>1, <2>1, <3>2
        <3> QED
            BY <1>2, <2>1, <3>2, <3>3
    <2>2. CASE y # c
        <3>1. x # c /\ x \in ahead[y]
            BY <1>1, <1>5, <2>2
        <3>2. /\ pc[x] \in Kind /\ y \notin ahead[x] /\ x # y
              /\ to[x] = to[y] /\ DeviceOf[x] = DeviceOf[y]
            BY <3>1 DEF QueueOrder
        <3>3. y \notin ahead'[x]
            BY <1>1, <3>1, <3>2
        <3> QED
            BY <1>2, <2>2, <3>1, <3>2, <3>3
    <2> QED
        BY <2>1, <2>2
<1>6. ASSUME NEW x \in Call, NEW y \in Call, NEW z \in Call,
             x \in ahead'[y], y \in ahead'[z]
      PROVE  x \in ahead'[z]
    <2>1. y # c /\ x # c /\ x \in ahead[y]
        <3>1. y # c
            BY <1>1, <1>3, <1>6
        <3> QED
            BY <1>1, <1>6, <3>1
    <2>2. CASE z = c
        <3>1. y \in Q
            BY <1>1, <1>6, <2>2
        <3>2. pc[x] \in Kind /\ to[x] = a /\ DeviceOf[x] = DeviceOf[c]
            BY <1>3, <2>1, <3>1 DEF QueueOrder
        <3> QED
            BY <1>1, <1>3, <2>1, <2>2, <3>2
    <2>3. CASE z # c
        <3>1. y \in ahead[z]
            BY <1>1, <1>6, <2>3
        <3>2. x \in ahead[z]
            BY <2>1, <3>1 DEF QueueOrder
        <3> QED
            BY <1>1, <2>1, <2>3, <3>2
    <2> QED
        BY <2>2, <2>3
<1>7. ASSUME NEW x \in Call, NEW y \in Call, x # y,
             pc'[x] \in Kind, pc'[y] \in Kind,
             to'[x] = to'[y], DeviceOf[x] = DeviceOf[y]
      PROVE  x \in ahead'[y] \/ y \in ahead'[x]
    <2>1. CASE x = c
        BY <1>1, <1>2, <1>3, <1>7, <2>1
    <2>2. CASE y = c
        BY <1>1, <1>2, <1>3, <1>7, <2>2
    <2>3. CASE x # c /\ y # c
        <3>1. pc[x] \in Kind /\ pc[y] \in Kind /\ to[x] = to[y]
            BY <1>2, <1>7, <2>3
        <3>2. x \in ahead[y] \/ y \in ahead[x]
            BY <1>7, <3>1 DEF QueueOrder
        <3> QED
            BY <1>1, <2>3, <3>2
    <2> QED
        BY <2>1, <2>2, <2>3
<1> QED
    BY <1>4, <1>5, <1>6, <1>7 DEF QueueOrder

\* Every step keeps the queues in order.
LEMMA OrderStep == TypeOK /\ QueueOrder /\ [Next]_vars => QueueOrder'
<1> SUFFICES ASSUME TypeOK, QueueOrder, [Next]_vars
             PROVE  QueueOrder'
    OBVIOUS
<1>1. CASE /\ \A x \in Call : pc'[x] \in Kind <=> pc[x] \in Kind
           /\ UNCHANGED <<to, ahead>>
    BY <1>1 DEF QueueOrder
<1>2. ASSUME NEW c \in Call, NEW t \in Time, NEW v \in Typed, Submit(c, t, v)
      PROVE  QueueOrder'
    BY <1>1, <1>2 DEF Submit, TypeOK, Kind
<1>3. ASSUME NEW c \in Call, GetReturns(c) \/ GetCached(c) \/ GetThrows(c)
      PROVE  QueueOrder'
    BY <1>1, <1>3, AnswerEffect DEF Kind
<1>4. ASSUME NEW c \in Call, Proceed(c) \/ Caught(c)
      PROVE  QueueOrder'
    BY <1>4, GoOnCases, SettleOrder, EnqueueOrder
<1>5. ASSUME NEW c \in Call, WriteRejected(c)
      PROVE  QueueOrder'
    BY <1>5, RejectOrder
<1>6. ASSUME NEW c \in Call, WriteCommits(c)
      PROVE  QueueOrder'
    BY <1>6, SettleOrder DEF WriteCommits
<1>7. ASSUME NEW d \in Device, Crash(d)
      PROVE  QueueOrder'
    BY <1>1, <1>7, CrashEffect
<1>8. CASE \/ \E d \in Device : RecordArrives(d)
           \/ \E d \in Device, a \in Account : SignIn(d, a)
           \/ \E d \in Device : SignOut(d)
           \/ UNCHANGED vars
    BY <1>1, <1>8, OutsideEffect
<1> QED
    BY <1>2, <1>3, <1>4, <1>5, <1>6, <1>7, <1>8 DEF Next

---------------------------------------------------------------------------
(* Calls stay with their account.                                          *)

\* Anomalies are never forgotten.
LEMMA AnomalyGrows ==
    ASSUME [Next]_vars, NEW X, Usual(X)'
    PROVE  Usual(X)
<1>1. anomaly \subseteq anomaly'
    BY DEF Next, Submit, GetReturns, GetCached, GetThrows, Answer, Proceed,
           Caught, WriteCommits, WriteRejected, RecordArrives, Crash, SignIn,
           SignOut, vars
<1> QED
    BY <1>1 DEF Usual

LEMMA SameAccountStep ==
    TypeOK /\ SameAccount /\ [Next]_vars => SameAccount'
<1> DEFINE Stays(x) ==
        /\ pc[x] \in Awaits => user[DeviceOf[x]] \in {from[x], NoUser}
        /\ pc[x] \in Kind => to[x] = from[x]
<1> SUFFICES ASSUME TypeOK, SameAccount, [Next]_vars, Usual({"switch"})',
                    NEW x \in Call
             PROVE  Stays(x)'
    BY DEF SameAccount
<1>0. /\ Stays(x)
      /\ from[x] \in Account
      /\ DeviceOf[x] \in Device
    BY AnomalyGrows, ConstantsAssumption DEF SameAccount, TypeOK
<1>1. ASSUME NEW c \in Call, NEW t \in Time, NEW v \in Typed, Submit(c, t, v)
      PROVE  Stays(x)'
    BY <1>0, <1>1, Places DEF Submit, TypeOK
<1>2. ASSUME NEW c \in Call, GetReturns(c) \/ GetCached(c) \/ GetThrows(c)
      PROVE  Stays(x)'
    BY <1>0, <1>2, AnswerEffect, Places
<1>3. ASSUME NEW c \in Call, Proceed(c) \/ Caught(c)
      PROVE  Stays(x)'
    <2>1. UNCHANGED <<user, from>> /\ pc[c] \in Awaits
        BY <1>3, Places DEF Proceed, Caught
    <2>2. CASE Settle(c)
        BY <1>0, <2>1, <2>2, SettleEffect, Places
    <2>3. ASSUME NEW kind \in Kind, NEW a \in Account, NEW k \in Time,
                 user[DeviceOf[c]] = a, Enqueue(c, kind, a, k)
          PROVE  Stays(x)'
        <3>1. x = c => a = from[c]
            BY <1>0, <2>1, <2>3, ConstantsAssumption
        <3>2. /\ pc'[x] = IF x = c THEN kind ELSE pc[x]
              /\ to'[x] = IF x = c THEN a ELSE to[x]
            BY <2>3, EnqueueEffect
        <3> QED
            BY <1>0, <2>1, <3>1, <3>2, Places
    <2> QED
        BY <1>3, <2>2, <2>3, GoOnCases
<1>4. ASSUME NEW c \in Call, WriteRejected(c)
      PROVE  Stays(x)'
    BY <1>0, <1>4, RejectEffect, Places
<1>5. ASSUME NEW c \in Call, WriteCommits(c)
      PROVE  Stays(x)'
    BY <1>0, <1>5, SettleEffect, Places DEF WriteCommits
<1>6. ASSUME NEW d \in Device, Crash(d)
      PROVE  Stays(x)'
    BY <1>0, <1>6, CrashEffect
<1>7. ASSUME NEW d \in Device, NEW a \in Account, SignIn(d, a)
      PROVE  Stays(x)'
    <2>1. DeviceOf[x] = d /\ pc[x] \in Awaits => from[x] = a
        BY <1>7 DEF SignIn, Usual
    <2> QED
        BY <1>0, <1>7, <2>1 DEF SignIn, TypeOK
<1>8. ASSUME NEW d \in Device, SignOut(d)
      PROVE  Stays(x)'
    BY <1>0, <1>8 DEF SignOut, TypeOK
<1>9. CASE (\E d \in Device : RecordArrives(d)) \/ UNCHANGED vars
    BY <1>0, <1>9 DEF RecordArrives, vars
<1> QED
    BY <1>1, <1>2, <1>3, <1>4, <1>5, <1>6, <1>7, <1>8, <1>9 DEF Next

\* Only a press of the button brings a call into flight.
LEMMA FlightStep ==
    ASSUME TypeOK, NEW a \in Account,
           \/ \E c \in Call : \/ GetReturns(c) \/ GetCached(c) \/ GetThrows(c)
                              \/ Proceed(c) \/ Caught(c)
                              \/ WriteCommits(c) \/ WriteRejected(c)
           \/ \E d \in Device : RecordArrives(d)
           \/ \E d \in Device : Crash(d)
           \/ \E d \in Device, b \in Account : SignIn(d, b)
           \/ \E d \in Device : SignOut(d)
           \/ UNCHANGED vars
    PROVE  /\ InFlight(a)' \subseteq InFlight(a)
           /\ \A x \in Call : pc'[x] \in Reads => pc[x] \in Reads
           /\ s' = s /\ from' = from
<1> DEFINE Fewer == /\ \A x \in Call : /\ pc'[x] # "settled" => pc[x] # "settled"
                                       /\ pc'[x] \in Reads => pc[x] \in Reads
                    /\ s' = s /\ from' = from
<1>1. ASSUME NEW c \in Call, GetReturns(c) \/ GetCached(c) \/ GetThrows(c)
      PROVE  Fewer
    BY <1>1, AnswerEffect, Places
<1>2. ASSUME NEW c \in Call, Proceed(c) \/ Caught(c)
      PROVE  Fewer
    <2>1. UNCHANGED <<s, from>> /\ pc[c] # "settled"
        BY <1>2 DEF Proceed, Caught
    <2>2. CASE Settle(c)
        BY <2>1, <2>2, SettleEffect, Places
    <2>3. ASSUME NEW kind \in Kind, NEW a1 \in Account, NEW k \in Time,
                 Enqueue(c, kind, a1, k)
          PROVE  Fewer
        <3>1. \A x \in Call : pc'[x] = IF x = c THEN kind ELSE pc[x]
            BY <2>3, EnqueueEffect
        <3> QED
            BY <2>1, <3>1, Places
    <2> QED
        BY <1>2, <2>2, <2>3, GoOnCases
<1>3. ASSUME NEW c \in Call, WriteCommits(c)
      PROVE  Fewer
    BY <1>3, SettleEffect, Places DEF WriteCommits
<1>4. ASSUME NEW c \in Call, WriteRejected(c)
      PROVE  Fewer
    <2>1. /\ pc[c] # "settled" /\ pc'[c] \notin Reads
          /\ \A x \in Call : x # c => pc'[x] = pc[x]
          /\ UNCHANGED <<s, from>>
        <3>1. /\ pc[c] \in Kind /\ pc'[c] \in {"failed", "settled"}
              /\ \A x \in Call : x # c => pc'[x] = pc[x]
              /\ UNCHANGED <<s, from>>
            BY <1>4, RejectEffect
        <3>2. pc[c] # "settled" /\ pc'[c] \notin Reads
            BY <3>1 DEF Kind, Reads
        <3> QED
            BY <3>1, <3>2
    <2> QED
        BY <2>1
<1>5. ASSUME NEW d \in Device, Crash(d)
      PROVE  Fewer
    BY <1>5, CrashEffect, Places
<1>6. ASSUME \/ \E d \in Device : RecordArrives(d)
             \/ \E d \in Device, b \in Account : SignIn(d, b)
             \/ \E d \in Device : SignOut(d)
             \/ UNCHANGED vars
      PROVE  Fewer
    <2>1. pc' = pc /\ s' = s /\ from' = from
        BY <1>6, OutsideEffect
    <2> QED
        BY <2>1
<1> HIDE DEF Fewer
<1>7. Fewer
    BY <1>1, <1>2, <1>3, <1>4, <1>5, <1>6
<1> QED
    BY <1>7 DEF InFlight, Fewer

\* The calls in flight for an account are on one device.
LEMMA OneDeviceStep ==
    TypeOK /\ OneDevice /\ [Next]_vars => OneDevice'
<1> SUFFICES ASSUME TypeOK, OneDevice, [Next]_vars, Usual({"race"})',
                    NEW a \in Account,
                    NEW x \in InFlight(a)', NEW y \in InFlight(a)'
             PROVE  DeviceOf[x] = DeviceOf[y]
    BY DEF OneDevice
<1>0. /\ \A e, f \in InFlight(a) : DeviceOf[e] = DeviceOf[f]
      /\ x \in Call /\ y \in Call
    BY AnomalyGrows DEF OneDevice, InFlight
<1>1. ASSUME NEW c \in Call, NEW t \in Time, NEW v \in Typed, Submit(c, t, v)
      PROVE  DeviceOf[x] = DeviceOf[y]
    <2>1. \A e \in InFlight(a)' : e # c => e \in InFlight(a)
        BY <1>1 DEF Submit, InFlight, TypeOK
    <2>2. c \in InFlight(a)' => a = user[DeviceOf[c]]
        BY <1>1 DEF Submit, InFlight, TypeOK
    <2>3. c \in InFlight(a)' =>
              \A e \in InFlight(a) : DeviceOf[e] = DeviceOf[c]
        BY <1>1, <2>2 DEF Submit, StartAnomaly, Usual
    <2> QED
        BY <1>0, <2>1, <2>3
<1>2. CASE InFlight(a)' \subseteq InFlight(a)
    BY <1>0, <1>2
<1> QED
    BY <1>1, <1>2, FlightStep DEF Next

\* One call reads at a time.
LEMMA OneReaderStep ==
    TypeOK /\ OneReader /\ [Next]_vars => OneReader'
<1> SUFFICES ASSUME TypeOK, OneReader, [Next]_vars, Usual({"overlap"})',
                    NEW a \in Account,
                    NEW x \in InFlight(a)', NEW y \in InFlight(a)',
                    pc'[x] \in Reads, pc'[y] \in Reads
             PROVE  x = y
    BY DEF OneReader
<1>0. /\ \A c, e \in InFlight(a) : pc[c] \in Reads /\ pc[e] \in Reads => c = e
      /\ x \in Call /\ y \in Call
    BY AnomalyGrows DEF OneReader, InFlight
<1>1. ASSUME NEW c \in Call, NEW t \in Time, NEW v \in Typed, Submit(c, t, v)
      PROVE  x = y
    <2>1. \A e \in InFlight(a)' :
              e = c \/ (e \in InFlight(a) /\ pc'[e] = pc[e])
        BY <1>1 DEF Submit, InFlight, TypeOK
    <2>2. c \in InFlight(a)' => ~ \E e \in InFlight(a) : pc[e] \in Reads
        <3>1. c \in InFlight(a)' => a = user[DeviceOf[c]]
            BY <1>1 DEF Submit, InFlight, TypeOK
        <3> QED
            BY <1>1, <3>1 DEF Submit, StartAnomaly, Usual
    <2> QED
        BY <1>0, <2>1, <2>2
<1>2. CASE /\ InFlight(a)' \subseteq InFlight(a)
           /\ \A e \in Call : pc'[e] \in Reads => pc[e] \in Reads
    BY <1>0, <1>2
<1> QED
    BY <1>1, <1>2, FlightStep DEF Next

---------------------------------------------------------------------------
(* The catch clause replaces nothing.                                      *)

\* A call that finds no field finds no queued write and no document.
LEMMA NothingSeen ==
    ASSUME TypeOK, NEW d \in Device, NEW a \in Account, user[d] = a,
           \A r \in Queue(d, a) : pc[r] = "reset" => ahead[r] = {},
           Seen(d, a) = {}
    PROVE  Queue(d, a) = {} /\ Keys(a) = {}
<1>1. ASSUME NEW q \in Queue(d, a)
      PROVE  FALSE
    <2>1. Survives(q, Queue(d, a))
        BY DEF Survives
    <2>2. key[q] \in Seen(d, a)
        BY <2>1 DEF Seen, Overlaid
    <2> QED
        BY <2>2
<1> QED
    BY <1>1 DEF Seen, Overlaid

LEMMA ResetsNothingStep ==
    Inv /\ [Next]_vars => ResetsNothing'
<1> DEFINE Fine(r) == /\ pc[r] # "failed"
                      /\ pc[r] = "reset" => ahead[r] = {} /\ Keys(to[r]) = {}
<1> SUFFICES ASSUME Inv, [Next]_vars,
                    Usual({"threw", "rejected", "missed", "race", "switch"})',
                    NEW r \in Call
             PROVE  Fine(r)'
    BY DEF ResetsNothing
<1> USE DEF Inv
<1>0. /\ \A e \in Call : Fine(e)
      /\ Usual({"race"}) /\ Usual({"switch"})
    <2>1. Usual({"threw", "rejected", "missed", "race", "switch"})
        BY AnomalyGrows
    <2> QED
        BY <2>1 DEF ResetsNothing, Usual
<1>1. CASE /\ pc'[r] = "failed" => pc[r] = "failed"
           /\ pc'[r] = "reset" => pc[r] = "reset"
           /\ ahead'[r] \subseteq ahead[r] /\ UNCHANGED <<records, to>>
    BY <1>0, <1>1 DEF Keys
<1>2. ASSUME NEW c \in Call, NEW t \in Time, NEW v \in Typed, Submit(c, t, v)
      PROVE  Fine(r)'
    BY <1>1, <1>2 DEF Submit, TypeOK
<1>3. ASSUME NEW c \in Call, Proceed(c)
      PROVE  Fine(r)'
    <2> DEFINE d == DeviceOf[c]
    <2>1. /\ pc[c] = "got" /\ d \in Device
          /\ from[c] \in Account
          /\ user[d] \in {from[c], NoUser}
          /\ UNCHANGED records
          /\ seen[c] = Seen(d, from[c])
        <3>1. pc[c] = "got" /\ UNCHANGED records
            BY <1>3 DEF Proceed
        <3>2. d \in Device /\ from[c] \in Account
            BY ConstantsAssumption DEF TypeOK
        <3>3. user[d] \in {from[c], NoUser}
            BY <1>0, <3>1, Places DEF SameAccount
        <3>4. seen[c] = Seen(d, from[c])
            BY <1>3 DEF Proceed, Usual
        <3> QED
            BY <3>1, <3>2, <3>3, <3>4
    <2>2. CASE Settle(c)
        BY <1>1, <2>1, <2>2, SettleEffect
    <2>3. CASE Enqueue(c, "merge", user[d], Chosen(seen[c], s[c]))
        <3>1. /\ pc'[r] = IF r = c THEN "merge" ELSE pc[r]
              /\ r # c => to'[r] = to[r] /\ ahead'[r] = ahead[r] \ {c}
            BY <2>3 DEF Enqueue, Dequeued, TypeOK
        <3> QED
            BY <1>0, <2>1, <3>1 DEF Keys
    <2>4. CASE /\ seen[c] = {} /\ user[d] \in Account
               /\ Enqueue(c, "reset", user[d], s[c])
        <3>1. CASE r = c
            <4>0. user[d] = from[c]
                BY <2>1, <2>4, ConstantsAssumption
            <4>1. Queue(d, from[c]) = {} /\ Keys(from[c]) = {}
                <5>1. \A e \in Queue(d, from[c]) : pc[e] = "reset" => ahead[e] = {}
                    BY <1>0 DEF Queue, Queued
                <5> QED
                    BY <2>1, <2>4, <4>0, <5>1, NothingSeen
            <4>2. /\ pc'[r] = "reset"
                  /\ to'[r] = from[c] /\ ahead'[r] = Queue(d, from[c]) \ {c}
                BY <2>4, <3>1, <4>0 DEF Enqueue, Dequeued, TypeOK
            <4> QED
                BY <2>1, <4>1, <4>2 DEF Keys
        <3>2. CASE r # c
            <4>1. pc'[r] = pc[r] /\ to'[r] = to[r] /\ ahead'[r] = ahead[r] \ {c}
                BY <2>4, <3>2 DEF Enqueue, Dequeued, TypeOK
            <4> QED
                BY <1>0, <2>1, <4>1 DEF Keys
        <3> QED
            BY <3>1, <3>2
    <2> QED
        BY <1>3, <2>2, <2>3, <2>4, ProceedCases
<1>4. ASSUME NEW c \in Call, WriteCommits(c)
      PROVE  Fine(r)'
    <2>1. /\ pc'[r] = IF r = c THEN "settled" ELSE pc[r]
          /\ to'[r] = to[r]
          /\ ahead'[r] = IF r = c THEN {} ELSE ahead[r] \ {c}
          /\ pc[c] \in Kind /\ ahead[c] = {}
        BY <1>4, SettleEffect DEF WriteCommits, Sendable
    <2>2. pc'[r] = "reset" => to[r] # to[c]
        <3> SUFFICES ASSUME pc'[r] = "reset", to[r] = to[c]
                     PROVE  FALSE
            OBVIOUS
        <3>0. r # c /\ pc[r] = "reset"
            BY <2>1
        <3>1. /\ to[r] = from[r] /\ to[c] = from[c]
              /\ r \in InFlight(to[c]) /\ c \in InFlight(to[c])
              /\ to[c] \in Account
            BY <1>0, <2>1, <3>0 DEF SameAccount, InFlight, Kind, TypeOK
        <3>2. DeviceOf[r] = DeviceOf[c]
            BY <1>0, <3>1 DEF OneDevice
        <3>3. r \in ahead[c] \/ c \in ahead[r]
            BY <2>1, <3>0, <3>2 DEF QueueOrder, Kind
        <3> QED
            BY <1>0, <2>1, <3>0, <3>3
    <2>3. to[r] # to[c] => records'[to[r]] = records[to[r]]
        BY <1>4 DEF WriteCommits, TypeOK
    <2> QED
        BY <1>0, <2>1, <2>2, <2>3 DEF Keys
<1>5. ASSUME NEW d \in Device, Crash(d)
      PROVE  Fine(r)'
    BY <1>1, <1>5, CrashEffect
<1>6. CASE \/ \E d \in Device : RecordArrives(d)
           \/ \E d \in Device, a \in Account : SignIn(d, a)
           \/ \E d \in Device : SignOut(d)
           \/ UNCHANGED vars
    BY <1>1, <1>6, OutsideEffect
<1>7. ASSUME NEW c \in Call, GetReturns(c) \/ GetCached(c)
      PROVE  Fine(r)'
    <2>1. pc'[c] = "got" /\ \A x \in Call : x # c => pc'[x] = pc[x]
        BY <1>7 DEF GetReturns, GetCached, Answer, TypeOK
    <2> QED
        BY <1>1, <1>7, <2>1, AnswerEffect
<1>8. CASE \E c \in Call : GetThrows(c) \/ WriteRejected(c)
    BY <1>8 DEF GetThrows, WriteRejected, Usual
<1>9. CASE \E c \in Call : Caught(c)
    BY <1>0, <1>9 DEF Caught
<1> QED
    BY <1>2, <1>3, <1>4, <1>5, <1>6, <1>7, <1>8, <1>9 DEF Next

---------------------------------------------------------------------------
(* Calls in the order of their stamps.                                     *)

\* Fields, copies, stamps of calls and keys of writes are stamps.
LEMMA StampKinds ==
    ASSUME TypeOK, NEW a \in Account
    PROVE  /\ Keys(a) \subseteq Stamps(a)
           /\ \A d \in Device : copy[d][a] \subseteq Stamps(a)
           /\ \A c \in InFlight(a) : s[c] \in Stamps(a)
           /\ \A c \in InFlight(a) \cap Queued(a) : key[c] \in Stamps(a)
<1>1. /\ InFlight(a) \subseteq Call /\ Keys(a) \subseteq Time
      /\ \A c \in Call : s[c] \in Time /\ key[c] \in Time
      /\ \A d \in Device : copy[d][a] \subseteq Time
    BY DEF TypeOK, InFlight, Keys
<1>2. Keys(a) \subseteq Stamps(a)
    BY <1>1 DEF Stamps
<1>3. \A d \in Device : copy[d][a] \subseteq Stamps(a)
    BY <1>1 DEF Stamps
<1>4. \A c \in InFlight(a) : s[c] \in Stamps(a)
    BY <1>1 DEF Stamps
<1>5. \A c \in InFlight(a) \cap Queued(a) : key[c] \in Stamps(a)
    BY <1>1 DEF Stamps
<1> QED
    BY <1>2, <1>3, <1>4, <1>5

\* What a call can read are stamps of its account.
LEMMA OverlaidStamps ==
    ASSUME TypeOK, SameAccount, Usual({"switch"}),
           NEW d \in Device, NEW a \in Account, NEW K, K \subseteq Stamps(a)
    PROVE  Overlaid(d, a, K) \subseteq Stamps(a)
<1>1. ASSUME NEW q \in Queue(d, a)
      PROVE  key[q] \in Stamps(a)
    <2>1. q \in Call /\ pc[q] \in Kind /\ to[q] = a
        BY DEF Queue, Queued
    <2>2. q \in InFlight(a) \cap Queued(a)
        BY <2>1 DEF SameAccount, InFlight, Queued, Kind
    <2> QED
        BY <2>2, StampKinds
<1> QED
    BY <1>1 DEF Overlaid

\* What a step of a call that ends or queues a write does to the stamps.
LEMMA StampsKept ==
    ASSUME TypeOK, NEW a \in Account,
           Keys(a)' \subseteq Stamps(a), UNCHANGED s,
           InFlight(a)' \subseteq InFlight(a),
           \A d \in Device : copy'[d][a] \subseteq Stamps(a),
           \A c \in (InFlight(a) \cap Queued(a))' : key'[c] \in Stamps(a)
    PROVE  Stamps(a)' \subseteq Stamps(a)
<1> SUFFICES ASSUME NEW u \in Stamps(a)'
             PROVE  u \in Stamps(a)
    OBVIOUS
<1>1. \/ u \in Keys(a)'
      \/ \E d \in Device : u \in copy'[d][a]
      \/ \E c \in InFlight(a)' : u = s'[c]
      \/ \E c \in (InFlight(a) \cap Queued(a))' : u = key'[c]
    BY DEF Stamps
<1> QED
    BY <1>1, StampKinds

\* Only a press of the button adds a stamp to an account, or a call that
\* goes on with an outdated snapshot.
LEMMA StampsStep ==
    ASSUME TypeOK, SameAccount, Usual({"switch"}), NEW a \in Account,
           \/ \E c \in Call : \/ GetReturns(c) \/ GetCached(c) \/ GetThrows(c)
                              \/ (Proceed(c) /\ from[c] # a)
                              \/ Caught(c)
                              \/ WriteCommits(c) \/ WriteRejected(c)
           \/ \E d \in Device : RecordArrives(d)
           \/ \E d \in Device : Crash(d)
           \/ \E d \in Device, b \in Account : SignIn(d, b)
           \/ \E d \in Device : SignOut(d)
           \/ UNCHANGED vars
    PROVE  Stamps(a)' \subseteq Stamps(a)
<1>0. /\ InFlight(a)' \subseteq InFlight(a)
      /\ UNCHANGED <<s, from>>
    BY FlightStep
<1> DEFINE Old(e) == e \in InFlight(a) \cap Queued(a) /\ key'[e] = key[e]
<1>1. CASE /\ UNCHANGED records
           /\ \A d \in Device : copy'[d][a] \subseteq Stamps(a)
           /\ \A e \in (InFlight(a) \cap Queued(a))' :
                  Old(e) \/ key'[e] \in Stamps(a)
    <2>1. Keys(a)' = Keys(a)
        BY <1>1 DEF Keys
    <2> QED
        BY <1>0, <1>1, <2>1, StampKinds, StampsKept
<1>2. ASSUME NEW c \in Call, GetReturns(c) \/ GetCached(c) \/ GetThrows(c)
      PROVE  Stamps(a)' \subseteq Stamps(a)
    <2>1. \A e \in (InFlight(a) \cap Queued(a))' : Old(e)
        BY <1>0, <1>2, AnswerEffect, Places DEF Queued
    <2>2. ASSUME NEW d \in Device
          PROVE  copy'[d][a] \subseteq Stamps(a)
        <3>1. copy'[d][a] = copy[d][a] \/ copy'[d][a] = Keys(a)
            <4>1. \/ copy' = [copy EXCEPT ![DeviceOf[c]][from[c]] = Keys(from[c])]
                  \/ copy' = copy
                BY <1>2 DEF GetReturns, GetCached, GetThrows
            <4>2. copy \in [Device -> [Account -> SUBSET Time]]
                BY DEF TypeOK
            <4> QED
                BY <4>1, <4>2
        <3> QED
            BY <3>1, StampKinds
    <2> QED
        BY <1>1, <1>2, <2>1, <2>2, AnswerEffect
<1>3. ASSUME NEW c \in Call, (Proceed(c) /\ from[c] # a) \/ Caught(c)
      PROVE  Stamps(a)' \subseteq Stamps(a)
    <2>1. UNCHANGED <<records, copy>> /\ pc[c] \notin Kind
        BY <1>3, Places DEF Proceed, Caught
    <2>2. CASE Settle(c)
        <3>1. \A e \in (InFlight(a) \cap Queued(a))' : Old(e)
            BY <1>0, <2>2, SettleEffect, Places DEF Queued
        <3> QED
            BY <1>1, <2>1, <3>1, StampKinds
    <2>3. ASSUME NEW kind \in Kind, NEW b \in Account, NEW k \in Time,
                 Enqueue(c, kind, b, k), from[c] # a \/ k = s[c]
          PROVE  Stamps(a)' \subseteq Stamps(a)
        <3>1. ASSUME NEW e \in (InFlight(a) \cap Queued(a))'
              PROVE  Old(e) \/ key'[e] \in Stamps(a)
            <4>0. e \in Call /\ e \in InFlight(a) /\ from[e] = a
                BY <1>0 DEF InFlight
            <4>1. /\ key'[e] = IF e = c THEN k ELSE key[e]
                  /\ e # c => pc'[e] = pc[e] /\ to'[e] = to[e]
                BY <2>3, <4>0, EnqueueEffect
            <4>2. CASE e = c
                BY <2>3, <4>0, <4>1, <4>2, StampKinds
            <4>3. CASE e # c
                BY <3>1, <4>0, <4>1, <4>3 DEF Queued
            <4> QED
                BY <4>2, <4>3
        <3> QED
            BY <1>1, <2>1, <3>1, StampKinds
    <2>4. CASE Proceed(c) /\ from[c] # a
        BY <2>2, <2>3, <2>4, GoOnCases
    <2>5. CASE Caught(c)
        <3>1. s[c] \in Time
            BY DEF TypeOK
        <3> QED
            BY <2>2, <2>3, <2>5, <3>1, CaughtCases, Places
    <2> QED
        BY <1>3, <2>4, <2>5
<1>4. ASSUME NEW c \in Call, WriteRejected(c)
      PROVE  Stamps(a)' \subseteq Stamps(a)
    <2>1. \A e \in (InFlight(a) \cap Queued(a))' : Old(e)
        BY <1>0, <1>4, RejectEffect, Places DEF Queued
    <2> QED
        BY <1>1, <1>4, <2>1, RejectEffect, StampKinds
<1>5. ASSUME NEW c \in Call, WriteCommits(c)
      PROVE  Stamps(a)' \subseteq Stamps(a)
    <2>1. /\ \A e \in Call : pc'[e] = IF e = c THEN "settled" ELSE pc[e]
          /\ UNCHANGED <<to, key>>
          /\ pc[c] \in Kind
        BY <1>5, SettleEffect DEF WriteCommits, Sendable
    <2>2. to[c] = a => key[c] \in Stamps(a)
        <3>1. to[c] = a => c \in InFlight(a) \cap Queued(a)
            BY <2>1 DEF SameAccount, InFlight, Queued, Kind
        <3> QED
            BY <3>1, StampKinds
    <2>3. Keys(a)' \subseteq Stamps(a)
        <3>1. CASE to[c] = a
            <4>1. Keys(a)' \subseteq Keys(a) \cup {key[c]}
                BY <1>5, <3>1 DEF WriteCommits, Keys, TypeOK, Empty
            <4> QED
                BY <2>2, <3>1, <4>1, StampKinds
        <3>2. CASE to[c] # a
            <4>1. Keys(a)' = Keys(a)
                BY <1>5, <3>2 DEF WriteCommits, Keys, TypeOK
            <4> QED
                BY <4>1, StampKinds
        <3> QED
            BY <3>1, <3>2
    <2>4. ASSUME NEW d \in Device
          PROVE  copy'[d][a] \subseteq Stamps(a)
        <3>1. copy'[d][a] = copy[d][a] \/
                  (to[c] = a /\ copy'[d][a] \subseteq copy[d][a] \cup {key[c]})
            BY <1>5 DEF WriteCommits, Acknowledged, TypeOK
        <3> QED
            BY <2>2, <3>1, StampKinds
    <2>5. \A e \in (InFlight(a) \cap Queued(a))' : key'[e] \in Stamps(a)
        <3>1. \A e \in (InFlight(a) \cap Queued(a))' : Old(e)
            BY <1>0, <2>1, Places DEF Queued
        <3> QED
            BY <3>1, StampKinds
    <2> QED
        BY <1>0, <2>3, <2>4, <2>5, StampsKept
<1>6. ASSUME NEW d \in Device, RecordArrives(d)
      PROVE  Stamps(a)' \subseteq Stamps(a)
    <2>1. UNCHANGED <<records, pc, from, to, key>>
        BY <1>6 DEF RecordArrives
    <2>2. \A e \in (InFlight(a) \cap Queued(a))' : Old(e)
        BY <2>1 DEF InFlight, Queued
    <2>3. ASSUME NEW b \in Device
          PROVE  copy'[b][a] \subseteq Stamps(a)
        <3>1. copy'[b][a] = copy[b][a] \/ copy'[b][a] = Keys(a)
            BY <1>6 DEF RecordArrives, TypeOK
        <3> QED
            BY <3>1, StampKinds
    <2> QED
        BY <1>1, <2>1, <2>2, <2>3
<1>7. CASE \/ \E d \in Device : Crash(d)
           \/ \E d \in Device, b \in Account : SignIn(d, b)
           \/ \E d \in Device : SignOut(d)
           \/ UNCHANGED vars
    <2>1. /\ UNCHANGED <<records, to, key, copy>>
          /\ \A e \in Call : pc'[e] \in Kind => pc[e] \in Kind
        BY <1>7, CrashEffect DEF SignIn, SignOut, vars
    <2>2. \A e \in (InFlight(a) \cap Queued(a))' : Old(e)
        BY <1>0, <2>1 DEF Queued
    <2> QED
        BY <1>1, <2>1, <2>2, StampKinds
<1> QED
    BY <1>2, <1>3, <1>4, <1>5, <1>6, <1>7

\* The newest field is of the day of the call when all fields are older
\* than the call and one of them is of that day.
LEMMA ChosenDay ==
    ASSUME NEW K \in SUBSET Time, K # {}, NEW t \in Time,
           \A k \in K : k <= t
    PROVE  Day[Chosen(K, t)] = Day[t]
<1>1. CASE HasDay(K, t)
    <2>1. PICK k \in K : Day[k] = Day[t]
        BY <1>1 DEF HasDay
    <2>2. Max(K) \in K /\ k <= Max(K) /\ Max(K) <= t
        BY MaxInstant
    <2>3. Day[k] <= Day[Max(K)] /\ Day[Max(K)] <= Day[t]
        BY <2>2, ConstantsAssumption
    <2>4. Day[Max(K)] \in Nat /\ Day[t] \in Nat
        BY <2>2, ConstantsAssumption
    <2> QED
        BY <1>1, <2>1, <2>3, <2>4 DEF Chosen
<1>2. CASE ~ HasDay(K, t)
    BY <1>2 DEF Chosen
<1> QED
    BY <1>1, <1>2

\* A call that reads is still stamped after all that its account has.
LEMMA StampOrderStep ==
    ASSUME Inv, [Next]_vars, Usual({"overlap", "skew", "switch"})',
           NEW a \in Account, NEW x \in InFlight(a)', pc'[x] \in Reads,
           NEW u \in Stamps(a)'
    PROVE  u <= s'[x]
<1> USE DEF Inv
<1>0. /\ \A c \in InFlight(a) : pc[c] \in Reads => \A w \in Stamps(a) : w <= s[c]
      /\ Usual({"switch"})
      /\ \A c, e \in InFlight(a) : pc[c] \in Reads /\ pc[e] \in Reads => c = e
      /\ x \in Call
    <2>1. Usual({"overlap", "skew", "switch"})
        BY AnomalyGrows
    <2> QED
        BY <2>1 DEF InStampOrder, OneReader, Usual, InFlight
<1>1. ASSUME NEW c \in Call, NEW t \in Time, NEW v \in Typed, Submit(c, t, v)
      PROVE  u <= s'[x]
    <2>1. /\ UNCHANGED <<records, to, key, copy>>
          /\ \A e \in Call : /\ pc'[e] = IF e = c THEN "get" ELSE pc[e]
                             /\ s'[e] = IF e = c THEN t ELSE s[e]
                             /\ from'[e] = IF e = c THEN user[DeviceOf[c]]
                                                    ELSE from[e]
          /\ pc[c] = "settled"
        BY <1>1 DEF Submit, TypeOK
    <2>2. user[DeviceOf[c]] = a =>
              /\ ~ \E e \in InFlight(a) : pc[e] \in Reads
              /\ ~ \E w \in Stamps(a) : t < w
        BY <1>1 DEF Submit, StartAnomaly, Usual
    <2>3. u \in Stamps(a) \/ (user[DeviceOf[c]] = a /\ u = t)
        <3>1. Keys(a)' = Keys(a)
            BY <2>1 DEF Keys
        <3>2. \A e \in InFlight(a)' : \/ e \in InFlight(a) /\ s'[e] = s[e]
                                      \/ s'[e] = t /\ user[DeviceOf[c]] = a
            BY <2>1 DEF InFlight
        <3>3. \A e \in (InFlight(a) \cap Queued(a))' :
                  e \in InFlight(a) \cap Queued(a) /\ key'[e] = key[e]
            BY <2>1, Places DEF InFlight, Queued
        <3>4. \/ u \in Keys(a)'
              \/ \E d \in Device : u \in copy'[d][a]
              \/ \E e \in InFlight(a)' : u = s'[e]
              \/ \E e \in (InFlight(a) \cap Queued(a))' : u = key'[e]
            BY DEF Stamps
        <3> QED
            BY <2>1, <3>1, <3>2, <3>3, <3>4, StampKinds
    <2>4. CASE x = c
        <3>1. user[DeviceOf[c]] = a /\ s'[x] = t
            BY <2>1, <2>4 DEF InFlight
        <3>2. Stamps(a) \subseteq Time
            BY DEF Stamps
        <3> QED
            BY <2>2, <2>3, <3>1, <3>2, ConstantsAssumption DEF Time
    <2>5. CASE x # c
        <3>1. x \in InFlight(a) /\ pc[x] \in Reads /\ s'[x] = s[x]
            BY <2>1, <2>5 DEF InFlight
        <3> QED
            BY <1>0, <2>2, <2>3, <3>1
    <2> QED
        BY <2>4, <2>5
<1>2. CASE /\ x \in InFlight(a) /\ pc[x] \in Reads /\ s'[x] = s[x]
           /\ Stamps(a)' \subseteq Stamps(a)
    BY <1>0, <1>2
<1>3. ASSUME NEW c \in Call, Proceed(c)
      PROVE  u <= s'[x]
    <2>1. x \in InFlight(a) /\ pc[x] \in Reads /\ s'[x] = s[x]
        BY <1>0, <1>3, FlightStep
    <2>2. pc[c] = "got" /\ pc'[c] \notin Reads
        <3>1. CASE Settle(c)
            BY <1>3, <3>1, SettleEffect, Places DEF Proceed
        <3>2. ASSUME NEW kind \in Kind, NEW b \in Account, NEW k \in Time,
                     Enqueue(c, kind, b, k)
              PROVE  pc[c] = "got" /\ pc'[c] \notin Reads
            <4>1. pc'[c] = kind
                BY <3>2, EnqueueEffect
            <4> QED
                BY <1>3, <4>1, Places DEF Proceed
        <3> QED
            BY <1>3, <3>1, <3>2, GoOnCases
    <2>3. from[c] # a
        <3>1. x # c
            BY <2>2
        <3> QED
            BY <1>0, <2>1, <2>2, <3>1, Places DEF InFlight
    <2> QED
        BY <1>0, <1>2, <1>3, <2>1, <2>3, StampsStep
<1>4. CASE \/ \E c \in Call : \/ GetReturns(c) \/ GetCached(c) \/ GetThrows(c)
                              \/ Caught(c) \/ WriteCommits(c) \/ WriteRejected(c)
           \/ \E d \in Device : RecordArrives(d)
           \/ \E d \in Device : Crash(d)
           \/ \E d \in Device, b \in Account : SignIn(d, b)
           \/ \E d \in Device : SignOut(d)
           \/ UNCHANGED vars
    <2>1. x \in InFlight(a) /\ pc[x] \in Reads /\ s'[x] = s[x]
        BY <1>0, <1>4, FlightStep
    <2>2. Stamps(a)' \subseteq Stamps(a)
        BY <1>0, <1>4, StampsStep
    <2> QED
        BY <1>2, <2>1, <2>2
<1> QED
    BY <1>1, <1>3, <1>4 DEF Next

\* What a call finds is stamped before it.
LEMMA AnswerOlder ==
    ASSUME Inv, Usual({"overlap", "skew", "switch"}),
           NEW c \in Call, GetReturns(c) \/ GetCached(c), NEW u \in seen'[c]
    PROVE  u <= s[c]
<1> USE DEF Inv
<1> DEFINE d == DeviceOf[c]
           a == from[c]
<1>1. /\ pc[c] = "get" /\ a \in Account /\ d \in Device /\ c \in InFlight(a)
      /\ Usual({"switch"})
    BY AnswerEffect, ConstantsAssumption DEF InFlight, TypeOK, Usual
<1>2. \A w \in Stamps(a) : w <= s[c]
    BY <1>1, Places DEF InStampOrder
<1>3. seen'[c] = Overlaid(d, a, Keys(a)) \/ seen'[c] = Overlaid(d, a, copy[d][a])
    BY DEF GetReturns, GetCached, Answer, Seen, TypeOK
<1>4. seen'[c] \subseteq Stamps(a)
    BY <1>1, <1>3, StampKinds, OverlaidStamps
<1> QED
    BY <1>2, <1>4

LEMMA InStampOrderStep == Inv /\ [Next]_vars => InStampOrder'
<1> DEFINE Read(x) == pc[x] = "got" => \A u \in seen[x] : u <= s[x]
           Own(x) == pc[x] \in Kind => Day[key[x]] = Day[s[x]]
<1> SUFFICES ASSUME Inv, [Next]_vars,
                    Usual({"overlap", "skew", "switch"})',
                    NEW x \in Call
             PROVE  Read(x)' /\ Own(x)'
    BY StampOrderStep DEF InStampOrder
<1> USE DEF Inv
<1>0. /\ \A e \in Call : Read(e) /\ Own(e)
      /\ Usual({"overlap", "skew", "switch"})
    <2>1. Usual({"overlap", "skew", "switch"})
        BY AnomalyGrows
    <2> QED
        BY <2>1 DEF InStampOrder
<1>1. CASE /\ UNCHANGED <<key, s, seen>>
           /\ pc'[x] = "got" => pc[x] = "got"
           /\ pc'[x] \in Kind => pc[x] \in Kind
    BY <1>0, <1>1
<1>2. ASSUME NEW c \in Call, NEW t \in Time, NEW v \in Typed, Submit(c, t, v)
      PROVE  Read(x)' /\ Own(x)'
    <2>1. /\ UNCHANGED <<key, seen>>
          /\ pc'[x] = IF x = c THEN "get" ELSE pc[x]
          /\ s'[x] = IF x = c THEN t ELSE s[x]
        BY <1>2 DEF Submit, TypeOK
    <2> QED
        BY <1>0, <2>1, Places
<1>3. ASSUME NEW c \in Call, GetReturns(c) \/ GetCached(c) \/ GetThrows(c)
      PROVE  Read(x)' /\ Own(x)'
    <2>1. Own(x)'
        BY <1>0, <1>3, AnswerEffect, Places
    <2>2. CASE x # c
        BY <1>0, <1>3, <2>1, <2>2, AnswerEffect
    <2>3. CASE x = c /\ (GetReturns(c) \/ GetCached(c))
        BY <1>0, <2>1, <2>3, AnswerOlder, AnswerEffect
    <2>4. CASE x = c /\ GetThrows(c)
        <3>1. pc'[c] = "failed"
            BY <2>4 DEF GetThrows, TypeOK
        <3> QED
            BY <2>1, <2>4, <3>1
    <2> QED
        BY <1>3, <2>2, <2>3, <2>4
<1>4. ASSUME NEW c \in Call, Proceed(c) \/ Caught(c)
      PROVE  Read(x)' /\ Own(x)'
    <2>1. UNCHANGED <<s, seen>> /\ s[c] \in Time /\ seen[c] \in SUBSET Time
        BY <1>4 DEF Proceed, Caught, TypeOK
    <2>2. CASE Settle(c)
        BY <1>0, <2>1, <2>2, SettleEffect, Places
    <2>3. ASSUME NEW kind \in Kind, NEW a \in Account, NEW k \in Time,
                 Enqueue(c, kind, a, k), Day[k] = Day[s[c]]
          PROVE  Read(x)' /\ Own(x)'
        <3>1. /\ pc'[x] = IF x = c THEN kind ELSE pc[x]
              /\ key'[x] = IF x = c THEN k ELSE key[x]
            BY <2>3, EnqueueEffect
        <3> QED
            BY <1>0, <2>1, <2>3, <3>1, Places
    <2>4. Proceed(c) /\ seen[c] # {} => Day[Chosen(seen[c], s[c])] = Day[s[c]]
        <3>1. Proceed(c) => \A u \in seen[c] : u <= s[c]
            BY <1>0 DEF Proceed
        <3> QED
            BY <2>1, <3>1, ChosenDay
    <2> QED
        BY <1>4, <2>1, <2>2, <2>3, <2>4, ProceedCases, CaughtCases, ChosenInstant,
           Places
<1>5. ASSUME NEW c \in Call, WriteRejected(c)
      PROVE  Read(x)' /\ Own(x)'
    BY <1>1, <1>5, RejectEffect, Places
<1>6. ASSUME NEW c \in Call, WriteCommits(c)
      PROVE  Read(x)' /\ Own(x)'
    BY <1>1, <1>6, SettleEffect, Places DEF WriteCommits
<1>7. ASSUME NEW d \in Device, Crash(d)
      PROVE  Read(x)' /\ Own(x)'
    BY <1>1, <1>7, CrashEffect, Places
<1>8. CASE \/ \E d \in Device : RecordArrives(d)
           \/ \E d \in Device, a \in Account : SignIn(d, a)
           \/ \E d \in Device : SignOut(d)
           \/ UNCHANGED vars
    BY <1>1, <1>8, OutsideEffect
<1> QED
    BY <1>2, <1>3, <1>4, <1>5, <1>6, <1>7, <1>8 DEF Next

---------------------------------------------------------------------------
(* One field per day.                                                      *)

\* The fields a call can read are of different days.
LEMMA SeenUnique ==
    ASSUME TypeOK, QueueOrder, UniqueDays,
           Usual({"missed", "race", "switch", "rejected"}),
           NEW d \in Device, NEW a \in Account, user[d] = a,
           NEW t \in Seen(d, a), NEW u \in Seen(d, a), Day[t] = Day[u]
    PROVE  t = u
<1> DEFINE Q == Queue(d, a)
<1>0. \A q \in Call : q \in Q <=> pc[q] \in Kind /\ to[q] = a /\ DeviceOf[q] = d
    BY DEF Queue, Queued
<1>1. \A v \in Seen(d, a) :
          \/ v \in Keys(a) /\ ~ \E r \in Q : pc[r] = "reset"
          \/ \E q \in Q : v = key[q] /\ Survives(q, Q)
    BY DEF Seen, Overlaid
<1>2. Q \subseteq Call
    BY DEF Queue, Queued
<1>3. ASSUME NEW v \in Keys(a), ~ \E r \in Q : pc[r] = "reset",
             NEW q \in Q, Day[v] = Day[key[q]]
      PROVE  v = key[q]
    <2>0. q \in Call /\ to[q] = a /\ DeviceOf[q] = d /\ ahead[q] \subseteq Call
        BY <1>0, <1>2 DEF TypeOK
    <2>1. ASSUME NEW r \in ahead[q] PROVE r \in Q
        <3>1. r \in Call
            BY <2>0
        <3>2. pc[r] \in Kind /\ to[r] = to[q] /\ DeviceOf[r] = DeviceOf[q]
            BY <2>0, <2>1, <3>1 DEF QueueOrder
        <3> QED
            BY <1>0, <2>0, <3>1, <3>2
    <2>2. NoResetTo(q)
        BY <1>3, <2>1 DEF NoResetTo
    <2> QED
        BY <1>0, <1>2, <1>3, <2>2 DEF UniqueDays
<1>4. ASSUME NEW p \in Q, NEW q \in Q, Survives(p, Q), Survives(q, Q),
             Day[key[p]] = Day[key[q]]
      PROVE  key[p] = key[q]
    <2>1. ASSUME NEW e \in Q, NEW r \in Call, pc[r] = "reset", e \in ahead[r]
          PROVE  r \in Q
        BY <1>0, <1>2, <2>1 DEF QueueOrder, Kind
    <2>2. \A e \in Q : NoReset(p, e) /\ NoReset(q, e)
        BY <1>4, <2>1 DEF NoReset, Survives
    <2>3. p = q \/ p \in ahead[q] \/ q \in ahead[p]
        BY <1>0, <1>2 DEF QueueOrder
    <2> QED
        BY <1>2, <1>4, <2>2, <2>3 DEF UniqueDays
<1>5. Keys(a) \subseteq Time
    BY DEF Keys
<1> HIDE DEF Q
<1>6. CASE t \in Keys(a) /\ u \in Keys(a)
    BY <1>6 DEF UniqueDays
<1> QED
    BY <1>1, <1>3, <1>4, <1>6

\* The field a call chooses is the field of its day among those it has read,
\* if there is one.
LEMMA ChosenUnique ==
    ASSUME TypeOK, QueueOrder, UniqueDays,
           Usual({"missed", "race", "switch", "rejected"}),
           NEW d \in Device, NEW a \in Account, user[d] = a,
           NEW t \in Time, NEW u \in Seen(d, a),
           Day[u] = Day[Chosen(Seen(d, a), t)]
    PROVE  u = Chosen(Seen(d, a), t)
<1>1. Seen(d, a) \in SUBSET Time
    BY SeenInstants
<1>2. CASE HasDay(Seen(d, a), t)
    <2>1. Chosen(Seen(d, a), t) \in Seen(d, a)
        BY <1>1, <1>2, MaxInstant DEF Chosen
    <2> QED
        BY <2>1, SeenUnique
<1>3. CASE ~ HasDay(Seen(d, a), t)
    BY <1>3 DEF Chosen, HasDay
<1> QED
    BY <1>2, <1>3

\* Steps that change no document and no queue.
LEMMA UniqueDaysKept ==
    ASSUME TypeOK, QueueOrder, UniqueDays,
           Usual({"missed", "race", "switch", "rejected"}),
           records' = records, to' = to, key' = key,
           \A x \in Call : ahead'[x] = ahead[x],
           \A x \in Call : pc'[x] \in Kind <=> pc[x] \in Kind,
           \A x \in Call : pc'[x] = "reset" <=> pc[x] = "reset"
    PROVE  UniqueDays'
<1>1. \A c, e \in Call : /\ NoReset(c, e)' <=> NoReset(c, e)
                         /\ NoResetTo(e)' <=> NoResetTo(e)
    BY DEF NoReset, NoResetTo
<1>2. /\ \A a \in Account : Keys(a)' = Keys(a)
      /\ \A e \in Call : Keys(to[e])' = Keys(to[e])
    BY DEF Keys
<1> QED
    BY <1>1, <1>2 DEF UniqueDays

\* A write that is queued.
LEMMA UniqueDaysEnqueue ==
    ASSUME Inv, Usual({"missed", "race", "switch", "rejected"}),
           NEW c \in Call, pc[c] \in Awaits, UNCHANGED records,
           NEW kind \in {"merge", "reset"}, NEW k \in Time,
           NEW a \in Account, user[DeviceOf[c]] = a, Enqueue(c, kind, a, k),
           kind = "merge" =>
               \A u \in Seen(DeviceOf[c], a) : Day[u] = Day[k] => u = k
    PROVE  UniqueDays'
<1> USE DEF Inv
<1> DEFINE Q == Queue(DeviceOf[c], a)
<1>1. /\ \A q \in Call : q \in Q <=> /\ pc[q] \in Kind /\ to[q] = a
                                     /\ DeviceOf[q] = DeviceOf[c]
      /\ c \notin Q
    BY Places DEF Queue, Queued
<1>2. \A x \in Call : c \notin ahead[x]
    BY Places DEF QueueOrder
<1>3. \A x \in Call : /\ pc'[x] = IF x = c THEN kind ELSE pc[x]
                      /\ to'[x] = IF x = c THEN a ELSE to[x]
                      /\ key'[x] = IF x = c THEN k ELSE key[x]
                      /\ ahead'[x] = IF x = c THEN Q ELSE ahead[x]
    <2>1. Q \ {c} = Q /\ \A x \in Call : ahead[x] \ {c} = ahead[x]
        BY <1>1, <1>2
    <2>2. kind \in Kind
        BY DEF Kind
    <2>3. /\ pc'[c] = kind /\ to'[c] = a /\ key'[c] = k /\ ahead'[c] = Q \ {c}
          /\ \A x \in Call : x # c =>
                 /\ pc'[x] = pc[x] /\ to'[x] = to[x] /\ key'[x] = key[x]
                 /\ ahead'[x] = ahead[x] \ {c}
        BY <2>2, EnqueueEffect
    <2> HIDE DEF Q
    <2> QED
        BY <2>1, <2>3
<1>4. \A b \in Account : Keys(b)' = Keys(b)
    BY DEF Keys
<1>5. \A x \in Call : Keys(to[x])' = IF x = c THEN Keys(a) ELSE Keys(to[x])
    BY <1>3 DEF Keys
<1>6. \A x, e \in Call : e # c =>
          /\ NoReset(x, e)' => NoReset(x, e)
          /\ NoResetTo(e)' => NoResetTo(e)
    <2> SUFFICES ASSUME NEW x \in Call, NEW e \in Call, e # c
                 PROVE  /\ NoReset(x, e)' => NoReset(x, e)
                        /\ NoResetTo(e)' => NoResetTo(e)
        OBVIOUS
    <2>1. ahead'[e] = ahead[e] /\ c \notin ahead[e]
        BY <1>2, <1>3
    <2>2. \A r \in Call : r # c => pc'[r] = pc[r] /\ ahead'[r] = ahead[r]
        BY <1>3
    <2> QED
        BY <2>1, <2>2 DEF NoReset, NoResetTo
<1>7. ASSUME kind = "merge", NEW q \in Q, NoReset(q, c)'
      PROVE  key[q] \in Seen(DeviceOf[c], a)
    <2>0. \A r \in Q : /\ r \in Call /\ r \in ahead'[c]
                       /\ pc'[r] = pc[r] /\ ahead'[r] = ahead[r]
        <3>1. Q \subseteq Call
            BY DEF Queue, Queued
        <3> QED
            BY <1>1, <1>3, <3>1
    <2>1. Survives(q, Q)
        BY <1>7, <2>0 DEF Survives, NoReset
    <2> QED
        BY <2>1 DEF Seen, Overlaid
<1>8. ASSUME kind = "merge", NoResetTo(c)'
      PROVE  Keys(a) \subseteq Seen(DeviceOf[c], a)
    <2>0. \A r \in Q : r \in Call /\ r \in ahead'[c] /\ pc'[r] = pc[r]
        <3>1. Q \subseteq Call
            BY DEF Queue, Queued
        <3> QED
            BY <1>1, <1>3, <3>1
    <2>1. ~ \E r \in Q : pc[r] = "reset"
        BY <1>8, <2>0 DEF NoResetTo
    <2> QED
        BY <2>1 DEF Seen, Overlaid
<1>9. kind = "reset" => /\ ~ NoResetTo(c)'
                        /\ \A q \in Q : ~ NoReset(q, c)'
    BY <1>3 DEF NoResetTo, NoReset
<1> HIDE DEF Q
<1>10. ASSUME NEW e \in Call, NEW t \in Keys(to[e])', pc'[e] \in Kind,
              NoResetTo(e)', Day[t] = Day[key'[e]]
       PROVE  t = key'[e]
    <2>1. CASE e = c
        BY <1>3, <1>5, <1>8, <1>9, <1>10, <2>1
    <2>2. CASE e # c
        <3>1. t \in Keys(to[e]) /\ pc[e] \in Kind /\ NoResetTo(e) /\ key'[e] = key[e]
            BY <1>3, <1>5, <1>6, <1>10, <2>2
        <3> QED
            BY <1>10, <3>1 DEF UniqueDays
    <2> QED
        BY <2>1, <2>2
<1>11. ASSUME NEW x \in Call, NEW e \in Call, x \in ahead'[e],
              NoReset(x, e)', Day[key'[x]] = Day[key'[e]]
       PROVE  key'[x] = key'[e]
    <2>1. CASE e = c
        <3>1. x \in Q /\ x # c
            BY <1>1, <1>3, <1>11, <2>1
        <3>2. key'[x] = key[x] /\ key'[e] = k
            BY <1>3, <2>1, <3>1
        <3> QED
            BY <1>7, <1>9, <1>11, <2>1, <3>1, <3>2
    <2>2. CASE e # c
        <3>1. x \in ahead[e] /\ x # c
            BY <1>2, <1>3, <1>11, <2>2
        <3>2. NoReset(x, e) /\ key'[x] = key[x] /\ key'[e] = key[e]
            BY <1>3, <1>6, <1>11, <2>2, <3>1
        <3> QED
            BY <1>11, <3>1, <3>2 DEF UniqueDays
    <2> QED
        BY <2>1, <2>2
<1>12. \A b \in Account : \A t, u \in Keys(b)' : Day[t] = Day[u] => t = u
    BY <1>4 DEF UniqueDays
<1> QED
    BY <1>10, <1>11, <1>12 DEF UniqueDays

\* A write that the server carries out.
LEMMA UniqueDaysCommit ==
    ASSUME Inv, Usual({"missed", "race", "switch", "rejected"}),
           NEW c \in Call, WriteCommits(c)
    PROVE  UniqueDays'
<1> USE DEF Inv
<1>1. /\ pc[c] \in Kind /\ ahead[c] = {} /\ UNCHANGED <<to, key>>
      /\ to[c] \in Account /\ key[c] \in Time
      /\ \A x \in Call : /\ pc'[x] = IF x = c THEN "settled" ELSE pc[x]
                         /\ ahead'[x] = IF x = c THEN {} ELSE ahead[x] \ {c}
    BY SettleEffect DEF WriteCommits, Sendable, TypeOK
<1>2. /\ pc[c] = "reset" => Keys(to[c])' \subseteq {key[c]}
      /\ Keys(to[c])' \subseteq Keys(to[c]) \cup {key[c]}
    BY <1>1 DEF WriteCommits, Keys, TypeOK, Empty
<1>3. \A b \in Account : b # to[c] =>
          {t \in Time : records'[b][t] # NoReading} = Keys(b)
    BY DEF WriteCommits, Keys, TypeOK
<1>4. \A x \in Call : pc'[x] \in Kind /\ to[x] = to[c] => c \in ahead[x]
    <2> SUFFICES ASSUME NEW x \in Call, pc'[x] \in Kind, to[x] = to[c]
                 PROVE  c \in ahead[x]
        OBVIOUS
    <2>1. x # c /\ pc[x] \in Kind
        BY <1>1 DEF Kind
    <2>2. x \in InFlight(to[c]) /\ c \in InFlight(to[c])
        BY <1>1, <2>1 DEF SameAccount, Usual, InFlight, Kind
    <2>3. DeviceOf[x] = DeviceOf[c]
        BY <1>1, <2>2 DEF OneDevice, Usual
    <2> QED
        BY <1>1, <2>1, <2>3 DEF QueueOrder
<1>5. \A x, e \in Call : x # c /\ NoReset(x, e)' => NoReset(x, e)
    BY <1>1 DEF NoReset
<1>6. \A e \in Call : NoResetTo(e)' /\ e # c => NoReset(c, e)
    BY <1>1 DEF NoReset, NoResetTo
<1>7. \A e \in Call : /\ NoResetTo(e)' /\ e # c
                      /\ pc[c] # "reset" \/ c \notin ahead[e]
                      => NoResetTo(e)
    BY <1>1 DEF NoResetTo
<1>8. NoResetTo(c) \/ pc[c] = "reset"
    BY <1>1 DEF NoResetTo
<1>9. ASSUME NEW a \in Account, NEW t \in Keys(a)', NEW u \in Keys(a)',
             Day[t] = Day[u]
      PROVE  t = u
    <2>1. CASE a = to[c]
        <3>1. Keys(a)' = Keys(to[c])'
            BY <1>1, <2>1 DEF Keys
        <3>2. CASE pc[c] = "reset"
            BY <1>2, <3>1, <3>2
        <3>3. CASE pc[c] # "reset"
            <4>1. \A v \in Keys(a) : Day[v] = Day[key[c]] => v = key[c]
                BY <1>1, <1>8, <2>1, <3>3 DEF UniqueDays
            <4>2. \A v \in Keys(a)' : v \in Keys(a) \/ v = key[c]
                BY <1>2, <2>1, <3>1
            <4>3. \A v, w \in Keys(a) : Day[v] = Day[w] => v = w
                BY DEF UniqueDays
            <4> QED
                BY <1>9, <4>1, <4>2, <4>3
        <3> QED
            BY <3>2, <3>3
    <2>2. CASE a # to[c]
        <3>1. t \in Keys(a) /\ u \in Keys(a)
            BY <1>3, <2>2 DEF Keys
        <3> QED
            BY <1>9, <3>1 DEF UniqueDays
    <2> QED
        BY <2>1, <2>2
<1>10. ASSUME NEW e \in Call, NEW t \in Keys(to[e])', pc'[e] \in Kind,
              NoResetTo(e)', Day[t] = Day[key[e]]
       PROVE  t = key[e]
    <2>1. e # c /\ pc[e] \in Kind
        BY <1>1, <1>10 DEF Kind
    <2>2. CASE to[e] = to[c]
        <3>1. c \in ahead[e] /\ NoReset(c, e)
            BY <1>4, <1>6, <1>10, <2>1, <2>2
        <3>2. Day[key[c]] = Day[key[e]] => key[c] = key[e]
            BY <3>1 DEF UniqueDays
        <3>3. Keys(to[e])' = Keys(to[c])'
            BY <1>1, <2>2 DEF Keys
        <3>4. CASE t = key[c]
            BY <1>10, <3>2, <3>4
        <3>5. CASE t # key[c]
            <4>1. pc[c] # "reset" /\ t \in Keys(to[e])
                BY <1>2, <1>10, <2>2, <3>3, <3>5
            <4>2. NoResetTo(e)
                BY <1>7, <1>10, <2>1, <4>1
            <4> QED
                BY <1>10, <2>1, <4>1, <4>2 DEF UniqueDays
        <3> QED
            BY <3>4, <3>5
    <2>3. CASE to[e] # to[c]
        <3>1. c \notin ahead[e]
            BY <2>3 DEF QueueOrder
        <3>2. NoResetTo(e)
            BY <1>7, <1>10, <2>1, <3>1
        <3>3. t \in Keys(to[e])
            <4>1. to[e] \in Account
                BY DEF TypeOK
            <4>2. Keys(to[e])' = {v \in Time : records'[to[e]][v] # NoReading}
                BY <1>1 DEF Keys
            <4> QED
                BY <1>3, <2>3, <4>1, <4>2
        <3> QED
            BY <1>10, <2>1, <3>2, <3>3 DEF UniqueDays
    <2> QED
        BY <2>2, <2>3
<1>11. ASSUME NEW x \in Call, NEW e \in Call, x \in ahead'[e],
              NoReset(x, e)', Day[key[x]] = Day[key[e]]
       PROVE  key[x] = key[e]
    <2>1. ahead'[e] = IF e = c THEN {} ELSE ahead[e] \ {c}
        BY <1>1
    <2>2. x # c /\ x \in ahead[e]
        BY <1>11, <2>1
    <2> QED
        BY <1>5, <1>11, <2>2 DEF UniqueDays
<1> QED
    BY <1>1, <1>9, <1>10, <1>11 DEF UniqueDays

LEMMA UniqueDaysStep == Inv /\ [Next]_vars => UniqueDays'
<1> SUFFICES ASSUME Inv, [Next]_vars, Usual({"missed", "race", "switch", "rejected"})'
             PROVE  UniqueDays'
    BY DEF UniqueDays
<1> USE DEF Inv
<1>0. Usual({"missed", "race", "switch", "rejected"}) /\ Usual({"switch"})
    <2>1. Usual({"missed", "race", "switch", "rejected"})
        BY AnomalyGrows
    <2> QED
        BY <2>1 DEF Usual
<1>1. ASSUME NEW c \in Call, NEW t \in Time, NEW v \in Typed, Submit(c, t, v)
      PROVE  UniqueDays'
    <2>1. /\ UNCHANGED <<records, to, key>>
          /\ \A x \in Call : /\ ahead'[x] = ahead[x]
                             /\ pc'[x] \in Kind <=> pc[x] \in Kind
                             /\ pc'[x] = "reset" <=> pc[x] = "reset"
        BY <1>1 DEF Submit, TypeOK, Kind
    <2> QED
        BY <1>0, <2>1, UniqueDaysKept
<1>2. ASSUME NEW c \in Call, GetReturns(c) \/ GetCached(c) \/ GetThrows(c)
      PROVE  UniqueDays'
    <2>1. /\ UNCHANGED <<records, to, key>>
          /\ \A x \in Call : /\ ahead'[x] = ahead[x]
                             /\ pc'[x] \in Kind <=> pc[x] \in Kind
                             /\ pc'[x] = "reset" <=> pc[x] = "reset"
        BY <1>2, AnswerEffect, Places
    <2> QED
        BY <1>0, <2>1, UniqueDaysKept
<1>3. ASSUME NEW c \in Call, Proceed(c) \/ Caught(c)
      PROVE  UniqueDays'
    <2> DEFINE d == DeviceOf[c]
    <2>1. /\ pc[c] \in Awaits /\ user[d] \in {from[c], NoUser}
          /\ from[c] \in Account
          /\ d \in Device /\ s[c] \in Time /\ UNCHANGED records
          /\ Proceed(c) => seen[c] = Seen(d, from[c])
        BY <1>0, <1>3, ConstantsAssumption, Places
        DEF Proceed, Caught, SameAccount, TypeOK, Usual
    <2>2. CASE Settle(c)
        <3>1. \A x \in Call : c \notin ahead[x] /\ ahead[c] = {}
            BY <2>1, Places DEF QueueOrder
        <3>2. \A x \in Call : pc'[x] \in Kind <=> pc[x] \in Kind
            BY <2>1, <2>2, SettleEffect, Places
        <3>3. \A x \in Call : pc'[x] = "reset" <=> pc[x] = "reset"
            BY <2>1, <2>2, SettleEffect, Places
        <3>4. to' = to /\ key' = key /\ \A x \in Call : ahead'[x] = ahead[x]
            <4>1. /\ to' = to /\ key' = key
                  /\ \A x \in Call : ahead'[x] = IF x = c THEN {} ELSE ahead[x] \ {c}
                BY <2>2, SettleEffect
            <4> QED
                BY <3>1, <4>1
        <3> QED
            BY <1>0, <2>1, <3>2, <3>3, <3>4, UniqueDaysKept
    <2>3. CASE user[d] \in Account /\ Enqueue(c, "reset", user[d], s[c])
        BY <1>0, <2>1, <2>3, UniqueDaysEnqueue
    <2>4. CASE /\ Proceed(c) /\ seen[c] # {} /\ user[d] \in Account
               /\ Enqueue(c, "merge", user[d], Chosen(seen[c], s[c]))
        <3>0. user[d] = from[c] /\ seen[c] = Seen(d, from[c])
            BY <2>1, <2>4, ConstantsAssumption
        <3>1. Chosen(seen[c], s[c]) \in Time
            BY <2>1, <2>4, <3>0, SeenInstants, ChosenInstant
        <3>2. \A u \in Seen(d, from[c]) :
                  Day[u] = Day[Chosen(seen[c], s[c])] => u = Chosen(seen[c], s[c])
            BY <1>0, <2>1, <3>0, ChosenUnique
        <3> QED
            BY <1>0, <2>1, <2>4, <3>0, <3>1, <3>2, UniqueDaysEnqueue
    <2> QED
        BY <1>3, <2>2, <2>3, <2>4, ProceedCases, CaughtCases
<1>4. ASSUME NEW c \in Call, WriteCommits(c)
      PROVE  UniqueDays'
    BY <1>0, <1>4, UniqueDaysCommit
<1>5. ASSUME NEW d \in Device, Crash(d)
      PROVE  UniqueDays'
    <2>1. /\ UNCHANGED <<records, to, key>>
          /\ \A x \in Call : /\ ahead'[x] = ahead[x]
                             /\ pc'[x] \in Kind <=> pc[x] \in Kind
                             /\ pc'[x] = "reset" <=> pc[x] = "reset"
        BY <1>5, CrashEffect
    <2> QED
        BY <1>0, <2>1, UniqueDaysKept
<1>6. CASE \/ \E d \in Device : RecordArrives(d)
           \/ \E d \in Device, a \in Account : SignIn(d, a)
           \/ \E d \in Device : SignOut(d)
           \/ UNCHANGED vars
    BY <1>0, <1>6, OutsideEffect, UniqueDaysKept
<1>7. CASE \E c \in Call : WriteRejected(c)
    BY <1>7 DEF WriteRejected, Usual
<1> QED
    BY <1>1, <1>2, <1>3, <1>4, <1>5, <1>6, <1>7 DEF Next

---------------------------------------------------------------------------
(* The theorems.                                                           *)

LEMMA InvInit == Init => Inv
<1> SUFFICES ASSUME Init
             PROVE  Inv
    OBVIOUS
<1>1. TypeOK
    BY TypeInit
<1>2. /\ \A c \in Call : pc[c] = "settled" /\ ahead[c] = {}
      /\ \A a \in Account : Keys(a) = {}
    BY DEF Init, Keys, Empty
<1>3. QueueOrder /\ SameAccount /\ ResetsNothing
    BY <1>2, Places DEF QueueOrder, SameAccount, ResetsNothing
<1>4. OneDevice /\ OneReader /\ InStampOrder
    BY <1>2, Places DEF OneDevice, OneReader, InStampOrder, InFlight
<1>5. UniqueDays
    BY <1>2 DEF UniqueDays, Kind
<1> QED
    BY <1>1, <1>3, <1>4, <1>5 DEF Inv

LEMMA InvStep == Inv /\ [Next]_vars => Inv'
BY TypeStep, OrderStep, SameAccountStep, OneDeviceStep, OneReaderStep,
   UniqueDaysStep, ResetsNothingStep, InStampOrderStep DEF Inv

\* The inductive invariant holds in every reachable state of the calls of
\* updateUser, the queues and the accounts.
THEOREM InvariantHolds == Spec => []Inv
BY InvInit, InvStep, PTL DEF Spec

\* Only the server's commit of a write changes a record.
LEMMA RecordsStep ==
    ASSUME [Next]_vars, records' # records
    PROVE  \E c \in Call : WriteCommits(c)
BY DEF Next, Submit, GetReturns, GetCached, GetThrows, Answer, Proceed, Caught,
       WriteRejected, RecordArrives, Crash, SignIn, SignOut, vars

\* updateUser keeps one field per day in every record, whatever reads fail,
\* unless a call goes on with an outdated snapshot, another device writes the
\* record at the same time, another account is signed in during a call, or a
\* write is refused.
THEOREM OneRecordPerDayHolds == Spec => []OneRecordPerDay
<1>1. Inv => OneRecordPerDay
    BY DEF Inv, UniqueDays, OneRecordPerDay
<1> QED
    BY <1>1, InvariantHolds, PTL

\* No step of updateUser loses a stored reading, unless a read or a write
\* failed, a snapshot was outdated when it was used, two devices raced or
\* another account was signed in during a call.
THEOREM HistoryKeptHolds == Spec => HistoryKept
<1>1. Inv /\ [Next]_vars =>
        [Usual({"threw", "rejected", "missed", "race", "switch"}) =>
            \A a \in Account : Keys(a) \subseteq Keys(a)']_vars
    <2> SUFFICES ASSUME Inv, [Next]_vars,
                        Usual({"threw", "rejected", "missed", "race", "switch"}),
                        NEW a \in Account
                 PROVE  Keys(a) \subseteq Keys(a)'
        OBVIOUS
    <2>1. ASSUME NEW c \in Call, WriteCommits(c)
          PROVE  Keys(a) \subseteq Keys(a)'
        <3>1. pc[c] = "reset" => Keys(to[c]) = {}
            BY DEF Inv, ResetsNothing
        <3>2. i[c] # NoReading /\ i[c] \in Reading
            BY ConstantsAssumption DEF Inv, TypeOK
        <3> QED
            BY <2>1, <3>1, <3>2 DEF WriteCommits, Keys, Inv, TypeOK
    <2>2. CASE UNCHANGED records
        BY <2>2 DEF Keys
    <2> QED
        BY <2>1, <2>2, RecordsStep
<1> QED
    BY <1>1, InvariantHolds, PTL DEF HistoryKept, Spec

\* A stored reading changes only through a call made on its own day, unless
\* calls overlap or clocks disagree or another account is signed in during a
\* call.
THEOREM TodayOnlyHolds == Spec => TodayOnly
<1>1. Inv /\ [Next]_vars =>
        [Usual({"overlap", "skew", "switch"}) =>
            \A a \in Account : \A t \in Keys(a) \cap Keys(a)' :
                records[a][t] # records'[a][t] =>
                    SetToday(a, t)]_vars
    <2> SUFFICES ASSUME Inv, [Next]_vars,
                        Usual({"overlap", "skew", "switch"}),
                        NEW a \in Account, NEW t \in Keys(a) \cap Keys(a)',
                        records[a][t] # records'[a][t]
                 PROVE  SetToday(a, t)
        OBVIOUS
    <2>0. \E c \in Call : WriteCommits(c)
        BY RecordsStep
    <2>1. PICK c \in Call : WriteCommits(c)
        BY <2>0
    <2>2. /\ t \in Time /\ records'[a][t] # NoReading
          /\ pc[c] \in Kind /\ pc'[c] = "settled"
        BY <2>1, SettleEffect DEF Keys, WriteCommits, Sendable, Inv
    <2>3. a = to[c] /\ t = key[c] /\ records'[a][t] = i[c]
        BY <2>1, <2>2 DEF WriteCommits, Inv, TypeOK, Empty
    <2>4. Day[key[c]] = Day[s[c]]
        BY <2>2 DEF Inv, InStampOrder
    <2> QED
        BY <2>2, <2>3, <2>4 DEF Kind, SetToday
<1> QED
    BY <1>1, InvariantHolds, PTL DEF TodayOnly, Spec

\* A reading lands in the record of the account that was signed in when the
\* button was pressed, unless another account is signed in before its write
\* is queued.
THEOREM OwnRecordOnlyHolds == Spec => OwnRecordOnly
<1>1. Inv /\ [Next]_vars =>
        [Usual({"switch"}) =>
            \A a \in Account : records[a] # records'[a] =>
                \E c \in InFlight(a) : pc'[c] = "settled"]_vars
    <2> SUFFICES ASSUME Inv, [Next]_vars, Usual({"switch"}),
                        NEW a \in Account, records[a] # records'[a]
                 PROVE  \E c \in InFlight(a) : pc'[c] = "settled"
        OBVIOUS
    <2>0. \E c \in Call : WriteCommits(c)
        BY RecordsStep
    <2>1. PICK c \in Call : WriteCommits(c)
        BY <2>0
    <2>2. pc[c] \in Kind /\ pc'[c] = "settled"
        BY <2>1, SettleEffect DEF WriteCommits, Sendable, Inv
    <2>3. a = to[c]
        BY <2>1 DEF WriteCommits, Inv, TypeOK
    <2> QED
        BY <2>2, <2>3 DEF Inv, SameAccount, InFlight, Kind
<1> QED
    BY <1>1, InvariantHolds, PTL DEF OwnRecordOnly, Spec
============================================================================
