---------------------------- MODULE RecordStore ----------------------------
(***************************************************************************)
(* The blood sugar record of each account: the Firestore document          *)
(* <uid>/record, whose fields map a time stamp to a reading, and the calls *)
(* of FirebaseService.updateUser (firebase/db.dart) that write it when     *)
(* the button of the record page is pressed (Push3, push.dart).            *)
(*                                                                         *)
(* A call reads the document, chooses the field to write, and writes it;   *)
(* its catch clause replaces the whole document.  The page does not wait   *)
(* for the call, so calls overlap.  After every await the call goes on     *)
(* later than the client answered, with a snapshot that may be outdated,   *)
(* and reads auth.currentUser again.                                       *)
(*                                                                         *)
(* The Firestore client is modelled from its use: a write joins the queue  *)
(* of its device and account, a read sees the server's document, or the    *)
(* device's copy when offline, with the writes still queued on top, the    *)
(* queue is sent in order while its account is signed in, and queue and    *)
(* copy survive a restart of the app.                                      *)
(***************************************************************************)
EXTENDS Integers, FiniteSets, FiniteSetsExt

CONSTANTS
    Account,    \* Firebase users
    Device,     \* installations of the app
    Call,       \* slots for calls of updateUser
    DeviceOf,   \* the device a slot belongs to
    Horizon,    \* the last instant considered
    Day,        \* the calendar day of an instant
    Typed,      \* numbers that can be typed in the record page
    NoReading,  \* the value of a field the document does not have
    NoUser,     \* auth.currentUser = null
    Nothing     \* no request outstanding (DailyLog)

Time == 0..Horizon                      \* instants, the keys of a record
Limit == 200                            \* largest reading Push3 accepts
Reading == {v \in Typed : v <= Limit}

ASSUME ConstantsAssumption ==
    /\ DeviceOf \in [Call -> Device]
    /\ Horizon \in Nat
    /\ Day \in [Time -> Nat]
    /\ \A t, u \in Time : t <= u => Day[t] <= Day[u]
    /\ Typed \subseteq Nat
    /\ NoReading \notin Reading
    /\ NoUser \notin Account
    /\ Nothing \notin [account : Account, day : Nat, value : Reading]

VARIABLES
    records,    \* records[a][t]: the field t of document a/record
    user,       \* user[d]: auth.currentUser on device d
    pc,         \* where a call stands
    s, i,       \* the parameters of a call
    from,       \* the account whose document a call reads
    seen,       \* the fields in the snapshot a call has got
    to,         \* the account whose document a call writes
    key,        \* the field a call writes
    ahead,      \* the calls whose writes are queued before that of a call
    copy,       \* copy[d][a]: the fields of a/record in the cache of device d
    anomaly     \* what has gone wrong so far (history variable)

vars == <<records, user, pc, s, i, from, seen, to, key, ahead, copy, anomaly>>

Reads == {"get", "got"}                 \* get() is asked, or has answered
Awaits == Reads \cup {"failed"}         \* ... or an exception is to be caught

Kind == {"merge", "reset", "orphan"}    \* kinds of queued write

Anomaly ==
    { "threw",      \* a read of the record failed
      "rejected",   \* the server refused a write
      "switch",     \* another account was signed in during a call
      "missed",     \* a call went on with an outdated snapshot
      "overlap",    \* a call started during a read for the same account
      "race",       \* ... while another device had a call in flight
      "skew" }      \* a call was stamped earlier than a previous one

TypeOK ==
    /\ records \in [Account -> [Time -> Reading \cup {NoReading}]]
    /\ user \in [Device -> Account \cup {NoUser}]
    /\ pc \in [Call -> {"settled"} \cup Awaits \cup Kind]
    /\ s \in [Call -> Time]
    /\ i \in [Call -> Reading]
    /\ from \in [Call -> Account]
    /\ seen \in [Call -> SUBSET Time]
    /\ to \in [Call -> Account]
    /\ key \in [Call -> Time]
    /\ ahead \in [Call -> SUBSET Call]
    /\ copy \in [Device -> [Account -> SUBSET Time]]
    /\ anomaly \subseteq Anomaly

---------------------------------------------------------------------------
(* The document and the client's view of it.                               *)

Keys(a) == {t \in Time : records[a][t] # NoReading}

Empty == [t \in Time |-> NoReading]

Queued(a) == {c \in Call : pc[c] \in Kind /\ to[c] = a}

Queue(d, a) == {c \in Queued(a) : DeviceOf[c] = d}

\* No later write of the queue replaces the document that c writes.
Survives(c, Q) == ~ \E r \in Q : pc[r] = "reset" /\ c \in ahead[r]

\* The fields K with the writes on top that device d has queued for the
\* account, if it is signed in.
Overlaid(d, a, K) ==
    LET Q == IF user[d] = a THEN Queue(d, a) ELSE {}
    IN  {t \in K : ~ \E r \in Q : pc[r] = "reset"}
            \cup {key[c] : c \in {q \in Q : Survives(q, Q)}}

\* What a read of a/record on device d should find.
Seen(d, a) == Overlaid(d, a, Keys(a))

\* Mutant of HasDay: the days are not compared.
HasAnyDay(K, t) == K # {}

\* newList.contains(...): the record has a reading of the day of instant t.
HasDay(K, t) == \E k \in K : Day[k] = Day[t]

\* Mutants of Chosen: the days are not compared; the keys are sorted in
\* ascending order.
ChosenNew(K, t) == t
ChosenOldest(K, t) == IF HasDay(K, t) THEN Min(K) ELSE t

\* The field updateUser writes when the record exists.  list is sorted in
\* descending order, so that list[0] is the newest key.
Chosen(K, t) == IF HasDay(K, t) THEN Max(K) ELSE t

---------------------------------------------------------------------------
(* Queueing a write, and the catch clause.                                 *)

\* The queue without call c.
Dequeued(c) == [x \in Call |-> IF x = c THEN {} ELSE ahead[x] \ {c}]

\* The call ends, and its write, if any, leaves the queue.
Settle(c) ==
    /\ pc' = [pc EXCEPT ![c] = "settled"]
    /\ ahead' = Dequeued(c)
    /\ UNCHANGED <<to, key>>

\* The write joins the end of the queue of the account.
Enqueue(c, kind, a, k) ==
    /\ pc' = [pc EXCEPT ![c] = kind]
    /\ to' = [to EXCEPT ![c] = a]
    /\ key' = [key EXCEPT ![c] = k]
    /\ ahead' = [Dequeued(c) EXCEPT ![c] = Queue(DeviceOf[c], a) \ {c}]

\* doc('record').set(...) on the account that is signed in now.  When there
\* is none, currentUser! throws, in the catch clause too, and the call ends.
Write(c, kind, k) ==
    LET a == user[DeviceOf[c]]
    IN  IF a = NoUser THEN Settle(c) ELSE Enqueue(c, kind, a, k)

\* catch (e): replace the whole document by the new reading.
Catch(c) == Write(c, "reset", s[c])

---------------------------------------------------------------------------
(* Actions.                                                                *)

Init ==
    /\ records = [a \in Account |-> Empty]
    /\ user \in [Device -> Account \cup {NoUser}]
    /\ pc = [c \in Call |-> "settled"]
    /\ \E t \in Time : s = [c \in Call |-> t] /\ key = s
    /\ \E v \in Reading : i = [c \in Call |-> v]
    /\ \E a \in Account : from = [c \in Call |-> a] /\ to = from
    /\ seen = [c \in Call |-> {}]
    /\ ahead = [c \in Call |-> {}]
    /\ copy = [d \in Device |-> [a \in Account |-> {}]]
    /\ anomaly = {}

InFlight(a) == {c \in Call : pc[c] # "settled" /\ from[c] = a}

\* The stamps that account a has used and that still matter.
Stamps(a) ==
    {t \in Time : \/ t \in Keys(a)
                  \/ \E d \in Device : t \in copy[d][a]
                  \/ \E c \in InFlight(a) : t = s[c]
                  \/ \E c \in InFlight(a) \cap Queued(a) : t = key[c]}

\* What is unusual about starting a call on device d at time t.
StartAnomaly(d, a, t) ==
    {x \in {"overlap", "race", "skew"} :
        \/ x = "overlap" /\ \E c \in InFlight(a) : pc[c] \in Reads
        \/ x = "race" /\ \E c \in InFlight(a) : DeviceOf[c] # d
        \/ x = "skew" /\ \E u \in Stamps(a) : t < u}

\* Mutant of Submit: the limit is not checked.
SubmitUnlimited(c, t, v) ==
    LET d == DeviceOf[c]
        a == user[d]
    IN  /\ pc[c] = "settled"
        /\ a # NoUser
        /\ pc' = [pc EXCEPT ![c] = "get"]
        /\ s' = [s EXCEPT ![c] = t]
        /\ i' = [i EXCEPT ![c] = v]
        /\ from' = [from EXCEPT ![c] = a]
        /\ anomaly' = anomaly \cup StartAnomaly(d, a, t)
        /\ UNCHANGED <<records, user, seen, to, key, ahead, copy>>

\* The button of Push3: an accepted number starts updateUser, stamped with
\* the time of the press, which runs up to its first await.
Submit(c, t, v) ==
    LET d == DeviceOf[c]
        a == user[d]
    IN  /\ pc[c] = "settled"
        /\ a # NoUser
        /\ v <= Limit
        /\ pc' = [pc EXCEPT ![c] = "get"]
        /\ s' = [s EXCEPT ![c] = t]
        /\ i' = [i EXCEPT ![c] = v]
        /\ from' = [from EXCEPT ![c] = a]
        /\ anomaly' = anomaly \cup StartAnomaly(d, a, t)
        /\ UNCHANGED <<records, user, seen, to, key, ahead, copy>>

\* The client answers get() with a snapshot, and the call will go on.
Answer(c, K) ==
    /\ pc[c] = "get"
    /\ pc' = [pc EXCEPT ![c] = "got"]
    /\ seen' = [seen EXCEPT ![c] = K]
    /\ UNCHANGED <<records, user, s, i, from, to, key, ahead, anomaly>>

\* get() is answered by the server, whose document is copied.
GetReturns(c) ==
    LET d == DeviceOf[c]
    IN  /\ Answer(c, Seen(d, from[c]))
        /\ copy' = [copy EXCEPT ![d][from[c]] = Keys(from[c])]

\* get() is answered offline, from the copy, if that gives a document.
GetCached(c) ==
    LET K == Overlaid(DeviceOf[c], from[c], copy[DeviceOf[c]][from[c]])
    IN  /\ K # {}
        /\ Answer(c, K)
        /\ UNCHANGED copy

\* get() throws: the device is offline and has no copy of the document, or
\* the server refuses the read.
GetThrows(c) ==
    /\ pc[c] = "get"
    /\ pc' = [pc EXCEPT ![c] = "failed"]
    /\ anomaly' = anomaly \cup {"threw"}
    /\ UNCHANGED <<records, user, s, i, from, seen, to, key, ahead, copy>>

\* The call goes on.  data() of a missing document is null, li! throws and
\* the catch clause runs; otherwise the field is chosen and written with merge.
Proceed(c) ==
    /\ pc[c] = "got"
    /\ \/ seen[c] = {} /\ Catch(c)
       \/ seen[c] # {} /\ Write(c, "merge", Chosen(seen[c], s[c]))
    /\ anomaly' = anomaly \cup
           {x \in {"missed"} : seen[c] # Seen(DeviceOf[c], from[c])}
    /\ UNCHANGED <<records, user, s, i, from, seen, copy>>

\* The exception of a read or a merge reaches the catch clause.
Caught(c) ==
    /\ pc[c] = "failed"
    /\ Catch(c)
    /\ UNCHANGED <<records, user, s, i, from, seen, copy, anomaly>>

\* The server may process the write of c.
Sendable(c) ==
    /\ pc[c] \in Kind
    /\ ahead[c] = {}
    /\ user[DeviceOf[c]] = to[c]

\* The device applies the write that was acknowledged to its copy, if it has
\* one.
Acknowledged(c) ==
    copy' = [copy EXCEPT ![DeviceOf[c]][to[c]] =
                 IF pc[c] = "reset" THEN {key[c]}
                 ELSE IF @ = {} THEN @ ELSE @ \cup {key[c]}]

\* Mutant of WriteCommits: set() without merge: true.
WriteReplaces(c) ==
    /\ Sendable(c)
    /\ records' = [records EXCEPT ![to[c]] = [Empty EXCEPT ![key[c]] = i[c]]]
    /\ Acknowledged(c)
    /\ Settle(c)
    /\ UNCHANGED <<user, s, i, from, seen, anomaly>>

\* set({key: i}), which keeps the other fields only with merge: true.
WriteCommits(c) ==
    /\ Sendable(c)
    /\ records' = [records EXCEPT ![to[c]] =
           [IF pc[c] = "reset" THEN Empty ELSE @ EXCEPT ![key[c]] = i[c]]]
    /\ Acknowledged(c)
    /\ Settle(c)
    /\ UNCHANGED <<user, s, i, from, seen, anomaly>>

\* The server refuses the write, which leaves the queue: the catch clause
\* will run if the call was still awaiting a merge, and the error is
\* unhandled otherwise.
WriteRejected(c) ==
    /\ Sendable(c)
    /\ pc' = [pc EXCEPT ![c] = IF @ = "merge" THEN "failed" ELSE "settled"]
    /\ ahead' = Dequeued(c)
    /\ anomaly' = anomaly \cup {"rejected"}
    /\ UNCHANGED <<records, user, s, i, from, seen, to, key, copy>>

\* The listener of the chart page brings the copy up to date.
RecordArrives(d) ==
    /\ user[d] # NoUser
    /\ copy' = [copy EXCEPT ![d][user[d]] = Keys(user[d])]
    /\ UNCHANGED <<records, user, pc, s, i, from, seen, to, key, ahead, anomaly>>

\* Mutant of Crash: the queue is kept in memory only.
CrashForgets(d) ==
    /\ \E c \in Call : DeviceOf[c] = d /\ pc[c] # "settled"
    /\ pc' = [c \in Call |-> IF DeviceOf[c] = d THEN "settled" ELSE pc[c]]
    /\ ahead' = [c \in Call |-> IF DeviceOf[c] = d THEN {} ELSE ahead[c]]
    /\ UNCHANGED <<records, user, s, i, from, seen, to, key, copy, anomaly>>

\* The app is killed and started again: a call with no write queued is lost,
\* a queued write stays but nobody awaits it.
Crash(d) ==
    /\ pc' = [c \in Call |->
                CASE DeviceOf[c] = d /\ pc[c] \in Awaits -> "settled"
                  [] DeviceOf[c] = d /\ pc[c] = "merge" -> "orphan"
                  [] OTHER -> pc[c]]
    /\ pc' # pc
    /\ UNCHANGED <<records, user, s, i, from, seen, to, key, ahead, copy, anomaly>>

\* Mutant of SignIn: the device has one queue of writes for all accounts.
SignInAdopts(d, a) ==
    /\ user[d] # a
    /\ user' = [user EXCEPT ![d] = a]
    /\ to' = [c \in Call |-> IF DeviceOf[c] = d /\ pc[c] \in Kind THEN a ELSE to[c]]
    /\ anomaly' = anomaly \cup
           {x \in {"switch"} : \E c \in Call :
               DeviceOf[c] = d /\ pc[c] \in Awaits /\ from[c] # a}
    /\ UNCHANGED <<records, pc, s, i, from, seen, key, ahead, copy>>

\* A tap on the Google button of the login page has led to a sign-in.  The
\* tap is not awaited and the button stays, so a second sign-in may replace
\* an account that is signed in.
SignIn(d, a) ==
    /\ user[d] # a
    /\ user' = [user EXCEPT ![d] = a]
    /\ anomaly' = anomaly \cup
           {x \in {"switch"} : \E c \in Call :
               DeviceOf[c] = d /\ pc[c] \in Awaits /\ from[c] # a}
    /\ UNCHANGED <<records, pc, s, i, from, seen, to, key, ahead, copy>>

\* The OK button of the logout dialog.
SignOut(d) ==
    /\ user[d] # NoUser
    /\ user' = [user EXCEPT ![d] = NoUser]
    /\ UNCHANGED <<records, pc, s, i, from, seen, to, key, ahead, copy, anomaly>>

Next ==
    \/ \E c \in Call, t \in Time, v \in Typed : Submit(c, t, v)
    \/ \E c \in Call : GetReturns(c)
    \/ \E c \in Call : GetCached(c)
    \/ \E c \in Call : GetThrows(c)
    \/ \E c \in Call : Proceed(c)
    \/ \E c \in Call : Caught(c)
    \/ \E c \in Call : WriteCommits(c)
    \/ \E c \in Call : WriteRejected(c)
    \/ \E d \in Device : RecordArrives(d)
    \/ \E d \in Device : Crash(d)
    \/ \E d \in Device, a \in Account : SignIn(d, a)
    \/ \E d \in Device : SignOut(d)

Spec == Init /\ [][Next]_vars

---------------------------------------------------------------------------
(* Properties.                                                             *)

Usual(X) == anomaly \cap X = {}

\* updateUser keeps one reading per day: two fields of a record never fall
\* on the same day.  The exceptions are named: a call that goes on with an
\* outdated snapshot, since a call that overlaps with it has queued its write
\* in between or the copy that answered offline was old; another device that
\* writes the same record at the same time; another account signed in during
\* a call; and a write the server refuses.  Calls that overlap otherwise,
\* failed reads, sign-outs, clock skew and restarts do not break it.
OneRecordPerDay ==
    Usual({"missed", "race", "switch", "rejected"}) =>
        \A a \in Account : \A t, u \in Keys(a) : Day[t] = Day[u] => t = u

\* A reading once stored is never lost: a field of a record disappears only
\* after a failed read or write, an outdated snapshot, a race between devices
\* or another account signed in during a call, the cases in which the catch
\* clause of updateUser replaces a record that is not empty.
HistoryKept ==
    [][Usual({"threw", "rejected", "missed", "race", "switch"}) =>
        \A a \in Account : Keys(a) \subseteq Keys(a)']_vars

\* The step stores at field t of a the reading of a call of the same day.
SetToday(a, t) ==
    \E c \in Call : /\ pc[c] # "settled" /\ pc'[c] = "settled"
                    /\ Day[s[c]] = Day[t]
                    /\ records'[a][t] = i[c]

\* The page says it sets today's reading: a stored reading changes only
\* through a call made on its own day, although updateUser overwrites the
\* newest field (list[0]) and not the field of that day.
TodayOnly ==
    [][Usual({"overlap", "skew", "switch"}) =>
        \A a \in Account : \A t \in Keys(a) \cap Keys(a)' :
            records[a][t] # records'[a][t] => SetToday(a, t)]_vars

\* The promise on the page, with no exception: a press of the button changes
\* no stored reading of another day.
SetsToday ==
    [][\A a \in Account : \A t \in Keys(a) \cap Keys(a)' :
            records[a][t] # records'[a][t] => SetToday(a, t)]_vars

\* A reading lands in the record of the account that was signed in when the
\* button was pressed, or nowhere, although updateUser reads currentUser
\* again after every await: the account may be signed out, and in again,
\* during a call, and another one while its write is queued.  Only another
\* account signed in before the write is queued gets the reading.
OwnRecordOnly ==
    [][Usual({"switch"}) =>
        \A a \in Account : records[a] # records'[a] =>
            \E c \in InFlight(a) : pc'[c] = "settled"]_vars

\* The steps of behaviours in which nothing goes wrong.
QuietSpec == Init /\ [][Next /\ anomaly' = {}]_vars

DayId == {Day[t] : t \in Time}

LogOf(a) ==
    [d \in DayId |->
        IF \E t \in Keys(a) : Day[t] = d
        THEN records[a][CHOOSE t \in Keys(a) : Day[t] = d]
        ELSE NoReading]

AskOf(c) ==
    IF pc[c] = "settled"
    THEN Nothing
    ELSE [account |-> from[c], day |-> Day[s[c]], value |-> i[c]]

BeforeOf(c) == IF pc[c] \in Awaits THEN Queued(from[c]) ELSE ahead[c]

Log == INSTANCE DailyLog WITH
           log    <- [a \in Account |-> LogOf(a)],
           ask    <- [c \in Call |-> AskOf(c)],
           before <- [c \in Call |-> BeforeOf(c)]

\* As long as nothing goes wrong, the document, its client and updateUser
\* implement a log with one reading per day, in which the presses of the
\* button take effect in order, each for its own day and account.
ImplementsDailyLog == Log!Spec

\* The client sends what it has queued: Firestore retries a write until the
\* server has answered it.
FairQuietSpec ==
    QuietSpec /\ \A c \in Call : WF_vars(WriteCommits(c) /\ anomaly' = {})

\* A queued reading reaches the record, over restarts of the app and behind
\* the writes queued before it, unless the account is signed out of the
\* device.
QueuedReadingStored ==
    \A c \in Call, a \in Account, t \in Time, v \in Reading :
        pc[c] \in Kind /\ to[c] = a /\ key[c] = t /\ i[c] = v
            ~> records[a][t] = v \/ user[DeviceOf[c]] # a

---------------------------------------------------------------------------
(* The inductive invariant behind these properties.                        *)

\* A queue is a strict total order of the queued writes of one device and
\* one account, and a call that has queued nothing is not in it.
QueueOrder ==
    /\ \A c \in Call : pc[c] \notin Kind => ahead[c] = {}
    /\ \A c, e \in Call : c \in ahead[e] =>
            /\ pc[c] \in Kind /\ e \notin ahead[c] /\ c # e
            /\ to[c] = to[e] /\ DeviceOf[c] = DeviceOf[e]
    /\ \A c, e, f \in Call : c \in ahead[e] /\ e \in ahead[f] => c \in ahead[f]
    /\ \A c, e \in Call :
            /\ c # e /\ pc[c] \in Kind /\ pc[e] \in Kind
            /\ to[c] = to[e] /\ DeviceOf[c] = DeviceOf[e]
            => c \in ahead[e] \/ e \in ahead[c]

\* Unless another account is signed in, calls stay with their account.
SameAccount ==
    Usual({"switch"}) => \A c \in Call :
        /\ pc[c] \in Awaits => user[DeviceOf[c]] \in {from[c], NoUser}
        /\ pc[c] \in Kind => to[c] = from[c]

\* Without a race, the calls of one account are all on one device.
OneDevice ==
    Usual({"race"}) => \A a \in Account : \A c, e \in InFlight(a) :
        DeviceOf[c] = DeviceOf[e]

\* Without overlap, one call at a time reads the record of an account.
OneReader ==
    Usual({"overlap"}) => \A a \in Account : \A c, e \in InFlight(a) :
        pc[c] \in Reads /\ pc[e] \in Reads => c = e

\* No write that replaces the document is queued after c, up to e.
NoReset(c, e) ==
    ~ \E r \in Call : pc[r] = "reset" /\ c \in ahead[r] /\ (r = e \/ r \in ahead[e])

\* Nor among the writes up to e.
NoResetTo(e) ==
    ~ \E r \in Call : pc[r] = "reset" /\ (r = e \/ r \in ahead[e])

\* The document has one field per day now and after every queued write.
UniqueDays ==
    Usual({"missed", "race", "switch", "rejected"}) =>
        /\ \A a \in Account : \A t, u \in Keys(a) : Day[t] = Day[u] => t = u
        /\ \A e \in Call : \A t \in Keys(to[e]) :
               pc[e] \in Kind /\ NoResetTo(e) /\ Day[t] = Day[key[e]]
                   => t = key[e]
        /\ \A c, e \in Call :
               c \in ahead[e] /\ NoReset(c, e) /\ Day[key[c]] = Day[key[e]]
                   => key[c] = key[e]

\* A queued write that replaces the document is the first of its queue, and
\* the document does not exist; and no exception is under way.
ResetsNothing ==
    Usual({"threw", "rejected", "missed", "race", "switch"}) =>
        \A r \in Call :
            /\ pc[r] # "failed"
            /\ pc[r] = "reset" => ahead[r] = {} /\ Keys(to[r]) = {}

\* A call that reads is stamped later than all it can find or has found, and
\* a queued write goes to a field of the day of its call.
InStampOrder ==
    Usual({"overlap", "skew", "switch"}) =>
        /\ \A a \in Account : \A c \in InFlight(a) :
               pc[c] \in Reads => \A u \in Stamps(a) : u <= s[c]
        /\ \A c \in Call : pc[c] = "got" => \A u \in seen[c] : u <= s[c]
        /\ \A c \in Call : pc[c] \in Kind => Day[key[c]] = Day[s[c]]

\* The invariant that every step of updateUser, of the client's queue and of
\* the accounts preserves, and from which the properties above follow.
Inv ==
    /\ TypeOK
    /\ QueueOrder
    /\ SameAccount
    /\ OneDevice
    /\ OneReader
    /\ UniqueDays
    /\ ResetsNothing
    /\ InStampOrder
============================================================================
