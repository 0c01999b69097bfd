---------------------------- MODULE PagesProofs ----------------------------
(***************************************************************************)
(* Proofs about Pages and the operators of Chart, for any names, numbers,  *)
(* limit, pictures, lengths of the record, and all bounds.                 *)
(***************************************************************************)
EXTENDS Pages, SequenceTheorems, FiniteSetTheorems, WellFoundedInduction, TLAPS

---------------------------------------------------------------------------
(* Lemmas about the operators of Chart.                                    *)

LEMMA ReverseOf ==
    ASSUME NEW S, NEW s \in Seq(S)
    PROVE  /\ Reverse(s) \in Seq(S) /\ Len(Reverse(s)) = Len(s)
           /\ Len(s) \in Nat
           /\ \A i \in 1..Len(s) : Reverse(s)[i] = s[Len(s) + 1 - i]
<1>1. Len(s) \in Nat /\ \A i \in 1..Len(s) : s[i] \in S
    BY LenProperties
<1>2. Reverse(s) = [i \in 1..Len(s) |-> s[(Len(s) - i) + 1]]
    BY DEF Reverse
<1>3. \A i \in 1..Len(s) : /\ (Len(s) - i) + 1 \in 1..Len(s)
                           /\ (Len(s) - i) + 1 = Len(s) + 1 - i
    BY <1>1
<1>4. Reverse(s) \in [1..Len(s) -> S]
    BY <1>1, <1>2, <1>3
<1>5. Reverse(s) \in Seq(S)
    BY <1>1, <1>4, SeqDef
<1>6. Len(Reverse(s)) = Len(s)
    BY <1>1, <1>2, <1>5, LenProperties
<1> QED
    BY <1>1, <1>2, <1>3, <1>5, <1>6

LEMMA CutOf ==
    ASSUME NEW S, NEW s \in Seq(S), NEW k \in Nat
    PROVE  /\ Cut(s, k) \in Seq(S)
           /\ Len(Cut(s, k)) = IF Len(s) > k THEN k ELSE Len(s)
           /\ \A i \in 1..Len(Cut(s, k)) : Cut(s, k)[i] = s[i]
<1>1. Len(s) \in Nat /\ \A i \in 1..Len(s) : s[i] \in S
    BY LenProperties
<1>2. CASE Len(s) > k
    <2>1. Cut(s, k) = SubSeq(s, 1, k)
        BY <1>2 DEF Cut
    <2>2. \A i \in 1..k : s[i] \in S
        BY <1>1, <1>2
    <2>3. /\ SubSeq(s, 1, k) \in Seq(S)
          /\ Len(SubSeq(s, 1, k)) = IF 1 <= k THEN k - 1 + 1 ELSE 0
          /\ \A i \in 1..k - 1 + 1 : SubSeq(s, 1, k)[i] = s[1 + i - 1]
        BY <2>2, SubSeqProperties
    <2>4. Len(SubSeq(s, 1, k)) = k
        BY <2>3
    <2>5. ASSUME NEW i \in 1..k PROVE SubSeq(s, 1, k)[i] = s[i]
        BY <2>3
    <2> QED
        BY <1>2, <2>1, <2>3, <2>4, <2>5
<1>3. CASE ~(Len(s) > k)
    BY <1>3 DEF Cut
<1> QED
    BY <1>2, <1>3

\* How many readings a list of at most k shows of n.
Shown(n, k) == IF n > k THEN k ELSE n

\* The line chart shows the newest readings, in the order of the record.
LEMMA LineOf ==
    ASSUME NEW S, NEW r \in Seq(S)
    PROVE  /\ Line(r) \in Seq(S) /\ Len(r) \in Nat
           /\ Len(Line(r)) = Shown(Len(r), Spots)
           /\ \A i \in 1..Shown(Len(r), Spots) :
                  Line(r)[i] = r[Len(r) - Shown(Len(r), Spots) + i]
<1> DEFINE v == Reverse(r)
           c == Cut(v, Spots)
           n == Len(r)
           k == Shown(n, Spots)
<1>1. /\ v \in Seq(S) /\ Len(v) = n /\ n \in Nat
      /\ \A i \in 1..n : v[i] = r[n + 1 - i]
    BY ReverseOf
<1>2. Spots \in Nat
    BY DEF Spots
<1> HIDE DEF v
<1>3. /\ c \in Seq(S) /\ Len(c) = k
      /\ \A i \in 1..Len(c) : c[i] = v[i]
    BY <1>1, <1>2, CutOf DEF Shown
<1> HIDE DEF c
<1>4. /\ Reverse(c) \in Seq(S) /\ Len(Reverse(c)) = Len(c)
      /\ \A i \in 1..Len(c) : Reverse(c)[i] = c[Len(c) + 1 - i]
    BY <1>3, ReverseOf
<1>5. Line(r) = Reverse(c)
    BY DEF Line, c, v
<1>6. k \in Nat /\ k <= n
    BY <1>1, <1>2 DEF Shown
<1> HIDE DEF n, k
<1>7. ASSUME NEW i \in 1..k
      PROVE  Reverse(c)[i] = r[n - k + i]
    <2>1. k + 1 - i \in 1..k /\ k + 1 - i \in 1..n
          /\ n + 1 - (k + 1 - i) = n - k + i
        BY <1>1, <1>6
    <2>2. Reverse(c)[i] = c[k + 1 - i]
        BY <1>3, <1>4
    <2>3. c[k + 1 - i] = v[k + 1 - i]
        BY <1>3, <2>1
    <2>4. v[k + 1 - i] = r[n + 1 - (k + 1 - i)]
        BY <1>1, <2>1
    <2> QED
        BY <2>1, <2>2, <2>3, <2>4
<1> QED
    BY <1>1, <1>3, <1>4, <1>5, <1>7 DEF n, k

\* The labels are made in another way and are the same.
LEMMA LabelsOf ==
    ASSUME NEW S, NEW r \in Seq(S)
    PROVE  Labels(r) = Line(r)
<1>1. CASE Len(r) > Spots
    BY <1>1 DEF Labels, Line
<1>2. CASE ~(Len(r) > Spots)
    <2>1. /\ Line(r) \in Seq(S) /\ Len(r) \in Nat /\ Len(Line(r)) = Len(r)
          /\ \A i \in 1..Len(r) : Line(r)[i] = r[Len(r) - Len(r) + i]
        BY <1>2, LineOf DEF Shown
    <2>2. \A i \in 1..Len(r) : Line(r)[i] = r[i]
        BY <2>1
    <2>3. Line(r) = r
        BY <2>1, <2>2, SeqEqual
    <2> QED
        BY <1>2, <2>3 DEF Labels
<1> QED
    BY <1>1, <1>2

\* The rows of the history: all readings, or one item less than there is room
\* for, which is the tile.
LEMMA RowsOf ==
    ASSUME NEW n \in Nat, NEW count \in Nat, count >= 1
    PROVE  /\ Rows(n, count) = IF count > n THEN n ELSE count - 1
           /\ ExpandTile(n, count) <=> count <= n
<1> DEFINE k == IF count > n THEN n ELSE count - 1
           R == {i \in 0..ItemCount(n, count) - 1 : IsRow(i, count)}
<1>1. k \in Nat
    OBVIOUS
<1>2. R = 0..k - 1
    <2>1. \A i : i \in R <=> i \in 0..k - 1
        BY DEF ItemCount, IsRow
    <2> QED
        BY <2>1
<1> HIDE DEF R, k
<1>3. Cardinality(0..k - 1) = k
    BY <1>1, FS_Interval
<1>4. Rows(n, count) = k
    BY <1>2, <1>3 DEF Rows, R
<1>5. ExpandTile(n, count) <=> count <= n
    <2>1. CASE count <= n
        <3>1. count - 1 \in 0..ItemCount(n, count) - 1 /\ ~IsRow(count - 1, count)
            BY <2>1 DEF ItemCount, IsRow
        <3> QED
            BY <2>1, <3>1 DEF ExpandTile
    <2>2. CASE ~(count <= n)
        BY <2>2 DEF ExpandTile, ItemCount, IsRow
    <2> QED
        BY <2>1, <2>2
<1> QED
    BY <1>4, <1>5 DEF k

LEMMA HistoryOf ==
    ASSUME NEW S, NEW r \in Seq(S), NEW count \in Nat, count >= 1
    PROVE  /\ Len(r) \in Nat
           /\ History(r, count) \in Seq(S)
           /\ Len(History(r, count)) =
                  IF count > Len(r) THEN Len(r) ELSE count - 1
           /\ \A i \in 1..Len(History(r, count)) :
                  History(r, count)[i] = r[Len(r) + 1 - i]
<1> DEFINE v == Reverse(r)
           k == Rows(Len(r), count)
<1>1. /\ v \in Seq(S) /\ Len(v) = Len(r) /\ Len(r) \in Nat
      /\ \A i \in 1..Len(r) : v[i] = r[Len(r) + 1 - i]
    BY ReverseOf
<1>2. k = IF count > Len(r) THEN Len(r) ELSE count - 1
    BY <1>1, RowsOf
<1>3. k \in Nat /\ k <= Len(r)
    BY <1>1, <1>2
<1>4. History(r, count) = Cut(v, k)
    BY DEF History
<1> HIDE DEF v, k
<1>5. /\ Cut(v, k) \in Seq(S)
      /\ Len(Cut(v, k)) = IF Len(v) > k THEN k ELSE Len(v)
      /\ \A i \in 1..Len(Cut(v, k)) : Cut(v, k)[i] = v[i]
    BY <1>1, <1>3, CutOf
<1>6. Len(Cut(v, k)) = k
    BY <1>1, <1>3, <1>5
<1>7. \A i \in 1..k : i \in 1..Len(r)
    BY <1>1, <1>3
<1> QED
    BY <1>1, <1>2, <1>4, <1>5, <1>6, <1>7

---------------------------------------------------------------------------
(* Lemmas about the profile as this device sees it.                        *)

\* A set of numbers with a bound has a largest one.
LEMMA HasLargest ==
    ASSUME NEW T \in SUBSET Nat, T # {}, NEW b \in Nat, \A n \in T : n <= b
    PROVE  \E n \in T : \A m \in T : m <= n
<1> DEFINE D == {b - n : n \in T}
<1>1. D \subseteq Nat /\ D # {}
    <2>1. \A n \in T : b - n \in Nat
        OBVIOUS
    <2> QED
        BY <2>1
<1>2. PICK x \in D : \A y \in D : ~ (<<y, x>> \in OpToRel(<, Nat))
    BY <1>1, NatLessThanWellFounded, WFMin
<1>3. \A y \in D : x <= y
    <2> HIDE DEF D
    <2>1. SUFFICES ASSUME NEW y \in D, y < x PROVE FALSE
        <3>1. x \in Nat /\ \A y \in D : y \in Nat
            BY <1>1
        <3> QED
            BY <3>1
    <2>2. <<y, x>> \in Nat \X Nat /\ <<y, x>>[1] < <<y, x>>[2]
        BY <1>1, <2>1
    <2>3. <<y, x>> \in {ss \in Nat \X Nat : ss[1] < ss[2]}
        BY <2>2
    <2> QED
        BY <1>2, <2>3 DEF OpToRel
<1>4. PICK n \in T : x = b - n
    OBVIOUS
<1>5. \A m \in T : m <= n
    BY <1>3, <1>4
<1> QED
    BY <1>5


\* The updates of a field in a queue, and the value of the newest of them.
Mine(q, f) == {i \in DOMAIN q : f \in DOMAIN q[i]}
Newest(q, f) == CHOOSE i \in Mine(q, f) : \A j \in Mine(q, f) : j <= i

\* A profile with the updates of a queue on top.
On(p, q) ==
    [f \in Field |-> IF Mine(q, f) = {} THEN p[f] ELSE q[Newest(q, f)][f]]

LEMMA ViewIs == View = On(copy, queue) /\ Settled = On(profile, queue)
BY DEF View, Settled, Overlaid, On, Mine, Newest

LEMMA ViewAfter == View' = On(copy', queue') /\ Settled' = On(profile', queue')
BY DEF View, Settled, Overlaid, On, Mine, Newest

LEMMA NewestOf ==
    ASSUME NEW q \in Seq(Updates), NEW f, Mine(q, f) # {}
    PROVE  /\ Newest(q, f) \in Mine(q, f)
           /\ \A j \in Mine(q, f) : j <= Newest(q, f)
           /\ Newest(q, f) \in 1..Len(q)
<1>1. Len(q) \in Nat /\ DOMAIN q = 1..Len(q)
    BY LenProperties
<1>2. Mine(q, f) \in SUBSET Nat /\ \A i \in Mine(q, f) : i <= Len(q)
    BY <1>1 DEF Mine
<1>3. \E i \in Mine(q, f) : \A j \in Mine(q, f) : j <= i
    BY <1>1, <1>2, HasLargest
<1>4. /\ Newest(q, f) \in Mine(q, f)
      /\ \A j \in Mine(q, f) : j <= Newest(q, f)
    BY <1>3 DEF Newest
<1> QED
    BY <1>1, <1>4 DEF Mine

\* An update holds a value of the field that it names.
LEMMA UpdateTyped ==
    ASSUME NEW u \in Updates, NEW f \in DOMAIN u
    PROVE  f \in Field /\ u[f] \in Stored[f] /\ DOMAIN u = {f}
<1>1. PICK g \in Field : u \in [{g} -> Stored[g]]
    BY DEF Updates
<1> QED
    BY <1>1

LEMMA UpdateIn ==
    ASSUME NEW f \in Field, NEW v \in Stored[f]
    PROVE  Update(f, v) \in Updates
<1>1. Update(f, v) \in [{f} -> Stored[f]]
    BY DEF Update
<1> QED
    BY <1>1 DEF Updates

LEMMA StoredIs ==
    /\ Stored["name"] = Name /\ Stored["gender"] = Gender
    /\ Stored["target"] = Valid
    /\ \A f \in Field : Stored[f] \subseteq Name \cup Gender \cup Valid
BY DEF Stored, Field

LEMMA ProfileIs ==
    ASSUME NEW p
    PROVE  p \in Profile <=>
               p = [f \in Field |-> p[f]] /\ \A f \in Field : p[f] \in Stored[f]
<1>1. \A f \in Field : Stored[f] \subseteq Name \cup Gender \cup Valid
    BY StoredIs
<1>2. p \in Profile <=> /\ p \in [Field -> Name \cup Gender \cup Valid]
                        /\ \A f \in Field : p[f] \in Stored[f]
    BY DEF Profile
<1>3. ASSUME p = [f \in Field |-> p[f]], \A f \in Field : p[f] \in Stored[f]
      PROVE  p \in [Field -> Name \cup Gender \cup Valid]
    BY <1>1, <1>3
<1>4. ASSUME p \in [Field -> Name \cup Gender \cup Valid]
      PROVE  p = [f \in Field |-> p[f]]
    BY <1>4
<1> QED
    BY <1>2, <1>3, <1>4

\* A profile with updates on top is a profile.
LEMMA OnTyped ==
    ASSUME NEW p \in Profile, NEW q \in Seq(Updates)
    PROVE  On(p, q) \in Profile
<1>1. ASSUME NEW f \in Field PROVE On(p, q)[f] \in Stored[f]
    <2>1. CASE Mine(q, f) = {}
        BY <2>1, ProfileIs DEF On
    <2>2. CASE Mine(q, f) # {}
        <3> DEFINE n == Newest(q, f)
        <3>1. n \in Mine(q, f) /\ n \in 1..Len(q)
            BY <2>2, NewestOf
        <3>2. On(p, q)[f] = q[n][f]
            BY <2>2 DEF On
        <3> HIDE DEF n
        <3>3. q[n] \in Updates /\ f \in DOMAIN q[n]
            BY <3>1, LenProperties DEF Mine
        <3> QED
            BY <3>2, <3>3, UpdateTyped
    <2> QED
        BY <2>1, <2>2
<1>2. On(p, q) = [f \in Field |-> On(p, q)[f]]
    BY DEF On
<1> QED
    BY <1>1, <1>2, ProfileIs

LEMMA ViewTyped ==
    ASSUME copy \in Profile, queue \in Seq(Updates)
    PROVE  View \in Profile
BY OnTyped, ViewIs

\* One more update shows at once, and changes its field only.
LEMMA OnUpdated ==
    ASSUME NEW p \in Profile, NEW q \in Seq(Updates),
           NEW f \in Field, NEW v \in Stored[f], NEW g \in Field
    PROVE  On(p, Append(q, Update(f, v)))[g] = IF g = f THEN v ELSE On(p, q)[g]
<1> DEFINE u == Update(f, v)
           r == Append(q, u)
           n == Len(q)
<1>1. u \in Updates /\ DOMAIN u = {f} /\ u[f] = v
    BY UpdateIn DEF Update
<1> HIDE DEF u
<1>2. /\ r \in Seq(Updates) /\ Len(r) = n + 1 /\ n \in Nat
      /\ \A i \in 1..n : r[i] = q[i]
      /\ r[n + 1] = u
      /\ DOMAIN q = 1..n /\ DOMAIN r = 1..n + 1
    <2>1. /\ r \in Seq(Updates) /\ Len(r) = Len(q) + 1
          /\ \A i \in 1..Len(q) : r[i] = q[i]
          /\ r[Len(q) + 1] = u
        BY <1>1, AppendProperties
    <2>2. Len(q) \in Nat /\ DOMAIN q = 1..Len(q) /\ DOMAIN r = 1..Len(r)
        BY <2>1, LenProperties
    <2> QED
        BY <2>1, <2>2
<1> HIDE DEF n, r
<1>3. On(p, r)[g] = IF Mine(r, g) = {} THEN p[g] ELSE r[Newest(r, g)][g]
    BY DEF On
<1>4. On(p, q)[g] = IF Mine(q, g) = {} THEN p[g] ELSE q[Newest(q, g)][g]
    BY DEF On
<1>5. ASSUME g = f PROVE On(p, r)[g] = v
    <2>1. n + 1 \in Mine(r, g)
        BY <1>1, <1>2, <1>5 DEF Mine
    <2>2. /\ Newest(r, g) \in 1..Len(r)
          /\ \A j \in Mine(r, g) : j <= Newest(r, g)
        BY <1>2, <2>1, NewestOf
    <2>3. Newest(r, g) = n + 1
        BY <1>2, <2>1, <2>2
    <2> QED
        BY <1>1, <1>2, <1>3, <1>5, <2>1, <2>3
<1>6. ASSUME g # f PROVE On(p, r)[g] = On(p, q)[g]
    <2>1. Mine(r, g) = Mine(q, g)
        <3>1. \A i \in 1..n + 1 : i \in 1..n \/ i = n + 1
            BY <1>2
        <3>2. \A i \in 1..n : i \in 1..n + 1
            BY <1>2
        <3>3. \A i : i \in Mine(r, g) <=> i \in Mine(q, g)
            BY <1>1, <1>2, <1>6, <3>1, <3>2 DEF Mine
        <3> QED
            BY <3>3
    <2>2. Newest(r, g) = Newest(q, g)
        BY <2>1 DEF Newest
    <2>3. Mine(q, g) # {} => Newest(q, g) \in 1..n
        BY NewestOf DEF n
    <2> QED
        BY <1>2, <1>3, <1>4, <1>6, <2>1, <2>2, <2>3
<1> QED
    BY <1>5, <1>6 DEF r, u

LEMMA ViewSame ==
    ASSUME UNCHANGED <<copy, queue>>
    PROVE  View' = View
BY DEF View, Overlaid

---------------------------------------------------------------------------
(* The invariant, by the groups of variables that actions change.          *)

FormType ==
    [page : Field \cup {"none", "picture", "record"},
     param : Value, data : Value, shown : Value, shared : BOOLEAN]
ChartType ==
    [count : {Step, 2 * Step, 3 * Step, Most}, target : Valid \cup {Nothing},
     line : Seq(Reading)]

ProfileOK ==
    /\ queue \in Seq(Updates) /\ profile \in Profile /\ copy \in Profile
    /\ edits \in Nat /\ others \in Nat

FormTypes ==
    /\ snapshot \in Profile \cup {NotMounted}
    /\ tiles \in Profile \cup {NotMounted}
    /\ form \in FormType
    /\ touched \in BOOLEAN /\ lost \in BOOLEAN /\ stale \in BOOLEAN
    /\ outdated \subseteq Field

FormOK == FormTypes /\ FormsHold /\ TilesTrue /\ FormTrue /\ ShownIsStored

ChartOK ==
    /\ tab \in {"chart", "profile"} /\ chart \in ChartType
    /\ moved \in BOOLEAN /\ newer \in BOOLEAN
    /\ ChartRead

RecordOK ==
    /\ record \in Seq(Reading) /\ sending \in Seq(Valid) /\ taken \in Nat
    /\ DaysInOrder

\* The pictures under way: none but the one confirmed last, unless uploads
\* overlapped or failed.
UploadsTrue ==
    \/ mixed
    \/ uploads = {} /\ picture = last
    \/ uploads = {last}

PictureOK ==
    /\ uploads \subseteq Picture
    /\ picture \in Picture \cup {Nothing} /\ last \in Picture \cup {Nothing}
    /\ mixed \in BOOLEAN /\ uploaded \in Nat
    /\ UploadsTrue

IInv == ProfileOK /\ FormOK /\ ChartOK /\ RecordOK /\ PictureOK

LEMMA PartsType ==
    ASSUME IInv
    PROVE  TypeOK
<1>1. /\ queue \in Seq(Updates) /\ {profile, copy} \subseteq Profile
      /\ {edits, others, taken, uploaded} \subseteq Nat
    BY DEF IInv, ProfileOK, RecordOK, PictureOK
<1>2. /\ {snapshot, tiles} \subseteq Profile \cup {NotMounted}
      /\ outdated \subseteq Field
    BY DEF IInv, FormOK, FormTypes
<1>3. form \in FormType
    BY DEF IInv, FormOK, FormTypes
<1>4. {touched, lost, stale, moved, newer, mixed} \subseteq BOOLEAN
    <2>1. /\ touched \in BOOLEAN /\ lost \in BOOLEAN /\ stale \in BOOLEAN
          /\ moved \in BOOLEAN /\ newer \in BOOLEAN /\ mixed \in BOOLEAN
        BY DEF IInv, FormOK, FormTypes, ChartOK, PictureOK
    <2> QED
        BY <2>1
<1>5. tab \in {"chart", "profile"} /\ chart \in ChartType
    BY DEF IInv, ChartOK
<1>6. record \in Seq(Reading) /\ sending \in Seq(Valid)
    BY DEF IInv, RecordOK
<1>7. uploads \subseteq Picture /\ {picture, last} \subseteq Picture \cup {Nothing}
    BY DEF IInv, PictureOK
<1> QED
    BY <1>1, <1>2, <1>3, <1>4, <1>5, <1>6, <1>7 DEF TypeOK, FormType, ChartType

\* The groups that an action leaves alone.
LEMMA ProfileSame ==
    ASSUME ProfileOK, UNCHANGED profileVars
    PROVE  ProfileOK' /\ View' = View
<1>1. UNCHANGED <<profile, copy, queue, edits, others>>
    BY DEF profileVars
<1> QED
    BY <1>1, ViewSame DEF ProfileOK

LEMMA FormSame ==
    ASSUME FormOK, UNCHANGED formVars, UNCHANGED tab, View' = View
    PROVE  FormOK'
<1>1. UNCHANGED <<snapshot, tiles, form, touched, lost, stale, outdated>>
    BY DEF formVars
<1>2. FormTypes' /\ FormsHold' /\ ShownIsStored'
    BY <1>1 DEF FormOK, FormTypes, FormsHold, ShownIsStored
<1>3. TilesTrue'
    BY <1>1 DEF FormOK, TilesTrue
<1>4. FormTrue'
    BY <1>1 DEF FormOK, FormTrue
<1> QED
    BY <1>2, <1>3, <1>4 DEF FormOK

LEMMA ChartSame ==
    ASSUME ChartOK, UNCHANGED chartVars, UNCHANGED record, View' = View
    PROVE  ChartOK'
BY DEF ChartOK, chartVars, ChartRead

LEMMA RecordSame ==
    ASSUME RecordOK, UNCHANGED recordVars, chart'.line \in {chart.line, record, <<>>}
    PROVE  RecordOK'
<1>1. UNCHANGED <<record, sending, taken>>
    BY DEF recordVars
<1>2. DOMAIN <<>> = {}
    OBVIOUS
<1>3. DaysInOrder'
    BY <1>1, <1>2 DEF RecordOK, DaysInOrder
<1> QED
    BY <1>1, <1>3 DEF RecordOK

LEMMA PictureSame ==
    ASSUME PictureOK, UNCHANGED pictureVars
    PROVE  PictureOK'
BY DEF PictureOK, pictureVars, UploadsTrue

\* No form is open.
LEMMA NoFormPage ==
    /\ NoForm \in FormType
    /\ NoForm.page = "none" /\ "none" \notin Field
    /\ "none" \notin {"name", "target", "gender", "picture", "record"}
    /\ "record" \notin Field /\ "picture" \notin Field
    /\ Field = {"name", "gender", "target"}
BY DEF NoForm, FormType, Field, Value

LEMMA FormFields ==
    ASSUME FormTypes
    PROVE  /\ form.page \in Field \cup {"none", "picture", "record"}
           /\ form.param \in Value /\ form.data \in Value /\ form.shown \in Value
           /\ form.shared \in BOOLEAN
           /\ form = [page |-> form.page, param |-> form.param,
                      data |-> form.data, shown |-> form.shown,
                      shared |-> form.shared]
BY DEF FormTypes, FormType

\* A profile is not the profile of a page that is not mounted.
LEMMA ProfileMounted == NotMounted \notin Profile
<1>1. NotMounted["target"] = Nothing
    BY DEF NotMounted, Field
<1>2. Nothing \notin Valid
    BY PagesAssumption DEF Nothing, Valid
<1> QED
    BY <1>1, <1>2, ProfileIs, StoredIs DEF Field

---------------------------------------------------------------------------
(* Tabs, snapshots and forms.                                              *)

\* The tiles are built from p, and know what is outdated.
LEMMA TilesBuilt ==
    ASSUME NEW p \in Profile \cup {NotMounted}, BuildTiles(p), View' = View,
           tab' = "profile" => p \in Profile
    PROVE  /\ snapshot' \in Profile \cup {NotMounted} /\ tiles' = p
           /\ tiles' \in Profile \cup {NotMounted} /\ outdated' \subseteq Field
           /\ tab' = "profile" => {snapshot', tiles'} \subseteq Profile
           /\ TilesTrue'
<1>1. /\ snapshot' = p /\ tiles' = p
      /\ outdated' = {f \in Field : p # NotMounted /\ p[f] # View[f]}
    BY DEF BuildTiles
<1>2. ASSUME tab' = "profile", NEW f \in Field \ outdated' PROVE p[f] = View[f]
    BY <1>1, <1>2, ProfileMounted
<1>3. TilesTrue'
    BY <1>1, <1>2 DEF TilesTrue
<1> QED
    BY <1>1, <1>3

\* Nothing is to be said of a form when none is open.
LEMMA FormGone ==
    ASSUME form' = NoForm, TilesTrue',
           tab' = "profile" => {snapshot', tiles'} \subseteq Profile,
           snapshot' \in Profile \cup {NotMounted},
           tiles' \in Profile \cup {NotMounted}, outdated' \subseteq Field,
           touched' \in BOOLEAN, lost' \in BOOLEAN, stale' \in BOOLEAN
    PROVE  FormOK'
<1>1. form'.page = "none" /\ form' \in FormType
    BY NoFormPage
<1>2. FormTypes'
    BY <1>1 DEF FormTypes
<1>3. FormsHold'
    BY <1>1, NoFormPage DEF FormsHold
<1>4. FormTrue' /\ ShownIsStored'
    BY <1>1, NoFormPage DEF FormTrue, ShownIsStored
<1> QED
    BY <1>2, <1>3, <1>4 DEF FormOK

\* A page is mounted anew.
LEMMA Mounted ==
    ASSUME IInv, NEW t \in {"chart", "profile"}, Mount(t), form' = NoForm,
           UNCHANGED profileVars,
           touched' \in BOOLEAN, lost' \in BOOLEAN, stale' \in BOOLEAN
    PROVE  ProfileOK' /\ FormOK' /\ ChartOK' /\ chart'.line = <<>>
<1>1. ProfileOK' /\ View' = View
    BY ProfileSame DEF IInv
<1> DEFINE p == IF t = "profile" THEN View ELSE NotMounted
<1>2. /\ tab' = t /\ chart' = Unread /\ moved' = FALSE /\ newer' = FALSE
      /\ BuildTiles(p)
    BY DEF Mount
<1>3. p \in Profile \cup {NotMounted} /\ (tab' = "profile" => p \in Profile)
    BY <1>2, ViewTyped DEF IInv, ProfileOK
<1> HIDE DEF p
<1>4. /\ snapshot' \in Profile \cup {NotMounted}
      /\ tiles' \in Profile \cup {NotMounted} /\ outdated' \subseteq Field
      /\ tab' = "profile" => {snapshot', tiles'} \subseteq Profile
      /\ TilesTrue'
    BY <1>1, <1>2, <1>3, TilesBuilt
<1>5. FormOK'
    BY <1>4, FormGone
<1>6. /\ chart'.count = Step /\ chart'.target = Nothing /\ chart'.line = <<>>
      /\ chart' \in ChartType
    <2>1. <<>> \in Seq(Reading)
        BY EmptySeq
    <2> QED
        BY <1>2, <2>1 DEF Unread, ChartType
<1>7. ChartRead'
    BY <1>6 DEF ChartRead
<1>8. ChartOK'
    BY <1>2, <1>6, <1>7 DEF ChartOK
<1> QED
    BY <1>1, <1>5, <1>6, <1>8

LEMMA StepTapTab ==
    ASSUME IInv, NEW t \in {"chart", "profile"}, TapTab(t)
    PROVE  IInv'
<1>1. /\ Mount(t) /\ form' = NoForm /\ UNCHANGED profileVars
      /\ UNCHANGED recordVars /\ UNCHANGED pictureVars
      /\ UNCHANGED <<touched, lost, stale>>
    BY DEF TapTab
<1>2. touched' \in BOOLEAN /\ lost' \in BOOLEAN /\ stale' \in BOOLEAN
    BY <1>1 DEF IInv, FormOK, FormTypes
<1>3. ProfileOK' /\ FormOK' /\ ChartOK' /\ chart'.line = <<>>
    BY <1>1, <1>2, Mounted
<1>4. RecordOK' /\ PictureOK'
    BY <1>1, <1>3, RecordSame, PictureSame DEF IInv
<1> QED
    BY <1>3, <1>4 DEF IInv

LEMMA StepConfirmRecord ==
    ASSUME IInv, ConfirmRecord
    PROVE  IInv'
<1>1. /\ Mount("chart") /\ form' = NoForm /\ UNCHANGED profileVars
      /\ UNCHANGED pictureVars /\ UNCHANGED <<stale, record>>
      /\ touched' = FALSE /\ lost' = FALSE
      /\ form.data \in Valid /\ sending' = Append(sending, form.data)
      /\ taken' = taken + 1
    BY DEF ConfirmRecord
<1>2. touched' \in BOOLEAN /\ lost' \in BOOLEAN /\ stale' \in BOOLEAN
    BY <1>1 DEF IInv, FormOK, FormTypes
<1>3. ProfileOK' /\ FormOK' /\ ChartOK' /\ chart'.line = <<>>
    BY <1>1, <1>2, Mounted
<1>4. RecordOK'
    <2>1. record' \in Seq(Reading) /\ taken' \in Nat
        BY <1>1 DEF IInv, RecordOK
    <2>2. sending' \in Seq(Valid)
        BY <1>1, AppendProperties DEF IInv, RecordOK
    <2>3. DOMAIN <<>> = {}
        OBVIOUS
    <2>4. DaysInOrder'
        BY <1>1, <1>3, <2>3 DEF IInv, RecordOK, DaysInOrder
    <2> QED
        BY <2>1, <2>2, <2>4 DEF RecordOK
<1>5. PictureOK'
    BY <1>1, PictureSame DEF IInv
<1> QED
    BY <1>3, <1>4, <1>5 DEF IInv

\* Actions that concern nothing but forms and tiles.
LEMMA FormStep ==
    ASSUME IInv, FormOK', UNCHANGED profileVars, UNCHANGED chartVars,
           UNCHANGED recordVars, UNCHANGED pictureVars
    PROVE  IInv'
<1>1. UNCHANGED <<tab, chart, record>>
    BY DEF chartVars, recordVars
<1>2. ProfileOK' /\ View' = View
    BY ProfileSame DEF IInv
<1>3. ChartOK' /\ RecordOK' /\ PictureOK'
    BY <1>1, <1>2, ChartSame, RecordSame, PictureSame DEF IInv
<1> QED
    BY <1>2, <1>3 DEF IInv

LEMMA StepSnapshotArrives ==
    ASSUME IInv, SnapshotArrives
    PROVE  IInv'
<1>1. /\ UNCHANGED profileVars /\ UNCHANGED chartVars
      /\ UNCHANGED recordVars /\ UNCHANGED pictureVars
      /\ UNCHANGED <<touched, lost, stale>> /\ UNCHANGED tab
      /\ BuildTiles(View) /\ form' = [form EXCEPT !.shared = FALSE]
    BY DEF SnapshotArrives, chartVars
<1>2. View \in Profile /\ View' = View
    BY <1>1, ViewTyped, ProfileSame DEF IInv, ProfileOK
<1>3. /\ snapshot' \in Profile \cup {NotMounted} /\ tiles' = View
      /\ tiles' \in Profile \cup {NotMounted} /\ outdated' \subseteq Field
      /\ tab' = "profile" => {snapshot', tiles'} \subseteq Profile
      /\ TilesTrue'
    BY <1>1, <1>2, TilesBuilt
<1>4. /\ FormTypes /\ FormsHold /\ FormTrue /\ ShownIsStored
    BY DEF IInv, FormOK
<1>5. /\ form'.page = form.page /\ form'.param = form.param
      /\ form'.data = form.data /\ form'.shown = form.shown
      /\ form'.shared = FALSE /\ form' \in FormType
    BY <1>1, <1>4, FormFields DEF FormType
<1>6. FormTypes'
    BY <1>1, <1>3, <1>4, <1>5 DEF FormTypes
<1>7. FormsHold'
    BY <1>1, <1>3, <1>4, <1>5 DEF FormsHold
<1>8. FormTrue'
    BY <1>1, <1>2, <1>4, <1>5 DEF FormTrue
<1>9. ShownIsStored'
    BY <1>1, <1>4, <1>5 DEF ShownIsStored
<1> QED
    BY <1>1, <1>3, <1>6, <1>7, <1>8, <1>9, FormStep DEF FormOK

LEMMA StepRebuild ==
    ASSUME IInv, Rebuild
    PROVE  IInv'
<1>1. /\ UNCHANGED profileVars /\ UNCHANGED chartVars
      /\ UNCHANGED recordVars /\ UNCHANGED pictureVars
      /\ UNCHANGED stale /\ UNCHANGED tab
      /\ BuildTiles(snapshot)
      /\ touched' = (touched /\ form.page \notin {"name", "target"})
      /\ lost' = (form.page = "record" /\ form.shown # Empty)
    BY DEF Rebuild, chartVars
<1>2. /\ FormTypes /\ FormsHold /\ FormTrue /\ ShownIsStored
    BY DEF IInv, FormOK
<1>3. View' = View
    BY <1>1, ProfileSame DEF IInv
<1>4. /\ snapshot \in Profile \cup {NotMounted}
      /\ tab' = "profile" => snapshot \in Profile
    BY <1>1, <1>2 DEF FormTypes, FormsHold
<1>5. /\ snapshot' \in Profile \cup {NotMounted}
      /\ tiles' \in Profile \cup {NotMounted} /\ outdated' \subseteq Field
      /\ tab' = "profile" => {snapshot', tiles'} \subseteq Profile
      /\ TilesTrue'
    BY <1>1, <1>3, <1>4, TilesBuilt
<1>6. /\ form'.page = form.page /\ form'.param = form.param
      /\ form'.data = (IF form.page \in {"name", "target"} THEN form.param
                       ELSE IF form.page = "record" THEN Nothing ELSE form.data)
      /\ form'.shown = (IF form.page \in {"name", "target"} THEN form.param
                        ELSE form.shown)
      /\ form'.shared = FALSE /\ form' \in FormType
    <2>1. Nothing \in Value
        BY DEF Value
    <2> QED
        BY <1>2, <2>1, FormFields DEF Rebuild, FormType
<1>7. FormTypes'
    <2>1. touched' \in BOOLEAN /\ lost' \in BOOLEAN
        BY <1>1
    <2> QED
        BY <1>1, <1>2, <1>5, <1>6, <2>1 DEF FormTypes
<1>8. FormsHold'
    <2>1. form.page \in {"name", "target"} => form.param \in Typed[form.page]
        <3>1. Name \subseteq Typed["name"] /\ Valid \subseteq Typed["target"]
            BY DEF Typed, Valid
        <3> QED
            BY <1>2, <3>1, StoredIs, NoFormPage DEF FormsHold
    <2> QED
        BY <1>1, <1>2, <1>5, <1>6, <2>1, NoFormPage DEF FormsHold
<1>9. FormTrue'
    BY <1>1, <1>2, <1>3, <1>6, NoFormPage DEF FormTrue, FormTypes
<1>10. ShownIsStored'
    BY <1>1, <1>2, <1>6, NoFormPage DEF ShownIsStored
<1> QED
    BY <1>1, <1>5, <1>7, <1>8, <1>9, <1>10, FormStep DEF FormOK

\* A form is opened: it takes what the tile has.
LEMMA StepOpenField ==
    ASSUME IInv, NEW f \in Field, OpenField(f)
    PROVE  IInv'
<1>1. /\ UNCHANGED profileVars /\ UNCHANGED chartVars
      /\ UNCHANGED recordVars /\ UNCHANGED pictureVars
      /\ UNCHANGED <<snapshot, tiles, outdated, tab>>
      /\ tab = "profile" /\ form = NoForm
      /\ form' = [page |-> f, param |-> tiles[f], data |-> tiles[f],
                  shown |-> tiles[f], shared |-> TRUE]
      /\ touched' = FALSE /\ lost' = FALSE /\ stale' = (f \in outdated)
    BY DEF OpenField, Opens, chartVars
<1>2. /\ FormTypes /\ FormsHold /\ TilesTrue
    BY DEF IInv, FormOK
<1>3. View' = View
    BY <1>1, ProfileSame DEF IInv
<1>4. tiles[f] \in Stored[f] /\ tiles[f] \in Value
    <2>1. tiles \in Profile
        BY <1>1, <1>2 DEF FormsHold
    <2>2. tiles[f] \in Stored[f]
        BY <2>1, ProfileIs
    <2>3. Stored[f] \subseteq Value
        BY StoredIs DEF Value, Valid
    <2> QED
        BY <2>2, <2>3
<1>5. /\ form'.page = f /\ form'.param = tiles[f] /\ form'.data = tiles[f]
      /\ form'.shown = tiles[f] /\ form' \in FormType
    BY <1>1, <1>4 DEF FormType
<1>6. FormTypes'
    <2>1. touched' \in BOOLEAN /\ lost' \in BOOLEAN /\ stale' \in BOOLEAN
        <3>1. touched' = FALSE /\ lost' = FALSE /\ stale' = (f \in outdated)
            BY <1>1
        <3>2. (f \in outdated) \in BOOLEAN
            OBVIOUS
        <3>3. stale' \in BOOLEAN
            BY <3>1, <3>2, Zenon
        <3> QED
            BY <3>1, <3>3, Zenon
    <2>2. /\ snapshot' \in Profile \cup {NotMounted} /\ outdated' \subseteq Field
          /\ tiles' \in Profile \cup {NotMounted}
        BY <1>1, <1>2 DEF FormTypes
    <2> QED
        BY <1>5, <2>1, <2>2 DEF FormTypes
<1>7. FormsHold'
    <2>1. f \in {"name", "target"} => tiles[f] \in Typed[f]
        <3>1. Name \subseteq Typed["name"] /\ Valid \subseteq Typed["target"]
            BY DEF Typed, Valid
        <3> QED
            BY <1>4, <3>1, StoredIs
    <2>2. f = "gender" => tiles[f] \in Gender
        BY <1>4, StoredIs
    <2> QED
        BY <1>1, <1>2, <1>4, <1>5, <2>1, <2>2, NoFormPage DEF FormsHold
<1>8. form.page = "none"
    BY <1>1, NoFormPage
<1>9. f \notin outdated => tiles[f] = View[f]
    BY <1>1, <1>2, <1>8 DEF TilesTrue
<1>10. TilesTrue'
    BY <1>1, <1>2, <1>3, <1>8 DEF TilesTrue
<1>11. FormTrue'
    BY <1>1, <1>3, <1>5, <1>9 DEF FormTrue
<1>12. ShownIsStored'
    BY <1>5 DEF ShownIsStored
<1> QED
    BY <1>1, <1>6, <1>7, <1>10, <1>11, <1>12, FormStep DEF FormOK

\* The forms that edit no field of the profile.
LEMMA OtherForm ==
    ASSUME IInv, form = NoForm, NEW p \in {"picture", "record"},
           NEW s \in {Empty, Nothing}, p = "record" => s = Empty,
           form' = [page |-> p, param |-> Nothing, data |-> Nothing,
                    shown |-> s, shared |-> FALSE],
           touched' = FALSE, lost' = FALSE,
           UNCHANGED <<snapshot, tiles, stale, outdated, tab>>,
           UNCHANGED profileVars
    PROVE  FormOK'
<1>1. FormTypes /\ FormsHold /\ TilesTrue
    BY DEF IInv, FormOK
<1>2. View' = View
    BY ProfileSame DEF IInv
<1>3. Nothing \in Value /\ s \in Value
    BY DEF Value
<1>4. /\ form'.page = p /\ form'.data = Nothing /\ form'.shown = s
      /\ form' \in FormType
    BY <1>3 DEF FormType
<1>5. FormTypes'
    BY <1>1, <1>4 DEF FormTypes
<1>6. FormsHold'
    BY <1>1, <1>4, NoFormPage DEF FormsHold
<1>7. TilesTrue'
    <2>1. form.page = "none"
        BY NoFormPage
    <2> QED
        BY <1>1, <1>2, <1>4, <2>1 DEF TilesTrue
<1>8. FormTrue' /\ ShownIsStored'
    BY <1>4, NoFormPage DEF FormTrue, ShownIsStored
<1> QED
    BY <1>5, <1>6, <1>7, <1>8 DEF FormOK

LEMMA StepOpenPicture ==
    ASSUME IInv, OpenPicture
    PROVE  IInv'
<1>1. /\ UNCHANGED profileVars /\ UNCHANGED chartVars
      /\ UNCHANGED recordVars /\ UNCHANGED pictureVars
      /\ UNCHANGED <<snapshot, tiles, stale, outdated, tab>>
      /\ form = NoForm /\ touched' = FALSE /\ lost' = FALSE
      /\ form' = [page |-> "picture", param |-> Nothing, data |-> Nothing,
                  shown |-> Nothing, shared |-> FALSE]
    BY DEF OpenPicture, Opens, chartVars, NoForm
<1>2. FormOK'
    BY <1>1, OtherForm
<1> QED
    BY <1>1, <1>2, FormStep

LEMMA StepOpenRecord ==
    ASSUME IInv, OpenRecord
    PROVE  IInv'
<1>1. /\ UNCHANGED profileVars /\ UNCHANGED chartVars
      /\ UNCHANGED recordVars /\ UNCHANGED pictureVars
      /\ UNCHANGED <<snapshot, tiles, stale, outdated, tab>>
      /\ form = NoForm /\ touched' = FALSE /\ lost' = FALSE
      /\ form' = [page |-> "record", param |-> Nothing, data |-> Nothing,
                  shown |-> Empty, shared |-> FALSE]
    BY DEF OpenRecord, Opens, chartVars, NoForm
<1>2. FormOK'
    BY <1>1, OtherForm
<1> QED
    BY <1>1, <1>2, FormStep

LEMMA StepType ==
    ASSUME IInv, NEW t \in Name \cup Number \cup {Empty}, Type(t)
    PROVE  IInv'
<1>1. /\ UNCHANGED profileVars /\ UNCHANGED chartVars
      /\ UNCHANGED recordVars /\ UNCHANGED pictureVars
      /\ UNCHANGED <<snapshot, tiles, stale, outdated, tab>>
      /\ form.page \in DOMAIN Typed /\ t \in Typed[form.page]
      /\ touched' = TRUE /\ lost' = FALSE
      /\ form' = [form EXCEPT !.data = t, !.shown = t]
    BY DEF Type, chartVars
<1>2. FormTypes /\ FormsHold /\ TilesTrue /\ FormTrue
    BY DEF IInv, FormOK
<1>3. View' = View
    BY <1>1, ProfileSame DEF IInv
<1>4. t \in Value
    BY DEF Value
<1>5. /\ form'.page = form.page /\ form'.param = form.param /\ form'.data = t
      /\ form'.shown = t /\ form'.shared = form.shared /\ form' \in FormType
    BY <1>1, <1>2, <1>4, FormFields DEF FormType
<1>6. form.page \in {"name", "target", "record"}
    BY <1>1 DEF Typed
<1>7. FormTypes'
    BY <1>1, <1>2, <1>5 DEF FormTypes
<1>8. FormsHold'
    BY <1>1, <1>2, <1>5, <1>6, NoFormPage DEF FormsHold
<1>9. TilesTrue'
    BY <1>1, <1>2, <1>3, <1>5, <1>6 DEF TilesTrue
<1>10. FormTrue'
    BY <1>1, <1>2, <1>3, <1>5 DEF FormTrue
<1>11. ShownIsStored'
    BY <1>5 DEF ShownIsStored
<1> QED
    BY <1>1, <1>7, <1>8, <1>9, <1>10, <1>11, FormStep DEF FormOK

LEMMA StepPick ==
    ASSUME IInv, NEW g \in Gender, Pick(g)
    PROVE  IInv'
<1>1. /\ UNCHANGED profileVars /\ UNCHANGED chartVars
      /\ UNCHANGED recordVars /\ UNCHANGED pictureVars
      /\ UNCHANGED <<snapshot, lost, stale, outdated, tab>>
      /\ form.page = "gender" /\ touched' = TRUE
      /\ form' = [form EXCEPT !.param = g, !.data = g, !.shown = g]
      /\ tiles' = IF form.shared THEN [tiles EXCEPT !["gender"] = g] ELSE tiles
    BY DEF Pick, chartVars
<1>2. FormTypes /\ FormsHold /\ TilesTrue /\ FormTrue
    BY DEF IInv, FormOK
<1>3. View' = View
    BY <1>1, ProfileSame DEF IInv
<1>4. g \in Value /\ "gender" \in Field /\ Stored["gender"] = Gender
    BY StoredIs DEF Value, Field
<1>5. /\ form'.page = form.page /\ form'.param = g /\ form'.data = g
      /\ form'.shown = g /\ form'.shared = form.shared /\ form' \in FormType
    BY <1>1, <1>2, <1>4, FormFields DEF FormType
<1>6. tab = "profile" /\ snapshot \in Profile /\ tiles \in Profile
    BY <1>1, <1>2, <1>4 DEF FormsHold
<1>7. /\ tiles = [f \in Field |-> tiles[f]] /\ \A f \in Field : tiles[f] \in Stored[f]
    BY <1>6, ProfileIs
<1>8. /\ \A f \in Field : tiles'[f] = IF f = "gender" /\ form.shared THEN g
                                      ELSE tiles[f]
      /\ tiles' = [f \in Field |-> tiles'[f]]
    <2>1. CASE form.shared
        <3>1. tiles' = [f \in Field |-> IF f = "gender" THEN g ELSE tiles[f]]
            BY <1>1, <1>7, <2>1
        <3> QED
            BY <2>1, <3>1
    <2>2. CASE ~form.shared
        BY <1>1, <1>7, <2>2
    <2> QED
        BY <2>1, <2>2
<1>9. tiles' \in Profile
    BY <1>4, <1>7, <1>8, ProfileIs
<1>10. FormTypes'
    BY <1>1, <1>2, <1>5, <1>9 DEF FormTypes
<1>11. FormsHold'
    BY <1>1, <1>4, <1>5, <1>6, <1>8, <1>9 DEF FormsHold
<1>12. TilesTrue'
    BY <1>1, <1>2, <1>3, <1>5, <1>8 DEF TilesTrue
<1>13. FormTrue'
    BY <1>1, <1>5 DEF FormTrue
<1>14. ShownIsStored'
    BY <1>5 DEF ShownIsStored
<1> QED
    BY <1>1, <1>10, <1>11, <1>12, <1>13, <1>14, FormStep DEF FormOK

LEMMA StepLeave ==
    ASSUME IInv, Leave
    PROVE  IInv'
<1>1. /\ UNCHANGED profileVars /\ UNCHANGED chartVars
      /\ UNCHANGED recordVars /\ UNCHANGED pictureVars
      /\ UNCHANGED <<snapshot, tiles, tab>>
      /\ form' = NoForm /\ touched' = FALSE /\ lost' = FALSE /\ stale' = FALSE
      /\ outdated' = outdated \cup
             IF form.page = "gender" /\ touched /\ form.shared THEN {"gender"}
             ELSE {}
    BY DEF Leave, chartVars
<1>2. FormTypes /\ FormsHold /\ TilesTrue
    BY DEF IInv, FormOK
<1>3. View' = View
    BY <1>1, ProfileSame DEF IInv
<1>4. /\ outdated' \subseteq Field
      /\ snapshot' \in Profile \cup {NotMounted}
      /\ tiles' \in Profile \cup {NotMounted}
      /\ tab' = "profile" => {snapshot', tiles'} \subseteq Profile
    BY <1>1, <1>2, NoFormPage DEF FormTypes, FormsHold
<1>5. TilesTrue'
    BY <1>1, <1>2, <1>3 DEF TilesTrue
<1>6. FormOK'
    BY <1>1, <1>4, <1>5, FormGone
<1> QED
    BY <1>1, <1>6, FormStep

LEMMA StepPickImage ==
    ASSUME IInv, NEW p \in Picture, PickImage(p)
    PROVE  IInv'
<1>1. /\ UNCHANGED profileVars /\ UNCHANGED chartVars
      /\ UNCHANGED recordVars /\ UNCHANGED pictureVars
      /\ UNCHANGED <<snapshot, tiles, touched, lost, stale, outdated, tab>>
      /\ form.page = "picture" /\ form' = [form EXCEPT !.data = p, !.shown = p]
    BY DEF PickImage, chartVars
<1>2. FormTypes /\ FormsHold /\ TilesTrue /\ FormTrue
    BY DEF IInv, FormOK
<1>3. View' = View
    BY <1>1, ProfileSame DEF IInv
<1>4. p \in Value
    BY DEF Value
<1>5. form'.page = "picture" /\ form'.data = p /\ form' \in FormType
    BY <1>1, <1>2, <1>4, FormFields DEF FormType
<1>6. FormTypes'
    BY <1>1, <1>2, <1>5 DEF FormTypes
<1>7. FormsHold'
    BY <1>1, <1>2, <1>5, NoFormPage DEF FormsHold
<1>8. TilesTrue'
    BY <1>1, <1>2, <1>3, <1>5 DEF TilesTrue
<1>9. FormTrue' /\ ShownIsStored'
    BY <1>5, NoFormPage DEF FormTrue, ShownIsStored
<1> QED
    BY <1>1, <1>6, <1>7, <1>8, <1>9, FormStep DEF FormOK

---------------------------------------------------------------------------
(* Changes of the profile.                                                 *)

\* What is outdated is known of every page that is open.
LEMMA OutdatesTypes ==
    ASSUME IInv, Outdates
    PROVE  outdated' \subseteq Field /\ stale' \in BOOLEAN /\ moved' \in BOOLEAN
<1>1. outdated \subseteq Field
    BY DEF IInv, FormOK, FormTypes
<1>2. outdated' \subseteq Field
    BY <1>1 DEF Outdates
<1>3. stale' \in BOOLEAN
    BY DEF Outdates
<1>4. moved' \in BOOLEAN
    BY DEF Outdates
<1> QED
    BY <1>2, <1>3, <1>4

LEMMA OutdatesChart ==
    ASSUME IInv, Outdates, UNCHANGED <<tab, chart, newer, record>>
    PROVE  ChartOK'
<1>1. ChartRead'
    <2>1. ASSUME tab = "chart", chart.target # Nothing, ~moved'
          PROVE  chart.target = View'["target"]
        <3>1. ~moved /\ View'["target"] = View["target"]
            BY <2>1 DEF Outdates
        <3> QED
            BY <2>1, <3>1 DEF IInv, ChartOK, ChartRead
    <2>2. tab = "chart" /\ chart.line # <<>> /\ ~newer => chart.line = record
        BY DEF IInv, ChartOK, ChartRead
    <2> QED
        BY <2>1, <2>2 DEF ChartRead
<1>2. moved' \in BOOLEAN
    BY OutdatesTypes
<1> QED
    BY <1>1, <1>2 DEF IInv, ChartOK

\* The profile changes at the server: the form stays open.
LEMMA OutdatesForm ==
    ASSUME IInv, Outdates, UNCHANGED <<snapshot, tiles, form, touched, lost, tab>>
    PROVE  FormOK'
<1>1. FormTypes /\ FormsHold /\ TilesTrue /\ FormTrue /\ ShownIsStored
    BY DEF IInv, FormOK
<1>2. FormTypes'
    BY <1>1, OutdatesTypes DEF FormTypes
<1>3. FormsHold' /\ ShownIsStored'
    BY <1>1 DEF FormsHold, ShownIsStored
<1>4. TilesTrue'
    <2>1. SUFFICES ASSUME tab = "profile", NEW f \in Field \ outdated'
                   PROVE  \/ tiles[f] = View'[f]
                          \/ /\ f = "gender" /\ form.page = "gender"
                             /\ touched /\ form.shared
        BY DEF TilesTrue
    <2>2. f \notin outdated /\ View'[f] = View[f]
        BY <2>1 DEF Outdates
    <2> QED
        BY <1>1, <2>1, <2>2 DEF TilesTrue
<1>5. FormTrue'
    <2>1. SUFFICES ASSUME form.page \in Field, ~stale'
                   PROVE  /\ ~touched => form.data = View'[form.page]
                          /\ form.page # "gender" => form.param = View'[form.page]
        BY DEF FormTrue
    <2>2. ~stale /\ View'[form.page] = View[form.page]
        BY <2>1 DEF Outdates
    <2> QED
        BY <1>1, <2>1, <2>2 DEF FormTrue
<1> QED
    BY <1>2, <1>3, <1>4, <1>5 DEF FormOK

\* What the server, and the cache, make of an update is a profile.
LEMMA OverlayTyped ==
    ASSUME NEW p \in Profile, NEW u \in Updates
    PROVE  Overlay(p, u) \in Profile
<1> DEFINE o == Overlay(p, u)
<1>1. o = [f \in Field |-> IF f \in DOMAIN u THEN u[f] ELSE p[f]]
    BY DEF Overlay
<1> HIDE DEF o
<1>2. \A f \in Field : p[f] \in Stored[f]
    BY ProfileIs
<1>3. \A f \in Field : o[f] \in Stored[f]
    BY <1>1, <1>2, UpdateTyped
<1>4. o = [f \in Field |-> o[f]]
    BY <1>1
<1> QED
    BY <1>3, <1>4, ProfileIs DEF o

LEMMA StepCommit ==
    ASSUME IInv, Commit
    PROVE  IInv'
<1>1. /\ queue # <<>> /\ profile' = Overlay(profile, Head(queue))
      /\ copy' = Overlay(copy, Head(queue))
      /\ queue' = Tail(queue) /\ Outdates
      /\ UNCHANGED <<edits, others, snapshot, tiles, form, touched, lost, tab,
                     chart, newer>>
      /\ UNCHANGED recordVars /\ UNCHANGED pictureVars /\ record' = record
    BY DEF Commit, recordVars
<1>2. /\ queue \in Seq(Updates) /\ profile \in Profile /\ copy \in Profile
    BY DEF IInv, ProfileOK
<1>3. Head(queue) \in Updates /\ Tail(queue) \in Seq(Updates)
    BY <1>1, <1>2, HeadTailProperties
<1>4. profile' \in Profile /\ copy' \in Profile
    BY <1>1, <1>2, <1>3, OverlayTyped
<1>5. ProfileOK'
    BY <1>1, <1>3, <1>4 DEF IInv, ProfileOK
<1>6. FormOK' /\ ChartOK'
    BY <1>1, OutdatesForm, OutdatesChart
<1>7. RecordOK' /\ PictureOK'
    BY <1>1, RecordSame, PictureSame DEF IInv
<1> QED
    BY <1>5, <1>6, <1>7 DEF IInv

LEMMA StepOtherEdits ==
    ASSUME IInv, NEW f \in Field, NEW v \in Stored[f], OtherEdits(f, v)
    PROVE  IInv'
<1>1. /\ profile' = [profile EXCEPT ![f] = v] /\ others' = others + 1
      /\ UNCHANGED <<copy, queue, edits>> /\ UNCHANGED formVars
      /\ UNCHANGED chartVars /\ UNCHANGED recordVars /\ UNCHANGED pictureVars
      /\ record' = record /\ tab' = tab /\ chart' = chart
    BY DEF OtherEdits, recordVars, chartVars
<1>2. /\ profile = [g \in Field |-> profile[g]]
      /\ \A g \in Field : profile[g] \in Stored[g]
    BY ProfileIs DEF IInv, ProfileOK
<1>3. /\ profile' = [g \in Field |-> profile'[g]]
      /\ \A g \in Field : profile'[g] \in Stored[g]
    <2>1. profile' = [g \in Field |-> IF g = f THEN v ELSE profile[g]]
        BY <1>1, <1>2
    <2> QED
        BY <1>2, <2>1
<1>4. profile' \in Profile
    BY <1>3, ProfileIs
<1>5. ProfileOK' /\ View' = View
    BY <1>1, <1>4, ViewSame DEF IInv, ProfileOK
<1> QED
    BY <1>1, <1>5, FormSame, ChartSame, RecordSame, PictureSame DEF IInv

LEMMA StepProfileArrives ==
    ASSUME IInv, ProfileArrives
    PROVE  IInv'
<1>1. /\ copy' = profile /\ Outdates
      /\ UNCHANGED <<profile, queue, edits, others, snapshot, tiles, form,
                     touched, lost, tab, chart, newer>>
      /\ UNCHANGED recordVars /\ UNCHANGED pictureVars /\ record' = record
    BY DEF ProfileArrives, recordVars
<1>2. ProfileOK'
    BY <1>1 DEF IInv, ProfileOK
<1>3. FormOK' /\ ChartOK'
    BY <1>1, OutdatesForm, OutdatesChart
<1>4. RecordOK' /\ PictureOK'
    BY <1>1, RecordSame, PictureSame DEF IInv
<1> QED
    BY <1>2, <1>3, <1>4 DEF IInv

\* What the button of a form lets through can be stored.
LEMMA AcceptedStored ==
    ASSUME IInv, form.page \in Field, Accepted(form.page, form.data)
    PROVE  form.data \in Stored[form.page]
<1>1. FormsHold
    BY DEF IInv, FormOK
<1>2. CASE form.page = "name"
    <2>1. form.data \in Typed["name"] /\ form.data # Empty
        BY <1>1, <1>2 DEF FormsHold, Accepted
    <2>2. Typed["name"] = Name \cup {Empty}
        BY DEF Typed
    <2> QED
        BY <1>2, <2>1, <2>2, StoredIs
<1>3. CASE form.page = "target"
    <2>1. form.data \in Typed["target"] /\ form.data # Empty /\ form.data <= Limit
        BY <1>1, <1>3 DEF FormsHold, Accepted
    <2>2. Typed["target"] = Number \cup {Empty}
        BY DEF Typed
    <2>3. form.data \in Valid
        BY <2>1, <2>2 DEF Valid
    <2> QED
        BY <1>3, <2>3, StoredIs
<1>4. CASE form.page = "gender"
    BY <1>1, <1>4, StoredIs DEF FormsHold
<1> QED
    BY <1>2, <1>3, <1>4, NoFormPage

\* A confirmation changes its field to the data of the form, and no other, for
\* this device and for the server once it has the update.
LEMMA ConfirmUpdates ==
    ASSUME IInv, Confirm
    PROVE  /\ form.page \in Field /\ form.data \in Stored[form.page]
           /\ \A g \in Field : View'[g] = IF g = form.page THEN form.data
                                          ELSE View[g]
           /\ \A g \in Field : Settled'[g] = IF g = form.page THEN form.data
                                             ELSE Settled[g]
<1>1. /\ form.page \in Field /\ Accepted(form.page, form.data)
      /\ queue' = Append(queue, Update(form.page, form.data))
      /\ profile' = profile /\ copy' = copy
    BY DEF Confirm
<1>2. /\ form.data \in Stored[form.page] /\ queue \in Seq(Updates)
      /\ copy \in Profile /\ profile \in Profile
    BY <1>1, AcceptedStored DEF IInv, ProfileOK
<1> DEFINE new == Append(queue, Update(form.page, form.data))
<1>3. ASSUME NEW p \in Profile, NEW g \in Field
      PROVE  On(p, new)[g] = IF g = form.page THEN form.data ELSE On(p, queue)[g]
    BY <1>1, <1>2, OnUpdated
<1>4. queue' = new
    BY <1>1
<1> HIDE DEF new
<1> QED
    BY <1>1, <1>2, <1>3, <1>4, ViewIs, ViewAfter

LEMMA StepConfirm ==
    ASSUME IInv, Confirm
    PROVE  IInv'
<1>1. /\ queue' = Append(queue, Update(form.page, form.data))
      /\ edits' = edits + 1 /\ UNCHANGED <<profile, copy, others>>
      /\ form' = NoForm /\ Outdates /\ touched' = FALSE /\ lost' = FALSE
      /\ UNCHANGED <<snapshot, tiles, tab, chart, newer>>
      /\ UNCHANGED recordVars /\ UNCHANGED pictureVars /\ record' = record
    BY DEF Confirm, recordVars
<1>2. /\ form.page \in Field /\ form.data \in Stored[form.page]
      /\ \A g \in Field : View'[g] = IF g = form.page THEN form.data ELSE View[g]
    BY ConfirmUpdates
<1>3. ProfileOK'
    <2>1. Update(form.page, form.data) \in Updates
        BY <1>2, UpdateIn
    <2>2. queue' \in Seq(Updates)
        BY <1>1, <2>1, AppendProperties DEF IInv, ProfileOK
    <2> QED
        BY <1>1, <2>2 DEF IInv, ProfileOK
<1>4. FormTypes /\ FormsHold /\ TilesTrue
    BY DEF IInv, FormOK
<1>5. TilesTrue'
    <2>1. SUFFICES ASSUME tab = "profile", NEW f \in Field \ outdated'
                   PROVE  tiles[f] = View'[f]
        BY <1>1 DEF TilesTrue
    <2>2. f \notin outdated /\ View'[f] = View[f]
        BY <1>1, <2>1 DEF Outdates
    <2>3. CASE f = "gender" /\ form.page = "gender" /\ form.shared
        BY <1>2, <1>4, <2>3 DEF FormsHold
    <2>4. CASE ~(f = "gender" /\ form.page = "gender" /\ form.shared)
        BY <1>4, <2>1, <2>2, <2>4 DEF TilesTrue
    <2> QED
        BY <2>3, <2>4
<1>6. /\ outdated' \subseteq Field /\ stale' \in BOOLEAN
      /\ snapshot' \in Profile \cup {NotMounted}
      /\ tiles' \in Profile \cup {NotMounted}
      /\ tab' = "profile" => {snapshot', tiles'} \subseteq Profile
    BY <1>1, <1>4, OutdatesTypes DEF FormTypes, FormsHold
<1>7. touched' \in BOOLEAN /\ lost' \in BOOLEAN
    BY <1>1
<1>8. FormOK'
    BY <1>1, <1>5, <1>6, <1>7, FormGone
<1>9. ChartOK'
    BY <1>1, OutdatesChart
<1>10. RecordOK' /\ PictureOK'
    BY <1>1, RecordSame, PictureSame DEF IInv
<1> QED
    BY <1>3, <1>8, <1>9, <1>10 DEF IInv

---------------------------------------------------------------------------
(* The picture, the chart page and the record.                             *)

LEMMA StepConfirmPicture ==
    ASSUME IInv, ConfirmPicture
    PROVE  IInv'
<1>1. /\ form.page = "picture" /\ form.data # Nothing
      /\ uploads' = uploads \cup {form.data} /\ uploaded' = uploaded + 1
      /\ last' = form.data /\ mixed' = (mixed \/ uploads # {})
      /\ form' = NoForm /\ UNCHANGED <<snapshot, tiles, touched, lost, stale,
                                       outdated, picture, tab, chart, record>>
      /\ UNCHANGED profileVars /\ UNCHANGED chartVars /\ UNCHANGED recordVars
    BY DEF ConfirmPicture, chartVars, recordVars
<1>2. ProfileOK' /\ View' = View
    BY <1>1, ProfileSame DEF IInv
<1>3. FormTypes /\ FormsHold /\ TilesTrue /\ PictureOK
    BY DEF IInv, FormOK
<1>4. TilesTrue'
    BY <1>1, <1>2, <1>3 DEF TilesTrue
<1>5. /\ outdated' \subseteq Field /\ stale' \in BOOLEAN
      /\ touched' \in BOOLEAN /\ lost' \in BOOLEAN
      /\ snapshot' \in Profile \cup {NotMounted}
      /\ tiles' \in Profile \cup {NotMounted}
      /\ tab' = "profile" => {snapshot', tiles'} \subseteq Profile
    BY <1>1, <1>3 DEF FormTypes, FormsHold
<1>6. FormOK'
    BY <1>1, <1>4, <1>5, FormGone
<1>7. PictureOK'
    <2>1. form.data \in Picture
        BY <1>1, <1>3 DEF FormsHold
    <2>2. mixed' \in BOOLEAN
        BY <1>1
    <2>3. UploadsTrue'
        <3>1. CASE uploads = {}
            BY <1>1, <3>1 DEF UploadsTrue
        <3>2. CASE uploads # {}
            BY <1>1, <3>2 DEF UploadsTrue
        <3> QED
            BY <3>1, <3>2
    <2> QED
        BY <1>1, <1>3, <2>1, <2>2, <2>3 DEF PictureOK
<1>8. ChartOK' /\ RecordOK'
    BY <1>1, <1>2, ChartSame, RecordSame DEF IInv
<1> QED
    BY <1>2, <1>6, <1>7, <1>8 DEF IInv

LEMMA StepUploadEnds ==
    ASSUME IInv, NEW p \in Picture, NEW done \in BOOLEAN, UploadEnds(p, done)
    PROVE  IInv'
<1>1. /\ p \in uploads /\ uploads' = uploads \ {p}
      /\ picture' = IF done THEN p ELSE picture
      /\ mixed' = (mixed \/ ~done) /\ UNCHANGED <<last, uploaded, tab, chart, record>>
      /\ UNCHANGED profileVars /\ UNCHANGED formVars /\ UNCHANGED chartVars
      /\ UNCHANGED recordVars
    BY DEF UploadEnds, chartVars, recordVars
<1>2. ProfileOK' /\ View' = View
    BY <1>1, ProfileSame DEF IInv
<1>3. FormOK' /\ ChartOK' /\ RecordOK'
    BY <1>1, <1>2, FormSame, ChartSame, RecordSame DEF IInv
<1>4. PictureOK /\ UploadsTrue
    BY DEF IInv, PictureOK
<1>5. UploadsTrue'
    <2>1. CASE mixed \/ ~done
        BY <1>1, <2>1 DEF UploadsTrue
    <2>2. CASE ~mixed /\ done
        <3>1. uploads = {last} /\ p = last
            BY <1>1, <1>4, <2>2 DEF UploadsTrue
        <3> QED
            BY <1>1, <2>2, <3>1 DEF UploadsTrue
    <2> QED
        BY <2>1, <2>2
<1>6. mixed' \in BOOLEAN
    BY <1>1
<1>7. PictureOK'
    BY <1>1, <1>4, <1>5, <1>6 DEF PictureOK
<1> QED
    BY <1>2, <1>3, <1>7 DEF IInv

\* The chart page reads, or shows more.
LEMMA ChartStep ==
    ASSUME IInv, chart' \in ChartType, ChartRead',
           chart'.line \in {chart.line, record, <<>>},
           UNCHANGED profileVars, UNCHANGED formVars, UNCHANGED recordVars,
           UNCHANGED pictureVars, UNCHANGED <<tab, moved, newer>>
    PROVE  IInv'
<1>1. ProfileOK' /\ View' = View
    BY ProfileSame DEF IInv
<1>2. FormOK' /\ RecordOK' /\ PictureOK'
    BY <1>1, FormSame, RecordSame, PictureSame DEF IInv
<1>3. ChartOK'
    BY DEF IInv, ChartOK
<1> QED
    BY <1>1, <1>2, <1>3 DEF IInv

\* What the chart page lists of the record.
LEMMA RecordHistory ==
    ASSUME record \in Seq(Reading), chart.count \in Nat, chart.count >= 1
    PROVE  /\ Len(record) \in Nat
           /\ History(record, chart.count) \in Seq(Reading)
           /\ Len(History(record, chart.count)) =
                  IF chart.count > Len(record) THEN Len(record)
                  ELSE chart.count - 1
           /\ \A i \in 1..Len(History(record, chart.count)) :
                  History(record, chart.count)[i] = record[Len(record) + 1 - i]
<1> DEFINE n == chart.count
<1>1. n \in Nat /\ n >= 1
    OBVIOUS
<1> HIDE DEF n
<1>2. /\ Len(record) \in Nat
      /\ History(record, n) \in Seq(Reading)
      /\ Len(History(record, n)) = IF n > Len(record) THEN Len(record) ELSE n - 1
      /\ \A i \in 1..Len(History(record, n)) :
             History(record, n)[i] = record[Len(record) + 1 - i]
    BY <1>1, HistoryOf
<1> QED
    BY <1>2 DEF n

LEMMA ChartFields ==
    ASSUME IInv
    PROVE  /\ chart.count \in {Step, 2 * Step, 3 * Step, Most}
           /\ chart.target \in Valid \cup {Nothing} /\ chart.line \in Seq(Reading)
           /\ chart = [count |-> chart.count, target |-> chart.target,
                       line |-> chart.line]
           /\ ChartRead /\ record \in Seq(Reading)
BY DEF IInv, ChartOK, ChartType, RecordOK

LEMMA StepTargetRead ==
    ASSUME IInv, TargetRead
    PROVE  IInv'
<1>1. /\ chart' = [chart EXCEPT !.target = View["target"]]
      /\ UNCHANGED profileVars /\ UNCHANGED formVars /\ UNCHANGED recordVars
      /\ UNCHANGED pictureVars /\ UNCHANGED <<tab, moved, newer, record>>
    BY DEF TargetRead, recordVars
<1>2. View["target"] \in Valid /\ View' = View
    <2>1. View \in Profile /\ View' = View
        BY <1>1, ViewTyped, ProfileSame DEF IInv, ProfileOK
    <2> QED
        BY <2>1, ProfileIs, StoredIs, NoFormPage
<1>3. /\ chart' \in ChartType /\ chart'.target = View["target"]
      /\ chart'.line = chart.line
    BY <1>1, <1>2, ChartFields DEF ChartType
<1>4. ChartRead'
    BY <1>1, <1>2, <1>3, ChartFields DEF ChartRead
<1> QED
    BY <1>1, <1>3, <1>4, ChartStep

LEMMA StepLineRead ==
    ASSUME IInv, LineRead
    PROVE  IInv'
<1>1. /\ chart' = [chart EXCEPT !.line = record]
      /\ UNCHANGED profileVars /\ UNCHANGED formVars /\ UNCHANGED recordVars
      /\ UNCHANGED pictureVars /\ UNCHANGED <<tab, moved, newer, record>>
    BY DEF LineRead, recordVars
<1>2. View' = View
    BY <1>1, ProfileSame DEF IInv
<1>3. /\ chart' \in ChartType /\ chart'.target = chart.target
      /\ chart'.line = record
    BY <1>1, ChartFields DEF ChartType
<1>4. ChartRead'
    BY <1>1, <1>2, <1>3, ChartFields DEF ChartRead
<1> QED
    BY <1>1, <1>3, <1>4, ChartStep

LEMMA StepExpand ==
    ASSUME IInv, Expand
    PROVE  IInv'
<1>1. /\ chart' = [chart EXCEPT !.count = chart.count + Step]
      /\ chart.count < Most
      /\ UNCHANGED profileVars /\ UNCHANGED formVars /\ UNCHANGED recordVars
      /\ UNCHANGED pictureVars /\ UNCHANGED <<tab, moved, newer, record>>
    BY DEF Expand, recordVars
<1>2. View' = View
    BY <1>1, ProfileSame DEF IInv
<1>3. chart.count + Step \in {Step, 2 * Step, 3 * Step, Most}
    BY <1>1, ChartFields DEF Step, Most
<1>4. /\ chart' \in ChartType /\ chart'.target = chart.target
      /\ chart'.line = chart.line
    BY <1>1, <1>3, ChartFields DEF ChartType
<1>5. ChartRead'
    BY <1>1, <1>2, <1>4, ChartFields DEF ChartRead
<1> QED
    BY <1>1, <1>4, <1>5, ChartStep

\* A reading is stored: of the next day, or of the newest.
LEMMA Stored1 ==
    ASSUME IInv, NEW v \in Valid, Stores(v), sending' \in Seq(Valid), taken' \in Nat
    PROVE  IInv'
<1>1. /\ newer' = (tab = "chart")
      /\ UNCHANGED profileVars /\ UNCHANGED formVars /\ UNCHANGED pictureVars
      /\ UNCHANGED <<tab, chart, moved>>
      /\ \/ record' = Append(record, [day |-> Len(record) + 1, value |-> v])
         \/ /\ record # <<>>
            /\ record' = [record EXCEPT ![Len(record)].value = v]
    BY DEF Stores
<1>2. /\ record \in Seq(Reading) /\ Len(record) \in Nat
      /\ DOMAIN record = 1..Len(record)
      /\ \A i \in 1..Len(record) : /\ record[i] \in Reading /\ record[i].day = i
      /\ \A i \in DOMAIN chart.line : chart.line[i].day = i
    BY LenProperties DEF IInv, RecordOK, DaysInOrder
<1>3. record' \in Seq(Reading) /\ \A i \in DOMAIN record' : record'[i].day = i
    <2>1. CASE record' = Append(record, [day |-> Len(record) + 1, value |-> v])
        <3> DEFINE x == [day |-> Len(record) + 1, value |-> v]
        <3>1. x \in Reading /\ x.day = Len(record) + 1
            BY <1>2 DEF Reading
        <3> HIDE DEF x
        <3>2. record' = Append(record, x)
            BY <2>1 DEF x
        <3>3. /\ record' \in Seq(Reading) /\ Len(record') = Len(record) + 1
              /\ \A i \in 1..Len(record) : record'[i] = record[i]
              /\ record'[Len(record) + 1] = x
            BY <1>2, <3>1, <3>2, AppendProperties
        <3>4. DOMAIN record' = 1..Len(record')
            BY <3>3, LenProperties
        <3>5. \A i \in DOMAIN record' : i \in 1..Len(record) \/ i = Len(record) + 1
            BY <1>2, <3>3, <3>4
        <3> QED
            BY <1>2, <3>1, <3>3, <3>5
    <2>2. CASE record # <<>> /\ record' = [record EXCEPT ![Len(record)].value = v]
        <3> DEFINE n == Len(record)
                   x == [record[n] EXCEPT !.value = v]
        <3>1. n \in 1..Len(record)
            BY <1>2, <2>2, EmptySeq
        <3>2. x \in Reading /\ x.day = n
            BY <1>2, <3>1 DEF Reading
        <3>3. record' = [record EXCEPT ![n] = x]
            BY <2>2
        <3> HIDE DEF x
        <3>4. record' = [i \in 1..Len(record) |-> IF i = n THEN x ELSE record[i]]
            BY <1>2, <3>3, LenProperties
        <3>5. record' \in [1..Len(record) -> Reading]
            BY <1>2, <3>2, <3>4
        <3>6. record' \in Seq(Reading)
            BY <1>2, <3>5, SeqDef
        <3> QED
            BY <1>2, <3>2, <3>4, <3>6
    <2> QED
        BY <1>1, <2>1, <2>2
<1>4. RecordOK'
    BY <1>1, <1>2, <1>3 DEF RecordOK, DaysInOrder
<1>5. ProfileOK' /\ View' = View
    BY <1>1, ProfileSame DEF IInv
<1>6. FormOK' /\ PictureOK'
    BY <1>1, <1>5, FormSame, PictureSame DEF IInv
<1>7. ChartOK'
    <2>1. newer' \in BOOLEAN
        BY <1>1
    <2>2. ChartRead'
        BY <1>1, <1>5, ChartFields DEF ChartRead
    <2> QED
        BY <1>1, <2>1, <2>2 DEF IInv, ChartOK
<1> QED
    BY <1>4, <1>5, <1>6, <1>7 DEF IInv

LEMMA StepStoreReading ==
    ASSUME IInv, StoreReading
    PROVE  IInv'
<1>1. /\ sending # <<>> /\ Stores(Head(sending)) /\ sending' = Tail(sending)
      /\ taken' = taken /\ sending \in Seq(Valid) /\ taken \in Nat
    BY DEF StoreReading, IInv, RecordOK
<1>2. Head(sending) \in Valid /\ Tail(sending) \in Seq(Valid)
    BY <1>1, HeadTailProperties
<1> QED
    BY <1>1, <1>2, Stored1

LEMMA StepOtherReading ==
    ASSUME IInv, NEW v \in Valid, OtherReading(v)
    PROVE  IInv'
<1>1. /\ Stores(v) /\ taken' = taken + 1 /\ sending' = sending
      /\ sending \in Seq(Valid) /\ taken \in Nat
    BY DEF OtherReading, IInv, RecordOK
<1> QED
    BY <1>1, Stored1

---------------------------------------------------------------------------
(* The invariant holds.                                                    *)

LEMMA InitIInv ==
    ASSUME Init
    PROVE  IInv
<1>1. /\ profile \in Profile /\ copy = profile
      /\ queue = <<>> /\ tab = "chart" /\ form = NoForm
      /\ snapshot = NotMounted /\ tiles = NotMounted /\ outdated = {}
      /\ sending = <<>> /\ chart = Unread
      /\ uploads = {} /\ picture = Nothing /\ last = Nothing
      /\ touched = FALSE /\ lost = FALSE /\ stale = FALSE
      /\ moved = FALSE /\ newer = FALSE /\ mixed = FALSE
      /\ edits = 0 /\ others = 0 /\ taken = 0 /\ uploaded = 0
    BY DEF Init
<1>2. ProfileOK
    BY <1>1, EmptySeq DEF ProfileOK
<1>3. FormOK
    <2>1. form.page = "none" /\ form \in FormType
        BY <1>1, NoFormPage
    <2>2. FormTypes
        BY <1>1, <2>1 DEF FormTypes
    <2>3. FormsHold /\ TilesTrue
        BY <1>1, <2>1, NoFormPage DEF FormsHold, TilesTrue
    <2>4. FormTrue /\ ShownIsStored
        BY <2>1, NoFormPage DEF FormTrue, ShownIsStored
    <2> QED
        BY <2>2, <2>3, <2>4 DEF FormOK
<1>4. /\ chart.count = Step /\ chart.target = Nothing /\ chart.line = <<>>
      /\ chart \in ChartType
    <2>1. <<>> \in Seq(Reading)
        BY EmptySeq
    <2> QED
        BY <1>1, <2>1 DEF Unread, ChartType
<1>5. ChartOK
    <2>1. ChartRead
        BY <1>4 DEF ChartRead
    <2> QED
        BY <1>1, <1>4, <2>1 DEF ChartOK
<1>6. RecordOK
    <2> DEFINE v == CHOOSE w \in Valid : TRUE
    <2>1. PICK n \in Lengths : record = [i \in 1..n |-> [day |-> i, value |-> v]]
        BY DEF Init
    <2>2. v \in Valid
        <3>1. profile["target"] \in Valid
            BY <1>1, ProfileIs, StoredIs, NoFormPage
        <3> QED
            BY <3>1
    <2> HIDE DEF v
    <2>3. n \in Nat
        BY PagesAssumption
    <2>4. record \in [1..n -> Reading]
        BY <2>1, <2>2, <2>3 DEF Reading
    <2>5. record \in Seq(Reading)
        BY <2>3, <2>4, SeqDef
    <2>6. \A i \in DOMAIN record : record[i].day = i
        BY <2>1
    <2>7. DOMAIN <<>> = {}
        OBVIOUS
    <2>8. DaysInOrder
        BY <1>4, <2>6, <2>7 DEF DaysInOrder
    <2> QED
        BY <1>1, <2>5, <2>8, EmptySeq DEF RecordOK
<1>7. PictureOK
    BY <1>1 DEF PictureOK, UploadsTrue
<1> QED
    BY <1>2, <1>3, <1>5, <1>6, <1>7 DEF IInv

LEMMA NextIInv ==
    ASSUME IInv, Next
    PROVE  IInv'
<1>1. CASE \E t \in {"chart", "profile"} : TapTab(t)
    BY <1>1, StepTapTab
<1>2. CASE SnapshotArrives
    BY <1>2, StepSnapshotArrives
<1>3. CASE Rebuild
    BY <1>3, StepRebuild
<1>4. CASE \E f \in Field : OpenField(f)
    BY <1>4, StepOpenField
<1>5. CASE OpenPicture
    BY <1>5, StepOpenPicture
<1>6. CASE OpenRecord
    BY <1>6, StepOpenRecord
<1>7. CASE \E t \in Name \cup Number \cup {Empty} : Type(t)
    BY <1>7, StepType
<1>8. CASE \E g \in Gender : Pick(g)
    BY <1>8, StepPick
<1>9. CASE Leave
    BY <1>9, StepLeave
<1>10. CASE Confirm
    BY <1>10, StepConfirm
<1>11. CASE ConfirmRecord
    BY <1>11, StepConfirmRecord
<1>12. CASE \E p \in Picture : PickImage(p)
    BY <1>12, StepPickImage
<1>13. CASE ConfirmPicture
    BY <1>13, StepConfirmPicture
<1>14. CASE \E p \in Picture, done \in BOOLEAN : UploadEnds(p, done)
    BY <1>14, StepUploadEnds
<1>15. CASE TargetRead
    BY <1>15, StepTargetRead
<1>16. CASE LineRead
    BY <1>16, StepLineRead
<1>17. CASE Expand
    BY <1>17, StepExpand
<1>18. CASE Commit
    BY <1>18, StepCommit
<1>19. CASE \E f \in Field : \E v \in Stored[f] : OtherEdits(f, v)
    BY <1>19, StepOtherEdits
<1>20. CASE StoreReading
    BY <1>20, StepStoreReading
<1>21. CASE \E v \in Valid : OtherReading(v)
    BY <1>21, StepOtherReading
<1>22. CASE ProfileArrives
    BY <1>22, StepProfileArrives
<1> QED
    BY <1>1, <1>2, <1>3, <1>4, <1>5, <1>6, <1>7, <1>8, <1>9, <1>10, <1>11,
       <1>12, <1>13, <1>14, <1>15, <1>16, <1>17, <1>18, <1>19, <1>20, <1>21,
       <1>22
    DEF Next

LEMMA StutterIInv ==
    ASSUME IInv, UNCHANGED vars
    PROVE  IInv'
<1>1. /\ UNCHANGED profileVars /\ UNCHANGED formVars /\ UNCHANGED chartVars
      /\ UNCHANGED recordVars /\ UNCHANGED pictureVars
    BY DEF vars
<1>2. UNCHANGED <<tab, record, chart>>
    BY <1>1 DEF chartVars, recordVars
<1>3. ProfileOK' /\ View' = View
    BY <1>1, ProfileSame DEF IInv
<1> QED
    BY <1>1, <1>2, <1>3, FormSame, ChartSame, RecordSame, PictureSame DEF IInv

LEMMA SpecIInv == Spec => []IInv
<1>1. Init => IInv
    BY InitIInv
<1>2. IInv /\ [Next]_vars => IInv'
    BY NextIInv, StutterIInv
<1> QED
    BY <1>1, <1>2, PTL DEF Spec

---------------------------------------------------------------------------
(* Theorems.                                                               *)

\* The pages keep their types; the target that this device sees is a number
\* within the limit, whatever is typed, edited on the other device or still
\* queued; and tiles, forms and the chart page know what is out of date.
THEOREM PagesInvariant == Spec => []Inv
<1>1. ASSUME IInv PROVE Inv
    <2>1. View["target"] \in Valid
        <3>1. View \in Profile
            BY <1>1, ViewTyped DEF IInv, ProfileOK
        <3> QED
            BY <3>1, ProfileIs, StoredIs, NoFormPage
    <2>2. TypeOK
        BY <1>1, PartsType
    <2> QED
        BY <1>1, <2>1, <2>2 DEF Inv, IInv, FormOK, ChartOK, RecordOK
<1> QED
    BY <1>1, SpecIInv, PTL

\* The button of a form stores what the form shows, however often the page is
\* built again; the record page may have forgotten a number, and stores none.
THEOREM ShownIsStoredHolds == Spec => []ShownIsStored
<1>1. IInv => ShownIsStored
    BY DEF IInv, FormOK
<1> QED
    BY <1>1, SpecIInv, PTL

\* A form that is confirmed without a change writes what is there already,
\* unless it was known to be outdated or, at the server, the cache lacks an
\* edit of the other device.
THEOREM UntouchedKeepsHolds == Spec => UntouchedKeeps
<1>1. ASSUME IInv, Confirm, ~touched, ~stale
      PROVE  /\ View' = View
             /\ form.page \notin Behind => Settled' = Settled
    <2>1. /\ form.page \in Field
          /\ \A g \in Field : View'[g] = IF g = form.page THEN form.data
                                         ELSE View[g]
          /\ \A g \in Field : Settled'[g] = IF g = form.page THEN form.data
                                            ELSE Settled[g]
        BY <1>1, ConfirmUpdates
    <2>2. form.data = View[form.page]
        BY <1>1, <2>1 DEF IInv, FormOK, FormTrue
    <2>3. /\ View' = [g \in Field |-> View'[g]] /\ View = [g \in Field |-> View[g]]
          /\ Settled' = [g \in Field |-> Settled'[g]]
          /\ Settled = [g \in Field |-> Settled[g]]
        BY ViewIs, ViewAfter DEF On
    <2>4. View' = View
        <3>1. \A g \in Field : View'[g] = View[g]
            BY <2>1, <2>2
        <3> QED
            BY <2>3, <3>1
    <2>5. ASSUME form.page \notin Behind PROVE Settled' = Settled
        <3>1. Settled[form.page] = View[form.page]
            BY <2>1, <2>5 DEF Behind
        <3>2. \A g \in Field : Settled'[g] = Settled[g]
            BY <2>1, <2>2, <3>1
        <3> QED
            BY <2>3, <3>2
    <2> QED
        BY <2>4, <2>5
<1>2. IInv /\ [Next]_vars =>
          [Confirm /\ ~touched /\ ~stale =>
               /\ View' = View
               /\ form.page \notin Behind => Settled' = Settled]_vars
    BY <1>1
<1> QED
    BY <1>2, SpecIInv, PTL DEF Spec, UntouchedKeeps

\* The history of the chart page lists the newest readings of a record of any
\* length; the tile that asks for more is its last item exactly if there are
\* more; and expanded as far as it goes it shows a month.
THEOREM HistoryShownHolds == Spec => []HistoryShown
<1>1. ASSUME IInv PROVE HistoryShown
    <2> DEFINE n == Len(record)
               h == History(record, chart.count)
    <2>1. /\ record \in Seq(Reading)
          /\ chart.count \in {8, 16, 24, 32}
        BY <1>1, ChartFields DEF Step, Most
    <2>2. chart.count \in Nat /\ chart.count >= 1
        BY <2>1
    <2>3. /\ n \in Nat /\ h \in Seq(Reading)
          /\ Len(h) = IF chart.count > n THEN n ELSE chart.count - 1
          /\ \A i \in 1..Len(h) : h[i] = record[n + 1 - i]
        BY <2>1, <2>2, RecordHistory
    <2>4. DOMAIN h = 1..Len(h)
        BY <2>3, LenProperties
    <2>5. ExpandTile(n, chart.count) <=> chart.count <= n
        BY <2>2, <2>3, RowsOf
    <2> HIDE DEF n, h
    <2>6. ExpandTile(n, chart.count) <=> Len(h) < n
        BY <2>1, <2>3, <2>5
    <2>7. chart.count = Most => Len(h) >= IF n < 31 THEN n ELSE 31
        BY <2>3 DEF Most
    <2> QED
        BY <2>3, <2>4, <2>6, <2>7 DEF HistoryShown, n, h
<1> QED
    BY <1>1, SpecIInv, PTL

\* The line chart shows the newest seven readings, above their own labels and
\* in the order of their days, and ends where the history begins.
THEOREM ChartTrueHolds == Spec => []ChartTrue
<1>1. ASSUME IInv PROVE ChartTrue
    <2> DEFINE r == chart.line
               l == Line(r)
               n == Len(r)
               k == Shown(n, Spots)
    <2>1. /\ r \in Seq(Reading) /\ record \in Seq(Reading)
          /\ chart.count \in {8, 16, 24, 32}
        BY <1>1, ChartFields DEF Step, Most
    <2>2. /\ n \in Nat /\ l \in Seq(Reading) /\ Len(l) = k
          /\ \A i \in 1..k : l[i] = r[n - k + i]
        BY <2>1, LineOf
    <2>3. DOMAIN r = 1..n /\ DOMAIN l = 1..k
        BY <2>1, <2>2, LenProperties
    <2>4. k \in Nat /\ k <= n /\ (n >= 1 => k >= 1)
        BY <2>2 DEF Shown, Spots
    <2>5. Labels(r) = l
        BY <2>1, LabelsOf
    <2>6. \A i \in 1..n : r[i].day = i
        BY <1>1, <2>3 DEF IInv, RecordOK, DaysInOrder
    <2>7. Len(l) = IF n < Spots THEN n ELSE Spots
        BY <2>2 DEF Shown, Spots
    <2> HIDE DEF r, l, n, k
    <2>8. ASSUME NEW i \in 1..k PROVE n - k + i \in 1..n /\ l[i].day = n - k + i
        <3>1. n - k + i \in 1..n
            BY <2>2, <2>4
        <3> QED
            BY <2>2, <2>6, <3>1
    <2>9. \A i, j \in 1..k : i < j => l[i].day < l[j].day
        <3>1. \A i, j \in 1..k : i < j => n - k + i < n - k + j
            BY <2>2, <2>4
        <3> QED
            BY <2>8, <3>1
    <2>10. ASSUME tab = "chart", l # <<>>, ~newer
           PROVE  l[Len(l)] = History(record, chart.count)[1]
        <3>1. k # 0
            BY <2>2, <2>10, EmptySeq
        <3>2. r # <<>>
            <4>1. r = <<>> => n = 0
                BY DEF n
            <4> QED
                BY <2>2, <2>4, <3>1, <4>1
        <3>3. r = record
            BY <1>1, <2>10, <3>2, ChartFields DEF ChartRead, r
        <3>4. l[k] = r[n]
            <4>1. k \in 1..k /\ n - k + k = n
                BY <2>2, <2>4, <3>1
            <4> QED
                BY <2>2, <4>1
        <3> DEFINE h == History(record, chart.count)
        <3>5. chart.count \in Nat /\ chart.count >= 1 /\ chart.count - 1 >= 1
            BY <2>1
        <3>6. /\ Len(h) = IF chart.count > Len(record) THEN Len(record)
                          ELSE chart.count - 1
              /\ \A i \in 1..Len(h) : h[i] = record[Len(record) + 1 - i]
            BY <2>1, <3>5, RecordHistory
        <3> HIDE DEF h
        <3>7. Len(record) = n
            BY <3>3 DEF n
        <3>8. 1 \in 1..Len(h) /\ n + 1 - 1 = n
            BY <2>2, <2>4, <3>1, <3>5, <3>6, <3>7
        <3>9. h[1] = record[n]
            BY <3>6, <3>7, <3>8
        <3> QED
            BY <2>2, <3>3, <3>4, <3>9 DEF h
    <2> QED
        BY <2>3, <2>5, <2>7, <2>9, <2>10 DEF ChartTrue, r, l, n
<1> QED
    BY <1>1, SpecIInv, PTL

\* When the uploads have ended the storage has the picture confirmed last,
\* unless uploads overlapped or failed.
THEOREM PictureLastHolds == Spec => []PictureLast
<1>1. IInv => PictureLast
    BY DEF IInv, PictureOK, UploadsTrue, PictureLast
<1> QED
    BY <1>1, SpecIInv, PTL
=============================================================================
