------------------------------- MODULE Pages -------------------------------
(***************************************************************************)
(* The pages of a signed-in user: the chart page and the profile page, the *)
(* forms that edit one field of the profile (Push, Push2, Push4), the form *)
(* of the picture (Push5) and the record page (Push3), on one device,      *)
(* against the documents <uid>/profile and <uid>/record, the picture in    *)
(* the storage, and another device.                                        *)
(*                                                                         *)
(* A form keeps its data in a variable of build or in a map it shares with *)
(* the tile that opened it, and the field on the screen has a text of its  *)
(* own.  Whenever the screen changes, as when the keyboard opens or        *)
(* closes, every page is built again.  Average and blood pressure are as   *)
(* the target.  Texts that a field does not let through are left out, and  *)
(* so is what a tap does before the first snapshot has arrived: nothing.   *)
(***************************************************************************)
EXTENDS Chart

CONSTANTS
    Name,       \* nicknames
    Gender,     \* what the buttons of Push2 offer
    Number,     \* numbers that can be typed
    Limit,      \* the largest number that is accepted
    Picture,    \* pictures in the gallery
    Lengths,    \* lengths of the record at first
    MaxEdits,   \* bound: edits of the profile on this device
    MaxOther,   \* bound: edits of the profile on the other device
    MaxNew,     \* bound: readings that are taken
    MaxUploads  \* bound: uploads of a picture

ASSUME PagesAssumption ==
    /\ Number \subseteq Nat
    /\ Limit \in Nat
    /\ Lengths \subseteq Nat
    /\ {MaxEdits, MaxOther, MaxNew, MaxUploads} \subseteq Nat

VARIABLES
    profile,    \* the profile at the server
    copy,       \* the profile in the cache of this device
    queue,      \* updates of this device that the server does not have
    snapshot,   \* the last snapshot of the profile page
    tiles,      \* the map that each tile hands to its form
    tab,        \* the tab that is mounted
    form,       \* the form that is open
    record,     \* the readings as this device has them, from the oldest
    sending,    \* readings of this device on their way to the record
    chart,      \* the chart page: sugarCount and what it has read
    uploads,    \* uploads of pictures under way
    picture,    \* the picture in the storage
    \* history
    touched,    \* something shown in the form was typed or picked
    lost,       \* what is shown was typed before the page was built again
    stale,      \* the form was outdated when it opened, or is now
    outdated,   \* fields that changed since the tiles were built, and the
                \* gender if its tile has a choice that was abandoned
    moved,      \* the target changed since the chart tab was opened
    newer,      \* the record changed since the chart tab was opened
    last,       \* the picture confirmed last
    mixed,      \* uploads overlapped or failed
    edits, others, taken, uploaded      \* counts, for the bounds

profileVars == <<profile, copy, queue, edits, others>>
formVars == <<snapshot, tiles, form, touched, lost, stale, outdated>>
chartVars == <<tab, chart, moved, newer>>
recordVars == <<record, sending, taken>>
pictureVars == <<uploads, picture, last, mixed, uploaded>>
vars == <<profileVars, formVars, chartVars, recordVars, pictureVars>>

Field == {"name", "gender", "target"}
Nothing == -2                       \* null
Empty == -1                         \* the empty text
Valid == {n \in Number : n <= Limit}
Stored == [name |-> Name, gender |-> Gender, target |-> Valid]
Profile == {p \in [Field -> Name \cup Gender \cup Valid] :
               \A f \in Field : p[f] \in Stored[f]}
Typed == [name |-> Name \cup {Empty}, target |-> Number \cup {Empty},
          record |-> Number \cup {Empty}]
NoForm == [page |-> "none", param |-> Nothing, data |-> Nothing,
           shown |-> Nothing, shared |-> FALSE]
Reading == [day : Nat, value : Valid]
NotMounted == [f \in Field |-> Nothing]
Unread == [count |-> Step, target |-> Nothing, line |-> <<>>]

\* An update of this device names one field.
Update(f, v) == [g \in {f} |-> v]
Updates == UNION {[{f} -> Stored[f]] : f \in Field}

\* What the server makes of an update.
Overlay(p, u) == [f \in Field |-> IF f \in DOMAIN u THEN u[f] ELSE p[f]]

\* A profile with the updates of this device on top, the newest of each field.
Overlaid(p) ==
    [f \in Field |->
        LET mine == {i \in DOMAIN queue : f \in DOMAIN queue[i]}
        IN  IF mine = {} THEN p[f]
            ELSE queue[CHOOSE i \in mine : \A j \in mine : j <= i][f]]

\* The profile as this device sees it: what snapshots() raises first and what
\* get() answers offline come from the cache.
View == Overlaid(copy)

\* The profile that the server will have once it has this device's updates,
\* and the fields of which this device does not know that yet.
Settled == Overlaid(profile)
Behind == {f \in Field : View[f] # Settled[f]}

\* What a change of the profile makes of the pages that are open.
Outdates ==
    /\ outdated' = IF tab = "profile"
                   THEN outdated \cup {f \in Field : View'[f] # View[f]}
                   ELSE outdated
    /\ stale' = \/ stale
                \/ form.page \in Field /\ View'[form.page] # View[form.page]
    /\ moved' = \/ moved
                \/ tab = "chart" /\ View'["target"] # View["target"]

-----------------------------------------------------------------------------
Init ==
    /\ profile \in Profile
    /\ copy = profile
    /\ queue = <<>>
    /\ snapshot = NotMounted
    /\ tiles = NotMounted
    /\ tab = "chart"
    /\ form = NoForm
    /\ \E n \in Lengths : record = [i \in 1..n |->
                               [day |-> i, value |-> CHOOSE v \in Valid : TRUE]]
    /\ sending = <<>>
    /\ chart = Unread
    /\ uploads = {}
    /\ picture = Nothing
    /\ last = Nothing
    /\ touched = FALSE /\ lost = FALSE /\ stale = FALSE
    /\ outdated = {}
    /\ moved = FALSE /\ newer = FALSE /\ mixed = FALSE
    /\ edits = 0 /\ others = 0 /\ taken = 0 /\ uploaded = 0

-----------------------------------------------------------------------------
(* Tabs and snapshots.                                                     *)

\* The profile page builds its tiles, each with a map of its own.
BuildTiles(p) ==
    /\ snapshot' = p
    /\ tiles' = p
    /\ outdated' = {f \in Field : p # NotMounted /\ p[f] # View[f]}

\* A page is mounted anew, and the other one is gone.
Mount(t) ==
    /\ tab' = t
    /\ chart' = Unread
    /\ moved' = FALSE
    /\ newer' = FALSE
    /\ BuildTiles(IF t = "profile" THEN View ELSE NotMounted)

\* Mutant of TapTab: the chart page stays mounted.
TapTabMounted(t) ==
    /\ form = NoForm
    /\ t # tab
    /\ tab' = t
    /\ moved' = FALSE
    /\ newer' = FALSE
    /\ BuildTiles(IF t = "profile" THEN View ELSE NotMounted)
    /\ UNCHANGED <<chart, profileVars, form, touched, lost, stale,
                   recordVars, pictureVars>>

TapTab(t) ==
    /\ form = NoForm
    /\ t # tab
    /\ Mount(t)
    /\ UNCHANGED <<profileVars, form, touched, lost, stale, recordVars,
                   pictureVars>>

\* The stream of the profile page, which stays mounted below a form.
SnapshotArrives ==
    /\ tab = "profile"
    /\ snapshot # View
    /\ BuildTiles(View)
    /\ form' = [form EXCEPT !.shared = FALSE]
    /\ UNCHANGED <<profileVars, touched, lost, stale, chartVars, recordVars,
                   pictureVars>>

\* Mutant of Rebuild: the fields of Push and Push4 keep their text.
RebuildDataOnly ==
    /\ form # NoForm
    /\ BuildTiles(snapshot)
    /\ form' =
           [form EXCEPT
               !.shared = FALSE,
               !.data = IF form.page \in {"name", "target"} THEN form.param
                        ELSE IF form.page = "record" THEN Nothing ELSE @]
    /\ lost' = (form.page = "record" /\ form.shown # Empty)
    /\ UNCHANGED <<profileVars, touched, stale, chartVars, recordVars,
                   pictureVars>>

\* The screen changes.  Push and Push4 start again from the param, text and
\* data; Push3 forgets its data, and its field keeps the text; Push2 keeps the
\* choice in its param and Push5 the picture in its state.
Rebuild ==
    /\ form # NoForm
    /\ BuildTiles(snapshot)
    /\ form' =
           [form EXCEPT
               !.shared = FALSE,
               !.shown = IF form.page \in {"name", "target"} THEN form.param
                         ELSE @,
               !.data = IF form.page \in {"name", "target"} THEN form.param
                        ELSE IF form.page = "record" THEN Nothing ELSE @]
    /\ touched' = (touched /\ form.page \notin {"name", "target"})
    /\ lost' = (form.page = "record" /\ form.shown # Empty)
    /\ UNCHANGED <<profileVars, stale, chartVars, recordVars, pictureVars>>

-----------------------------------------------------------------------------
(* Forms.                                                                  *)

Opens(f) ==
    /\ form = NoForm
    /\ form' = f
    /\ touched' = FALSE
    /\ lost' = FALSE

\* A tile of the profile page.
OpenField(f) ==
    /\ tab = "profile"
    /\ Opens([page |-> f, param |-> tiles[f], data |-> tiles[f],
              shown |-> tiles[f], shared |-> TRUE])
    /\ stale' = (f \in outdated)
    /\ UNCHANGED <<profileVars, snapshot, tiles, outdated, chartVars,
                   recordVars, pictureVars>>

OpenPicture ==
    /\ tab = "profile"
    /\ Opens([NoForm EXCEPT !.page = "picture"])
    /\ UNCHANGED <<profileVars, snapshot, tiles, stale, outdated, chartVars,
                   recordVars, pictureVars>>

\* The record button, on both tabs.
OpenRecord ==
    /\ Opens([NoForm EXCEPT !.page = "record", !.shown = Empty])
    /\ UNCHANGED <<profileVars, snapshot, tiles, stale, outdated, chartVars,
                   recordVars, pictureVars>>

\* Mutant of Type: the text goes to the map that the tile shares.
TypeShared(t) ==
    /\ form.page \in DOMAIN Typed
    /\ t \in Typed[form.page]
    /\ form' = [form EXCEPT !.param = t, !.data = t, !.shown = t]
    /\ tiles' = IF form.shared THEN [tiles EXCEPT ![form.page] = t] ELSE tiles
    /\ touched' = TRUE
    /\ lost' = FALSE
    /\ UNCHANGED <<profileVars, snapshot, stale, outdated, chartVars,
                   recordVars, pictureVars>>

\* onChanged of a field.
Type(t) ==
    /\ form.page \in DOMAIN Typed
    /\ t \in Typed[form.page]
    /\ form' = [form EXCEPT !.data = t, !.shown = t]
    /\ touched' = TRUE
    /\ lost' = FALSE
    /\ UNCHANGED <<profileVars, snapshot, tiles, stale, outdated, chartVars,
                   recordVars, pictureVars>>

\* A button of Push2 puts the choice in the map, which is also the tile's
\* until the tiles are built again.
Pick(g) ==
    /\ form.page = "gender"
    /\ form' = [form EXCEPT !.param = g, !.data = g, !.shown = g]
    /\ tiles' = IF form.shared THEN [tiles EXCEPT !["gender"] = g] ELSE tiles
    /\ touched' = TRUE
    /\ UNCHANGED <<profileVars, snapshot, lost, stale, outdated, chartVars,
                   recordVars, pictureVars>>

\* Back, without a confirmation.
Leave ==
    /\ form # NoForm
    /\ form' = NoForm
    /\ touched' = FALSE
    /\ lost' = FALSE
    /\ outdated' = outdated \cup
           IF form.page = "gender" /\ touched /\ form.shared THEN {"gender"}
           ELSE {}
    /\ stale' = FALSE
    /\ UNCHANGED <<profileVars, snapshot, tiles, chartVars, recordVars,
                   pictureVars>>

\* Mutant of Accepted: the empty text is not looked for.
AcceptedEmpty(f, v) == f = "target" => v <= Limit

\* What the button lets through: Push asks for a text, Push4 for a number
\* within the limit, Push2 for nothing.
Accepted(f, v) ==
    /\ f \in {"name", "target"} => v # Empty
    /\ f = "target" => v <= Limit

Confirm ==
    /\ form.page \in Field
    /\ edits < MaxEdits
    /\ Accepted(form.page, form.data)
    /\ queue' = Append(queue, Update(form.page, form.data))
    /\ edits' = edits + 1
    /\ UNCHANGED <<profile, copy, others>>
    /\ form' = NoForm
    /\ Outdates
    /\ touched' = FALSE
    /\ lost' = FALSE
    /\ UNCHANGED <<snapshot, tiles, tab, chart, newer, recordVars, pictureVars>>

\* The button of the record page starts updateUser, and puts a new app with
\* its own chart page on top.
ConfirmRecord ==
    /\ form.page = "record"
    /\ taken < MaxNew
    /\ form.data \in Valid
    /\ sending' = Append(sending, form.data)
    /\ taken' = taken + 1
    /\ form' = NoForm
    /\ touched' = FALSE
    /\ lost' = FALSE
    /\ Mount("chart")
    /\ UNCHANGED <<profileVars, stale, record, pictureVars>>
-----------------------------------------------------------------------------
(* The picture.                                                            *)

\* Mutant of PickImage: the picture is uploaded when it is picked.
PickUploads(p) ==
    /\ form.page = "picture"
    /\ form' = [form EXCEPT !.data = p, !.shown = p]
    /\ uploads' = uploads \cup {p}
    /\ UNCHANGED <<profileVars, snapshot, tiles, touched, lost, stale,
                   outdated, chartVars, recordVars, picture, last, mixed,
                   uploaded>>

PickImage(p) ==
    /\ form.page = "picture"
    /\ form' = [form EXCEPT !.data = p, !.shown = p]
    /\ UNCHANGED <<profileVars, snapshot, tiles, touched, lost, stale,
                   outdated, chartVars, recordVars, pictureVars>>

\* The button starts the upload and does not wait for it.
ConfirmPicture ==
    /\ form.page = "picture"
    /\ uploaded < MaxUploads
    /\ form.data # Nothing
    /\ uploads' = uploads \cup {form.data}
    /\ uploaded' = uploaded + 1
    /\ last' = form.data
    /\ mixed' = (mixed \/ uploads # {})
    /\ form' = NoForm
    /\ UNCHANGED <<profileVars, snapshot, tiles, touched, lost, stale,
                   outdated, chartVars, recordVars, picture>>

\* An upload ends: the file is replaced, or an exception is caught.
UploadEnds(p, done) ==
    /\ p \in uploads
    /\ uploads' = uploads \ {p}
    /\ picture' = IF done THEN p ELSE picture
    /\ mixed' = (mixed \/ ~done)
    /\ UNCHANGED <<profileVars, formVars, chartVars, recordVars, last,
                   uploaded>>

-----------------------------------------------------------------------------
(* The chart page.                                                         *)

\* The future of initState completes: the target for the faces.
TargetRead ==
    /\ tab = "chart"
    /\ chart.target = Nothing
    /\ chart' = [chart EXCEPT !.target = View["target"]]
    /\ UNCHANGED <<profileVars, formVars, tab, moved, newer, recordVars,
                   pictureVars>>

\* The line chart's read completes.  It is mounted if there is a record.
LineRead ==
    /\ tab = "chart"
    /\ chart.line = <<>>
    /\ record # <<>>
    /\ chart' = [chart EXCEPT !.line = record]
    /\ UNCHANGED <<profileVars, formVars, tab, moved, newer, recordVars,
                   pictureVars>>

\* The last tile, at the end of the history.
Expand ==
    /\ tab = "chart"
    /\ form = NoForm
    /\ ExpandTile(Len(record), chart.count)
    /\ chart.count < Most
    /\ chart' = [chart EXCEPT !.count = @ + Step]
    /\ UNCHANGED <<profileVars, formVars, tab, moved, newer, recordVars,
                   pictureVars>>

-----------------------------------------------------------------------------
(* The server and the other device.                                        *)

\* An update of this device is committed, and acknowledged: it is made of the
\* copy in the cache as well.
Commit ==
    /\ queue # <<>>
    /\ profile' = Overlay(profile, Head(queue))
    /\ copy' = Overlay(copy, Head(queue))
    /\ queue' = Tail(queue)
    /\ Outdates
    /\ UNCHANGED <<edits, others, snapshot, tiles, form, touched, lost,
                   tab, chart, newer, recordVars, pictureVars>>

\* The other device's edit reaches the server.
OtherEdits(f, v) ==
    /\ others < MaxOther
    /\ v \in Stored[f]
    /\ profile' = [profile EXCEPT ![f] = v]
    /\ others' = others + 1
    /\ UNCHANGED <<copy, queue, edits, formVars, chartVars, recordVars,
                   pictureVars>>

\* The watch stream brings the server's profile to the cache.
ProfileArrives ==
    /\ copy # profile
    /\ copy' = profile
    /\ UNCHANGED <<profile, queue, edits, others>>
    /\ Outdates
    /\ UNCHANGED <<snapshot, tiles, form, touched, lost, tab, chart, newer,
                   recordVars, pictureVars>>

\* updateUser has stored a reading: of a new day, or of the newest.
Stores(v) ==
    /\ \/ record' = Append(record, [day |-> Len(record) + 1, value |-> v])
       \/ /\ record # <<>>
          /\ record' = [record EXCEPT ![Len(record)].value = v]
    /\ newer' = (tab = "chart")
    /\ UNCHANGED <<profileVars, formVars, tab, chart, moved, pictureVars>>

StoreReading ==
    /\ sending # <<>>
    /\ Stores(Head(sending))
    /\ sending' = Tail(sending)
    /\ UNCHANGED taken

\* A reading of the other device arrives.
OtherReading(v) ==
    /\ taken < MaxNew
    /\ Stores(v)
    /\ taken' = taken + 1
    /\ UNCHANGED sending

-----------------------------------------------------------------------------
Next ==
    \/ \E t \in {"chart", "profile"} : TapTab(t)
    \/ SnapshotArrives
    \/ Rebuild
    \/ \E f \in Field : OpenField(f)
    \/ OpenPicture
    \/ OpenRecord
    \/ \E t \in Name \cup Number \cup {Empty} : Type(t)
    \/ \E g \in Gender : Pick(g)
    \/ Leave
    \/ Confirm
    \/ ConfirmRecord
    \/ \E p \in Picture : PickImage(p)
    \/ ConfirmPicture
    \/ \E p \in Picture, done \in BOOLEAN : UploadEnds(p, done)
    \/ TargetRead
    \/ LineRead
    \/ Expand
    \/ Commit
    \/ \E f \in Field : \E v \in Stored[f] : OtherEdits(f, v)
    \/ ProfileArrives
    \/ StoreReading
    \/ \E v \in Valid : OtherReading(v)

Spec == Init /\ [][Next]_vars

-----------------------------------------------------------------------------
(* Properties.                                                             *)

Value == Name \cup Gender \cup Number \cup Picture \cup {Empty, Nothing}

TypeOK ==
    /\ queue \in Seq(Updates)
    /\ {profile, copy} \subseteq Profile
    /\ {snapshot, tiles} \subseteq Profile \cup {NotMounted}
    /\ tab \in {"chart", "profile"}
    /\ form \in [page : Field \cup {"none", "picture", "record"},
                 param : Value, data : Value, shown : Value, shared : BOOLEAN]
    /\ record \in Seq(Reading)
    /\ sending \in Seq(Valid)
    /\ chart \in [count : {Step, 2 * Step, 3 * Step, Most},
                  target : Valid \cup {Nothing}, line : Seq(Reading)]
    /\ uploads \subseteq Picture
    /\ {picture, last} \subseteq Picture \cup {Nothing}
    /\ {touched, lost, stale, moved, newer, mixed} \subseteq BOOLEAN
    /\ outdated \subseteq Field
    /\ {edits, others, taken, uploaded} \subseteq Nat

\* A field is edited on the profile page, which stays mounted, with a param
\* that was stored and data that can be typed or picked; the form of the
\* gender and its tile, while they share a map, agree.
FormsHold ==
    /\ tab = "profile" => {snapshot, tiles} \subseteq Profile
    /\ form.page \in Field => tab = "profile" /\ form.param \in Stored[form.page]
    /\ form.page \in {"name", "target"} => form.data \in Typed[form.page]
    /\ form.page = "gender" =>
           form.data \in Gender /\ (form.shared => tiles["gender"] = form.data)
    /\ form.page = "picture" => form.data \in Picture \cup {Nothing}

\* The tiles show the profile as this device has it, but for the fields known
\* to be outdated and a choice of gender that is not confirmed.
TilesTrue ==
    tab = "profile" =>
        \A f \in Field \ outdated :
            \/ tiles[f] = View[f]
            \/ f = "gender" /\ form.page = "gender" /\ touched /\ form.shared

\* So does a form that is not outdated, until something is typed or picked;
\* what it starts again from when it is built again always does.
FormTrue ==
    form.page \in Field /\ ~stale =>
        /\ ~touched => form.data = View[form.page]
        /\ form.page # "gender" => form.param = View[form.page]

\* What the chart page has read is still what this device has, but for known
\* changes.
ChartRead ==
    tab = "chart" =>
        /\ chart.target # Nothing /\ ~moved => chart.target = View["target"]
        /\ chart.line # <<>> /\ ~newer => chart.line = record

\* The record has one reading a day, in the order of the days.
DaysInOrder ==
    \A r \in {record, chart.line} : \A i \in DOMAIN r : r[i].day = i

\* The types, among them that the stored target is, whatever is typed, edited
\* and sent, a number within the limit, which the rows of the chart page
\* parse; and what the pages know of the profile and the record.
Inv ==
    /\ TypeOK
    /\ View["target"] \in Valid
    /\ FormsHold
    /\ TilesTrue
    /\ FormTrue
    /\ ChartRead
    /\ DaysInOrder

\* What the button would store is what the form shows.  Only the record page
\* may show a number that it has forgotten, after it was built again; it then
\* stores nothing.
ShownIsStored ==
    form.page \in Field \cup {"record"} =>
        \/ form.data = form.shown
        \/ /\ form.page = "record"
           /\ form.data = Nothing
           /\ lost \/ form.shown = Empty

\* A form that was opened and confirmed without a change changes nothing,
\* although it writes its field: nothing this device shows, unless the field
\* has changed since the tiles were built or the tile kept a choice of gender
\* that was abandoned, and nothing at the server either, unless moreover the
\* field was edited on the other device and the cache, from which the tiles
\* were first built, does not have that edit yet.
UntouchedKeeps ==
    [][Confirm /\ ~touched /\ ~stale =>
           /\ View' = View
           /\ form.page \notin Behind => Settled' = Settled]_vars

\* The history lists the newest readings from the newest on; it ends with the
\* tile exactly if there are more; and a user who expands it as often as
\* possible sees a month, 31 readings, if there are as many.
HistoryShown ==
    LET n == Len(record)
        h == History(record, chart.count)
    IN  /\ \A i \in DOMAIN h : h[i] = record[n + 1 - i]
        /\ ExpandTile(n, chart.count) <=> Len(h) < n
        /\ chart.count = Most => Len(h) >= IF n < 31 THEN n ELSE 31

\* The line chart, read once, shows the newest seven readings in the order of
\* their days, each above its own label, and ends with the first row of the
\* history unless the record has changed since the tab was opened.
ChartTrue ==
    LET l == Line(chart.line)
    IN  /\ Labels(chart.line) = l
        /\ \A i, j \in DOMAIN l : i < j => l[i].day < l[j].day
        /\ Len(l) = IF Len(chart.line) < Spots THEN Len(chart.line) ELSE Spots
        /\ tab = "chart" /\ l # <<>> /\ ~newer =>
               l[Len(l)] = History(record, chart.count)[1]

\* Once the uploads have ended the picture is the one confirmed last, unless
\* uploads overlapped or failed.
PictureLast == uploads = {} /\ ~mixed => picture = last
============================================================================
