# Sugar: a verification development

Sugar (`src/sugar/lib`) is a Flutter app in which a user records one blood sugar
reading a day, sees the history against a target, and prints it as a PDF. Its
data lives in Firestore: a collection per user (`<uid>`) with the documents
`profile` and `record`. The repository also holds the Firestore client itself, as
a pod (`src/sugar/ios/Pods/FirebaseFirestoreInternal`), on whose queues, streams
and timers the app relies without a line of its own about errors. This directory
holds TLA+ models of the app's logic and of the two paths through the client
that it uses, their TLC configurations, and TLAPS proofs.

## 1. Inventory

### Components, state and operations

| Component | Source | State | Operations |
| --- | --- | --- | --- |
| Blood sugar record | `firebase/db.dart` `updateUser`, `push.dart` `Push3` | document `<uid>/record`: field = time stamp, value = reading; the locals of each call in flight | press of the button, `get()`, choice of the field, `set(merge)`, catch clause `set()` |
| Registration | `userAdd.dart`, `db.dart` `AuthAdd` | list `userConf` shared by three pages, the state of each page, the dialog, apps pushed on top of it, document `<uid>/profile` | typing, choosing, moving on, going back, cancel, OK |
| Home gate | `main.dart` `MyApp`, `MyHomePage`, `db.dart` `userCheck` | one stream of sign-in states, one check and one navigator per app; apps on top of apps | sign-in state arrives, check reads / fails / returns, change of tab, back |
| Sign in and out | `main.dart` `googleLogin`, `profile.dart` logout dialog, `db.dart` `AuthService` | `auth.currentUser`, calls under way | sign in, sign out, and their ends |
| Profile edits | `profile.dart` tiles, `push.dart` `Push`, `Push2`, `Push4` | fields of `<uid>/profile`, the map of each tile, data and text of the form | open, type, choose, rebuild, confirm, leave |
| Profile picture | `push.dart` `Push5`, `check.dart` `getImageUrl` | picked file, uploads under way, file in Storage | pick, upload, read URL |
| Chart page | `check.dart`, `lineChart.dart` | `sugarCount`, target and record read once | rows of the history, expanding it, distance to the target, faces, seven newest points and their labels |
| PDF export | `outputPDF.dart`, `pdfPreview.dart`, `pdfcreator.dart` | title, `outWeek` | choose days, preview, create the document |
| Write path of the client | `leveldb_mutation_queue.cc`, `local_store.cc`, `sync_engine.cc`, `remote_store.cc`, `stream.cc`, `write_stream.cc`, `grpc_stream.cc` | mutation queue per user, next batch id, callbacks, write pipeline, write stream with its timers | write, wait, send, answer, fail, reconnect, change of user, restart |
| Read path of the client | `event_manager.cc`, `query_listener.cc`, `document_reference.cc`, `view.cc`, `remote_store.cc`, `remote_event.cc`, `online_state_tracker.cc` | listeners, views, targets, outstanding responses, online state with its timer | listen, unlisten, deliver, open, close, snapshot, target error, timeout |
| Static parts | `Tabledata.dart`, `pricePoints.dart`, `const/`, `models/`, `firebase_options.dart` | none | none |
| Runners, other plugins and pods | `android`, `ios`, `linux`, `macos`, `windows`, `web` | none of the app's | none of the app's |

### How they interact

* Push3 calls `updateUser` and does not wait for it; it pushes a whole new
  `MyApp` instead. So calls overlap, and pages read the record while a call runs.
* `updateUser` awaits the read and then the write, and evaluates
  `auth.currentUser` anew after each await; sign out in between changes it.
* Several devices of one account share the documents and nothing else.
* `MyHomePage` calls `userCheck` in `build`, at every sign-in state and change of
  tab, and sends a user without a profile to the registration; the last page of
  the registration calls `AuthAdd` without waiting for it and pushes a new
  `MyApp`, whose home page checks again.
* A form shares a map with the tile that opened it, while the profile page below
  goes on building tiles from its stream.
* The chart page parses the target that `AuthAdd` or an edit has stored, once from
  a read and once from a stream.
* Every `get()`, `snapshots()`, `set()` and `update()` is a task of the client's
  worker queue. A `set()` completes when the server has answered; a `get()` waits
  for the server until the client counts as offline.

### What is hard here, and what makes each part correct

* **Record.** Read, choose, write is not atomic; the catch clause, meant for the
  first reading, replaces the record after any error; the newest field is taken
  for the field of today. Correct means: one reading per day, no reading lost,
  today's press changes today's reading only, in the record of the account that
  pressed, and a queued reading reaches the record.
* **Registration.** A list that only grows is indexed by position, and old
  dialogs stay reachable below new apps. Correct means: `AuthAdd` finds its five
  entries, stores what the pages show, stores a number where the chart parses
  one, and does not overwrite a profile that exists.
* **Gate.** An error counts as "no profile"; every app hears of a change of
  account at a time of its own, and pages opened before stay. Correct means: the
  home page is shown for an account with a profile only, the login page when
  nobody is signed in, a registered user is not asked again, and a signed-in user
  is not left before a spinner.
* **Forms.** Typed text is a local variable of `build`; values are written back
  from old snapshots. Correct means: what is stored is what is shown, and nobody
  changes what he did not touch.
* **Chart.** Off-by-one in lists cut by hand; two reads of one value.
* **PDF.** The number of readings is settled by one read of the record and
  applied to another, 31 readings meet 30 cells. Correct means: the document can
  be made, and shows the newest readings of the weeks chosen.
* **Write path.** Responses carry no batch id; connections break between commit
  and answer; batch ids are handed out again after a restart. Correct means: no
  write lost, none answered wrongly, none committed over a newer one, no future
  forgotten, and the queue drains.
* **Read path.** Answers to old listens arrive late; a timer decides between
  waiting and the cache. Correct means: no assertion fails, client and server
  agree on the targets, what counts as in sync is fresh, and every `get()` is
  answered once.

`PROJECT.json` lists these hazards at their lines.

## 2. Plan

Done: `RecordStore` with its abstract promise `DailyLog`, `Registration`,
`PdfExport`, `WritePipeline` and `WatchListen` on `Stream`, `Chart` and `Pages`,
`AuthGate`; every invariant a passing run checks is also proved.

Left, in this order:

1. An abstract queue that commits every write at least once and in order, as the
   promise of `WritePipeline`; `RecordStore` uses the stronger exactly-once queue
   (section 3), which for writes that set a field to a value gives the same
   documents as long as `NewestCommittedLast` holds and the server takes no
   request of an old connection late.
2. Queries of several documents, limbo documents and existence filters of the
   read path, which this app does not use.

## 3. Modules

| Module | Role |
| --- | --- |
| `RecordStore` | component: the record and `updateUser` |
| `DailyLog` | abstract specification of the record |
| `RecordStoreProofs` | lemmas, inductive invariant, safety theorems |
| `RecordStoreRefinement` | `RecordStore` implements `DailyLog` |
| `Registration` | component: registration, and a single app's check |
| `RegistrationProofs` | lemmas, inductive invariant, safety theorems |
| `PdfExport` | component: form, preview pages, document |
| `PdfExportProofs` | lemmas, inductive invariant, safety theorems |
| `AuthGate` | composition of gate, sign-in, record page and registration: apps on top of apps |
| `AuthGateProofs` | lemmas, inductive invariant, safety theorems |
| `Chart` | pure operators of the chart page and the line chart |
| `Pages` | composition of chart page, profile page and forms, on `Chart` |
| `PagesProofs` | lemmas, inductive invariant, safety theorems |
| `Stream` | the state machine of a gRPC stream, shared by both paths |
| `WritePipeline` | write path of the Firestore client |
| `WritePipelineProofs` | lemmas, inductive invariant, safety theorems |
| `WatchListen` | read path of the Firestore client |
| `WatchListenProofs` | lemmas, inductive invariant, safety theorems |
| `MC...` | the instances for TLC |

Operators introduced as "Mutant of X" are faulty variants of a definition. No
specification uses them; put in the place of X, each makes TLC report the
property that `PROJECT.json` pairs with it.

### RecordStore

`records[a][t]` is the field `t` of `a/record`; `user[d]` is `auth.currentUser`
on device `d`. A call of `updateUser` is a slot `c` with its program counter
`pc[c]`, its parameters `s[c]`, `i[c]`, the account `from[c]` whose record it
reads, the fields `seen[c]` of the snapshot it was given, and the account, field
and place in the queue of its write (`to`, `key`, `ahead`). `copy[d][a]` is the
record in the cache of device `d`.

| Action | Code |
| --- | --- |
| `Submit` | the button of Push3 up to the first await of `updateUser` |
| `GetReturns`, `GetCached`, `GetThrows` | the client's worker queue answers `get()`: with the server's document, offline with the cached one, or with an error |
| `Proceed` | the call goes on: `li!` throws on a missing document and the catch clause runs; else `newList.contains`, `list[0]` or `s`, then `set()` |
| `Caught` | the exception of a read or a merge reaches the catch clause |
| `WriteCommits` | the server applies the write; with merge the other fields stay |
| `WriteRejected` | the server refuses; the catch clause will run if a merge was awaited |
| `RecordArrives` | the listener of the chart page brings the cache up to date |
| `Crash` | the app is killed and started again |
| `SignIn`, `SignOut` | login page, where a second tap may replace the account, and logout dialog |

Time stamps are instants `0..Horizon`, whose order is that of the strings
`DateTime.now().toString()`; `Day` gives the calendar day that `DateFormat`
prints, and is monotonic in the instant. The clock is an input: a press may be
stamped with any instant, also an earlier one (a clock set back, another time
zone).

The queue of writes is that of `LevelDbMutationQueue`, kept per user: a write
joins it at once (`Enqueue`) and leaves it when the server has answered
(`Settle`); a read sees the queued writes as overlays on the server's document; a
queue is sent in order while its account is signed in, and survives a restart.
Here the server commits each write exactly once. `WritePipeline` shows what the
client really guarantees: at least once and in order, the newest write last,
unless the server takes a request of an old connection late. A
second commit of the same value to the same field changes nothing unless another
device wrote the field in between; that case is left out here.

A snapshot is made on the worker queue, and the Dart continuation that chooses the
field and queues `set()` runs later. The two are separate actions, so that two
calls of one device may go on with the same snapshot, or a call with one made
before the write of another was queued. Offline, `get()` answers with the cached
document and the queued writes on top, and throws if that gives none.
`GetReturns`, `GetCached` and `GetThrows` are all enabled whenever a call waits:
whether the device counts as offline is the business of `WatchListen`.

`anomaly` is a history variable. It collects what has gone wrong (`threw`,
`rejected`, `switch`, `missed`, `overlap`, `race`, `skew`), and the properties say
exactly which of these each of them survives. `missed` is a call that goes on with
a snapshot that is not what a read would find now: two overlapping calls that both
find no reading of the day make two fields, and two first readings that both find
no document lose one. Overlap as such is not excused by `OneRecordPerDay` and
`HistoryKept`: calls may overlap in every other way. `switch` is another account
signed in before a call has queued its write. It is in no guard of `Spec`.

### Registration

`wiz` is the app on top: its page, the list `userConf`, the state of the pages,
and how often the user went back. `under` holds the apps below, each showing the
dialog it was left in. `profile` is the document. Going back destroys the state
of the page that is left; the list belongs to the first page and stays. A system
back pops the outermost app, a swipe on the first page of an app pops that app
(`PopApp`). A tap on a tab rebuilds the home page and repeats the check.

The write of `AuthAdd` takes effect, or is refused, together with OK: the check
of the new app does not run before it. Numbers are numbers although `AuthAdd`
stores them as text, because the chart and Push4 parse that text back; an entry
of `Name` or `Gender` stands for text that does not parse. The picture's field
and the reading pages above the home page are left out.

### PdfExport

The record is an interval `first..last` of readings numbered in the order of
their days: recording a new day extends it (`Record`), the catch clause of
`updateUser` replaces it by its newest (`Replace`); a reading that overwrites one
of its day changes nothing here. `outWeek` and `titled` are the state of the
form, `reads` the buttons whose read is awaited, `pages` the preview pages with
their number of readings, title and document. A button reads the record and then
opens a page with what the form says *then* (`ReadReturns`); `Create` is
`Pdfcreator.create` with its own read, run when the page is laid out and again
when it is printed or shared. `list..length = w` throws when the list would have
to grow, because a list of sets has no null to fill it with (`failed`); a failed
read is `offline`. `Printed` is the two halves of fifteen rows. The account does
not change while the export is open, as the logout tile lies below it.

### AuthGate

`apps` holds every `MyApp` made since the start: the sign-in states its stream has
not delivered, its first page (`splash`, `login`, `loading`, `home`, `blank`), the
account and the answer of its check, and the routes above that page. A route is
the record page, the registration, or another app. `Top` follows the routes to
the app on the screen.

* `AuthEvent` is the builder of `MyApp`: each state builds the home page with a new
  check, or the login page; routes above it stay, since they belong to the
  navigator and not to the page.
* `CheckReads`, `CheckFails`, `CheckReturns` are `userCheck` and the builder of
  `MyHomePage`: "no" pushes the registration and leaves an empty page (`blank`).
* `PressRecord` pushes an app on the navigator of the page's own app, `Register` on
  the outermost, since its button is in a dialog and `showDialog` uses the root
  navigator. A system back pops the outermost navigator (`Back(1)`), the arrow of
  a page that of its own app (`Back(Top)`), and a swipe over the first page of the
  app on top pops that app from the one it lies on, since the app's own navigator has
  nothing to pop; what lies on a popped route is gone.
* `Register` is seen at once; the server may still refuse it (`RegistrationRefused`),
  and the program sees no profile any more. `registered` is what the program sees,
  `waiting` what the server has not accepted. A registration of an account that has
  a profile is not refused here.
* Several sign-ins may be under way (`attempts`), because the button stays; each
  ends with an account, or with an exception that is caught.

`back`, `raced`, `overtaken` and `unsaved` are history; the properties name them as
the cases they do not cover, and each of them is needed.

### Chart and Pages

`Chart` has the pure parts: a record is the sequence of its readings by day, `Line`
and `Labels` are the two pieces of code that cut it to seven, `ItemCount`, `IsRow`
and `ExpandTile` the list of rows with its last tile.

`Pages` has one user on one device: a tab, the tiles of the profile page, and at
most one form. `form.param` is the map the form was given, `form.data` what its
button would store, `form.shown` what its field shows. `Rebuild` is any change of
the screen (`MediaQuery`): Push and Push4 start again from their map with a new
controller; Push3 forgets its data, but its field keeps the text, so that the
button asks for a number that is shown; Push2 keeps its choice in the map, which
it shares with the tile until the tiles are built again (`form.shared`). `profile` is the
server's, `copy` the one in this device's cache, `queue` the updates the server
does not have. `View` is the newest queued value of each field, else the copy's:
a new listener raises its first snapshot from the cache, and an edit of the other
device is seen only when `ProfileArrives`. `Settled` is the same over the server's
profile, so that the fields in `Behind` are those in which this device shows
something older. The record has no cache of its own: `record` is what this
device has, and a reading of the other device is one that arrives. The chart page
reads target and record once (`TargetRead`, `LineRead`), as this device has them; the
rows follow streams.

### Stream, WritePipeline, WatchListen

`Stream` is `stream.cc`: states, the close counter that invalidates old token
requests, the idle timer. The backoff before a restart is a state that
`BackoffEnds` leaves; its length is left out.

`WritePipeline`: `queue[u]` is the LevelDB table of user `u`, `next` the next batch
id, `pipeline` the write pipeline, `wire`, `acks`, `final` the connection. Every
action is a task of the worker queue together with all it calls: a result removes
the batch, completes its callback, releases waits and refills the pipeline. A
restart keeps the tables only. `late` are the requests of the connection that was
closed last, which the server may still take in their order (`LateCommit`). Nothing
fences them: the handshake carries no stream token (`write_stream.cc:81`), so what
is left of them when the server greets a new connection may be taken at any time
(`stray`, `StrayCommit`). A write that several old connections left behind counts
once there. `crossed` holds the writes that were committed so; where a property
depends on it, the exception `Crossed(u)` says that an old request of that user was
taken after a newer connection had been greeted.

`WatchListen`: a document stands for its query and its target. `queries` are the
listeners of `EventManager`, `current` the views in sync, `targets` what RemoteStore
listens to, `due` the outstanding responses of the aggregator, `tracker` the online
state. A get() is a listener whose first good event removes it; the removal runs
on the user's executor (`DeliverEvent`) and the worker queue. The server answers
requests in order, and sends a global snapshot when all it watches is sent. Two
cases are named by history variables:

* `unarmed`: the last listener goes while the stream is starting, which resets the
  online state to Unknown and cancels the timer (`remote_store.cc:172`), and another
  listener comes before the attempt has ended. The stream counts as started, so
  no timer is armed, and a get() may wait for the server without a limit,
  although `online_state_tracker.cc:47` wants a timeout for attempts that neither
  succeed nor fail.
* `stray`: the server rejects a target for which the client has another request
  under way. The error is taken for the answer to the wrong listen, and the
  counts of outstanding responses no longer match.

## 4. Runs

| Run | Instance | Shows |
| --- | --- | --- |
| `devices` | 1 account, a device with two calls and one with one, 3 instants on 2 days, numbers 200 and 201, at most 2 kinds of anomaly, `missed`, `race`, `switch` and `rejected` only alone | `Inv`, `OneRecordPerDay`, `HistoryKept` |
| `device` | 2 accounts, 1 device with 2 calls, at most 1 kind, at most 2 fields in both records | `TodayOnly`, `OwnRecordOnly` |
| `quiet` | 3 calls on 2 devices, no anomaly | `ImplementsDailyLog`, `QueuedReadingStored` |
| `today` | 1 account, 1 device with 2 calls | violated: `SetsToday` |
| `registration` | 1 name, 1 gender, 2 numbers, list of up to 8, up to 2 apps below | `NoRangeError`, `Inv`, `SavedAsShown`, `TargetIsNumber`, `ProfileKept` |
| `thisinfo` | 2 names, 2 genders, first app only | violated: `RegistersThisInfo` |
| `export` | records of length 0, 6 and 29 that grow or are replaced, up to 2 previews | `Inv`, `NoGrowError`, `WeeksShown` |
| `pipeline` | 2 users, 4 writes, pipeline of 3, up to 2 faults, 1 wait and the writes taken as strays, at most 5 of these together | `Inv`, `NoWriteLost`, `AnswersTrue`, `WaitsTruthful`, `NewestCommittedLast`, `WritesDrain` |
| `rejected` | 1 user, 4 writes, pipeline of 4, no fault | violated: `ErrorMeansRefused` |
| `watch` | 1 document, a get() and a listener, 2 versions, 2 faults | `Inv`, `TargetsWatched`, `FreshWhenSynced`, `AnsweredOnce`, `GetAnswered`, `GetReturns` |
| `pages` | 1 name, 2 genders, numbers 100, 130, 250, records of 0, 1, 7, 8, 15, 31, 32 readings, up to 3 edits and readings | `Inv`, `ShownIsStored`, `HistoryShown`, `ChartTrue`, `PictureLast`, `UntouchedKeeps` |
| `gate` | 2 accounts, 3 apps, 1 sign-in at a time, 2 changes of account, 1 fault | `Inv`, `GateChecked`, `LoginShown`, `ReadingHasUser`, `NotAskedAgain`, `Served` |

**Bounds.** Slots of `RecordStore` are reused, so behaviours have any number of
calls; two on a device give every interleaving of a pair, the third in `devices` and
`quiet` another device. Two instants of one day and one of the next are the least
that tell "same day" from "same field" and let a call of the old day meet a
reading of the new one. 200 and 201 are the two sides of the limit.
`MaxAnomalies` bounds how many kinds of trouble one behaviour combines, never how
often one of them happens; every property excuses or admits each kind by itself.
`MCView` drops the locals of calls that have ended, which no action or property
reads.

A list of 8 lets the user pass the first pages several times, or the last one
twice (2 + 3 + 3); beyond the first OK only lists of five are followed
(`ShortAfterOk`). The count of backs saturates at `MaxBacks`, beyond what any
property tells apart. The records of `export` are empty, around one week, and
around the 30 cells and the 31 readings of the largest choice.

A pipeline of 3 with 4 writes is full and has a write waiting behind it; the
bound `kMaxPendingWrites` is 10 in the code and is a parameter here. Two faults
are the least for a fault during the recovery from another. Writes are issued in
one order only (`IssuedInOrder`), since nothing else tells them apart, and for the
same reason one user issues the first write (`FirstByFirstUser`): every behaviour is
such a one with the two users renamed. In `watch` a
second listener of the same document is what makes targets come and go under
requests; with more documents or listeners the same properties were found to hold
as far as the state space allowed, except that `FreshWhenSynced` then needs its
exception `stray`.

The lengths of the record in `pages` are those next to a change of the charts (7
points, rows in steps of 8 up to 32). `MCFew` keeps long records apart from long
behaviours, as the forms do not look at the record. 100 and 130 fall into
different classes against each other as reading and target, 250 is above the
limit. Three apps in `gate` are the least with one in the middle; two changes of
account let a user sign out and another sign in. One sign-in at a time is enough for
a second one to replace an account: the button can be tapped again after the first
has ended and before the app has heard of it. The one fault is a failed check, a
refused registration or a restart.

**Constraints and liveness.** The counters in the constraints of `pipeline` and in
the guards of the other modules only grow, so a bounded instance leaves out whole
behaviours with more trouble, and never the end of one it looks at: no behaviour
is cut off in a loop. The two runs with liveness in `RecordStore` and
`WritePipeline` use no symmetry; `MCView` identifies only states with the same
future.

**Fairness.** `FairQuietSpec` assumes weak fairness of the server's answer to each
call's queued write: the client keeps sending the first write of its queue as
long as its account is signed in. `WritePipeline`: tokens arrive, backoff ends,
the server greets and answers, and responses are read; faults are finitely many,
nothing is assumed of the app. `WatchListen`: tokens, timers, the worker queue and
the user's executor; nothing of the server for `GetAnswered`, a server that
answers for `GetReturns`. `AuthGate`: FirebaseAuth delivers its states, a check
returns, and sign-out ends; nothing of the user or of sign-ins. That the get() of a
check returns is an assumption: the run `watch` shows it for a server that answers,
and for a silent one in all cases but `unarmed`, in which a user may stay before
the spinner.

**Deadlock** is checked except in `pipeline`, `rejected` and `watch`, where a client
with nothing to do rests, and in `gate`, where a user who went back from the
registration is on an empty page without a button, until he restarts the app.

**What the violated runs show.**

* `today`: a press just before midnight whose read returns after a later press has
  stored the next day's reading writes into `list[0]`, the newest field, and so
  changes the other day's reading, while the page says 今日の血糖値を設定しよう。
  (`push.dart:353`).
* `thisinfo`: going back one page and on again leaves the earlier entries in the
  list, so OK stores these although the dialog asks この情報で登録しますか
  (`userAdd.dart:759`).
* `rejected`: the server commits two writes, refuses the third and ends the stream
  while the client is writing the fourth. The failed write makes
  `GrpcStream::OnOperationFailed` finish the call (`grpc_stream.cc:312`), which
  cancels the completions of the reads under way (`grpc_stream.cc:218`), with a
  response that has arrived. The refusal is then taken for the first write of the
  pipeline, which the server has committed: its future fails and it leaves the
  queue. gRPC lets a write fail before the responses are read: a stream that was
  closed from the other end fails its writes at once (`chttp2_transport.cc`,
  `perform_stream_op_locked`), while received messages wait to be read
  (`lib/surface/call.cc`).

## 5. Proofs

All theorems hold for every value of the constants under `ConstantsAssumption`
of the module (`BoundsAssumption` in `PdfExport`, `GateAssumption` in `AuthGate`,
`PipelineAssumption`, `PagesAssumption` and `WatchAssumption` in the modules named
after them): finite time, a monotonic calendar, special values distinct from
ordinary ones, finitely many users and documents, a get() that is no other
listener, a pipeline of at least one write, and bounds that are natural numbers.
`Account`, `Device`, `Call`, `Name`, `Gender`, `Picture`, `Write`, `Get`, `Watcher` may
be any sets. The fault bounds are arbitrary, so that the theorems hold for any
number of faults.

**RecordStore.** `Inv` is inductive. The properties alone are not: one field per
day now does not exclude a queued write that adds another. Hence

* `QueueOrder`: a queue is a strict total order;
* `SameAccount`, `OneDevice`, `OneReader`: what the absence of `switch`, `race`,
  `overlap` means for the calls in flight, those with a snapshot in hand included;
* `UniqueDays`: one field per day in the document *and after each prefix of a
  queue*, taking into account the writes that replace the document;
* `ResetsNothing`: a queued replacement is first in its queue and the document
  does not exist, so it loses nothing;
* `InStampOrder`: a reading call is stamped after everything it can find or has
  found, on the server, in the queue or in a cache, so the newest field of today's
  day is chosen.

In the step `Proceed` the absence of `missed` says that the snapshot in hand is what
a read would find now, which is what the first two need; `TodayOnly` does without.

`OneRecordPerDay` follows from `UniqueDays`, `HistoryKept` from `ResetsNothing`,
`TodayOnly` from `InStampOrder`, `OwnRecordOnly` from `SameAccount`.
`Refinement` adds that without anomaly all calls of an account are queued in the
order of their presses; a `WriteCommits` is then a `Record` step of `DailyLog`,
`Submit` an `Ask`, `Crash` a `Drop`, and everything else stutters.

**Registration.** `Inv` says how long the list is on each page, what it holds if
the user never went back, that its fourth entry is a number or it has at most
one entry too many, for the app on top and for those below, and that a
registered user is on no page of the registration unless something odd happened.

**PdfExport.** `Inv` says that a preview's number of readings is the smaller of
the choice and the length read, and that a record that was not replaced has at
least that length. `NoGrowError` is a part of it; `WeeksShown` follows with the
lemma that every entry up to the thirtieth has a cell, as four weeks are 28.

**AuthGate.** Assumes `GateAssumption` only: nobody is not an account, and there may
be one app. `GateChecked` is not inductive, as a check that has been answered but has
not returned, and a sign-in state still to be delivered, decide what the page
will be. `GateInv` says what each app knows (`Knows`): the last state to be delivered
is that of the account signed in; with none to come, the check under way asked for
that account; a check that said yes asked for an account with a profile; and with
none to come the home page belongs to an account with a profile. A profile is never
deleted but by a refusal of its registration, which `refused` remembers, so a yes
stays true of the two together (`Profiled`). The proof goes app by app (`ToldKnows`,
`DeliveredKnows`, `CheckingKnows`, `RoutedKnows`, `GoneApp`) and then over the list;
nothing is needed of which app is on top or which ones a step back removes.

The other properties are about the app on the screen. `Tree` states the tree in
terms of the routes: an app on a route is there, newer than the app below it, and
on no other route. The functions by which `Top` and `Covered` are defined exist
because of it (`LeadsExists`, `HoldsExists`, made from the newest app down), and a
set of apps has a newest one (`HasNewest`), which stands for the induction: the
app that is led to is there and uncovered (`LeadsTo`), a page on top of app `k`
leaves the screen or moves it to `k` (`LeadsOn`), a pushed app is on it
(`LeadsPushed`), and what goes with a route is closed under routes and entered
through that route only (`HoldsAll`), so that a step back leaves a tree
(`TreeBack`). `Scene` then says that without a step back or a race a page above the
app on the screen means that somebody is signed in and not signing out: the two
sign-out steps need a first page on the screen, and a second sign-in is a race.
`LoginShown`, `ReadingHasUser` and `NotAskedAgain` follow from it.

**WritePipeline.** `NoWriteLost` and `AnswersTrue` are not inductive: they do not
say which write a response or a removal is about. `Inv` does, from the table
outwards: ids grow along a queue and a queue is the end of what its user has
issued (`IdsIncrease`, `QueuesHoldIssued`); the pipeline is the longest prefix of
the queue it may hold (`PipelineIsPrefix`); responses, then requests under way, are
exactly the pipeline (`WireMatchesPipeline`), so that the response that is read
belongs to the first batch; responses are about commits, a refusal is about the
first write not taken (`ServerKnows`). `NewestCommittedLast` needs in addition that
what the server may still take late is queued, hence will be sent again
(`LateStillQueued`), and that the last commit is no older than anything that left
the queue (`LastCommitNewest`), both for a user of whom no request was taken across
connections (`Crossed`): what is stray is committed at a time of the server's
choosing, when the write may no longer be queued, and then nothing covers it; `WaitsTruthful` that a wait is keyed by a queued
batch with nothing it waits for behind it (`WaitsKeyed`). `IInv` is `Inv` with the
promises; the assertions follow (`AssertionsFollow`). The proof treats the changes
of the table (issue, remove), of the stream (start, open, close) and of the pipeline
(fill) as lemmas, and each action as a few of them.

**Pages.** `Inv` ties tiles, forms and what the chart has read to `View`, what this
device shows and what a cached snapshot gives, each but for the fields known to have
changed since (`outdated`, `stale`, `moved`, `newer`). `UntouchedKeeps` needs more for
the server: an untouched form keeps what the server will have only if the device was
not behind in that field, and `Behind` names that case.
What an update of one field does to `View` when it is queued, committed or
overtaken by another device is in the lemmas `ViewUpdated` and `ConfirmUpdates`.
`IInv` adds `ShownIsStored` and `UploadsTrue`: unless uploads were mixed, at most the
picture confirmed last is under way. `HistoryShown` and `ChartTrue` rest on lemmas
about the operators of `Chart` for sequences of any length (`ReverseOf`, `CutOf`,
`LineOf`): the two ways in which the code cuts and reverses give the same seven
readings.

**WatchListen.** `IInv` has four parts. The listeners: an error is the last event
of a listener, which is gone by then. The stream with the tracker: the timer runs
only in an attempt that has not failed. The wire: the outstanding responses of a
target are the requests and the responses under way for it, and the last
response tells whether the server watches it. And what is fresh: an old version
under way is followed by the response to a later request (`VersionsFresh`), a
global snapshot counts for a target only after a version for its present listen
(`SnapshotsFresh`), and so do the versions the server has sent (`SentFresh`). The
last part is why `FreshWhenSynced` holds: with no response outstanding nothing
older is under way, so the version that is read is for the present listen. A
target error that is not `stray` has met its only outstanding response, so counts
still match after the target is dropped. One request or response more or less is
a lemma about the cardinality of an index set. Watching again when a stream
opens uses that the sequence of requests holds every target once.

**Only model-checked:** the liveness properties (`QueuedReadingStored`,
`WritesDrain`, `GetAnswered`, `GetReturns`, `Served`), which are out of the prover's
reach, and the violated properties.

## 6. Not modelled

Layout, toasts, animation and logging are left out. The static parts, the
generated configuration, the platform runners and the other pods have no logic of
this program. `readProfile` and `weekSugar` are never called, nor is
`readAuthProfile`; `recordCheck` only selects what the chart and the profile page
show. The download URL of the picture and its cache belong to Storage and Flutter.

Of the Firestore client: queries of several documents, limbo documents, existence
filters, resume tokens, transactions, bundles, the garbage collection of the remote
document cache (`RecordStore` and `Pages` keep the cached copy of one document), and
the persistence in memory are
left out; the app uses none of them, or the models abstract from them. gRPC,
BoringSSL, LevelDB and the other pods are below the level of these models; what
the client assumes of gRPC (operations of a call complete in order) is used in
`rejected`.
