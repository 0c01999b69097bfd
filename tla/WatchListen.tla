---------------------------- MODULE WatchListen ----------------------------
(***************************************************************************)
(* How the Firestore client reads documents for the app: get() and         *)
(* snapshots() register listeners with EventManager, SyncEngine keeps a    *)
(* view of each document that is listened to, RemoteStore watches it over  *)
(* the watch stream, and OnlineStateTracker decides when a get() may be    *)
(* answered from the cache.  Every action is one task of the client's      *)
(* worker queue, one of the user's executor (DeliverEvent), or one step of *)
(* the server.                                                             *)
(*                                                                         *)
(* A document stands for the query and the target that watch it: its       *)
(* target id is kept in the target cache and is the same at every listen.  *)
(* Documents have versions, version 0 being the one that does not exist.   *)
(* The server is not part of the repository.  It answers every request in  *)
(* order, and sends a global snapshot when what it watches is up to date.  *)
(* Queued writes, limbo documents and existence filters are left out.      *)
(***************************************************************************)
EXTENDS Stream, Integers, Sequences, FiniteSets, SequencesExt

CONSTANTS
    Doc,         \* documents
    Get,         \* calls of get(), each made at most once
    Watcher,     \* listeners of snapshots(), each added at most once
    MaxVersion,  \* bound: versions of a document
    MaxFaults    \* bound: faults of the environment in one behaviour

ASSUME WatchAssumption ==
    /\ IsFiniteSet(Doc)
    /\ {} \notin Doc                    \* NoDoc is none of them
    /\ Get \cap Watcher = {}
    /\ MaxVersion \in Nat
    /\ MaxFaults \in Nat

VARIABLES
    \* EventManager and QueryListener
    queries,    \* queries_: the listeners of each document
    raised,     \* get() calls whose initial event was raised
    events,     \* events of each get() in the queue of the user's executor
    muted,      \* get() calls whose listener is muted, to be removed
    \* SyncEngine and LocalStore
    current,    \* documents whose view is in sync
    cache,      \* the version of each document in the cache
    \* RemoteStore
    enabled,    \* is_network_enabled_
    targets,    \* listen_targets_
    stream,     \* watch_stream_
    \* WatchChangeAggregator: the state of each target
    due,        \* outstanding_responses_
    heard,      \* targets with current_
    pending,    \* pending document updates: a version, or Nothing
    \* OnlineStateTracker
    tracker,    \* state_, watch_stream_failures_, online_state_timer_
    \* the connection of the watch stream, and the server
    up,         \* requests the server has not taken
    down,       \* responses the client has not read
    sent,       \* what the server has sent of each target it watches
    version,    \* the documents at the server
    \* history
    doc,        \* the document of each listener that was added
    answers,    \* what each get() returned
    since,      \* version at the server when the view of a document was made
    unarmed,    \* the online state was reset while the stream was starting
    stray,      \* a target error met another request for its target
    faults      \* faults so far

listening == <<queries, raised, events, muted, doc, answers>>
views == <<current, cache, since>>
aggregator == <<due, heard, pending>>
channel == <<up, down, sent>>
vars == <<listening, views, enabled, targets, stream, aggregator, tracker,
          channel, version, unarmed, stray, faults>>

kMaxWatchStreamFailures == 1
OnlineState == {"Unknown", "Online", "Offline"}
Tracker == [online : OnlineState, failures : 0..kMaxWatchStreamFailures,
            timer : BOOLEAN]
Listener == Get \cup Watcher
Version == 0..MaxVersion
Nothing == -1                           \* no version
NotWatched == -2                        \* not a target at the server
NoDoc == {}
Request == [op : {"watch", "unwatch"}, doc : Doc]
Response ==
    [kind : {"added", "removed", "error", "snapshot"}, doc : Doc \cup {NoDoc}]
        \cup [kind : {"current"}, doc : Doc, version : Version]
Event == [from : {"server", "cache", "error"}, version : Version]

TypeOK ==
    /\ queries \in [Doc -> SUBSET Listener]
    /\ raised \in SUBSET Get
    /\ events \in [Get -> Seq(Event)]
    /\ muted \in SUBSET Get
    /\ current \in SUBSET Doc
    /\ cache \in [Doc -> Version]
    /\ enabled \in BOOLEAN
    /\ targets \in SUBSET Doc
    /\ stream \in StreamType
    /\ due \in [Doc -> Int]
    /\ heard \in SUBSET Doc
    /\ pending \in [Doc -> Version \cup {Nothing}]
    /\ tracker \in Tracker
    /\ up \in Seq(Request)
    /\ down \in Seq(Response)
    /\ sent \in [Doc -> Version \cup {Nothing, NotWatched}]
    /\ version \in [Doc -> Version]
    /\ doc \in [Listener -> Doc \cup {NoDoc}]
    /\ answers \in [Get -> Seq(Event)]
    /\ since \in [Doc -> Version]
    /\ unarmed \in BOOLEAN
    /\ stray \in BOOLEAN
    /\ faults \in 0..MaxFaults

-----------------------------------------------------------------------------
(* OnlineStateTracker.  A new state is told to the views and listeners by  *)
(* Broadcast, below.                                                       *)

UpdateState(o) == [online |-> o, failures |-> 0, timer |-> FALSE]

\* An attempt to connect begins: after ten seconds without an answer the
\* client counts as offline.  Failures already counted mean it does already.
HandleWatchStreamStart(k) ==
    IF k.failures # 0 THEN k
    ELSE [online |-> "Unknown", failures |-> 0, timer |-> TRUE]

\* The counter is compared only with 0 and with the maximum, and is kept at it.
HandleWatchStreamFailure(k) ==
    LET n == IF k.failures < kMaxWatchStreamFailures THEN k.failures + 1
             ELSE k.failures
    IN  IF k.online = "Online" THEN [k EXCEPT !.online = "Unknown"]
        ELSE IF n >= kMaxWatchStreamFailures
             THEN [online |-> "Offline", failures |-> n, timer |-> FALSE]
             ELSE [k EXCEPT !.failures = n]

-----------------------------------------------------------------------------
Init ==
    /\ queries = [d \in Doc |-> {}]
    /\ raised = {}
    /\ events = [g \in Get |-> <<>>]
    /\ muted = {}
    /\ current = {}
    /\ cache \in [Doc -> Version]
    /\ enabled = TRUE
    /\ targets = {}
    /\ stream = NewStream
    /\ due = [d \in Doc |-> 0]
    /\ heard = {}
    /\ pending = [d \in Doc |-> Nothing]
    /\ tracker = UpdateState("Unknown")
    /\ up = <<>>
    /\ down = <<>>
    /\ sent = [d \in Doc |-> NotWatched]
    /\ version \in [Doc -> Version]
    /\ \A d \in Doc : cache[d] <= version[d]
    /\ doc = [l \in Listener |-> NoDoc]
    /\ answers = [g \in Get |-> <<>>]
    /\ since = [d \in Doc |-> 0]
    /\ unarmed = FALSE
    /\ stray = FALSE
    /\ faults = 0

-----------------------------------------------------------------------------
(* Listeners and views.                                                    *)

Listening == UNION {queries[d] : d \in Doc}

\* The listeners in L get an event, a snapshot from the server if the view is
\* in sync and from the cache if not, or an error; for those of get() it is
\* queued in the user's executor.  ShouldRaiseInitialEvent and
\* ShouldRaiseEvent are the conditions on L where Raise is used.
Raise(L, error) ==
    /\ raised' = raised \cup (L \cap Get)
    /\ events' = [g \in Get |->
           IF g \in L
           THEN Append(events[g],
                       [from |-> IF error THEN "error"
                                 ELSE IF doc'[g] \in current' THEN "server"
                                 ELSE "cache",
                        version |-> cache'[doc'[g]]])
           ELSE events[g]]

\* Mutant of Broadcast: only the views hear of the new state.
BroadcastToViews ==
    LET offline == tracker.online # "Offline" /\ tracker'.online = "Offline"
    IN  /\ current' = IF offline THEN {} ELSE current
        /\ UNCHANGED <<raised, events>>

\* When the client becomes offline, no view is in sync any more, which is an
\* event for its listeners, and listeners that wait for a sync stop waiting.
Broadcast ==
    LET offline == tracker.online # "Offline" /\ tracker'.online = "Offline"
    IN  /\ current' = IF offline THEN {} ELSE current
        /\ Raise({l \in Listening : /\ offline
                                    /\ l \notin raised \/ doc[l] \in current},
                 FALSE)

-----------------------------------------------------------------------------
(* RemoteStore.                                                            *)

ShouldStartWatchStream(e, T, s) == e /\ ~IsStarted(s) /\ T # {}

\* Mutant of Send: the responses that are due are not counted.
SendUncounted(requests) == up' = up \o requests /\ UNCHANGED due

\* Requests go out, and a response is expected for each.
Send(requests) ==
    /\ up' = up \o requests
    /\ due' = [d \in Doc |-> due[d] +
                   Cardinality({i \in DOMAIN requests : requests[i].doc = d})]

Watch(d) == [op |-> "watch", doc |-> d]
Unwatch(d) == [op |-> "unwatch", doc |-> d]

\* The connection is gone, and the aggregator with it.
Disconnected ==
    /\ up' = <<>>
    /\ down' = <<>>
    /\ sent' = [d \in Doc |-> NotWatched]
    /\ due' = [d \in Doc |-> 0]
    /\ heard' = {}
    /\ pending' = [d \in Doc |-> Nothing]

\* The stream has closed and is now s: it is started again if it is needed.
OnWatchStreamClose(s) ==
    /\ IF ShouldStartWatchStream(enabled, targets, s)
       THEN /\ stream' = Start(s)
            /\ tracker' =
                   HandleWatchStreamStart(HandleWatchStreamFailure(tracker))
       ELSE /\ stream' = s
            /\ tracker' = UpdateState("Unknown")
    /\ Disconnected

\* EnableNetwork, with the stream as s and the tracker as k.
Enable(s, k) ==
    IF ShouldStartWatchStream(TRUE, targets, s)
    THEN /\ stream' = Start(s)
         /\ tracker' = HandleWatchStreamStart(k)
    ELSE /\ stream' = s
         /\ tracker' = UpdateState("Unknown")

\* Whether the state was reset while the stream was starting, and no attempt
\* with a timer has begun and no state was reached since.
Unarmed(reset) ==
    unarmed' = /\ reset \/ unarmed
               /\ tracker'.online = "Unknown" /\ ~tracker'.timer
               /\ IsStarted(stream')

-----------------------------------------------------------------------------
(* Tasks of the app.                                                       *)

\* A listener is added: it hears at once of a view that is in sync, or, when
\* the client is offline, of the cache.  The first listener of a document
\* makes the view and starts to watch.
AddQueryListener(l, d) ==
    /\ doc[l] = NoDoc
    /\ doc' = [doc EXCEPT ![l] = d]
    /\ queries' = [queries EXCEPT ![d] = @ \cup {l}]
    /\ UNCHANGED <<current, cache>>
    /\ Raise(IF d \in current \/ tracker.online = "Offline" THEN {l} ELSE {},
             FALSE)
    /\ IF queries[d] # {}
       THEN UNCHANGED <<since, targets, stream, due, tracker, up>>
       ELSE /\ since' = [since EXCEPT ![d] = version[d]]
            /\ targets' = targets \cup {d}
            /\ IF ShouldStartWatchStream(enabled, targets', stream)
               THEN /\ stream' = Start(stream)
                    /\ tracker' = HandleWatchStreamStart(tracker)
                    /\ UNCHANGED <<due, up>>
               ELSE /\ IF IsOpen(stream)
                       THEN /\ Send(<<Watch(d)>>)
                            /\ stream' = CancelIdleCheck(stream)
                       ELSE UNCHANGED <<due, up, stream>>
                    /\ UNCHANGED tracker
    /\ Unarmed(FALSE)
    /\ UNCHANGED <<muted, answers, enabled, heard, pending, down, sent, version,
                   stray, faults>>

\* Mutant of StopListening: the target is not unwatched.
StopListeningOnly(d) ==
    /\ targets' = targets \ {d}
    /\ UNCHANGED <<up, due>>
    /\ stream' = IF targets' = {} THEN MarkIdle(stream) ELSE stream
    /\ tracker' = IF targets' = {} /\ ~IsOpen(stream) /\ enabled
                  THEN UpdateState("Unknown") ELSE tracker
    /\ Unarmed(targets' = {} /\ ~IsOpen(stream) /\ enabled)

\* The target is unwatched.  With the last one a stream that is open becomes
\* idle; one that is not gives up its claim to an online state.
StopListening(d) ==
    /\ targets' = targets \ {d}
    /\ IF IsOpen(stream) THEN Send(<<Unwatch(d)>>) ELSE UNCHANGED <<up, due>>
    /\ stream' = IF targets' = {} THEN MarkIdle(stream)
                 ELSE CancelIdleCheck(stream)
    /\ tracker' = IF targets' = {} /\ ~IsOpen(stream) /\ enabled
                  THEN UpdateState("Unknown") ELSE tracker
    /\ Unarmed(targets' = {} /\ ~IsOpen(stream) /\ enabled)

\* A listener is removed, and with the last one of a document its view.  A
\* listener that an error has removed already is not found.
RemoveQueryListener(l) ==
    LET d == doc[l]
    IN  /\ \/ l \in muted /\ muted' = muted \ {l}
           \/ l \in Watcher \cap Listening /\ UNCHANGED muted
        /\ IF queries[d] = {l}
           THEN /\ current' = current \ {d}
                /\ StopListening(d)
           ELSE UNCHANGED <<current, targets, up, due, stream, tracker,
                            unarmed>>
        /\ queries' = [queries EXCEPT ![d] = @ \ {l}]
        /\ UNCHANGED <<raised, events, doc, answers, cache, since, enabled,
                       heard, pending, down, sent, version, stray, faults>>

\* Mutant of DeliverEvent: the listener is not muted.
DeliverUnmuted(g) ==
    /\ events[g] # <<>>
    /\ events' = [events EXCEPT ![g] = Tail(@)]
    /\ answers' = [answers EXCEPT ![g] = Append(@, Head(events[g]))]
    /\ muted' = muted \cup {g}
    /\ UNCHANGED <<queries, raised, doc, views, enabled, targets, stream,
                   aggregator, tracker, channel, version, unarmed, stray,
                   faults>>

\* Ever muted: it has answered with something else than an error.
Muted(g) == \E i \in DOMAIN answers[g] : answers[g][i].from # "error"

\* The user's executor runs an event of a get(): a muted listener ignores it,
\* an error is passed on, and a snapshot mutes the listener, has it removed,
\* and answers the call.  A document that is not in the cache is an error.
DeliverEvent(g) ==
    /\ events[g] # <<>>
    /\ events' = [events EXCEPT ![g] = Tail(@)]
    /\ IF Muted(g) THEN UNCHANGED <<answers, muted>>
       ELSE /\ answers' = [answers EXCEPT ![g] = Append(@, Head(events[g]))]
            /\ muted' = IF Head(events[g]).from = "error" THEN muted
                        ELSE muted \cup {g}
    /\ UNCHANGED <<queries, raised, doc, views, enabled, targets, stream,
                   aggregator, tracker, channel, version, unarmed, stray,
                   faults>>

-----------------------------------------------------------------------------
(* Tasks of the stream.                                                    *)

\* A token arrives: the stream opens, and every target is watched.
CredentialsArrive(c) ==
    /\ c \in stream.asked
    /\ stream' = IF Current(stream, c) THEN OnStreamStart(Answered(stream, c))
                 ELSE Answered(stream, c)
    /\ IF Current(stream, c)
       THEN LET order == SetToSeq(targets)
            IN  Send([i \in DOMAIN order |-> Watch(order[i])])
       ELSE UNCHANGED <<up, due>>
    /\ UNCHANGED <<listening, views, enabled, targets, heard, pending,
                   tracker, down, sent, version, unarmed, stray, faults>>

\* The stream closes with an error: no token, or a broken connection.
Fails(s) ==
    /\ faults < MaxFaults
    /\ UNCHANGED <<cache, doc>>
    /\ OnWatchStreamClose(Fail(s))
    /\ Broadcast
    /\ Unarmed(FALSE)
    /\ faults' = faults + 1
    /\ UNCHANGED <<queries, muted, answers, since, enabled, targets, version,
                   stray>>

CredentialsFail(c) ==
    c \in stream.asked /\ Current(stream, c) /\ Fails(Answered(stream, c))

ConnectionLost == IsOpen(stream) /\ Fails(stream)

BackoffEnds ==
    /\ stream.state = "Backoff"
    /\ stream' = BackoffElapsed(stream)
    /\ UNCHANGED <<listening, views, enabled, targets, aggregator, tracker,
                   channel, version, unarmed, stray, faults>>

\* The idle timer stops the stream.
IdleElapsed ==
    /\ stream.idle
    /\ UNCHANGED <<cache, doc>>
    /\ OnWatchStreamClose(Stop(stream))
    /\ Broadcast
    /\ Unarmed(FALSE)
    /\ UNCHANGED <<queries, muted, answers, since, enabled, targets, version,
                   stray, faults>>

\* Ten seconds without an answer.
OnlineStateTimeout ==
    /\ tracker.timer
    /\ UNCHANGED <<cache, doc, stream>>
    /\ tracker' = [tracker EXCEPT !.timer = FALSE, !.online = "Offline"]
    /\ Broadcast
    /\ Unarmed(FALSE)
    /\ UNCHANGED <<queries, muted, answers, since, enabled, targets,
                   aggregator, channel, version, stray, faults>>

-----------------------------------------------------------------------------
(* Responses of the server: OnWatchStreamChange.  Each one shows that the  *)
(* client is online.                                                       *)

Hears(kind) ==
    /\ down # <<>>
    /\ Head(down).kind = kind
    /\ down' = Tail(down)
    /\ tracker' = UpdateState("Online")
    /\ unarmed' = FALSE

\* Mutant of IsActiveTarget: responses that are due are not waited for.
IsTarget(d) == d \in targets

IsActiveTarget(d) == d \in targets /\ due[d] = 0

\* A watch request is confirmed: with the last response due the target is
\* active.
TargetAdded ==
    LET d == Head(down).doc
    IN  /\ Hears("added")
        /\ due' = [due EXCEPT ![d] = @ - 1]
        /\ UNCHANGED <<listening, views, enabled, targets, stream, heard,
                       pending, up, sent, version, stray, faults>>

\* An unwatch request is confirmed: with the last response due the state of
\* the target is forgotten.
TargetRemoved ==
    LET d == Head(down).doc
    IN  /\ Hears("removed")
        /\ due' = [due EXCEPT ![d] = @ - 1]
        /\ heard' = IF due'[d] = 0 THEN heard \ {d} ELSE heard
        /\ UNCHANGED <<listening, views, enabled, targets, stream, pending,
                       up, sent, version, stray, faults>>

\* A document and that its target is current, if the target is active.
TargetCurrent ==
    LET d == Head(down).doc
    IN  /\ Hears("current")
        /\ IF IsActiveTarget(d)
           THEN /\ heard' = heard \cup {d}
                /\ pending' = [pending EXCEPT ![d] = Head(down).version]
           ELSE UNCHANGED <<heard, pending>>
        /\ UNCHANGED <<listening, views, enabled, targets, stream, due, up,
                       sent, version, stray, faults>>

\* A target is rejected.  Its listeners get an error and are gone; the error
\* of a target that was removed meanwhile is ignored.
ProcessTargetError ==
    LET d == Head(down).doc
    IN  /\ Hears("error")
        /\ UNCHANGED <<cache, doc>>
        /\ IF d \in targets
           THEN /\ targets' = targets \ {d}
                /\ due' = [due EXCEPT ![d] = 0]
                /\ heard' = heard \ {d}
                /\ current' = current \ {d}
                /\ Raise(queries[d], TRUE)
                /\ queries' = [queries EXCEPT ![d] = {}]
           ELSE UNCHANGED <<targets, due, heard, current, raised, events,
                            queries>>
        /\ stray' = (stray \/ d \notin targets \/ due[d] # 1)
        /\ UNCHANGED <<muted, answers, since, enabled, stream, pending, up,
                       sent, version, faults>>

\* Mutant of Changed: a view whose document is the same has no snapshot.
ChangedDocument(fresh, synced) == {d \in Doc : fresh[d] # cache[d]}

\* The views that have a new snapshot: another document, or now in sync.
Changed(fresh, synced) ==
    {d \in Doc : \/ fresh[d] # cache[d]
                 \/ d \in synced \ current}

\* A global snapshot, which has a resume token for every target: what was
\* heard goes to the cache, and the views of active targets are in sync if
\* their target is current.
RaiseWatchSnapshot ==
    LET active == {d \in Doc : IsActiveTarget(d)}
        synced == (current \ active) \cup (active \cap heard)
        fresh == [d \in Doc |->
                     IF pending[d] # Nothing THEN pending[d] ELSE cache[d]]
    IN  /\ Hears("snapshot")
        /\ UNCHANGED doc
        /\ cache' = fresh
        /\ current' = synced
        /\ Raise({l \in Listening : /\ doc[l] \in Changed(fresh, synced)
                                    /\ l \in raised \/ doc[l] \in synced},
                 FALSE)
        /\ pending' = [d \in Doc |-> Nothing]
        /\ UNCHANGED <<queries, muted, answers, since, enabled, targets,
                       stream, due, heard, up, sent, version, stray, faults>>

-----------------------------------------------------------------------------
(* The environment.                                                        *)

\* Both streams are stopped and, if needed, started without a backoff.
ConnectivityChange ==
    /\ faults < MaxFaults
    /\ enabled
    /\ UNCHANGED <<cache, doc>>
    /\ Enable(InhibitBackoff(Stop(stream)), UpdateState("Unknown"))
    /\ Disconnected
    /\ Broadcast
    /\ Unarmed(FALSE)
    /\ faults' = faults + 1
    /\ UNCHANGED <<queries, muted, answers, since, enabled, targets, version,
                   stray>>

DisableNetwork ==
    /\ faults < MaxFaults
    /\ enabled' = FALSE
    /\ UNCHANGED <<cache, doc>>
    /\ stream' = Stop(stream)
    /\ tracker' = UpdateState("Offline")
    /\ Disconnected
    /\ Broadcast
    /\ Unarmed(FALSE)
    /\ faults' = faults + 1
    /\ UNCHANGED <<queries, muted, answers, since, targets, version, stray>>

EnableNetwork ==
    /\ ~enabled
    /\ enabled' = TRUE
    /\ UNCHANGED <<cache, doc>>
    /\ Enable(stream, tracker)
    /\ Broadcast
    /\ Unarmed(FALSE)
    /\ UNCHANGED <<queries, muted, answers, since, targets, aggregator,
                   channel, version, stray, faults>>

\* A document is written at the server, by this client or another.
ServerWrites(d) ==
    /\ version[d] < MaxVersion
    /\ version' = [version EXCEPT ![d] = @ + 1]
    /\ UNCHANGED <<listening, views, enabled, targets, stream, aggregator,
                   tracker, channel, unarmed, stray, faults>>

\* The server takes a request, and confirms it or rejects the target.
Takes(kind, s) ==
    /\ down' = Append(down, [kind |-> kind, doc |-> Head(up).doc])
    /\ up' = Tail(up)
    /\ sent' = [sent EXCEPT ![Head(up).doc] = s]
    /\ UNCHANGED <<listening, views, enabled, targets, stream, aggregator,
                   tracker, version, unarmed, stray>>

ServerTakes ==
    /\ up # <<>>
    /\ \/ Head(up).op = "watch" /\ Takes("added", Nothing)
       \/ Head(up).op = "unwatch" /\ Takes("removed", NotWatched)
    /\ UNCHANGED faults

ServerRejects ==
    /\ faults < MaxFaults
    /\ up # <<>>
    /\ Head(up).op = "watch"
    /\ Takes("error", NotWatched)
    /\ faults' = faults + 1

\* The server sends the version of a document and, when it has sent those of
\* all targets, a global snapshot.
ServerSends(d) ==
    /\ sent[d] \notin {NotWatched, version[d]}
    /\ sent' = [sent EXCEPT ![d] = version[d]]
    /\ down' = down \o <<[kind |-> "current", doc |-> d,
                          version |-> version[d]]>> \o
                   IF \A e \in Doc : sent'[e] \in {NotWatched, version[e]}
                   THEN <<[kind |-> "snapshot", doc |-> NoDoc]>> ELSE <<>>
    /\ UNCHANGED <<listening, views, enabled, targets, stream, aggregator,
                   tracker, up, version, unarmed, stray, faults>>

-----------------------------------------------------------------------------
OnWatchStreamChange ==
    \/ TargetAdded
    \/ TargetRemoved
    \/ TargetCurrent
    \/ ProcessTargetError
    \/ RaiseWatchSnapshot

Next ==
    \/ \E l \in Listener, d \in Doc : AddQueryListener(l, d)
    \/ \E l \in Listener : RemoveQueryListener(l)
    \/ \E g \in Get : DeliverEvent(g)
    \/ \E c \in stream.asked : CredentialsArrive(c) \/ CredentialsFail(c)
    \/ ConnectionLost
    \/ BackoffEnds
    \/ IdleElapsed
    \/ OnlineStateTimeout
    \/ OnWatchStreamChange
    \/ ConnectivityChange
    \/ DisableNetwork
    \/ EnableNetwork
    \/ \E d \in Doc : ServerWrites(d)
    \/ ServerTakes
    \/ ServerRejects
    \/ \E d \in Doc : ServerSends(d)

Spec == Init /\ [][Next]_vars

\* The worker queue, its timers, the credentials provider and the user's
\* executor do their work.  Nothing is assumed of the server or the network.
FairSpec ==
    /\ Spec
    /\ WF_vars(\E c \in stream.asked : CredentialsArrive(c))
    /\ WF_vars(BackoffEnds)
    /\ WF_vars(OnlineStateTimeout)
    /\ WF_vars(OnWatchStreamChange)
    /\ \A g \in Get : WF_vars(DeliverEvent(g))

-----------------------------------------------------------------------------
(* What the client promises.                                               *)

\* Until a target error meets another request for its target,
\* outstanding_responses_ of an open stream counts the responses to the
\* requests under way, in both directions.
ResponsesCounted ==
    IsOpen(stream) /\ ~stray =>
        \A d \in Doc :
            due[d] = Cardinality({i \in DOMAIN up : up[i].doc = d}) +
                     Cardinality({i \in DOMAIN down :
                         /\ down[i].kind \in {"added", "removed", "error"}
                         /\ down[i].doc = d})

\* No HARD_ASSERT on the way of a read can fail: the timer of the online
\* state runs only while the state is Unknown (online_state_tracker.cc 67)
\* and an attempt is under way that has not failed (61), a client that is
\* online has counted no failure (87), every target has listeners and the
\* other way round (so that remote_store.cc 174 finds it), the stream is not
\* stopped by its idle timer while it is needed (246), and a token that is
\* used, since no stream was closed since it was asked for, finds the stream
\* Starting (stream.cc 171).
AssertionsHold ==
    /\ tracker.timer => tracker.online = "Unknown" /\ tracker.failures = 0
    /\ tracker.timer => IsStarted(stream)
    /\ tracker.online = "Online" => tracker.failures = 0
    /\ targets = {d \in Doc : queries[d] # {}}
    /\ stream.idle => IsOpen(stream) /\ targets = {}
    /\ stream.asked \subseteq 0..stream.closes
    /\ stream.closes \in stream.asked => stream.state = "Starting"

\* What the server watches once it has taken the requests under way.
Watched(d) ==
    LET R == {i \in DOMAIN up : up[i].doc = d}
    IN  IF R = {} THEN sent[d] # NotWatched
        ELSE up[CHOOSE i \in R : \A j \in R : j <= i].op = "watch"

\* The response that rejects d is under way.
Rejected(d) == \E i \in DOMAIN down : down[i].kind = "error" /\ down[i].doc = d

\* A listener belongs to the document it was added for.  Events and answers
\* are those of a get() that was made, and an error is the last event of a
\* listener, which is gone by then.
ListenersKnown ==
    /\ \A d \in Doc : \A l \in queries[d] : doc[l] = d
    /\ \A g \in Get :
           /\ doc[g] = NoDoc =>
                  events[g] = <<>> /\ answers[g] = <<>> /\ g \notin muted
           /\ \A i \in DOMAIN events[g] :
                  events[g][i].from = "error" =>
                      i = Len(events[g]) /\ g \notin Listening
           /\ \A i \in DOMAIN answers[g] :
                  answers[g][i].from = "error" =>
                      events[g] = <<>> /\ g \notin Listening

\* A stream that is not open has no connection, and nothing is known of it.
NoConnection ==
    ~IsOpen(stream) =>
        /\ up = <<>> /\ down = <<>>
        /\ heard = {}
        /\ \A d \in Doc : /\ sent[d] = NotWatched /\ due[d] = 0
                          /\ pending[d] = Nothing

\* A response to a request for d, and the requests and responses under way.
Answers(r, d) == r.kind \in {"added", "removed", "error"} /\ r.doc = d
Asked(d) == \E i \in DOMAIN up : up[i].doc = d
AnswerAfter(i, d) == \E j \in DOMAIN down : j > i /\ Answers(down[j], d)

\* The last response says whether the server watches the target.
SentTold ==
    \A i \in DOMAIN down : \A d \in Doc :
        Answers(down[i], d) /\ ~AnswerAfter(i, d) =>
            (down[i].kind = "added" <=> sent[d] # NotWatched)

\* What was heard of a target is at least as new as the listen to it.
HeardFresh(d) ==
    d \in heard =>
        IF pending[d] # Nothing THEN pending[d] >= since[d]
        ELSE cache[d] >= since[d]

\* A version of d that is under way and will be taken for the present listen.
Tells(i, d) ==
    /\ down[i].kind = "current" /\ down[i].doc = d
    /\ down[i].version >= since[d]
    /\ ~AnswerAfter(i, d)

\* An old version is followed by the response to a later request.
VersionsFresh(d) ==
    \A i \in DOMAIN down :
        down[i].kind = "current" /\ down[i].doc = d =>
            down[i].version >= since[d] \/ AnswerAfter(i, d) \/ Asked(d)

\* When a global snapshot is read, a target that it counts for is fresh.
SnapshotsFresh(d) ==
    \A k \in DOMAIN down :
        down[k].kind = "snapshot" =>
            \/ HeardFresh(d) \/ Asked(d) \/ Rejected(d) \/ AnswerAfter(k, d)
            \/ \E i \in DOMAIN down : i < k /\ Tells(i, d)

\* It is once the server has sent a version for the present listen.
SentFresh(d) ==
    ~Asked(d) /\ sent[d] \in Version =>
        HeardFresh(d) \/ \E i \in DOMAIN down : Tells(i, d)

\* A view in sync has a target, and what is heard of it makes it no older.
ViewsFresh ==
    /\ current \subseteq targets
    /\ \A d \in Doc : since[d] <= version[d]
    /\ ~stray =>
           /\ \A d \in targets :
                  VersionsFresh(d) /\ SnapshotsFresh(d) /\ SentFresh(d)
           /\ \A d \in current : pending[d] # Nothing => pending[d] >= since[d]

\* The types, that no assertion fails, and that client and server agree on
\* what is under way: a count that is too high would deafen a target, one too
\* low would take an old answer for a new one.
Inv ==
    /\ TypeOK
    /\ AssertionsHold
    /\ ResponsesCounted
    /\ ListenersKnown
    /\ NoConnection
    /\ SentTold
    /\ ViewsFresh

\* Client and server agree on the targets: over listens, unlistens and
\* reconnects the server watches what the client listens to, and nothing
\* else, unless it has rejected a target.
TargetsWatched ==
    IsOpen(stream) /\ ~stray =>
        \A d \in Doc : ~Rejected(d) => (Watched(d) <=> d \in targets)

\* A view in sync shows what the server had when the listening began, or
\* something newer: the answers to an earlier listen to the same document,
\* which may arrive late, are not taken for those to the present one.
FreshWhenSynced ==
    ~stray => \A d \in current : cache[d] >= since[d]

\* A get() is answered once, although further events may be queued for its
\* listener before it is removed.
AnsweredOnce == \A g \in Get : Len(answers[g]) <= 1

\* A get() that waits is answered, from the cache if need be, unless the
\* client has heard from the server and waits for it, or the online state was
\* reset while the stream was starting: then no timer runs.
GetAnswered ==
    \A g \in Get :
        doc[g] # NoDoc ~> \/ answers[g] # <<>>
                          \/ tracker.online = "Online"
                          \/ unarmed

\* With a server that answers, every get() returns, over any finite number of
\* faults, unless a target error met another request for its target.
ServerAnswers ==
    WF_vars(ServerTakes) /\ \A d \in Doc : WF_vars(ServerSends(d))

GetReturns ==
    ServerAnswers =>
        \A g \in Get : doc[g] # NoDoc ~> answers[g] # <<>> \/ stray
============================================================================
