--------------------------- MODULE WritePipeline ---------------------------
(***************************************************************************)
(* How the Firestore client carries the writes of the app to the server:   *)
(* the mutation queue of each user in LevelDB, the write pipeline and the  *)
(* write stream of RemoteStore, and the callbacks of SyncEngine that       *)
(* complete the futures the app awaits.  Every action is one task of the   *)
(* client's worker queue, or one step of the server.                       *)
(*                                                                         *)
(* The server is not part of the repository.  It answers a handshake,      *)
(* takes the requests of a connection in order, and commits each or ends   *)
(* the connection with a status.  After the client has let go of a         *)
(* connection, the server may still take what was under way in it (late),  *)
(* even when it has answered the handshake of a newer one (stray): the     *)
(* handshake carries no stream token that would order the connections.     *)
(***************************************************************************)
EXTENDS Stream, Integers, Sequences, FiniteSets

CONSTANTS
    User,        \* users, the unauthenticated one included
    Write,       \* calls of WriteMutations, each made at most once
    MaxPending,  \* kMaxPendingWrites
    MaxFaults,   \* bound: faults of the environment in one behaviour
    MaxWaits     \* bound: calls of waitForPendingWrites

ASSUME PipelineAssumption ==
    /\ IsFiniteSet(User)
    /\ MaxPending \in Nat \ {0}
    /\ MaxFaults \in Nat
    /\ MaxWaits \in Nat

VARIABLES
    \* LevelDB, and the user whose queue is in use
    user,       \* current_user_
    queue,      \* the mutations table: the batches of each user, in key order
    next,       \* next_batch_id_
    \* SyncEngine
    callbacks,  \* mutation_callbacks_
    waiters,    \* pending_writes_callbacks_, with the writes each waits for
    \* RemoteStore and WriteStream
    enabled,    \* is_network_enabled_
    pipeline,   \* write_pipeline_
    stream,     \* write_stream_
    handshake,  \* handshake_complete_
    \* the connection of the write stream
    greeting,   \* the handshake: "none", "sent" or "answered"
    wire,       \* requests the server has not taken
    acks,       \* responses the client has not read
    final,      \* the status the server has ended the connection with
    reading,    \* a response was read after that end
    late,       \* requests of closed connections
    stray,      \* those that are late when a newer connection is greeted
    \* history
    log,        \* what the server committed, in order
    crossed,    \* writes the server committed from stray requests
    refused,    \* writes the server refused
    dropped,    \* writes whose response a failed write made the client drop
    issued,     \* the writes of each user, in order
    told,       \* how each write was answered
    orphans,    \* writes whose callback died with the process
    released,   \* waits that were answered
    faults      \* faults so far

store == <<user, queue, next>>
engine == <<callbacks, waiters, told, released>>
connection == <<greeting, wire, acks, final, reading, late, stray>>
server == <<log, crossed, refused>>
vars == <<store, engine, enabled, pipeline, stream, handshake, connection,
          server, dropped, issued, orphans, faults>>

Batch == [id : Nat \ {0}, write : Write]
Status == {"unavailable", "aborted", "denied"}
NoStatus == "none"

TypeOK ==
    /\ user \in User
    /\ queue \in [User -> Seq(Batch)]
    /\ next \in Nat \ {0}
    /\ callbacks \in [User -> SUBSET Batch]
    /\ waiters \in SUBSET [id : Nat, for : SUBSET Write]
    /\ enabled \in BOOLEAN
    /\ pipeline \in Seq(Batch)
    /\ stream \in StreamType
    /\ handshake \in BOOLEAN
    /\ greeting \in {"none", "sent", "answered"}
    /\ wire \in Seq(Batch)
    /\ acks \in Seq(Batch)
    /\ final \in Status \cup {NoStatus}
    /\ reading \in BOOLEAN
    /\ late \in Seq(Batch)
    /\ stray \in SUBSET Write
    /\ log \in Seq(Write)
    /\ crossed \in SUBSET Write
    /\ refused \in SUBSET Write
    /\ dropped \in SUBSET Write
    /\ issued \in [User -> Seq(Write)]
    /\ told \in [Write -> {"none", "ok", "error"}]
    /\ orphans \in SUBSET Write
    /\ released \in SUBSET SUBSET Write
    /\ faults \in Nat

Elements(s) == {s[i] : i \in 1..Len(s)}
Writes(s) == {s[i].write : i \in 1..Len(s)}
Issued == UNION {Elements(issued[u]) : u \in User}
Pending == UNION {Writes(queue[u]) : u \in User}

Init ==
    /\ user \in User
    /\ queue = [u \in User |-> <<>>]
    /\ next = 1
    /\ callbacks = [u \in User |-> {}]
    /\ waiters = {}
    /\ enabled = TRUE
    /\ pipeline = <<>>
    /\ stream = NewStream
    /\ handshake = FALSE
    /\ greeting = "none"
    /\ wire = <<>>
    /\ acks = <<>>
    /\ final = NoStatus
    /\ reading = FALSE
    /\ late = <<>>
    /\ stray = {}
    /\ log = <<>>
    /\ crossed = {}
    /\ refused = {}
    /\ dropped = {}
    /\ issued = [u \in User |-> <<>>]
    /\ told = [w \in Write |-> "none"]
    /\ orphans = {}
    /\ released = {}
    /\ faults = 0

-----------------------------------------------------------------------------
(* The mutation queue.                                                     *)

\* The last row of every user who has one.
LastRows(q) == {q[u][Len(q[u])].id : u \in {v \in User : q[v] # <<>>}}

\* Mutant of LoadNextBatchId: the largest id itself, not the one after it.
LastBatchId(q) ==
    CHOOSE n \in LastRows(q) \cup {1} : \A m \in LastRows(q) : m <= n

\* One more than the largest id in the table, of whichever user.
LoadNextBatchId(q) ==
    1 + CHOOSE n \in LastRows(q) \cup {0} : \A m \in LastRows(q) : m <= n

\* Removes the row with this id.
RemoveMutationBatch(q, id) ==
    LET k == CHOOSE i \in 1..Len(q) : q[i].id = id
    IN  SubSeq(q, 1, k - 1) \o SubSeq(q, k + 1, Len(q))

\* The batches NextMutationBatchAfterBatchId returns one after the other.
BatchesAfter(q, id) ==
    LET k == CHOOSE n \in 0..Len(q) :
                 \A i \in 1..Len(q) : q[i].id <= id <=> i <= n
    IN  SubSeq(q, k + 1, Len(q))

-----------------------------------------------------------------------------
(* RemoteStore: filling the pipeline, starting the stream.                 *)

BatchIdUnknown == -1

ShouldStartWriteStream(e, p, s) == e /\ ~IsStarted(s) /\ p # <<>>
Needed(e, p, s) == IF ShouldStartWriteStream(e, p, s) THEN Start(s) ELSE s

\* The batches FillWritePipeline adds to pipeline p from queue q.
Added(e, p, q) ==
    LET last == IF p = <<>> THEN BatchIdUnknown ELSE p[Len(p)].id
        rest == BatchesAfter(q, last)
        room == MaxPending - Len(p)
    IN  IF e THEN SubSeq(rest, 1, IF Len(rest) < room THEN Len(rest) ELSE room)
             ELSE <<>>

\* Pipeline p is refilled from q; what is added goes out at once when the
\* stream is ready for it, and a stream with nothing to do is marked idle.
FillWritePipeline(e, p, q, s, h, w) ==
    LET more == Added(e, p, q)
        sends == IsOpen(s) /\ h /\ more # <<>>
        timed == IF sends THEN CancelIdleCheck(s)
                 ELSE IF e /\ p \o more = <<>> THEN MarkIdle(s) ELSE s
    IN  /\ pipeline' = p \o more
        /\ wire' = IF sends THEN w \o more ELSE w
        /\ stream' = Needed(e, p \o more, timed)

\* The connection is gone.  What the server has not taken it may take late,
\* unless it is the server that ended the connection.
Disconnected ==
    /\ handshake' = FALSE
    /\ greeting' = "none"
    /\ acks' = <<>>
    /\ final' = NoStatus
    /\ reading' = FALSE
    /\ late' = IF final = NoStatus THEN late \o wire ELSE late
    /\ UNCHANGED stray

-----------------------------------------------------------------------------
(* SyncEngine: the end of a write.                                         *)

\* The callback registered for this batch and the current user, if any.
NotifyUser(id, answer) ==
    LET found == {b \in callbacks[user] : b.id = id}
    IN  /\ callbacks' = [callbacks EXCEPT ![user] = @ \ found]
        /\ told' = [w \in Write |-> IF \E b \in found : b.write = w
                                    THEN answer ELSE told[w]]

\* Mutant of TriggerPendingWriteCallbacks: every wait is answered.
TriggerAll(id) ==
    /\ waiters' = {}
    /\ released' = released \cup {x.for : x \in waiters}

TriggerPendingWriteCallbacks(id) ==
    /\ waiters' = {x \in waiters : x.id # id}
    /\ released' = released \cup {x.for : x \in {y \in waiters : y.id = id}}

\* HandleSuccessfulWrite and HandleRejectedWrite: the callback, the waits,
\* and the row of the batch.
EndWrite(id, answer) ==
    /\ NotifyUser(id, answer)
    /\ TriggerPendingWriteCallbacks(id)
    /\ queue' = [queue EXCEPT ![user] = RemoveMutationBatch(@, id)]
    /\ UNCHANGED <<user, next>>

-----------------------------------------------------------------------------
(* Tasks of the app.                                                       *)

\* Mutant of WriteMutations: the pipeline is not filled.
WriteOnly(w) ==
    /\ w \notin Issued
    /\ queue' = [queue EXCEPT ![user] = Append(@, [id |-> next, write |-> w])]
    /\ next' = next + 1
    /\ callbacks' = [callbacks EXCEPT ![user] =
                         @ \cup {[id |-> next, write |-> w]}]
    /\ issued' = [issued EXCEPT ![user] = Append(@, w)]
    /\ UNCHANGED <<user, waiters, told, released, enabled, handshake, server,
                   dropped, orphans, faults, pipeline, stream, connection>>

\* The batch is stored, its callback kept, and the pipeline filled.
WriteMutations(w) ==
    /\ w \notin Issued
    /\ queue' = [queue EXCEPT ![user] = Append(@, [id |-> next, write |-> w])]
    /\ next' = next + 1
    /\ callbacks' = [callbacks EXCEPT ![user] =
                         IF \E b \in @ : b.id = next THEN @
                         ELSE @ \cup {[id |-> next, write |-> w]}]
    /\ issued' = [issued EXCEPT ![user] = Append(@, w)]
    /\ FillWritePipeline(enabled, pipeline, queue'[user], stream, handshake,
                         wire)
    /\ UNCHANGED <<user, waiters, told, released, enabled, handshake,
                   greeting, acks, final, reading, late, stray, server, dropped,
                   orphans, faults>>

\* waitForPendingWrites: answered at once, or with the newest pending batch.
RegisterPendingWritesCallback ==
    /\ Cardinality(waiters) + Cardinality(released) < MaxWaits
    /\ LET q == queue[user] IN
       IF q = <<>>
       THEN /\ released' = released \cup {{}}
            /\ UNCHANGED waiters
       ELSE /\ waiters' = waiters \cup
                   {[id |-> q[Len(q)].id, for |-> Writes(q)]}
            /\ UNCHANGED released
    /\ UNCHANGED <<store, callbacks, told, enabled, pipeline, stream,
                   handshake, connection, server, dropped, issued, orphans,
                   faults>>

-----------------------------------------------------------------------------
(* Tasks of the stream.                                                    *)

\* Mutant of OnWriteStreamClose: any error rejects the first write.
CloseRejecting(status) ==
    /\ IF pipeline # <<>> /\ handshake
       THEN /\ EndWrite(Head(pipeline).id, "error")
            /\ FillWritePipeline(enabled, Tail(pipeline), queue'[user],
                   InhibitBackoff(Fail(stream)), handshake, <<>>)
       ELSE /\ stream' = Needed(enabled, pipeline, Fail(stream))
            /\ wire' = <<>>
            /\ UNCHANGED <<store, engine, pipeline>>
    /\ Disconnected

\* Mutant of IsPermanentWriteError: an aborted write is not tried again.
PermanentOrAborted(status) == status \in {"aborted", "denied"}

IsPermanentError(status) == status \in {"aborted", "denied"}
IsPermanentWriteError(status) == IsPermanentError(status) /\ status # "aborted"

\* The stream closes with an error.  A permanent error after the handshake
\* rejects the first write of the pipeline; the rest is tried again.  Before
\* the handshake a permanent error only resets the stream token, which is
\* not modelled: no handshake carries it.
OnWriteStreamClose(status) ==
    /\ IF pipeline # <<>> /\ handshake /\ IsPermanentWriteError(status)
       THEN /\ EndWrite(Head(pipeline).id, "error")
            /\ FillWritePipeline(enabled, Tail(pipeline), queue'[user],
                   InhibitBackoff(Fail(stream)), handshake, <<>>)
       ELSE /\ stream' = Needed(enabled, pipeline, Fail(stream))
            /\ wire' = <<>>
            /\ UNCHANGED <<store, engine, pipeline>>
    /\ Disconnected

\* A token arrives: the stream opens and sends the handshake, unless it was
\* closed in the meantime.
CredentialsArrive(c) ==
    /\ c \in stream.asked
    /\ stream' = IF Current(stream, c) THEN OnStreamStart(Answered(stream, c))
                 ELSE Answered(stream, c)
    /\ greeting' = IF Current(stream, c) THEN "sent" ELSE greeting
    /\ UNCHANGED <<store, engine, enabled, pipeline, handshake, wire, acks,
                   final, reading, late, stray, server, dropped, issued, orphans,
                   faults>>

\* No token: the stream closes with an error, which is not permanent.
CredentialsFail(c) ==
    /\ faults < MaxFaults
    /\ c \in stream.asked
    /\ Current(stream, c)
    /\ stream' = Needed(enabled, pipeline, Fail(Answered(stream, c)))
    /\ wire' = <<>>
    /\ Disconnected
    /\ faults' = faults + 1
    /\ UNCHANGED <<store, engine, enabled, pipeline, server, dropped, issued,
                   orphans>>

\* Mutant of HandshakeComplete: the first write is sent last.
HandshakeFirstLast ==
    /\ greeting = "answered"
    /\ greeting' = "none"
    /\ handshake' = TRUE
    /\ wire' = IF pipeline = <<>> THEN <<>>
               ELSE Append(Tail(pipeline), Head(pipeline))
    /\ stream' = IF pipeline = <<>> THEN stream ELSE CancelIdleCheck(stream)
    /\ UNCHANGED <<store, engine, enabled, pipeline, acks, final, reading,
                   late, stray, server, dropped, issued, orphans, faults>>

\* The response to the handshake: the whole pipeline is sent.
HandshakeComplete ==
    /\ greeting = "answered"
    /\ greeting' = "none"
    /\ handshake' = TRUE
    /\ wire' = pipeline
    /\ stream' = IF pipeline = <<>> THEN stream ELSE CancelIdleCheck(stream)
    /\ UNCHANGED <<store, engine, enabled, pipeline, acks, final, reading,
                   late, stray, server, dropped, issued, orphans, faults>>

\* The response to a write is taken for the first write of the pipeline.
MutationResult ==
    /\ acks # <<>>
    /\ acks' = Tail(acks)
    /\ reading' = (final # NoStatus)
    /\ EndWrite(Head(pipeline).id, "ok")
    /\ FillWritePipeline(enabled, Tail(pipeline), queue'[user], stream,
                         handshake, wire)
    /\ UNCHANGED <<enabled, handshake, greeting, final, late, stray, server,
                   dropped, issued, orphans, faults>>

\* The server ended the connection, and all its responses have been read.
StreamFinish ==
    /\ final # NoStatus
    /\ acks = <<>>
    /\ OnWriteStreamClose(final)
    /\ UNCHANGED <<enabled, server, dropped, issued, orphans, faults>>

\* The server ended the connection while requests were being written.  The
\* read under way when the failing write was made is delivered first; those
\* after it are cancelled by FinishGrpcCall, and their responses dropped.
WriteFailsFirst ==
    /\ final # NoStatus
    /\ reading
    /\ acks # <<>>
    /\ Len(wire) > 1
    /\ OnWriteStreamClose(final)
    /\ dropped' = dropped \cup Writes(acks)
    /\ UNCHANGED <<enabled, server, issued, orphans, faults>>

\* The connection breaks: responses on their way are lost.
ConnectionLost ==
    /\ faults < MaxFaults
    /\ IsOpen(stream)
    /\ OnWriteStreamClose("unavailable")
    /\ faults' = faults + 1
    /\ UNCHANGED <<enabled, server, dropped, issued, orphans>>

BackoffEnds ==
    /\ stream.state = "Backoff"
    /\ stream' = BackoffElapsed(stream)
    /\ UNCHANGED <<store, engine, enabled, pipeline, handshake, connection,
                   server, dropped, issued, orphans, faults>>

\* The idle timer stops the stream.
IdleElapsed ==
    /\ stream.idle
    /\ stream' = Stop(stream)
    /\ wire' = <<>>
    /\ Disconnected
    /\ UNCHANGED <<store, engine, enabled, pipeline, server, dropped, issued,
                   orphans, faults>>

-----------------------------------------------------------------------------
(* Tasks of the environment.                                               *)

\* Both streams are stopped, the pipeline is cleared and filled again.
RestartNetwork(q) ==
    /\ FillWritePipeline(TRUE, <<>>, q, InhibitBackoff(Stop(stream)),
                         FALSE, <<>>)
    /\ Disconnected

ConnectivityChange ==
    /\ faults < MaxFaults
    /\ enabled
    /\ RestartNetwork(queue[user])
    /\ faults' = faults + 1
    /\ UNCHANGED <<store, engine, enabled, server, dropped, issued, orphans>>

\* Another user: the waits are cancelled, the queue is swapped, its next id
\* read from the table, and the network restarted.  A new token of the same
\* user only restarts the network, as ConnectivityChange does.
HandleCredentialChange(u) ==
    /\ faults < MaxFaults
    /\ u # user
    /\ user' = u
    /\ next' = LoadNextBatchId(queue)
    /\ waiters' = {}
    /\ IF enabled THEN RestartNetwork(queue[u])
       ELSE UNCHANGED <<pipeline, wire, stream, handshake, greeting, acks,
                        final, reading, late, stray>>
    /\ faults' = faults + 1
    /\ UNCHANGED <<queue, callbacks, told, released, enabled, server,
                   dropped, issued, orphans>>

DisableNetwork ==
    /\ faults < MaxFaults
    /\ enabled' = FALSE
    /\ stream' = Stop(stream)
    /\ pipeline' = <<>>
    /\ wire' = <<>>
    /\ Disconnected
    /\ faults' = faults + 1
    /\ UNCHANGED <<store, engine, server, dropped, issued, orphans>>

EnableNetwork ==
    /\ ~enabled
    /\ enabled' = TRUE
    /\ FillWritePipeline(TRUE, pipeline, queue[user], stream, handshake, wire)
    /\ UNCHANGED <<store, engine, handshake, greeting, acks, final, reading,
                   late, stray, server, dropped, issued, orphans, faults>>

\* The process dies and the app is started again with the same user: only
\* the table is left.
Restart ==
    /\ faults < MaxFaults
    /\ next' = LoadNextBatchId(queue)
    /\ callbacks' = [u \in User |-> {}]
    /\ waiters' = {}
    /\ orphans' = orphans \cup Pending
    /\ enabled' = TRUE
    /\ FillWritePipeline(TRUE, <<>>, queue[user], NewStream, FALSE, <<>>)
    /\ Disconnected
    /\ faults' = faults + 1
    /\ UNCHANGED <<user, queue, told, released, server, dropped, issued>>

-----------------------------------------------------------------------------
(* The server.                                                             *)

\* It answers the handshake; what is late of earlier connections is stray now.
ServerGreets ==
    /\ greeting = "sent"
    /\ final = NoStatus
    /\ greeting' = "answered"
    /\ late' = <<>>
    /\ stray' = stray \cup Writes(late)
    /\ UNCHANGED <<store, engine, enabled, pipeline, stream, handshake, wire,
                   acks, final, reading, server, dropped, issued, orphans,
                   faults>>

ServerCommits ==
    /\ wire # <<>>
    /\ final = NoStatus
    /\ log' = Append(log, Head(wire).write)
    /\ wire' = Tail(wire)
    /\ acks' = Append(acks, Head(wire))
    /\ UNCHANGED <<store, engine, enabled, pipeline, stream, handshake,
                   greeting, final, reading, late, stray, crossed, refused, dropped,
                   issued, orphans, faults>>

\* It refuses the write for good.
ServerRefuses ==
    /\ wire # <<>>
    /\ final = NoStatus
    /\ refused' = refused \cup {Head(wire).write}
    /\ final' = "denied"
    /\ UNCHANGED <<store, engine, enabled, pipeline, stream, handshake,
                   greeting, wire, acks, reading, late, stray, log, crossed,
                   dropped, issued, orphans, faults>>

\* It gives up a write or the handshake with a status that blames neither, or
\* refuses the handshake.
ServerAborts(status) ==
    /\ faults < MaxFaults
    /\ final = NoStatus
    /\ \/ wire # <<>> /\ status = "aborted"
       \/ greeting = "sent"
    /\ final' = status
    /\ faults' = faults + 1
    /\ UNCHANGED <<store, engine, enabled, pipeline, stream, handshake,
                   greeting, wire, acks, reading, late, stray, server, dropped,
                   issued, orphans>>

\* It commits a request of a connection the client no longer uses,
LateCommit ==
    /\ late # <<>>
    /\ log' = Append(log, Head(late).write)
    /\ late' = Tail(late)
    /\ UNCHANGED <<store, engine, enabled, pipeline, stream, handshake,
                   greeting, wire, acks, final, reading, stray, crossed,
                   refused, dropped, issued, orphans, faults>>

\* or of one older than a connection it has greeted since.
StrayCommit(w) ==
    /\ w \in stray
    /\ log' = Append(log, w)
    /\ stray' = stray \ {w}
    /\ crossed' = crossed \cup {w}
    /\ UNCHANGED <<store, engine, enabled, pipeline, stream, handshake,
                   greeting, wire, acks, final, reading, late, refused,
                   dropped, issued, orphans, faults>>

-----------------------------------------------------------------------------
Next ==
    \/ \E w \in Write : WriteMutations(w)
    \/ RegisterPendingWritesCallback
    \/ \E c \in stream.asked : CredentialsArrive(c) \/ CredentialsFail(c)
    \/ HandshakeComplete
    \/ MutationResult
    \/ StreamFinish
    \/ WriteFailsFirst
    \/ ConnectionLost
    \/ BackoffEnds
    \/ IdleElapsed
    \/ ConnectivityChange
    \/ \E u \in User : HandleCredentialChange(u)
    \/ DisableNetwork
    \/ EnableNetwork
    \/ Restart
    \/ ServerGreets
    \/ ServerCommits
    \/ ServerRefuses
    \/ \E status \in Status : ServerAborts(status)
    \/ LateCommit
    \/ \E w \in stray : StrayCommit(w)

Spec == Init /\ [][Next]_vars

\* What the worker queue, its timers, the credentials provider and a working
\* server do in the end.  Nothing is assumed of faults, which are finitely
\* many in every behaviour, or of the app.
Fairness ==
    /\ WF_vars(\E c \in stream.asked : CredentialsArrive(c))
    /\ WF_vars(HandshakeComplete)
    /\ WF_vars(MutationResult)
    /\ WF_vars(StreamFinish)
    /\ WF_vars(BackoffEnds)
    /\ WF_vars(ServerGreets)
    /\ WF_vars(ServerCommits \/ ServerRefuses)

FairSpec == Spec /\ Fairness

-----------------------------------------------------------------------------
(* The invariant, in parts.                                                *)

\* Ids grow along every queue, and the next one is larger than all of them.
IdsIncrease ==
    \A u \in User : \A i \in 1..Len(queue[u]) :
        /\ queue[u][i].id < next
        /\ \A j \in 1..Len(queue[u]) : i < j => queue[u][i].id < queue[u][j].id

\* The pipeline is the longest prefix of the queue that it may hold.
PipelineIsPrefix ==
    /\ Len(pipeline) <= MaxPending
    /\ Len(pipeline) <= Len(queue[user])
    /\ \A i \in 1..Len(pipeline) : pipeline[i] = queue[user][i]
    /\ IF enabled
       THEN Len(pipeline) < MaxPending => Len(pipeline) = Len(queue[user])
       ELSE pipeline = <<>>

\* The stream runs when it is needed, never when the network is off, and is
\* idle only when it has nothing to do.
StreamServesPipeline ==
    /\ IsStarted(stream) => enabled
    /\ pipeline # <<>> => IsStarted(stream)
    /\ IsStarted(stream) /\ ~handshake => pipeline # <<>>
    /\ stream.idle => IsOpen(stream) /\ handshake /\ pipeline = <<>>
    /\ stream.asked \subseteq 0..stream.closes
    /\ stream.closes \in stream.asked <=> stream.state = "Starting"

\* What is on its way is exactly the pipeline, in its order.
WireMatchesPipeline ==
    /\ handshake => /\ IsOpen(stream)
                    /\ greeting = "none"
                    /\ pipeline = acks \o wire
    /\ ~handshake => wire = <<>> /\ acks = <<>>
    /\ greeting # "none" => IsOpen(stream)
    /\ IsOpen(stream) /\ ~handshake => greeting # "none"
    /\ final # NoStatus => IF handshake THEN wire # <<>> ELSE greeting = "sent"

\* How many of a user's writes have left the queue.
Gone(u) == Len(issued[u]) - Len(queue[u])

\* Every queue holds the newest writes of its user, in the order in which
\* they were issued; no write is issued twice, and callbacks wait for queued
\* batches.
QueuesHoldIssued ==
    /\ \A u \in User :
           /\ Len(queue[u]) <= Len(issued[u])
           /\ \A i \in 1..Len(queue[u]) :
                  queue[u][i].write = issued[u][Gone(u) + i]
           /\ \A i, j \in 1..Len(issued[u]) :
                  issued[u][i] = issued[u][j] => i = j
           /\ callbacks[u] \subseteq Elements(queue[u])
    /\ \A u, v \in User :
           u # v => Elements(issued[u]) \cap Elements(issued[v]) = {}

\* The server has heard, and the app has been told, of issued writes only.
OnlyIssued ==
    /\ Elements(log) \subseteq Issued
    /\ \A w \in Write \ Issued : told[w] = "none"

\* Of every queued batch either the callback is kept or the process died
\* since it was issued.
CallbacksKept ==
    \A u \in User : \A b \in Elements(queue[u]) :
        b \in callbacks[u] \/ b.write \in orphans

\* The server has committed a stray request of this user.
Crossed(u) == crossed \cap Elements(issued[u]) # {}

\* The last commit of this user is of w.
LastCommitIs(u, w) ==
    \E i \in 1..Len(log) :
        /\ log[i] = w
        /\ \A j \in 1..Len(log) : j > i => log[j] \notin Elements(issued[u])

\* Responses are about committed writes, the newest one about the user's last
\* commit unless a stray request was committed, and a refusal about the first
\* write the server has not taken.
ServerKnows ==
    /\ Writes(acks) \subseteq Elements(log)
    /\ acks # <<>> =>
           Crossed(user) \/ LastCommitIs(user, acks[Len(acks)].write)
    /\ final = "denied" /\ handshake => Head(wire).write \in refused

\* What the server may still take late is queued, so that it will be sent
\* again; once a connection has been greeted, what is left of earlier ones is
\* stray.
LateStillQueued ==
    /\ Writes(late) \subseteq Pending
    /\ handshake \/ greeting = "answered" => late = <<>>
    /\ stray \subseteq Issued

\* Without stray commits, the last commit of a user is not older than any write
\* that has left the queue, except those that were refused.
LastCommitNewest ==
    \A u \in User : \A i \in 1..Len(log) :
        \/ Crossed(u)
        \/ log[i] \notin Elements(issued[u])
        \/ \E j \in 1..Len(log) : j > i /\ log[j] \in Elements(issued[u])
        \/ \A k \in 1..Gone(u) :
               \/ issued[u][k] \in refused
               \/ \E m \in k..Len(issued[u]) : issued[u][m] = log[i]

\* A wait is keyed by a batch that is still queued, and of what it waits for
\* nothing is queued behind that batch.
WaitsKeyed ==
    /\ \A r \in released : r \subseteq Issued
    /\ \A x \in waiters :
        /\ x.for \subseteq Issued
        /\ \E i \in 1..Len(queue[user]) : queue[user][i].id = x.id
        /\ \A u \in User : \A i \in 1..Len(queue[u]) :
               queue[u][i].write \in x.for => u = user /\ queue[u][i].id <= x.id

\* No HARD_ASSERT on the way of a write can fail: a result finds a pipeline
\* (remote_store.cc 462), its batch has a row to remove (leveldb_mutation_
\* queue.cc 197), the stream is not stopped by its idle timer while needed
\* (remote_store.cc 481), and a token finds the stream Starting, before its
\* handshake (stream.cc 171, write_stream.cc 74).
AssertionsHold ==
    /\ acks # <<>> => pipeline # <<>>
    /\ pipeline # <<>> =>
           \E i \in 1..Len(queue[user]) : queue[user][i].id = Head(pipeline).id
    /\ stream.idle => IsStarted(stream) /\ pipeline = <<>>
    /\ stream.closes \in stream.asked =>
           stream.state = "Starting" /\ ~handshake

\* The types, what the parts of the client know of each other, and that no
\* assertion fails.
Inv ==
    /\ TypeOK
    /\ AssertionsHold
    /\ IdsIncrease
    /\ PipelineIsPrefix
    /\ StreamServesPipeline
    /\ WireMatchesPipeline
    /\ QueuesHoldIssued
    /\ OnlyIssued
    /\ CallbacksKept
    /\ ServerKnows
    /\ LateStillQueued
    /\ LastCommitNewest
    /\ WaitsKeyed

-----------------------------------------------------------------------------
(* What the client promises.                                               *)

\* Whatever faults happen, a write the app has issued is still queued, or the
\* server committed it, or the server refused it: none is lost between the
\* table, the pipeline and the wire.
NoWriteLost ==
    \A w \in Issued : w \in Pending \cup Elements(log) \cup refused

\* What the app is told of a write is true.  Its future completes without
\* error only if the server committed the write; with an error only if the
\* server refused it, or if a failed write made the client drop the response
\* to it; and it stays open only while the write is queued, or because the
\* process that awaited it is gone: sign-outs, restarts of the stream and
\* reconnects forget no callback.
AnswersTrue ==
    \A w \in Issued :
        \/ told[w] = "ok" /\ w \in Elements(log)
        \/ told[w] = "error" /\ w \in refused \cup dropped
        \/ told[w] = "none" /\ w \in Pending \cup orphans

\* A future completes with an error only if the server refused its write
\* (HandleWriteError: "the request itself was the problem").
ErrorMeansRefused ==
    \A w \in Write : told[w] = "error" => w \in refused

\* When waitForPendingWrites completes, nothing that was pending when it was
\* called is pending still.
WaitsTruthful ==
    \A r \in released : r \cap Pending = {}

\* Requests are sent again and taken late, so the server may commit a write
\* several times.  Still, when a queue is empty, the last commit of its user
\* is the newest write that was not refused: an old value never ends up over
\* a newer one, unless the server commits a stray request, of a connection
\* older than one it has greeted.  Nothing in the client rules that out: its
\* handshake carries no stream token.
NewestCommittedLast ==
    \A u \in User : queue[u] = <<>> /\ ~Crossed(u) =>
        \A i \in 1..Len(log) :
            \/ log[i] \notin Elements(issued[u])
            \/ \E j \in 1..Len(log) :
                   j > i /\ log[j] \in Elements(issued[u])
            \/ \A k \in 1..Len(issued[u]) :
                   \/ issued[u][k] \in refused
                   \/ \E m \in k..Len(issued[u]) : issued[u][m] = log[i]

\* With finitely many faults, every write of the user who stays signed in is
\* answered by the server in the end, unless the network is switched off.
WritesDrain ==
    \A w \in Write :
        w \in Writes(queue[user])
            ~> (w \notin Writes(queue[user]) \/ ~enabled)
============================================================================
