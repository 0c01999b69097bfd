------------------------------- MODULE Stream -------------------------------
(***************************************************************************)
(* The state machine that the watch stream and the write stream of the     *)
(* Firestore client share: class Stream (remote/stream.cc).  Its methods   *)
(* are operators from a stream to a stream; the modules that own a stream  *)
(* apply them, and add what the owner does when the stream opens or closes.*)
(*                                                                         *)
(* The token of the credentials provider arrives in a later task of the    *)
(* worker queue.  Each request carries the close count at which it was     *)
(* made, and an answer whose close count is old is ignored.  Healthy is    *)
(* not told apart from Open: the two differ only in whether a rejected     *)
(* token is thrown away.                                                   *)
(***************************************************************************)
EXTENDS Naturals

StreamState == {"Initial", "Starting", "Open", "Error", "Backoff"}

StreamType == [state : StreamState,
               closes : Nat,            \* close_count_
               asked : SUBSET Nat,      \* token requests not yet answered
               idle : BOOLEAN]          \* idleness_timer_ is set

NewStream == [state |-> "Initial", closes |-> 0, asked |-> {}, idle |-> FALSE]

IsOpen(s) == s.state = "Open"
IsStarted(s) == s.state \in {"Starting", "Backoff", "Open"}

\* After an error a start only begins the backoff; otherwise it asks for a
\* token, in the name of the present close count.
Start(s) ==
    IF s.state = "Error"
    THEN [s EXCEPT !.state = "Backoff"]
    ELSE [s EXCEPT !.state = "Starting", !.asked = @ \cup {s.closes}]

\* The backoff timer: back to Initial, then Start.
BackoffElapsed(s) == Start([s EXCEPT !.state = "Initial"])

\* An answer is used only if the stream was not closed since it was asked for.
Answered(s, c) == [s EXCEPT !.asked = @ \ {c}]
Current(s, c) == c = s.closes

\* GrpcStream::Start calls OnStreamStart at once, whatever the connection;
\* the first message of the owner cancels the idle check.
OnStreamStart(s) == [s EXCEPT !.state = "Open", !.idle = FALSE]

InhibitBackoff(s) == [s EXCEPT !.state = "Initial"]

MarkIdle(s) == IF IsOpen(s) THEN [s EXCEPT !.idle = TRUE] ELSE s
CancelIdleCheck(s) == [s EXCEPT !.idle = FALSE]

\* Close with an error, and Stop, which does nothing to a stream that is not
\* started: one in state Error stays there.
Fail(s) == [s EXCEPT !.state = "Error", !.closes = @ + 1, !.idle = FALSE]
Stop(s) ==
    IF IsStarted(s)
    THEN [s EXCEPT !.state = "Initial", !.closes = @ + 1, !.idle = FALSE]
    ELSE s
=============================================================================
