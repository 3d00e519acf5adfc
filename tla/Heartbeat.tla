------------------------------- MODULE Heartbeat -------------------------------
(***************************************************************************)
(* The heartbeat of one connection (src/src/connection.rs session_loop):      *)
(* every heartbeat_interval a ping, and no second ping before the first is    *)
(* answered, or the connection is dropped.  The pong is one of the frames     *)
(* session_loop reads, and it reads none while an arm of its select! awaits a  *)
(* session, a probe or the socket.  Interval and Latency are in ticks.        *)
(***************************************************************************)
EXTENDS Integers, Sequences

CONSTANTS
  Interval,  \* heartbeat_interval
  Latency,   \* external: how long a server that is up takes for a pong, at most
  MaxFrames  \* bound: frames the server sends of its own

ASSUME HeartbeatAssumption ==
  Interval \in Nat /\ Latency \in Nat /\ Latency < Interval /\ MaxFrames \in Nat

VARIABLES
  pc,            \* session_loop: in its select!, in an arm that awaits, or gone
  awaitingPong,  \* session_loop's awaiting_pong
  elapsed,       \* ticks since the heartbeat timer last went off
  inbox,         \* frames session_loop has not read
  serverUp,      \* external: the server answers
  pinged,        \* external: ticks the server has had the ping it has not answered, -1: none
  frames,        \* external: frames sent of its own
  silence,       \* history: ticks in the select! since a pong came
  answered,      \* history: a pong came for the last ping
  busySince      \* history: an arm awaited something since that ping

externalVars == <<serverUp, pinged, frames>>
historyVars  == <<silence, answered, busySince>>
vars == <<pc, awaitingPong, elapsed, inbox, externalVars, historyVars>>

Init ==
  /\ pc = "select" /\ awaitingPong = FALSE /\ elapsed = 0
  /\ inbox = <<>>
  /\ serverUp = TRUE /\ pinged = -1 /\ frames = 0
  /\ silence = 0 /\ answered = FALSE /\ busySince = FALSE

\* Mutant: the timer arm forgets that a pong is due.
BeatForgets ==
  /\ pc = "select" /\ elapsed = Interval
  /\ elapsed' = 0
  /\ IF awaitingPong THEN pc' = "timedOut" ELSE UNCHANGED pc
  /\ pinged' = IF serverUp THEN 0 ELSE pinged
  /\ answered' = FALSE /\ busySince' = FALSE
  /\ UNCHANGED <<awaitingPong, inbox, serverUp, frames, silence>>

\* The heartbeat arm; it may be taken also when the pong is there to be read.
Beat ==
  /\ pc = "select" /\ elapsed = Interval
  /\ elapsed' = 0
  /\ IF awaitingPong
     THEN pc' = "timedOut" /\ UNCHANGED <<awaitingPong, pinged, answered, busySince>>
     ELSE /\ awaitingPong' = TRUE
          /\ pinged' = IF serverUp THEN 0 ELSE pinged
          /\ answered' = FALSE /\ busySince' = FALSE
          /\ UNCHANGED pc
  /\ UNCHANGED <<inbox, serverUp, frames, silence>>

IsPong(kind) == kind = "pong"

\* The incoming arm.  A call's answer is awaited; a ping is answered at once.
ReadFrame ==
  /\ pc = "select" /\ inbox # <<>>
  /\ inbox' = Tail(inbox)
  /\ awaitingPong' = (awaitingPong /\ ~IsPong(Head(inbox)))
  /\ IF Head(inbox) = "call" THEN pc' = "busy" /\ busySince' = TRUE
                             ELSE UNCHANGED <<pc, busySince>>
  /\ UNCHANGED <<elapsed, externalVars, silence, answered>>

\* What was awaited came.
CallReturns ==
  /\ pc = "busy"
  /\ pc' = "select"
  /\ UNCHANGED <<awaitingPong, elapsed, inbox, externalVars, historyVars>>

\* A frame that could not be sent, a close frame, or the end of the stream.
ConnectionGone ==
  /\ pc \in {"select", "busy"}
  /\ pc' = "closed"
  /\ UNCHANGED <<awaitingPong, elapsed, inbox, externalVars, historyVars>>

ServerPongs ==
  /\ serverUp /\ pinged >= 0
  /\ pinged' = -1
  /\ inbox' = Append(inbox, "pong")
  /\ silence' = 0 /\ answered' = TRUE
  /\ UNCHANGED <<pc, awaitingPong, elapsed, serverUp, frames, busySince>>

\* A ping of the server's, or a frame whose answer session_loop awaits.
ServerSends ==
  /\ serverUp /\ frames < MaxFrames
  /\ frames' = frames + 1
  /\ \E kind \in {"ping", "call"} : inbox' = Append(inbox, kind)
  /\ UNCHANGED <<pc, awaitingPong, elapsed, serverUp, pinged, historyVars>>

\* Nothing more comes from it, and nothing says so.
ServerGoesSilent ==
  /\ serverUp
  /\ serverUp' = FALSE /\ pinged' = -1
  /\ UNCHANGED <<pc, awaitingPong, elapsed, inbox, frames, historyVars>>

\* In its select! the loop is faster than a tick.
Tick ==
  /\ pc = "select" => inbox = <<>> /\ elapsed < Interval
  /\ pc \in {"select", "busy"}
  /\ pinged < Latency
  /\ pinged' = IF pinged >= 0 THEN pinged + 1 ELSE pinged
  /\ elapsed' = IF elapsed < Interval THEN elapsed + 1 ELSE elapsed
  /\ silence' = IF pc = "select" /\ silence <= 2 * Interval THEN silence + 1 ELSE silence
  /\ UNCHANGED <<pc, awaitingPong, inbox, serverUp, frames, answered, busySince>>

LoopStep == Beat \/ ReadFrame \/ CallReturns
Next ==
  LoopStep \/ ConnectionGone \/ ServerPongs \/ ServerSends \/ ServerGoesSilent \/ Tick

Spec == Init /\ [][Next]_vars

-------------------------------------------------------------------------------
\* A server that answers within an interval is not timed out by a loop that never kept
\* its frames waiting since the ping (connection.rs:919-925).
TimedOutIsSilence == pc = "timedOut" => ~answered \/ busySince

\* A server that has gone silent is noticed before its silence has lasted two intervals of
\* the loop's attention, however the silence falls between the beats and whatever else is
\* read: not counted is the time an arm awaits something.
SilenceIsBounded == pc \in {"select", "busy"} => silence <= 2 * Interval

\* The heartbeat drops the silent server and no other: the two together.
HeartbeatTellsSilence == TimedOutIsSilence /\ SilenceIsBounded
===============================================================================
