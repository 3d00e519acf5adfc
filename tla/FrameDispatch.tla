----------------------------- MODULE FrameDispatch -----------------------------
(***************************************************************************)
(* One connection from the frame level: the answer to auth that              *)
(* connect_and_auth waits for, and then the incoming arm of session_loop with  *)
(* what it sends back (src/src/connection.rs).  A frame's id is where it      *)
(* stands among the frames the server sent; 0 is a frame without one.        *)
(***************************************************************************)
EXTENDS WireFrames, Sequences

CONSTANTS
  MaxFrames,  \* bound: frames the server sends
  Shapes      \* external: the frames it may send, ids aside

VARIABLES
  pc,        \* hello: awaits it; select, awaiting: session_loop; refused, dropped: ended
  awaited,   \* the request an arm of session_loop awaits the answer for
  received,  \* history: the frames session_loop read, in order, as decoded
  accepted,  \* history: ids of the prompts the manager took
  sent,      \* the frames session_loop sent back, in order
  frames,    \* external: how many frames the server has sent
  reason     \* history: why the connection ended

vars == <<pc, awaited, received, accepted, sent, frames, reason>>

NoRequest == [type |-> "none", id |-> 0]
Reply(type, code, id) == [type |-> type, code |-> code, id |-> id]

Init ==
  /\ pc = "hello" /\ awaited = NoRequest
  /\ received = <<>> /\ accepted = {} /\ sent = <<>>
  /\ frames = 0 /\ reason = "none"

TypeOK ==
  /\ pc \in {"hello", "select", "awaiting", "refused", "dropped"}
  /\ awaited.type \in {"none", "query", "interrupt", "answer"} /\ awaited.id \in 0..MaxFrames
  /\ \A i \in 1..Len(received) : received[i].id \in 1..MaxFrames
  /\ accepted \subseteq 1..MaxFrames
  /\ \A i \in 1..Len(sent) : sent[i].type \in {"pong", "error", "ack", "query_ok"}
  /\ frames \in 0..MaxFrames

\* The next frame of the server's; one that has an id has its own.
Arrives(f) ==
  /\ frames < MaxFrames
  /\ frames' = frames + 1
  /\ \E s \in Shapes : f = IF s.id = 0 THEN s ELSE [s EXCEPT !.id = frames + 1]

AllFrames == {IF s.id = 0 THEN s ELSE [s EXCEPT !.id = n] : s \in Shapes, n \in 1..MaxFrames}

-------------------------------------------------------------------------------
\* connect_and_auth: hello, or an error; "unauthenticated" is the one that is not retried.
Hello(f) ==
  LET d == Decode(f) IN
    /\ pc = "hello"
    /\ Arrives(f)
    /\ \/ d.ok /\ d.type = "hello" /\ pc' = "select" /\ UNCHANGED reason
       \/ d.ok /\ d.type = "error" /\ pc' = "refused" /\ reason' = "unauthenticated"
       \/ ~(d.ok /\ d.type = "hello") /\ pc' = "dropped" /\ reason' = "transport"
    /\ UNCHANGED <<awaited, received, accepted, sent>>

\* The next frame; one that does not decode is received as type "none".
Read(f) ==
  /\ pc = "select"
  /\ Arrives(f)
  /\ received' = Append(received, [type |-> Decode(f).type, id |-> frames + 1])

\* Mutant: a frame that does not decode ends the connection.
SkipDrops(f) ==
  /\ Read(f)
  /\ ~Decode(f).ok
  /\ pc' = "dropped" /\ reason' = "malformed"
  /\ UNCHANGED <<awaited, accepted, sent>>

\* A frame that does not decode is skipped.
Skip(f) ==
  /\ Read(f)
  /\ ~Decode(f).ok
  /\ UNCHANGED <<pc, awaited, accepted, sent, reason>>

Takes(f, types) ==
  /\ Read(f)
  /\ Decode(f).ok /\ Decode(f).type \in types

\* ws.send: a frame that cannot be sent ends the connection.
Send(r) ==
  \/ pc' = "select" /\ sent' = Append(sent, r) /\ UNCHANGED reason
  \/ pc' = "dropped" /\ reason' = "send" /\ UNCHANGED sent

ServerPing(f) ==
  /\ Takes(f, {"ping"})
  /\ Send(Reply("pong", "none", f.id))
  /\ UNCHANGED <<awaited, accepted>>

ServerError(f) ==
  /\ Takes(f, {"error"})
  /\ pc' = "dropped" /\ reason' = "server error"
  /\ UNCHANGED <<awaited, accepted, sent>>

\* The types session_loop acts on, of those that lead to a frame or to the end; the rest
\* of what decodes, it does not.
Handled == {"ping", "error", "query", "prompt", "interrupt", "answer"}

Ignore(f) ==
  /\ Takes(f, (TypedBodies \cup RawBodies \cup {"Unknown"}) \ Handled)
  /\ UNCHANGED <<pc, awaited, accepted, sent, reason>>

\* What the manager says of the session a frame names.
Results == {"ok", "UnknownSession", "NoPendingAnswer", "AnswerUnsupported", "Driver", "Http",
            "Disconnected"}

ErrorCode(result) ==
  CASE result = "UnknownSession" -> "unknown_session"
    [] result \in {"NoPendingAnswer", "AnswerUnsupported"} -> "no_pending_answer"
    [] OTHER -> "session_unavailable"

\* manager.prompt returns at once; without a manager no session is known.
Prompt(f) ==
  /\ Takes(f, {"prompt"})
  /\ \E result \in {"ok", "UnknownSession", "Disconnected"} :
       IF result = "ok"
       THEN accepted' = accepted \cup {f.id} /\ UNCHANGED <<pc, sent, reason>>
       ELSE Send(Reply("error", ErrorCode(result), f.id)) /\ UNCHANGED accepted
  /\ UNCHANGED awaited

\* The arm of a query awaits the probes, that of an interrupt or an answer the session.
Request(f) ==
  /\ Takes(f, {"query", "interrupt", "answer"})
  /\ pc' = "awaiting"
  /\ awaited' = [type |-> Decode(f).type, id |-> f.id]
  /\ UNCHANGED <<accepted, sent, reason>>

\* What comes of request r.
Outcomes(r) ==
  CASE r.type = "query" ->
         {Reply("query_ok", "none", r.id), Reply("error", "unknown_cmd", r.id),
          Reply("error", "unknown_feature", r.id)}
    [] r.type = "interrupt" ->
         {Reply("ack", "none", r.id)}
           \cup {Reply("error", ErrorCode(x), r.id) :
                   x \in Results \ {"ok", "NoPendingAnswer", "AnswerUnsupported"}}
    [] OTHER ->
         {Reply("ack", "none", r.id)} \cup {Reply("error", ErrorCode(x), r.id) : x \in Results \ {"ok"}}

\* Mutant: a refused interrupt or answer is not reported.
RespondIfOk ==
  /\ pc = "awaiting"
  /\ \E r \in Outcomes(awaited) :
       IF r.type = "error" /\ awaited.type # "query" THEN pc' = "select" /\ UNCHANGED <<sent, reason>>
                                                     ELSE Send(r)
  /\ awaited' = NoRequest
  /\ UNCHANGED <<received, accepted, frames>>

Respond ==
  /\ pc = "awaiting"
  /\ \E r \in Outcomes(awaited) : Send(r)
  /\ awaited' = NoRequest
  /\ UNCHANGED <<received, accepted, frames>>

\* A close frame, a socket error or the end of the stream.
ClosedByPeer ==
  /\ pc \in {"hello", "select"}
  /\ pc' = "dropped" /\ reason' = "closed"
  /\ UNCHANGED <<awaited, received, accepted, sent, frames>>

Incoming(f) ==
  Skip(f) \/ ServerPing(f) \/ ServerError(f) \/ Ignore(f) \/ Prompt(f) \/ Request(f)

Next ==
  \/ \E f \in AllFrames : Hello(f) \/ Incoming(f)
  \/ Respond \/ ClosedByPeer

Spec == Init /\ [][Next]_vars

-------------------------------------------------------------------------------
\* The server is owed a frame for q; an accepted prompt is answered by its session's replies.
Owed(q) ==
  \/ q.type \in {"ping", "query", "interrupt", "answer"}
  \/ q.type = "prompt" /\ q.id \notin accepted

\* What the server asked for gets one answer, under its own id: every request but the one
\* being awaited has exactly one reply, an accepted prompt none yet and a refused one an
\* error; and nothing is answered that was not asked (connection.rs:678-891).
RequestsAnswered ==
  LET answered(q) == \E j \in 1..Len(sent) : sent[j].id = q.id
  IN /\ pc = "select" => \A i \in 1..Len(received) : answered(received[i]) <=> Owed(received[i])
     /\ \A j \in 1..Len(sent) : \E i \in 1..Len(received) : received[i].id = sent[j].id
     /\ \A i, j \in 1..Len(sent) : i < j => sent[i].id < sent[j].id

\* Every end has its cause, and these are all (connection.rs:678-917): no hello came, the
\* peer closed, an error frame that decodes, which is the last one handled, or a send that
\* failed, for which the last frame asked.
EndsHaveACause ==
  LET last == Len(received)
  IN  /\ \A i \in 1..last : received[i].type = "error" <=> (i = last /\ reason = "server error")
      /\ pc \in {"hello", "select", "awaiting"} <=> reason = "none"
      /\ pc = "dropped" =>
           \/ reason = "transport" /\ last = 0
           \/ reason = "closed"
           \/ reason = "server error" /\ last > 0
           \/ reason = "send" /\ last > 0 /\ Owed(received[last])

\* A frame this client does not understand or has no use for leaves the connection up, what
\* it owes and what it sent as they were (proto.rs:14-17, connection.rs:678-685, 892-895).
OddFramesAreHarmless ==
  [][\/ UNCHANGED received
     \/ received'[Len(received')].type \in Handled
     \/ UNCHANGED <<pc, awaited, accepted, sent>>]_vars
===============================================================================
