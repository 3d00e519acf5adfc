----------------------------- MODULE SessionRelay -----------------------------
(***************************************************************************)
(* src/src/connection.rs for one session: what session_loop does with the   *)
(* prompts and interrupts the server sends and with the events run_session  *)
(* returns, over a sequence of connections.  The envelope id of the p-th    *)
(* prompt is p; a reply without a known id gets a fresh one, NoId.  The     *)
(* coalescer is abstracted to its buffer: its byte cap may be reached by    *)
(* any chunk and its window may close at any time (ReplyCoalescer has the   *)
(* detail).                                                                 *)
(***************************************************************************)
EXTENDS SessionManager

CONSTANT MaxConnections  \* bound: how many connections a behaviour may bring up

ASSUME MaxConnectionsAssumption == MaxConnections \in Nat

\* build_presence_sessions and the resync make these calls on every connection.
ASSUME ConnectCallsAssumption == {"IsBusy", "IsBlocked"} \subseteq Calls

NoId == 0

VARIABLES
  phase,         \* the connection: down, asking is_busy or is_blocked, or live
  connections,   \* how many connections were brought up
  lastPromptId,  \* session_loop: last_prompt_id, NoId when it has no entry
  buffer,        \* session_loop: the coalescer's batch, as positions in events
  read,          \* how many of events were taken off the session's channel
  since,         \* history: read when the connection went live
  replies,       \* history: the reply frames sent, in order
  promptedOn,    \* history: the connection each prompt arrived on
  overlapped     \* history: a prompt arrived before the previous one's done

replyVars   == <<lastPromptId, buffer, replies>>
historyVars == <<since, promptedOn, overlapped>>
relayVars   == <<phase, connections, read, replyVars, historyVars>>

\* A reply frame; chunks are positions in events.  The fields turn and on are
\* ghosts: whose turn the frame is of, and the connection it was sent on.
Reply == [id : 0..MaxPrompts, chunks : Seq(Nat), done : BOOLEAN, turn : Turns,
          on : 1..MaxConnections]

RelayInit ==
  /\ phase = "down"
  /\ connections = 0
  /\ lastPromptId = NoId
  /\ buffer = <<>>
  /\ read = 0 /\ since = 0
  /\ replies = <<>>
  /\ promptedOn = <<>>
  /\ overlapped = FALSE

RelayTypeOK ==
  /\ phase \in {"down", "presence", "resync", "live"}
  /\ connections \in 0..MaxConnections
  /\ lastPromptId \in 0..sent
  /\ buffer \in Seq(1..Len(events))
  /\ read \in 0..Len(events) /\ since \in 0..read
  /\ replies \in Seq(Reply)
  /\ promptedOn \in Seq(1..MaxConnections) /\ Len(promptedOn) = sent
  /\ overlapped \in BOOLEAN

\* The server has seen the done frame of p.
Answered(p) == \E i \in 1..Len(replies) : replies[i].done /\ replies[i].turn = p

-------------------------------------------------------------------------------
(* Coming up: presence asks is_busy, the resync asks is_blocked.             *)

Connect ==
  /\ phase = "down"
  /\ connections < MaxConnections
  /\ connections' = connections + 1
  /\ phase' = "presence"
  /\ Await("IsBusy")
  /\ UNCHANGED <<read, replyVars, historyVars>>

Resync ==
  /\ phase = "presence"
  /\ phase' = "resync"
  /\ Await("IsBlocked")
  /\ UNCHANGED <<connections, read, replyVars, historyVars>>

GoLive ==
  /\ phase = "resync" /\ ~closed /\ call = "none"
  /\ phase' = "live"
  /\ since' = read
  /\ UNCHANGED <<connections, read, replyVars, promptedOn, overlapped, managerVars, portVars>>

\* Mutant: last_prompt_id outlives the connection.
ForgetNotTheId ==
  /\ phase' = "down"
  /\ buffer' = <<>>
  /\ UNCHANGED <<lastPromptId, replies>>

\* A drop ends session_loop and everything it keeps for the connection.
Forget ==
  /\ phase' = "down"
  /\ lastPromptId' = NoId
  /\ buffer' = <<>>
  /\ UNCHANGED replies

Drop ==
  /\ phase # "down" /\ ~closed /\ call = "none"
  /\ Forget
  /\ UNCHANGED <<connections, read, historyVars, managerVars, portVars>>

-------------------------------------------------------------------------------
(* Live: one arm of the select! at a time, none while a call is awaited.     *)

Live == phase = "live" /\ ~closed /\ call = "none"

PromptFrame ==
  /\ Live
  /\ Prompt
  /\ lastPromptId' = sent + 1
  /\ promptedOn' = Append(promptedOn, connections)
  /\ overlapped' = (overlapped \/ \E p \in 1..sent : ~Answered(p))
  /\ UNCHANGED <<phase, connections, read, since, buffer, replies>>

\* Mutant: the interrupt is acked before run_session answers.
InterruptNotAwaited ==
  /\ Live
  /\ "Interrupt" \in Calls /\ calls < MaxCalls
  /\ calls' = calls + 1
  /\ commands' = Append(commands, [kind |-> "Interrupt", turn |-> NoTurn])
  /\ UNCHANGED <<sent, closed, awaitVars, sessionVars, portVars, relayVars>>

InterruptFrame ==
  /\ Live
  /\ "Interrupt" \in Calls
  /\ Await("Interrupt")
  /\ UNCHANGED relayVars

\* Mutant: the id stays.
IdKept(done) == lastPromptId

\* last_prompt_id.remove at the end of the turn.
IdAfter(done) == IF done THEN NoId ELSE lastPromptId

\* Mutant: what is sent stays in the batch.
SendReplyKeepsBatch(chunks, done, turn) ==
  \/ /\ replies' = Append(replies, [id |-> lastPromptId, chunks |-> chunks, done |-> done,
                                    turn |-> turn, on |-> connections])
     /\ buffer' = chunks
     /\ lastPromptId' = IdAfter(done)
     /\ UNCHANGED phase
  \/ Forget

\* Mutant: a failed send is left at that, and the connection goes on.
SendReplyGoesOn(chunks, done, turn) ==
  /\ \/ replies' = Append(replies, [id |-> lastPromptId, chunks |-> chunks, done |-> done,
                                    turn |-> turn, on |-> connections])
     \/ UNCHANGED replies
  /\ buffer' = <<>>
  /\ lastPromptId' = IdAfter(done)
  /\ UNCHANGED phase

\* send_reply_chunks: the frame is sent, or the send fails and the chunks go
\* with the connection.
SendReply(chunks, done, turn) ==
  \/ /\ replies' = Append(replies, [id |-> lastPromptId, chunks |-> chunks, done |-> done,
                                    turn |-> turn, on |-> connections])
     /\ buffer' = <<>>
     /\ lastPromptId' = IdAfter(done)
     /\ UNCHANGED phase
  \/ Forget

\* Mutant: the batch is dropped at the end of the turn.
NoStragglers == <<>>

\* coalescer.take: the chunks that ride out with the done frame.
Stragglers == buffer

\* The event arm takes the session's next event.
TakeReplyEvent ==
  /\ Live
  /\ read < Len(events)
  /\ read' = read + 1
  /\ LET e == events[read + 1] IN
       \/ /\ e.kind = "Update"
          /\ buffer' = Append(buffer, read + 1)
          /\ UNCHANGED <<phase, lastPromptId, replies>>
       \/ /\ e.kind = "Update"
          /\ SendReply(Append(buffer, read + 1), FALSE, e.turn)
       \/ /\ e.kind \in StopKinds
          /\ SendReply(Stragglers, TRUE, e.turn)
       \/ /\ e.kind \in StatusKinds
          /\ UNCHANGED <<phase, replyVars>>
  /\ UNCHANGED <<connections, historyVars, managerVars, portVars>>

\* The flush arm: the window of the batch closed.
Flush ==
  /\ Live
  /\ buffer # <<>>
  /\ SendReply(buffer, FALSE, events[buffer[1]].turn)
  /\ UNCHANGED <<connections, read, historyVars, managerVars, portVars>>

RelayStep ==
  Connect \/ Resync \/ GoLive \/ Drop \/ PromptFrame \/ InterruptFrame \/ TakeReplyEvent \/ Flush
===============================================================================
