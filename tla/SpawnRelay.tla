------------------------------ MODULE SpawnRelay ------------------------------
(***************************************************************************)
(* One spawn-mode session seen from the server: SpawnSession with           *)
(* session_loop (SessionRelay) as its caller.  run_run's select! may drop   *)
(* session_loop at any await and shut the session down.                     *)
(***************************************************************************)
EXTENDS SpawnSession, SessionRelay

relayedVars == <<vars, relayVars>>

RelayedInit == Init /\ RelayInit

RelayedNext ==
  \/ RelayStep /\ UNCHANGED acpVars
  \/ Shutdown /\ UNCHANGED <<acpVars, relayVars>>
  \/ ManagerStep /\ UNCHANGED <<acpVars, relayVars>>
  \/ DriverStep /\ UNCHANGED <<managerVars, relayVars>>
  \/ AgentStep /\ UNCHANGED <<managerVars, relayVars>>

RelayedSpec == RelayedInit /\ [][RelayedNext]_relayedVars

\* With the session's fair steps, those of session_loop's select! that wait for
\* events and for the window.  EveryPromptAnswered is about a responsive agent.
RelayedArms == {"command", "event", "prompt", "output", "agent", "reply", "window"}
RelayedArm(a) ==
  \/ a \in FairArms /\ Arm(a) /\ UNCHANGED relayVars
  \/ a = "reply" /\ TakeReplyEvent /\ UNCHANGED acpVars
  \/ a = "window" /\ Flush /\ UNCHANGED acpVars

RelayedTypeOK == TypeOK /\ RelayTypeOK

-------------------------------------------------------------------------------
\* The connection only ever does to the session what SpawnSession lets its
\* caller do: what is checked and proved of SpawnSession holds behind it
\* (connection.rs:763-843).
SessionSpec == Spec

\* While a connection is live, the chunks it sent and those it buffers are all
\* the updates it took off the session, in order and once each: batching, the
\* cap, the window and the done frame lose and repeat none (connection.rs:968-995,
\* 1053-1066).
NoChunkLostWhileLive ==
  LET own       == {i \in 1..Len(replies) : replies[i].on = connections}
      chunks(i) == Elements(replies[i].chunks)
  IN  phase = "live" =>
        /\ Elements(buffer) \cup UNION {chunks(i) : i \in own}
             = {n \in since + 1 .. read : events[n].kind = "Update"}
        /\ Rising(buffer)
        /\ \A i \in own : /\ Rising(replies[i].chunks)
                          /\ Before(chunks(i), Elements(buffer))
                          /\ \A j \in own : i < j => Before(chunks(i), chunks(j))

\* Over all connections: a frame holds chunks of one turn only, no chunk is sent
\* twice or out of order, a turn gets at most one done frame, and nothing of it is
\* sent, or waits to be sent, after that.
FramesKeepTurnsApart ==
  /\ \A i \in 1..Len(replies) : \A n \in 1..Len(replies[i].chunks) :
       events[replies[i].chunks[n]].turn = replies[i].turn
  /\ \A i, j \in 1..Len(replies) :
       i < j => /\ replies[i].turn <= replies[j].turn
                /\ replies[i].done => replies[i].turn < replies[j].turn
  /\ \A n \in 1..Len(buffer) : ~Answered(events[buffer[n]].turn)

\* The server is never sent a reply to an id after the done of that id, although
\* the id a frame carries may be that of a later prompt (connection.rs:958-966, 987).
NothingAfterDone ==
  \A i, j \in 1..Len(replies) :
    i < j /\ replies[i].done /\ replies[i].id # NoId => replies[j].id # replies[i].id

\* To a server that sends a prompt only after the done of the one before, every
\* reply carries the id of its own prompt, or a fresh id when the prompt arrived
\* on an earlier connection (connection.rs:656-663).
PatientServerCorrelates ==
  ~overlapped =>
    \A i \in 1..Len(replies) :
      LET f == replies[i] IN f.id = IF promptedOn[f.turn] = f.on THEN f.turn ELSE NoId

\* The documented id of a reply (connection.rs:958-962): the id of the prompt that
\* started its turn, or a fresh one.
ReplyIdIsItsPrompts ==
  \A i \in 1..Len(replies) : replies[i].id \in {NoId, replies[i].turn}

\* Every prompt gets its done frame from a responsive agent, unless the session
\* fails, is shut down or the connection drops first.
EveryPromptAnswered ==
  \A p \in Prompts : (sent >= p) ~> (Answered(p) \/ ~Whole \/ closed \/ phase = "down")
===============================================================================
