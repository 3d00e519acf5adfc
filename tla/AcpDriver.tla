------------------------------- MODULE AcpDriver -------------------------------
(***************************************************************************)
(* src/src/acp_driver.rs: run_command_loop, the background task of one      *)
(* spawned session, and (external) the agent subprocess it talks ACP to     *)
(* over stdio.  ACP's pipes are FIFO; a pipe of a dead process is lost.     *)
(***************************************************************************)
EXTENDS DriverPort

CONSTANT MaxUpdates  \* bound: how many updates the agent streams in a behaviour

ASSUME MaxUpdatesAssumption == MaxUpdates \in Nat

VARIABLES
  inFlight,    \* run_command_loop: prompt_in_flight
  toAgent,     \* prompts and cancels written to the agent, not yet read by it
  fromAgent,   \* messages of the agent the loop has not yet read
  agentUp,     \* external: the agent process runs
  running,     \* external: the prompts the agent is working on
  cancelled,   \* external: those of them it was told to cancel
  updates,     \* external: how many updates it has streamed
  agentTurns   \* history: the prompts the agent received, in order

agentVars  == <<agentUp, running, cancelled, updates, agentTurns>>
acpVars    == <<inFlight, toAgent, fromAgent, agentVars>>

AgentMessage == [kind : {"Update", "Malformed"} \cup StopKinds, turn : Prompts]

AcpInit ==
  /\ inFlight = FALSE
  /\ toAgent = <<>> /\ fromAgent = <<>>
  /\ agentUp = TRUE
  /\ running = {} /\ cancelled = {}
  /\ updates = 0
  /\ agentTurns = <<>>

AcpTypeOK ==
  /\ inFlight \in BOOLEAN
  /\ toAgent \in Seq(DriverCommand)
  /\ fromAgent \in Seq(AgentMessage)
  /\ agentUp \in BOOLEAN
  /\ running \in SUBSET Prompts /\ cancelled \in SUBSET running
  /\ updates \in 0..MaxUpdates
  /\ agentTurns \in Seq(Prompts)

-------------------------------------------------------------------------------
(* run_command_loop.                                                         *)

ReceiveCommand(k) ==
  /\ driverUp
  /\ driverCommands # <<>> /\ Head(driverCommands).kind = k
  /\ driverCommands' = Tail(driverCommands)

\* Mutant: no look at prompt_in_flight.
SendPromptAlways ==
  /\ ReceiveCommand("Prompt")
  /\ toAgent' = Append(toAgent, Head(driverCommands))
  /\ inFlight' = TRUE
  /\ driverEvents' = Append(driverEvents, Event("Working", Head(driverCommands).turn))
  /\ UNCHANGED <<driverUp, driverClosed, fromAgent, agentVars>>

SendPrompt ==
  /\ ~inFlight
  /\ ReceiveCommand("Prompt")
  /\ toAgent' = Append(toAgent, Head(driverCommands))
  /\ inFlight' = TRUE
  /\ driverEvents' = Append(driverEvents, Event("Working", Head(driverCommands).turn))
  /\ UNCHANGED <<driverUp, driverClosed, fromAgent, agentVars>>

\* Some(Command::Prompt(_)) => continue
DropWhileInFlight ==
  /\ inFlight
  /\ ReceiveCommand("Prompt")
  /\ UNCHANGED <<driverEvents, driverUp, driverClosed, acpVars>>

SendCancel ==
  /\ ReceiveCommand("Cancel")
  /\ toAgent' = Append(toAgent, CancelCommand)
  /\ UNCHANGED <<driverEvents, driverUp, driverClosed, inFlight, fromAgent, agentVars>>

\* session.read_update() is polled only while a prompt is in flight.
ReadMessage(kinds) ==
  /\ driverUp /\ inFlight
  /\ fromAgent # <<>> /\ Head(fromAgent).kind \in kinds

ReadUpdate ==
  /\ ReadMessage({"Update"})
  /\ fromAgent' = Tail(fromAgent)
  /\ driverEvents' = Append(driverEvents, Event("Update", Head(fromAgent).turn))
  /\ UNCHANGED <<driverCommands, driverUp, driverClosed, inFlight, toAgent, agentVars>>

\* Mutant: the stop is sent before the Idle status.
ReadStopThenIdle ==
  /\ ReadMessage(StopKinds)
  /\ fromAgent' = Tail(fromAgent)
  /\ inFlight' = FALSE
  /\ LET stop == Head(fromAgent) IN
       driverEvents' = Append(Append(driverEvents, Event(stop.kind, stop.turn)),
                              Event("Idle", stop.turn))
  /\ UNCHANGED <<driverCommands, driverUp, driverClosed, toAgent, agentVars>>

ReadStop ==
  /\ ReadMessage(StopKinds)
  /\ fromAgent' = Tail(fromAgent)
  /\ inFlight' = FALSE
  /\ LET stop == Head(fromAgent) IN
       driverEvents' = Append(Append(driverEvents, Event("Idle", stop.turn)),
                              Event(stop.kind, stop.turn))
  /\ UNCHANGED <<driverCommands, driverUp, driverClosed, toAgent, agentVars>>

\* The task ends: both channel ends it holds are dropped, and the connection
\* with the subprocess, which is killed, goes with it.
TaskEnds ==
  /\ driverUp' = FALSE
  /\ driverCommands' = <<>>
  /\ toAgent' = <<>> /\ fromAgent' = <<>>
  /\ inFlight' = FALSE
  /\ agentUp' = FALSE
  /\ running' = {} /\ cancelled' = {}
  /\ UNCHANGED <<driverEvents, driverClosed, updates, agentTurns>>

\* extract_update_text(dispatch).await? on an update that does not parse.
ReadMalformed == ReadMessage({"Malformed"}) /\ TaskEnds

\* The agent died: a send or a read fails, whatever was still in the pipes.
ConnectionLost == driverUp /\ ~agentUp /\ TaskEnds

\* command_rx.recv() returns None.
CommandsClosed == driverUp /\ driverClosed /\ driverCommands = <<>> /\ TaskEnds

DriverStep ==
  SendPrompt \/ DropWhileInFlight \/ SendCancel \/ ReadUpdate \/ ReadStop \/ ReadMalformed
    \/ ConnectionLost \/ CommandsClosed

-------------------------------------------------------------------------------
(* The agent (external).  It may take as long as it likes over a turn, end   *)
(* it before or after it reads a cancel, ignore the cancel, or die.          *)

AgentReads ==
  /\ agentUp
  /\ toAgent # <<>>
  /\ toAgent' = Tail(toAgent)
  /\ LET c == Head(toAgent) IN
       \/ /\ c.kind = "Prompt"
          /\ running' = running \cup {c.turn}
          /\ agentTurns' = Append(agentTurns, c.turn)
          /\ UNCHANGED cancelled
       \/ /\ c.kind = "Cancel"
          /\ cancelled' = running
          /\ UNCHANGED <<running, agentTurns>>
  /\ UNCHANGED <<portVars, inFlight, fromAgent, agentUp, updates>>

AgentStreams ==
  /\ agentUp
  /\ updates < MaxUpdates
  /\ updates' = updates + 1
  /\ \E p \in running, k \in {"Update", "Malformed"} : fromAgent' = Append(fromAgent, Event(k, p))
  /\ UNCHANGED <<portVars, inFlight, toAgent, agentUp, running, cancelled, agentTurns>>

AgentEnds(p) ==
  /\ agentUp
  /\ p \in running
  /\ running' = running \ {p}
  /\ cancelled' = cancelled \ {p}
  /\ \E k \in StopKinds :
       /\ k = "Cancelled" => p \in cancelled
       /\ fromAgent' = Append(fromAgent, Event(k, p))
  /\ UNCHANGED <<portVars, inFlight, toAgent, agentUp, updates, agentTurns>>

AgentDies ==
  /\ agentUp
  /\ agentUp' = FALSE
  /\ running' = {} /\ cancelled' = {}
  /\ toAgent' = <<>>
  /\ UNCHANGED <<portVars, inFlight, fromAgent, updates, agentTurns>>

AgentStep == AgentReads \/ AgentStreams \/ (\E p \in Prompts : AgentEnds(p)) \/ AgentDies
===============================================================================
