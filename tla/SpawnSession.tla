----------------------------- MODULE SpawnSession -----------------------------
(***************************************************************************)
(* One spawn-mode session end to end: the caller, run_session, the ACP      *)
(* driver's command loop and the agent subprocess, as four processes whose  *)
(* steps interleave and which share only the channels between them.         *)
(***************************************************************************)
EXTENDS SessionManager, AcpDriver

vars == <<portVars, managerVars, acpVars>>

Init == PortInit /\ ManagerInit /\ AcpInit

Next ==
  \/ CallerStep /\ UNCHANGED acpVars
  \/ ManagerStep /\ UNCHANGED acpVars
  \/ DriverStep /\ UNCHANGED managerVars
  \/ AgentStep /\ UNCHANGED managerVars

Spec == Init /\ [][Next]_vars

\* The steps that are taken if they stay ready.  tokio::select! polls its arms in
\* random order: each arm of the two loops is one of them, and so are the stall
\* timer and the agent's reading of its stdin.
ManagerArm(a) ==
  /\ \/ a = "command" /\ ReceiveStep
     \/ a = "event" /\ TakeEvent
     \/ a = "gone" /\ DriverGone
     \/ a = "stall" /\ StallTimeout
     \/ a = "stopped" /\ ManagerStopped
  /\ UNCHANGED acpVars

DriverArm(a) ==
  /\ \/ a = "prompt" /\ (SendPrompt \/ DropWhileInFlight \/ SendCancel \/ CommandsClosed)
     \/ a = "output" /\ (ReadUpdate \/ ReadStop \/ ReadMalformed)
     \/ a = "lost" /\ ConnectionLost
     \/ a = "agent" /\ AgentReads
  /\ UNCHANGED managerVars

FairArms == {"command", "event", "gone", "stall", "stopped", "prompt", "output", "lost", "agent"}
Arm(a) == ManagerArm(a) \/ DriverArm(a)

\* The agent need not end a turn; a responsive one takes this step for every turn.
FairSpec == Spec /\ \A a \in FairArms : WF_vars(Arm(a))
Ends(p) == AgentEnds(p) /\ UNCHANGED managerVars

TypeOK == PortTypeOK /\ ManagerTypeOK /\ AcpTypeOK

-------------------------------------------------------------------------------
\* The session is whole: no stall timeout has cleared a turn, and neither the
\* agent nor the driver's task has ended.
Whole == ~forced /\ agentUp /\ driverUp

\* Every prompt on its way to the agent.
OnTheWay ==
  PromptNumbers(toAgent) \cup PromptNumbers(driverCommands) \cup Elements(queue)
    \cup PromptNumbers(commands)

\* The session keeps its prompts the way PromptLedger promises: one turn at a
\* time, in order, none lost and none repeated while it is whole, and after a
\* failure still never two at once, out of order or twice
\* (run_session, run_command_loop).
Ledger == INSTANCE PromptLedger WITH
  accepted <- sent,
  waiting <- OnTheWay,
  turn <- IF running = {} THEN 0 ELSE CHOOSE p \in running : TRUE,
  failed <- ~Whole

LedgerSpec == Ledger!Spec

\* The agent is never working on two prompts, not even after a stall timeout
\* made run_session hand over a prompt during a turn (acp_driver.rs:347-351).
OneTurnAtATime == AtMostOne(running)

\* While run_session still has a driver, prompts wait in its queue only behind
\* a turn it will be told the end of, and the stall deadline is armed only
\* during such a turn: no prompt is stranded by an earlier turn's end.
QueueOnlyBehindATurn ==
  driverAlive => /\ queue # <<>> => busy
                 /\ deadline => busy

\* Until a stall timeout has cleared a turn, the busy flag of run_session says
\* exactly whether one turn is somewhere in the driver: handed over, in flight,
\* or ended with its stop not yet taken; and it is in one of the three places only.
BusyMeansATurn ==
  ~forced /\ driverUp =>
    /\ busy <=> PromptsIn(driverCommands) # {} \/ inFlight \/ StopsIn(driverEvents) # {}
    /\ inFlight => PromptsIn(driverCommands) = {} /\ StopsIn(driverEvents) = {}
    /\ PromptsIn(driverCommands) # {} => StopsIn(driverEvents) = {}
    /\ AtMostOne(PromptsIn(driverCommands))
    /\ AtMostOne(StopsIn(driverEvents))

\* What the connection is told of turns comes in turn order: no event of an
\* earlier prompt after one of a later prompt, and nothing of a prompt after its
\* stop (the replies of connection.rs:956-1034 are built from these events).
EventsInTurnOrder ==
  \A i, j \in 1..Len(events) :
    i < j => /\ events[i].turn <= events[j].turn
             /\ events[i].kind \in StopKinds => events[i].turn < events[j].turn

\* The driver's loop and the agent agree on the turn in flight: there is at most
\* one of a prompt in the pipe, a turn the agent works on and a stop in the pipe
\* back, and none of them unless prompt_in_flight is set (acp_driver.rs:345-377).
InFlightMeansATurn ==
  /\ ~inFlight => PromptsIn(toAgent) = {} /\ running = {} /\ StopsIn(fromAgent) = {}
  /\ running # {} => PromptsIn(toAgent) = {} /\ StopsIn(fromAgent) = {}
  /\ PromptsIn(toAgent) # {} => StopsIn(fromAgent) = {}
  /\ AtMostOne(PromptsIn(toAgent)) /\ AtMostOne(running) /\ AtMostOne(StopsIn(fromAgent))

\* An interrupt is answered NoTurnInFlight only if the agent has no turn, and
\* none is on its way to it, as long as no stall timeout cleared one.
NoTurnInFlightIsTrue ==
  [][ reply' = "NoTurnInFlight" /\ reply # reply' /\ ~forced
        => running = {} /\ PromptsIn(toAgent) = {} /\ PromptsIn(driverCommands) = {} ]_vars

-------------------------------------------------------------------------------
\* A prompt accepted from a responsive agent's session reaches the agent, unless
\* the session fails or is shut down first (queue drained as turns complete).
PromptsReachAgent ==
  \A p \in Prompts :
    (sent >= p) ~> (\E i \in 1..Len(agentTurns) : agentTurns[i] = p) \/ ~Whole \/ closed

\* Every awaited call returns, dead driver or not: session_loop, which serves
\* the whole connection, is never left waiting for run_session.
CallsReturn == (call # "none") ~> (call = "none")

\* SessionManager::shutdown returns, with the agent gone, from every state and
\* whatever the agent does.
ShutdownCompletes == closed ~> (managerPc = "stopped" /\ ~agentUp)

\* The documented effect of the stall timeout (session_manager.rs:64-70): after
\* an acked interrupt the prompts queued behind the turn do not wait forever,
\* even if the agent never ends that turn.
InterruptFreesQueue ==
  (deadline /\ queue # <<>>) ~> (queue = <<>> \/ ~driverUp \/ closed)

\* The documented handling of a session whose driver has ended
\* (proto.rs:39-44): its prompts are refused, not silently dropped.
NoSilentDrop ==
  [][ commands # <<>> /\ Head(commands).kind = "Prompt" /\ commands' = Tail(commands)
        => driverAlive \/ closed ]_vars
===============================================================================
