------------------------- MODULE SpawnSession_proofs -------------------------
(***************************************************************************)
(* Theorems about SpawnSession for every value of its constants.            *)
(***************************************************************************)
EXTENDS SpawnSession, SessionManager_proofs

-------------------------------------------------------------------------------
(* Type correctness. *)

\* What the agent writes, in the pipe and as an event.
LEMMA AgentMessageTypes ==
  \A k \in {"Update", "Malformed"} \cup StopKinds, p \in Prompts : Event(k, p) \in AgentMessage
BY DEF Event, AgentMessage, StopKinds

\* What the head of each channel can be.
LEMMA HeadTypes ==
  ASSUME TypeOK
  PROVE  /\ commands # <<>> =>
              /\ Head(commands) \in ManagerCommand
              /\ Head(commands).kind = "Prompt" => Head(commands).turn \in Prompts
              /\ Tail(commands) \in Seq(ManagerCommand)
         /\ queue # <<>> => Head(queue) \in Prompts /\ Tail(queue) \in Seq(Prompts)
         /\ driverCommands # <<>> =>
              /\ Head(driverCommands) \in DriverCommand
              /\ Head(driverCommands).kind = "Prompt" => Head(driverCommands).turn \in Prompts
              /\ Tail(driverCommands) \in Seq(DriverCommand)
         /\ driverEvents # <<>> =>
              /\ Head(driverEvents) \in DriverEvent
              /\ Tail(driverEvents) \in Seq(DriverEvent)
         /\ toAgent # <<>> =>
              /\ Head(toAgent) \in DriverCommand
              /\ Head(toAgent).kind = "Prompt" => Head(toAgent).turn \in Prompts
              /\ Tail(toAgent) \in Seq(DriverCommand)
         /\ fromAgent # <<>> =>
              /\ Head(fromAgent) \in AgentMessage
              /\ Head(fromAgent).turn \in Prompts
              /\ Tail(fromAgent) \in Seq(AgentMessage)
<1>1. toAgent # <<>> => Head(toAgent) \in DriverCommand /\ Tail(toAgent) \in Seq(DriverCommand)
  BY DEF TypeOK, AcpTypeOK
<1>2. \A c \in DriverCommand : c.kind = "Prompt" => c.turn \in Prompts
  BY DEF DriverCommand
<1>3. fromAgent # <<>> => Head(fromAgent) \in AgentMessage /\ Tail(fromAgent) \in Seq(AgentMessage)
  BY DEF TypeOK, AcpTypeOK
<1>4. \A m \in AgentMessage : m.turn \in Prompts
  BY DEF AgentMessage
<1>5. PairTypeOK
  BY DEF TypeOK, PairTypeOK
<1> QED
  BY <1>1, <1>2, <1>3, <1>4, <1>5, PairHeadTypes

\* A session starts empty and idle, with its agent running.
LEMMA TypeInit == Init => TypeOK
<1> SUFFICES ASSUME Init PROVE TypeOK
  OBVIOUS
<1>1. PairTypeOK
  BY PairTypeInit DEF Init
<1>2. updates \in 0..MaxUpdates
  BY MaxUpdatesAssumption DEF Init, AcpInit
<1>3. /\ toAgent \in Seq(DriverCommand) /\ fromAgent \in Seq(AgentMessage)
      /\ agentTurns \in Seq(Prompts)
  BY EmptyType DEF Init, AcpInit
<1>4. AcpTypeOK
  BY <1>2, <1>3 DEF Init, AcpInit, AcpTypeOK
<1> QED
  BY <1>1, <1>4 DEF TypeOK, PairTypeOK

\* A step of the caller or of run_session: its own two arms, and those of every session.
LEMMA ManagerType ==
  ASSUME TypeOK, CallerStep \/ ManagerStep, UNCHANGED acpVars
  PROVE  TypeOK'
<1>1. AcpTypeOK'
  BY DEF TypeOK, AcpTypeOK, acpVars, agentVars
<1>2. PairTypeOK
  BY DEF TypeOK, PairTypeOK
<1>3. CASE CallerStep
  BY <1>1, <1>2, <1>3, CallerType DEF TypeOK, PairTypeOK
<1>4. CASE CommonStep
  BY <1>1, <1>2, <1>4, CommonType DEF TypeOK, PairTypeOK
<1>5. CASE InterruptTurn
  <2>1. commands' \in Seq(ManagerCommand)
    BY <1>2, <1>5, ReceiveType DEF InterruptTurn
  <2>2. driverCommands' \in Seq(DriverCommand)
    BY <1>5, MessageTypes, AppendType DEF InterruptTurn, AttemptCancel, TypeOK, PortTypeOK
  <2>3. deadline' \in BOOLEAN
    BY <1>5 DEF InterruptTurn, AttemptCancel, TypeOK, ManagerTypeOK
  <2>4. call' \in {"none"} \cup AwaitedCalls /\ reply' \in Replies
    BY <1>2, <1>5, ReturnType DEF InterruptTurn, AttemptCancel, Replies
  <2> QED
    BY <1>1, <1>5, <2>1, <2>2, <2>3, <2>4
    DEF InterruptTurn, TypeOK, PortTypeOK, ManagerTypeOK, callerVars
<1>6. CASE AnswerAcp
  <2>1. commands' \in Seq(ManagerCommand)
    BY <1>2, <1>6, ReceiveType DEF AnswerAcp
  <2>2. call' \in {"none"} \cup AwaitedCalls /\ reply' \in Replies
    BY <1>2, <1>6, ReturnType DEF AnswerAcp, Replies
  <2> QED
    BY <1>1, <1>6, <2>1, <2>2
    DEF AnswerAcp, TypeOK, PortTypeOK, ManagerTypeOK, callerVars, sessionVars, portVars
<1> QED
  BY <1>3, <1>4, <1>5, <1>6 DEF ManagerStep, ReceiveStep, CommonStep, CommonReceive

\* The driver's loop keeps the types.
LEMMA DriverType ==
  ASSUME TypeOK, DriverStep, UNCHANGED managerVars
  PROVE  TypeOK'
<1> USE DEF managerVars, sessionVars, awaitVars, callerVars, agentVars, acpVars
<1>1. ManagerTypeOK'
  BY DEF TypeOK, ManagerTypeOK
<1>2. ASSUME NEW k, ReceiveCommand(k)
      PROVE  driverCommands' \in Seq(DriverCommand)
  BY <1>2, HeadTypes DEF ReceiveCommand
<1>3. CASE SendPrompt
  <2>1. Head(driverCommands) \in DriverCommand /\ Head(driverCommands).turn \in Prompts
    BY <1>3, HeadTypes DEF SendPrompt, ReceiveCommand
  <2>2. toAgent' \in Seq(DriverCommand)
    BY <1>3, <2>1, AppendType DEF SendPrompt, TypeOK, AcpTypeOK
  <2>3. driverEvents' \in Seq(DriverEvent)
    BY <1>3, <2>1, MessageTypes, AppendType
    DEF SendPrompt, TypeOK, PortTypeOK, EventKinds, StatusKinds
  <2> QED
    BY <1>1, <1>2, <1>3, <2>2, <2>3 DEF SendPrompt, TypeOK, PortTypeOK, AcpTypeOK
<1>4. CASE DropWhileInFlight
  BY <1>1, <1>2, <1>4 DEF DropWhileInFlight, TypeOK, PortTypeOK, AcpTypeOK
<1>5. CASE SendCancel
  <2>1. toAgent' \in Seq(DriverCommand)
    BY <1>5, MessageTypes, AppendType DEF SendCancel, TypeOK, AcpTypeOK
  <2> QED
    BY <1>1, <1>2, <1>5, <2>1 DEF SendCancel, TypeOK, PortTypeOK, AcpTypeOK
<1>6. CASE ReadUpdate
  <2>1. fromAgent' \in Seq(AgentMessage) /\ Event("Update", Head(fromAgent).turn) \in DriverEvent
    BY <1>6, HeadTypes, MessageTypes DEF ReadUpdate, ReadMessage, EventKinds
  <2>2. driverEvents' \in Seq(DriverEvent)
    BY <1>6, <2>1, AppendType DEF ReadUpdate, TypeOK, PortTypeOK
  <2> QED
    BY <1>1, <1>6, <2>1, <2>2 DEF ReadUpdate, TypeOK, PortTypeOK, AcpTypeOK
<1>7. CASE ReadStop
  <2> DEFINE stop == Head(fromAgent)
  <2>1. /\ fromAgent' \in Seq(AgentMessage)
        /\ Event("Idle", stop.turn) \in DriverEvent
        /\ Event(stop.kind, stop.turn) \in DriverEvent
    BY <1>7, HeadTypes, MessageTypes DEF ReadStop, ReadMessage, EventKinds, StatusKinds
  <2>2. Append(driverEvents, Event("Idle", stop.turn)) \in Seq(DriverEvent)
    BY <2>1, AppendType DEF TypeOK, PortTypeOK
  <2>3. driverEvents' \in Seq(DriverEvent)
    BY <1>7, <2>1, <2>2, AppendType DEF ReadStop
  <2> QED
    BY <1>1, <1>7, <2>1, <2>3 DEF ReadStop, TypeOK, PortTypeOK, AcpTypeOK
<1>8. CASE TaskEnds
  BY <1>1, <1>8, EmptyType DEF TaskEnds, TypeOK, PortTypeOK, AcpTypeOK
<1> QED
  BY <1>3, <1>4, <1>5, <1>6, <1>7, <1>8
  DEF DriverStep, ReadMalformed, ConnectionLost, CommandsClosed

\* The agent keeps the types.
LEMMA AgentType ==
  ASSUME TypeOK, AgentStep, UNCHANGED managerVars
  PROVE  TypeOK'
<1> USE DEF managerVars, sessionVars, awaitVars, callerVars, portVars
<1>1. ManagerTypeOK' /\ PortTypeOK'
  BY DEF AgentStep, AgentReads, AgentStreams, AgentEnds, AgentDies, TypeOK, ManagerTypeOK,
         PortTypeOK
<1>2. CASE AgentReads
  BY <1>1, <1>2, HeadTypes, AppendType DEF AgentReads, TypeOK, AcpTypeOK
<1>3. CASE AgentStreams
  <2>1. fromAgent' \in Seq(AgentMessage)
    BY <1>3, AgentMessageTypes, AppendType DEF AgentStreams, TypeOK, AcpTypeOK
  <2> QED
    BY <1>1, <1>3, <2>1, MaxUpdatesAssumption DEF AgentStreams, TypeOK, AcpTypeOK
<1>4. ASSUME NEW p \in Prompts, AgentEnds(p)
      PROVE  TypeOK'
  <2>1. fromAgent' \in Seq(AgentMessage)
    BY <1>4, AgentMessageTypes, AppendType DEF AgentEnds, TypeOK, AcpTypeOK
  <2> QED
    BY <1>1, <1>4, <2>1 DEF AgentEnds, TypeOK, AcpTypeOK
<1>5. CASE AgentDies
  BY <1>1, <1>5, EmptyType DEF AgentDies, TypeOK, AcpTypeOK
<1> QED
  BY <1>2, <1>3, <1>4, <1>5 DEF AgentStep

\* Every variable of a session keeps its type, in every reachable state.
THEOREM TypeCorrect == Spec => []TypeOK
<1>1. ASSUME TypeOK, [Next]_vars
      PROVE  TypeOK'
  <2>1. CASE UNCHANGED vars
    BY <1>1, <2>1
    DEF vars, portVars, managerVars, callerVars, awaitVars, sessionVars, acpVars, agentVars,
        TypeOK, PortTypeOK, ManagerTypeOK, AcpTypeOK
  <2> QED
    BY <1>1, <2>1, ManagerType, DriverType, AgentType DEF Next
<1> QED
  BY <1>1, TypeInit, PTL DEF Spec

-------------------------------------------------------------------------------
(* The queue of run_session. *)

\* Only run_session moves the queue, and it ends a turn only by taking over from it.
LEMMA QueueStep ==
  ASSUME TypeOK, QueueOnlyBehindATurn, [Next]_vars
  PROVE  QueueOnlyBehindATurn'
<1> USE DEF QueueOnlyBehindATurn, portVars, managerVars, callerVars, awaitVars, sessionVars
<1>1. CASE CallerStep
  BY <1>1 DEF CallerStep, Prompt, Await, Shutdown
<1>2. ASSUME TurnOver
      PROVE  QueueOnlyBehindATurn'
  <2>1. driverUp \in BOOLEAN
    BY DEF TypeOK, PortTypeOK
  <2>2. /\ deadline' = FALSE
        /\ \/ queue' = <<>>
           \/ busy' = driverUp /\ driverAlive' = (driverAlive /\ driverUp)
    BY <1>2 DEF TurnOver, HandOver
  <2> QED
    BY <2>1, <2>2
<1>3. CASE StartPrompt
  <2>1. /\ driverAlive /\ busy' = driverUp /\ driverAlive' = (driverAlive /\ driverUp)
        /\ UNCHANGED <<queue, deadline>>
    BY <1>3 DEF StartPrompt, HandOver
  <2>2. driverUp \in BOOLEAN
    BY DEF TypeOK, PortTypeOK
  <2> QED
    BY <2>1, <2>2
<1>4. CASE QueuePrompt
  BY <1>4 DEF QueuePrompt, Queued
<1>5. CASE InterruptTurn
  BY <1>5 DEF InterruptTurn, AttemptCancel
<1>6. CASE DropPrompt \/ InterruptIdle \/ AnswerAcp \/ TellFlag \/ StopManager \/ ManagerStopped
  BY <1>6 DEF DropPrompt, InterruptIdle, AnswerAcp, TellFlag, StopManager, ManagerStopped
<1>7. CASE TakeEvent
  BY <1>2, <1>7 DEF TakeEvent, EndsTurn
<1>8. CASE DriverGone
  BY <1>8 DEF DriverGone
<1>9. CASE StallTimeout
  BY <1>2, <1>9 DEF StallTimeout
<1>10. CASE UNCHANGED managerVars
  BY <1>10
<1> QED
  BY <1>1, <1>3, <1>4, <1>5, <1>6, <1>7, <1>8, <1>9, <1>10
  DEF Next, vars, ManagerStep, ReceiveStep

\* run_session never strands a prompt in its queue, nor arms the stall deadline,
\* with no turn whose end would drain the one and disarm the other.
THEOREM QueueNeverStranded == Spec => []QueueOnlyBehindATurn
<1>1. Init => QueueOnlyBehindATurn
  BY DEF Init, ManagerInit, QueueOnlyBehindATurn
<1> QED
  BY <1>1, QueueStep, TypeCorrect, PTL DEF Spec

-------------------------------------------------------------------------------
(* The turn in the driver and its agent. *)

\* Each process's share of InFlightMeansATurn.
LEMMA InFlightDriver ==
  ASSUME TypeOK, InFlightMeansATurn, DriverStep
  PROVE  InFlightMeansATurn'
<1> USE DEF InFlightMeansATurn, agentVars, acpVars, PromptsIn, StopsIn
<1>1. CASE SendPrompt
  <2>1. Head(driverCommands) \in DriverCommand /\ Head(driverCommands).kind = "Prompt"
    BY <1>1, HeadTypes DEF SendPrompt, ReceiveCommand
  <2>2. PromptsIn(toAgent') = {Len(toAgent) + 1}
    BY <1>1, <2>1, PositionsAppend DEF SendPrompt, TypeOK, AcpTypeOK
  <2> QED
    BY <1>1, <2>2 DEF SendPrompt, AtMostOne
<1>2. CASE DropWhileInFlight
  BY <1>2 DEF DropWhileInFlight
<1>3. CASE SendCancel
  <2>1. CancelCommand \in DriverCommand /\ CancelCommand.kind \notin {"Prompt"}
    BY MessageTypes DEF CancelCommand
  <2>2. PromptsIn(toAgent') = PromptsIn(toAgent)
    BY <1>3, <2>1, PositionsAppend DEF SendCancel, TypeOK, AcpTypeOK
  <2> QED
    BY <1>3, <2>2 DEF SendCancel
<1>4. CASE ReadUpdate
  <2>1. fromAgent # <<>> /\ inFlight
    BY <1>4 DEF ReadUpdate, ReadMessage
  <2>2. /\ StopsIn(fromAgent) = {} => StopsIn(fromAgent') = {}
        /\ AtMostOne(StopsIn(fromAgent)) => AtMostOne(StopsIn(fromAgent'))
    BY <1>4, <2>1, ReceiveKeeps DEF ReadUpdate, TypeOK, AcpTypeOK
  <2> QED
    BY <1>4, <2>1, <2>2 DEF ReadUpdate
<1>5. CASE ReadStop
  <2>1. fromAgent # <<>> /\ Head(fromAgent).kind \in StopKinds
    BY <1>5 DEF ReadStop, ReadMessage
  <2>2. StopsIn(fromAgent') = {}
    BY <1>5, <2>1, ReceiveOnly DEF ReadStop, TypeOK, AcpTypeOK
  <2>3. StopsIn(fromAgent) # {}
    BY <2>1, PositionsHead DEF TypeOK, AcpTypeOK
  <2> QED
    BY <1>5, <2>2, <2>3 DEF ReadStop, AtMostOne
<1>6. CASE TaskEnds
  BY <1>6 DEF TaskEnds, Positions, AtMostOne
<1> QED
  BY <1>1, <1>2, <1>3, <1>4, <1>5, <1>6
  DEF DriverStep, ReadMalformed, ConnectionLost, CommandsClosed

\* The agent moves the token from its input to its hands to its output.
LEMMA InFlightAgent ==
  ASSUME TypeOK, InFlightMeansATurn, AgentStep
  PROVE  InFlightMeansATurn'
<1> USE DEF InFlightMeansATurn, PromptsIn, StopsIn
<1>1. CASE AgentReads
  <2>1. toAgent # <<>> /\ toAgent' = Tail(toAgent) /\ UNCHANGED <<inFlight, fromAgent>>
    BY <1>1 DEF AgentReads
  <2>2. /\ PromptsIn(toAgent) = {} => PromptsIn(toAgent') = {}
        /\ AtMostOne(PromptsIn(toAgent'))
    BY <2>1, ReceiveKeeps DEF TypeOK, AcpTypeOK
  <2>3. CASE Head(toAgent).kind = "Prompt" /\ running' = running \cup {Head(toAgent).turn}
    <3>1. PromptsIn(toAgent') = {}
      BY <2>1, <2>3, ReceiveOnly DEF TypeOK, AcpTypeOK
    <3>2. PromptsIn(toAgent) # {}
      BY <2>1, <2>3, PositionsHead DEF TypeOK, AcpTypeOK
    <3> QED
      BY <2>1, <2>3, <3>1, <3>2 DEF AtMostOne
  <2>4. CASE Head(toAgent).kind # "Prompt" /\ running' = running
    BY <2>1, <2>2, <2>4
  <2> QED
    BY <1>1, <2>3, <2>4 DEF AgentReads
<1>2. CASE AgentStreams
  <2>1. PICK p \in running, k \in {"Update", "Malformed"} : fromAgent' = Append(fromAgent, Event(k, p))
    BY <1>2 DEF AgentStreams
  <2>2. Event(k, p) \in AgentMessage /\ Event(k, p).kind \notin StopKinds
    BY AgentMessageTypes DEF TypeOK, AcpTypeOK, Event, StopKinds
  <2>3. StopsIn(fromAgent') = StopsIn(fromAgent)
    BY <2>1, <2>2, PositionsAppend DEF TypeOK, AcpTypeOK
  <2> QED
    BY <1>2, <2>3 DEF AgentStreams
<1>3. ASSUME NEW p \in Prompts, AgentEnds(p)
      PROVE  InFlightMeansATurn'
  <2>1. PICK k \in StopKinds : fromAgent' = Append(fromAgent, Event(k, p))
    BY <1>3 DEF AgentEnds
  <2>2. Event(k, p) \in AgentMessage /\ Event(k, p).kind \in StopKinds
    BY AgentMessageTypes DEF Event
  <2>3. StopsIn(fromAgent') = StopsIn(fromAgent) \cup {Len(fromAgent) + 1}
    BY <2>1, <2>2, PositionsAppend DEF TypeOK, AcpTypeOK
  <2>4. p \in running /\ running' = running \ {p} /\ UNCHANGED <<inFlight, toAgent>>
    BY <1>3 DEF AgentEnds
  <2> QED
    BY <2>3, <2>4 DEF AtMostOne
<1>4. CASE AgentDies
  BY <1>4 DEF AgentDies, Positions, AtMostOne
<1> QED
  BY <1>1, <1>2, <1>3, <1>4 DEF AgentStep

\* prompt_in_flight covers the one token, throughout.
LEMMA InFlightInvariant == Spec => []InFlightMeansATurn
<1>1. Init => InFlightMeansATurn
  BY DEF Init, AcpInit, InFlightMeansATurn, PromptsIn, StopsIn, Positions, AtMostOne
<1>2. ASSUME TypeOK, InFlightMeansATurn, [Next]_vars
      PROVE  InFlightMeansATurn'
  <2>1. CASE UNCHANGED acpVars
    BY <1>2, <2>1 DEF acpVars, agentVars, InFlightMeansATurn, PromptsIn, StopsIn, Positions
  <2> QED
    BY <1>2, <2>1, InFlightDriver, InFlightAgent DEF Next, vars
<1> QED
  BY <1>1, <1>2, TypeCorrect, PTL DEF Spec

\* The agent is never given a second prompt while it works on one, in any
\* interleaving and with any number of stall timeouts.
THEOREM AgentHasOneTurn == Spec => []OneTurnAtATime
<1>1. InFlightMeansATurn => OneTurnAtATime
  BY DEF InFlightMeansATurn, OneTurnAtATime
<1> QED
  BY <1>1, InFlightInvariant, PTL

-------------------------------------------------------------------------------
(* The busy flag and the turn in the driver. *)

\* run_session gives the driver up only after its task has ended, and nothing of
\* a turn survives that task.
DownMeansGone ==
  /\ driverUp => driverAlive
  /\ ~driverUp => /\ ~agentUp /\ running = {}
                  /\ PromptsIn(toAgent) = {} /\ PromptsIn(driverCommands) = {}

\* run_session learns of the driver's end from the driver alone.
LEMMA DownInvariant == Spec => []DownMeansGone
<1> USE DEF DownMeansGone, PromptsIn
<1>1. Init => DownMeansGone
  BY DEF Init, PortInit, ManagerInit
<1>2. ASSUME TypeOK, DownMeansGone, [Next]_vars
      PROVE  DownMeansGone'
  <2> USE <1>2 DEF portVars, managerVars, callerVars, awaitVars, sessionVars, acpVars, agentVars
  <2>1. driverUp \in BOOLEAN
    BY DEF TypeOK, PortTypeOK
  <2>2. ASSUME UNCHANGED acpVars, UNCHANGED driverUp,
               driverUp \/ UNCHANGED driverCommands, driverUp => driverAlive'
        PROVE  DownMeansGone'
    BY <2>1, <2>2 DEF Positions
  <2>3. CASE CallerStep /\ UNCHANGED acpVars
    BY <2>2, <2>3 DEF CallerStep, Prompt, Await, Shutdown
  <2>4. ASSUME NEW p, HandOver(p)
        PROVE  (driverUp \/ UNCHANGED driverCommands) /\ (driverUp => driverAlive')
    BY <2>1, <2>4 DEF HandOver
  <2>5. ASSUME TurnOver
        PROVE  (driverUp \/ UNCHANGED driverCommands) /\ (driverUp => driverAlive')
    BY <2>4, <2>5 DEF TurnOver
  <2>6. CASE ManagerStep /\ UNCHANGED acpVars
    <3>1. CASE StartPrompt
      BY <2>2, <2>4, <2>6, <3>1 DEF StartPrompt
    <3>2. CASE InterruptTurn
      BY <2>2, <2>6, <3>2 DEF InterruptTurn, AttemptCancel
    <3>3. CASE TakeEvent
      BY <2>2, <2>5, <2>6, <3>3 DEF TakeEvent, EndsTurn
    <3>4. CASE StallTimeout
      BY <2>2, <2>5, <2>6, <3>4 DEF StallTimeout
    <3>5. CASE \/ QueuePrompt \/ DropPrompt \/ InterruptIdle \/ AnswerAcp \/ TellFlag
               \/ StopManager \/ ManagerStopped \/ DriverGone
      BY <2>2, <2>6, <3>5
      DEF QueuePrompt, DropPrompt, InterruptIdle, AnswerAcp, TellFlag, StopManager,
          ManagerStopped, DriverGone
    <3> QED
      BY <2>6, <3>1, <3>2, <3>3, <3>4, <3>5 DEF ManagerStep, ReceiveStep
  <2>7. CASE DriverStep /\ UNCHANGED managerVars
    <3>1. CASE TaskEnds
      BY <2>7, <3>1 DEF TaskEnds, Positions
    <3>2. CASE driverUp /\ UNCHANGED driverUp
      BY <2>7, <3>2
    <3>3. CASE SendPrompt \/ DropWhileInFlight \/ SendCancel \/ ReadUpdate \/ ReadStop
      BY <3>2, <3>3
      DEF SendPrompt, DropWhileInFlight, SendCancel, ReadUpdate, ReadStop, ReceiveCommand,
          ReadMessage
    <3> QED
      BY <2>7, <3>1, <3>3 DEF DriverStep, ReadMalformed, ConnectionLost, CommandsClosed
  <2>8. CASE AgentStep /\ UNCHANGED managerVars
    <3>1. agentUp /\ UNCHANGED <<driverUp, driverAlive, driverCommands>>
      BY <2>8 DEF AgentStep, AgentReads, AgentStreams, AgentEnds, AgentDies
    <3> QED
      BY <2>1, <3>1
  <2>9. CASE UNCHANGED vars
    BY <2>9 DEF vars, Positions
  <2> QED
    BY <2>3, <2>6, <2>7, <2>8, <2>9 DEF Next
<1> QED
  BY <1>1, <1>2, TypeCorrect, PTL DEF Spec

\* Handing over a prompt when no turn is anywhere in the driver.
LEMMA HandOverStartsTurn ==
  ASSUME TypeOK, NEW p \in Prompts, HandOver(p), driverUp,
         PromptsIn(driverCommands) = {}
  PROVE  busy' /\ PromptsIn(driverCommands)' = {Len(driverCommands) + 1}
<1>1. PromptCommand(p) \in DriverCommand /\ PromptCommand(p).kind = "Prompt"
  BY MessageTypes DEF PromptCommand
<1>2. driverCommands' = Append(driverCommands, PromptCommand(p)) /\ busy'
  BY DEF HandOver
<1> QED
  BY <1>1, <1>2, PositionsAppend DEF PromptsIn, TypeOK, PortTypeOK

\* What run_session does to busy it does to the token, until a forced clear.
LEMMA BusyManager ==
  ASSUME TypeOK, DownMeansGone, BusyMeansATurn, ManagerStep, UNCHANGED acpVars
  PROVE  BusyMeansATurn'
<1> SUFFICES ASSUME ~forced', driverUp'
             PROVE  BusyMeansATurn'
  BY DEF BusyMeansATurn
<1> USE DEF BusyMeansATurn, acpVars, sessionVars, portVars
<1>1. CASE StartPrompt
  <2>1. /\ Head(commands).turn \in Prompts
        /\ HandOver(Head(commands).turn) /\ ~busy
        /\ UNCHANGED <<forced, driverUp, driverEvents, inFlight>>
    BY <1>1, HeadTypes DEF StartPrompt, Receive
  <2>2. PromptsIn(driverCommands) = {} /\ ~inFlight /\ StopsIn(driverEvents) = {}
    BY <2>1
  <2>3. busy' /\ PromptsIn(driverCommands)' = {Len(driverCommands) + 1}
    BY <2>1, <2>2, HandOverStartsTurn
  <2>4. StopsIn(driverEvents)' = {} /\ ~inFlight'
    BY <2>1, <2>2 DEF StopsIn, Positions
  <2> QED
    BY <2>3, <2>4 DEF AtMostOne
<1>2. CASE InterruptTurn
  <2>1. CancelCommand \in DriverCommand /\ CancelCommand.kind \notin {"Prompt"}
    BY MessageTypes DEF CancelCommand
  <2>2. PromptsIn(driverCommands)' = PromptsIn(driverCommands)
    BY <1>2, <2>1, PositionsAppend DEF InterruptTurn, AttemptCancel, PromptsIn, TypeOK, PortTypeOK
  <2>3. UNCHANGED <<busy, forced, driverUp, driverEvents, inFlight>>
    BY <1>2 DEF InterruptTurn, AttemptCancel
  <2> QED
    BY <2>2, <2>3 DEF StopsIn, Positions
<1>3. CASE TakeEvent
  <2>1. /\ driverEvents # <<>> /\ driverEvents' = Tail(driverEvents)
        /\ UNCHANGED <<forced, driverUp, inFlight>>
    BY <1>3 DEF TakeEvent, EndsTurn
  <2>2. CASE Head(driverEvents).kind \notin StopKinds /\ UNCHANGED <<busy, driverCommands>>
    <3>1. /\ StopsIn(driverEvents) = {} <=> StopsIn(driverEvents)' = {}
          /\ AtMostOne(StopsIn(driverEvents)) => AtMostOne(StopsIn(driverEvents)')
      BY <2>1, <2>2, ReceiveKeeps DEF StopsIn, TypeOK, PortTypeOK
    <3>2. PromptsIn(driverCommands)' = PromptsIn(driverCommands)
      BY <2>2 DEF PromptsIn, Positions
    <3> QED
      BY <2>1, <2>2, <3>1, <3>2
  <2>3. CASE Head(driverEvents).kind \in StopKinds /\ TurnOver
    <3>1. 1 \in StopsIn(driverEvents)
      BY <2>1, <2>3, PositionsHead DEF StopsIn, TypeOK, PortTypeOK
    <3>2. PromptsIn(driverCommands) = {} /\ ~inFlight /\ AtMostOne(StopsIn(driverEvents))
      BY <2>1, <3>1
    <3>3. StopsIn(driverEvents)' = {}
      BY <2>1, <2>3, <3>2, ReceiveOnly DEF StopsIn, TypeOK, PortTypeOK
    <3>4. CASE queue = <<>> /\ busy' = FALSE /\ UNCHANGED driverCommands
      BY <2>1, <3>2, <3>3, <3>4 DEF PromptsIn, Positions, AtMostOne
    <3>5. CASE queue # <<>> /\ HandOver(Head(queue))
      <4>1. busy' /\ PromptsIn(driverCommands)' = {Len(driverCommands) + 1}
        BY <2>1, <3>2, <3>5, HeadTypes, HandOverStartsTurn
      <4> QED
        BY <2>1, <3>2, <3>3, <4>1 DEF AtMostOne
    <3> QED
      BY <2>3, <3>4, <3>5 DEF TurnOver
  <2> QED
    BY <1>3, <2>2, <2>3 DEF TakeEvent, EndsTurn
<1>4. CASE StallTimeout
  BY <1>4 DEF StallTimeout
<1>5. CASE \/ QueuePrompt \/ DropPrompt \/ InterruptIdle \/ AnswerAcp \/ TellFlag
           \/ StopManager \/ ManagerStopped \/ DriverGone
  <2>1. UNCHANGED <<busy, forced, driverUp, driverCommands, driverEvents, inFlight>>
    BY <1>5
    DEF QueuePrompt, DropPrompt, InterruptIdle, AnswerAcp, TellFlag, StopManager,
        ManagerStopped, DriverGone
  <2> QED
    BY <2>1 DEF PromptsIn, StopsIn, Positions
<1> QED
  BY <1>1, <1>2, <1>3, <1>4, <1>5 DEF ManagerStep, ReceiveStep

\* The driver's loop moves the token and leaves busy alone.
LEMMA BusyDriver ==
  ASSUME TypeOK, BusyMeansATurn, DriverStep, UNCHANGED managerVars
  PROVE  BusyMeansATurn'
<1> SUFFICES ASSUME ~forced', driverUp'
             PROVE  BusyMeansATurn'
  BY DEF BusyMeansATurn
<1> USE DEF BusyMeansATurn, managerVars, sessionVars
<1>1. UNCHANGED <<forced, busy>>
  OBVIOUS
<1>2. CASE SendPrompt
  <2>1. /\ driverUp /\ ~inFlight /\ inFlight'
        /\ driverCommands # <<>> /\ Head(driverCommands).kind = "Prompt"
        /\ driverCommands' = Tail(driverCommands)
        /\ driverEvents' = Append(driverEvents, Event("Working", Head(driverCommands).turn))
    BY <1>2 DEF SendPrompt, ReceiveCommand
  <2>2. 1 \in PromptsIn(driverCommands)
    BY <2>1, PositionsHead DEF PromptsIn, TypeOK, PortTypeOK
  <2>3. busy /\ StopsIn(driverEvents) = {} /\ AtMostOne(PromptsIn(driverCommands))
    BY <1>1, <2>1, <2>2
  <2>4. PromptsIn(driverCommands)' = {}
    BY <2>1, <2>3, ReceiveOnly DEF PromptsIn, TypeOK, PortTypeOK
  <2>5. Head(driverCommands).turn \in Prompts
    BY <2>1, HeadTypes
  <2>6. Event("Working", Head(driverCommands).turn) \in DriverEvent
    BY <2>5, MessageTypes DEF EventKinds, StatusKinds
  <2>7. Event("Working", Head(driverCommands).turn).kind \notin StopKinds
    BY DEF Event, StopKinds
  <2>8. StopsIn(driverEvents)' = StopsIn(driverEvents)
    BY <2>1, <2>6, <2>7, PositionsAppend DEF StopsIn, TypeOK, PortTypeOK
  <2> QED
    BY <1>1, <2>1, <2>3, <2>4, <2>8 DEF AtMostOne
<1>3. CASE DropWhileInFlight
  <2>1. /\ driverUp /\ inFlight
        /\ driverCommands # <<>> /\ Head(driverCommands).kind = "Prompt"
    BY <1>3 DEF DropWhileInFlight, ReceiveCommand
  <2>2. 1 \in PromptsIn(driverCommands)
    BY <2>1, PositionsHead DEF PromptsIn, TypeOK, PortTypeOK
  <2> QED
    BY <1>1, <2>1, <2>2
<1>4. CASE SendCancel
  <2>1. /\ driverUp /\ UNCHANGED <<inFlight, driverEvents>>
        /\ driverCommands # <<>> /\ Head(driverCommands).kind \notin {"Prompt"}
        /\ driverCommands' = Tail(driverCommands)
    BY <1>4 DEF SendCancel, ReceiveCommand
  <2>2. /\ PromptsIn(driverCommands) = {} <=> PromptsIn(driverCommands)' = {}
        /\ AtMostOne(PromptsIn(driverCommands)) => AtMostOne(PromptsIn(driverCommands)')
    BY <2>1, ReceiveKeeps DEF PromptsIn, TypeOK, PortTypeOK
  <2>3. StopsIn(driverEvents)' = StopsIn(driverEvents)
    BY <2>1 DEF StopsIn, Positions
  <2> QED
    BY <1>1, <2>1, <2>2, <2>3
<1>5. CASE ReadUpdate
  <2>1. /\ driverUp /\ UNCHANGED <<inFlight, driverCommands>>
        /\ fromAgent # <<>>
        /\ driverEvents' = Append(driverEvents, Event("Update", Head(fromAgent).turn))
    BY <1>5 DEF ReadUpdate, ReadMessage
  <2>2. Event("Update", Head(fromAgent).turn) \in DriverEvent
    BY <2>1, HeadTypes, MessageTypes DEF EventKinds
  <2>3. Event("Update", Head(fromAgent).turn).kind \notin StopKinds
    BY DEF Event, StopKinds
  <2>4. StopsIn(driverEvents)' = StopsIn(driverEvents)
    BY <2>1, <2>2, <2>3, PositionsAppend DEF StopsIn, TypeOK, PortTypeOK
  <2>5. PromptsIn(driverCommands)' = PromptsIn(driverCommands)
    BY <2>1 DEF PromptsIn, Positions
  <2> QED
    BY <1>1, <2>1, <2>4, <2>5
<1>6. CASE ReadStop
  <2> DEFINE stop == Head(fromAgent)
             idle == Append(driverEvents, Event("Idle", stop.turn))
  <2>1. /\ driverUp /\ inFlight /\ ~inFlight' /\ UNCHANGED driverCommands
        /\ fromAgent # <<>> /\ stop.kind \in StopKinds
        /\ driverEvents' = Append(idle, Event(stop.kind, stop.turn))
    BY <1>6 DEF ReadStop, ReadMessage
  <2>2. busy /\ PromptsIn(driverCommands) = {} /\ StopsIn(driverEvents) = {}
    BY <1>1, <2>1
  <2>3. /\ Event("Idle", stop.turn) \in DriverEvent /\ Event("Idle", stop.turn).kind \notin StopKinds
        /\ Event(stop.kind, stop.turn) \in DriverEvent /\ Event(stop.kind, stop.turn).kind \in StopKinds
    BY <2>1, HeadTypes, MessageTypes DEF EventKinds, StatusKinds, StopKinds, Event
  <2>4. idle \in Seq(DriverEvent) /\ StopsIn(idle) = {}
    BY <2>2, <2>3, AppendType, PositionsAppend DEF StopsIn, TypeOK, PortTypeOK
  <2>5. StopsIn(driverEvents)' = {Len(idle) + 1}
    <3> HIDE DEF idle, stop
    <3>1. Positions(Append(idle, Event(stop.kind, stop.turn)), StopKinds)
            = Positions(idle, StopKinds) \cup {Len(idle) + 1}
      BY <2>3, <2>4, PositionsAppend
    <3> QED
      BY <2>1, <2>4, <3>1 DEF StopsIn
  <2>6. PromptsIn(driverCommands)' = {}
    BY <2>1, <2>2 DEF PromptsIn, Positions
  <2> QED
    BY <1>1, <2>1, <2>2, <2>5, <2>6 DEF AtMostOne
<1>7. CASE TaskEnds
  BY <1>7 DEF TaskEnds
<1> QED
  BY <1>2, <1>3, <1>4, <1>5, <1>6, <1>7
  DEF DriverStep, ReadMalformed, ConnectionLost, CommandsClosed

\* As long as no stall timeout has cleared a turn, run_session's busy flag is
\* exact: it is set if and only if one turn is in the driver, which therefore
\* never has to drop a prompt.
THEOREM BusyIsExact == Spec => []BusyMeansATurn
<1>1. Init => BusyMeansATurn
  BY DEF Init, PortInit, ManagerInit, AcpInit, BusyMeansATurn, PromptsIn, StopsIn, Positions,
         AtMostOne
<1>2. ASSUME TypeOK, DownMeansGone, BusyMeansATurn, [Next]_vars
      PROVE  BusyMeansATurn'
  <2>1. ASSUME UNCHANGED <<busy, forced, driverUp, driverCommands, driverEvents, inFlight>>
        PROVE  BusyMeansATurn'
    BY <1>2, <2>1 DEF BusyMeansATurn, PromptsIn, StopsIn, Positions
  <2>2. CASE CallerStep /\ UNCHANGED acpVars
    BY <2>1, <2>2 DEF CallerStep, Prompt, Await, Shutdown, acpVars, sessionVars, portVars
  <2>3. CASE AgentStep /\ UNCHANGED managerVars
    BY <2>1, <2>3
    DEF AgentStep, AgentReads, AgentStreams, AgentEnds, AgentDies, managerVars, sessionVars, portVars
  <2>4. CASE UNCHANGED vars
    BY <2>1, <2>4 DEF vars, managerVars, sessionVars, portVars, acpVars
  <2> QED
    BY <1>2, <2>2, <2>3, <2>4, BusyManager, BusyDriver DEF Next
<1> QED
  BY <1>1, <1>2, TypeCorrect, DownInvariant, PTL DEF Spec

\* An interrupt answered NoTurnInFlight found no turn in the agent and none on
\* its way there, as long as no stall timeout has cleared one.
THEOREM NoTurnAnswerIsTrue == Spec => NoTurnInFlightIsTrue
<1> DEFINE Idle == running = {} /\ PromptsIn(toAgent) = {} /\ PromptsIn(driverCommands) = {}
           Said == reply' = "NoTurnInFlight" /\ reply # reply' /\ ~forced
<1>1. ASSUME TypeOK, InFlightMeansATurn, DownMeansGone, BusyMeansATurn, [Next]_vars, Said
      PROVE  Idle
  <2>1. CASE InterruptIdle
    <3>1. CASE driverUp
      <4>1. ~busy
        BY <2>1 DEF InterruptIdle
      <4>2. PromptsIn(driverCommands) = {} /\ ~inFlight
        BY <1>1, <3>1, <4>1 DEF BusyMeansATurn
      <4> QED
        BY <1>1, <4>2 DEF InFlightMeansATurn
    <3>2. CASE ~driverUp
      BY <1>1, <3>2 DEF DownMeansGone
    <3> QED
      BY <3>1, <3>2
  <2>2. CASE CallerStep
    BY <1>1, <2>2 DEF CallerStep, Prompt, Await, Shutdown, awaitVars
  <2>3. CASE InterruptTurn \/ AnswerAcp \/ TellFlag
    BY <1>1, <2>3 DEF InterruptTurn, AttemptCancel, AnswerAcp, TellFlag, Return
  <2>4. CASE UNCHANGED managerVars
    BY <1>1, <2>4 DEF managerVars, awaitVars
  <2>5. CASE \/ StartPrompt \/ QueuePrompt \/ DropPrompt \/ StopManager \/ TakeEvent
             \/ DriverGone \/ StallTimeout \/ ManagerStopped
    BY <1>1, <2>5
    DEF StartPrompt, QueuePrompt, DropPrompt, StopManager, TakeEvent,
        DriverGone, StallTimeout,
        ManagerStopped, awaitVars
  <2> QED
    BY <1>1, <2>1, <2>2, <2>3, <2>4, <2>5 DEF Next, vars, ManagerStep, ReceiveStep
<1>2. ASSUME TypeOK, InFlightMeansATurn, DownMeansGone, BusyMeansATurn, [Next]_vars
      PROVE  [Said => Idle]_vars
  BY <1>1, <1>2
<1> QED
  BY <1>2, TypeCorrect, InFlightInvariant, DownInvariant, BusyIsExact, PTL
  DEF Spec, NoTurnInFlightIsTrue

-------------------------------------------------------------------------------
(* The order of what the connection is told. *)

TurnsIn(ms) == {ms[i].turn : i \in 1..Len(ms)}

ToldTurns == TurnsIn(Told)

InTurnOrder(es) ==
  \A i, j \in 1..Len(es) :
    i < j => /\ es[i].turn <= es[j].turn
             /\ es[i].kind \in StopKinds => es[i].turn < es[j].turn

\* After es, an event of turn t is in order.
NotOver(es, t) ==
  \A i \in 1..Len(es) : es[i].turn <= t /\ (es[i].kind \in StopKinds => es[i].turn < t)

\* The turns between the driver's loop and the agent, either way.
InPipe == PromptNumbers(toAgent) \cup running \cup TurnsIn(fromAgent)

\* EventsInTurnOrder is kept because at most one turn is between the loop and the agent,
\* it has begun and its stop was not told, the stop is the last thing the agent says of it,
\* and every prompt still to come is above all turns told of.
OrderInv ==
  /\ InTurnOrder(Told)
  /\ LineOf({"Prompt", "Cancel"}, ToldTurns, driverCommands, queue, commands, sent)
  /\ AtMostOne(InPipe)
  /\ \A t \in InPipe : t \in ToldTurns /\ NotOver(Told, t)
  /\ ~inFlight => InPipe = {}
  /\ \A i \in StopsIn(fromAgent) : i = Len(fromAgent)

\* An event of a turn that is not over joins in order.
LEMMA OrderAppend ==
  ASSUME NEW es \in Seq(DriverEvent), NEW e \in DriverEvent, InTurnOrder(es), NotOver(es, e.turn)
  PROVE  /\ Append(es, e) \in Seq(DriverEvent)
         /\ InTurnOrder(Append(es, e))
         /\ e.kind \notin StopKinds => NotOver(Append(es, e), e.turn)
         /\ TurnsIn(Append(es, e)) = TurnsIn(es) \cup {e.turn}
<1> DEFINE a == Append(es, e)
<1>1. a \in Seq(DriverEvent) /\ Len(a) = Len(es) + 1 /\ Len(es) \in Nat
  OBVIOUS
<1>2. (\A i \in 1..Len(es) : a[i] = es[i]) /\ a[Len(es) + 1] = e
  OBVIOUS
<1>3. e.turn \in Nat
  BY DEF DriverEvent, Turns, Prompts, NoTurn
<1> HIDE DEF a
<1>4. \A i \in 1..Len(a) : i \in 1..Len(es) \/ i = Len(es) + 1
  BY <1>1
<1>5. InTurnOrder(a)
  BY <1>1, <1>2, <1>4 DEF InTurnOrder, NotOver
<1>6. e.kind \notin StopKinds => NotOver(a, e.turn)
  BY <1>1, <1>2, <1>3, <1>4 DEF NotOver
<1>7. TurnsIn(a) = TurnsIn(es) \cup {e.turn}
  BY <1>1, <1>2, <1>4 DEF TurnsIn
<1> QED
  BY <1>1, <1>5, <1>6, <1>7 DEF a

\* run_session only takes events the driver told of.
LEMMA ManagerTellsNothing ==
  ASSUME TypeOK, CallerStep \/ ManagerStep
  PROVE  Told' = Told
<1>1. PairTypeOK
  BY DEF TypeOK, PairTypeOK
<1>2. CASE CallerStep \/ CommonStep
  BY <1>1, <1>2, CommonTellsNothing
<1>3. CASE InterruptTurn \/ AnswerAcp
  BY <1>3 DEF InterruptTurn, AnswerAcp, sessionVars, portVars, Told
<1> QED
  BY <1>2, <1>3 DEF ManagerStep, ReceiveStep, CommonStep, CommonReceive

\* What run_session does moves events along and prompts up the line, and leaves the agent alone.
LEMMA OrderManager ==
  ASSUME TypeOK, QueueOnlyBehindATurn, OrderInv, CallerStep \/ ManagerStep, UNCHANGED acpVars
  PROVE  OrderInv'
<1> DEFINE K == {"Prompt", "Cancel"}
<1>1. Told' = Told
  BY ManagerTellsNothing
<1>2. ToldTurns' = ToldTurns /\ InPipe' = InPipe /\ UNCHANGED <<inFlight, fromAgent>>
  BY <1>1 DEF ToldTurns, InPipe, PromptNumbers, PromptsIn, Positions, acpVars, agentVars
<1>3. LineOf(K, ToldTurns, driverCommands, queue, commands, sent) /\ "Prompt" \in K
  BY DEF OrderInv
<1>4. driverAlive /\ queue # <<>> => busy
  BY DEF QueueOnlyBehindATurn
<1>5. LineOf(K, ToldTurns, driverCommands', queue', commands', sent')
  <2> HIDE DEF K
  <2>1. CASE CallerStep
    BY <1>3, <2>1, LineCaller
  <2>2. CASE CommonStep
    BY <1>3, <1>4, <2>2, LineCommon
  <2>3. CASE AnswerAcp
    <3>1. UNCHANGED <<queue, driverCommands, sent>> /\ Receive("Answer")
      BY <2>3 DEF AnswerAcp, sessionVars, portVars, callerVars
    <3> QED
      BY <1>3, <3>1, LineDrops
  <2>4. CASE InterruptTurn
    <3>1. UNCHANGED <<queue, sent>> /\ Receive("Interrupt")
      BY <2>4 DEF InterruptTurn, callerVars
    <3>2. LineOf(K, ToldTurns, driverCommands, queue, commands', sent)
      <4>1. InLine(ToldTurns, PromptNumbers(driverCommands), Elements(queue), PromptNumbers(commands'), sent)
        BY <1>3, <3>1, LineReceive, LineShrinks DEF LineOf
      <4> QED
        BY <1>3, <3>1, <4>1, LineReceive DEF LineOf
    <3>3. /\ driverCommands' \in Seq(Numbered(K)) /\ RisingPrompts(driverCommands')
          /\ PromptNumbers(driverCommands') = PromptNumbers(driverCommands)
      <4>1. driverCommands' = Append(driverCommands, CancelCommand) \/ UNCHANGED driverCommands
        BY <2>4 DEF InterruptTurn, AttemptCancel
      <4>2. CancelCommand \in Numbered(K) /\ CancelCommand.kind # "Prompt"
        BY DEF CancelCommand, Numbered, K, NoTurn
      <4>3. driverCommands \in Seq(Numbered(K)) /\ RisingPrompts(driverCommands)
        BY <1>3 DEF LineOf
      <4> QED
        <5>1. LET d == Append(driverCommands, CancelCommand)
              IN  d \in Seq(Numbered(K)) /\ RisingPrompts(d) /\ PromptNumbers(d) = PromptNumbers(driverCommands)
          BY <4>2, <4>3, MessagesAppend, ZenonT(40)
        <5> QED
          BY <4>1, <4>3, <5>1
    <3> QED
      BY <3>1, <3>2, <3>3 DEF LineOf
  <2> QED
    BY <2>1, <2>2, <2>3, <2>4 DEF ManagerStep, ReceiveStep, CommonStep, CommonReceive
<1> QED
  BY <1>1, <1>2, <1>5 DEF OrderInv, StopsIn, Positions

\* The event the loop sends when a message of the turn in the pipe arrives.
LEMMA OrderTells ==
  ASSUME TypeOK, OrderInv, NEW e \in DriverEvent, e.turn \in InPipe
  PROVE  LET d == Append(driverEvents, e)
         IN  /\ d \in Seq(DriverEvent) /\ events \o d = Append(Told, e)
             /\ InTurnOrder(events \o d)
             /\ e.kind \notin StopKinds => NotOver(events \o d, e.turn)
             /\ TurnsIn(events \o d) = ToldTurns
<1> DEFINE d == Append(driverEvents, e)
<1>1. events \in Seq(DriverEvent) /\ driverEvents \in Seq(DriverEvent) /\ Told \in Seq(DriverEvent)
  BY DEF TypeOK, PortTypeOK, ManagerTypeOK, Told
<1>2. events \o d = Append(Told, e) /\ d \in Seq(DriverEvent)
  BY <1>1, EventJoins, AppendType DEF Told
<1>3. InTurnOrder(Told) /\ NotOver(Told, e.turn) /\ e.turn \in ToldTurns
  BY DEF OrderInv
<1>4. ToldTurns = TurnsIn(Told)
  BY DEF ToldTurns
<1> HIDE DEF d
<1>5. /\ InTurnOrder(Append(Told, e))
      /\ e.kind \notin StopKinds => NotOver(Append(Told, e), e.turn)
      /\ TurnsIn(Append(Told, e)) = TurnsIn(Told) \cup {e.turn}
  BY <1>1, <1>3, OrderAppend
<1>6. TurnsIn(events \o d) = ToldTurns
  BY <1>2, <1>3, <1>4, <1>5
<1> QED
  BY <1>2, <1>5, <1>6 DEF d

\* What is left of a message sequence after its head.
LEMMA PipeTail ==
  ASSUME NEW T, NEW ms \in Seq(T), ms # <<>>
  PROVE  /\ TurnsIn(Tail(ms)) \subseteq TurnsIn(ms)
         /\ Head(ms).turn \in TurnsIn(ms)
         /\ Len(Tail(ms)) = Len(ms) - 1 /\ Len(ms) \in Nat \ {0}
         /\ Tail(ms) = <<>> <=> Len(ms) = 1
<1>1. /\ Len(Tail(ms)) = Len(ms) - 1 /\ Len(ms) \in Nat \ {0}
      /\ \A i \in 1..(Len(ms) - 1) : Tail(ms)[i] = ms[i + 1]
      /\ Head(ms) = ms[1] /\ Tail(ms) \in Seq(T)
  OBVIOUS
<1>2. Tail(ms) = <<>> <=> Len(ms) = 1
  BY <1>1
<1> DEFINE t == Tail(ms)
<1> HIDE DEF t
<1>3. TurnsIn(t) \subseteq TurnsIn(ms)
  BY <1>1 DEF t, TurnsIn
<1>4. Head(ms).turn \in TurnsIn(ms)
  BY <1>1 DEF TurnsIn
<1> QED
  BY <1>1, <1>2, <1>3, <1>4 DEF t

\* A command the loop receives and does not hand on to the agent.
LEMMA OrderSkips ==
  ASSUME TypeOK, OrderInv, driverCommands # <<>>, driverCommands' = Tail(driverCommands),
         UNCHANGED managerVars
  PROVE  LineOf({"Prompt", "Cancel"}, ToldTurns, driverCommands', queue', commands', sent')
<1> DEFINE K == {"Prompt", "Cancel"}
<1>1. LineOf(K, ToldTurns, driverCommands, queue, commands, sent)
  BY DEF OrderInv
<1>2. UNCHANGED <<queue, commands, sent>>
  BY DEF managerVars, callerVars, sessionVars
<1> HIDE DEF K
<1>3. /\ driverCommands' \in Seq(Numbered(K)) /\ RisingPrompts(driverCommands')
      /\ PromptNumbers(driverCommands') \subseteq PromptNumbers(driverCommands)
  BY <1>1, MessagesTail DEF LineOf
<1>4. InLine(ToldTurns, PromptNumbers(driverCommands'), Elements(queue), PromptNumbers(commands), sent)
  BY <1>1, <1>3, LineShrinks DEF LineOf
<1> QED
  BY <1>1, <1>2, <1>3, <1>4 DEF LineOf, K

\* Sending a prompt to the agent is the one step that begins a turn.
LEMMA OrderSend ==
  ASSUME TypeOK, OrderInv, SendPrompt, UNCHANGED managerVars
  PROVE  OrderInv'
<1> DEFINE K == {"Prompt", "Cancel"}
           m == Head(driverCommands)
           p == m.turn
           e == Event("Working", p)
<1>1. /\ ~inFlight /\ inFlight' /\ driverCommands # <<>> /\ m.kind = "Prompt"
      /\ driverCommands' = Tail(driverCommands) /\ toAgent' = Append(toAgent, m)
      /\ driverEvents' = Append(driverEvents, e) /\ UNCHANGED <<fromAgent, running>>
  BY DEF SendPrompt, ReceiveCommand, agentVars
<1>2. UNCHANGED <<queue, commands, sent, events>>
  BY DEF managerVars, callerVars, sessionVars
<1>3. p \in Prompts /\ m \in DriverCommand /\ e \in DriverEvent /\ e.turn = p /\ e.kind \notin StopKinds
  BY <1>1, HeadTypes, MessageTypes DEF Event, EventKinds, StatusKinds, StopKinds
<1>4. /\ events \in Seq(DriverEvent) /\ driverEvents \in Seq(DriverEvent) /\ Told \in Seq(DriverEvent)
      /\ toAgent \in Seq(DriverCommand)
  BY DEF TypeOK, PortTypeOK, ManagerTypeOK, AcpTypeOK, Told
<1>5. LineOf(K, ToldTurns, driverCommands, queue, commands, sent) /\ InPipe = {} /\ InTurnOrder(Told)
  BY <1>1 DEF OrderInv
<1> HIDE DEF K, m, p, e
<1>6. /\ driverCommands' \in Seq(Numbered(K)) /\ RisingPrompts(driverCommands')
      /\ PromptNumbers(driverCommands') \subseteq PromptNumbers(driverCommands)
      /\ p \in PromptNumbers(driverCommands) /\ Before({p}, PromptNumbers(driverCommands'))
  BY <1>1, <1>5, MessagesTail DEF LineOf, m, p
<1>7. /\ InLine(ToldTurns \cup {p}, PromptNumbers(driverCommands'), Elements(queue),
                PromptNumbers(commands), sent)
      /\ Before(ToldTurns, {p})
  BY <1>5, <1>6, LinePasses DEF LineOf
<1>8. NotOver(Told, p)
  <2>1. \A i \in 1..Len(Told) : Told[i].turn \in ToldTurns /\ Told[i].turn \in Nat
    <3>1. \A x \in DriverEvent : x.turn \in Nat
      BY DEF DriverEvent, Turns, Prompts, NoTurn
    <3> QED
      BY <1>4, <3>1 DEF ToldTurns, TurnsIn
  <2>2. \A i \in 1..Len(Told) : Told[i].turn < p
    BY <1>7, <2>1 DEF Before
  <2>3. p \in Nat
    BY <1>3 DEF Prompts
  <2> QED
    BY <2>1, <2>2, <2>3 DEF NotOver
<1>9. Told' = Append(Told, e)
  BY <1>1, <1>2, <1>3, <1>4, EventJoins DEF Told
<1>10. InTurnOrder(Told') /\ NotOver(Told', p) /\ ToldTurns' = ToldTurns \cup {p}
  <2>1. ToldTurns = TurnsIn(Told) /\ ToldTurns' = TurnsIn(Told')
    BY DEF ToldTurns
  <2> HIDE DEF Told
  <2>2. /\ InTurnOrder(Append(Told, e)) /\ NotOver(Append(Told, e), p)
        /\ TurnsIn(Append(Told, e)) = TurnsIn(Told) \cup {p}
    BY <1>3, <1>4, <1>5, <1>8, OrderAppend
  <2> QED
    BY <1>9, <2>1, <2>2
<1>11. LineOf(K, ToldTurns', driverCommands', queue', commands', sent')
  BY <1>2, <1>5, <1>6, <1>7, <1>10 DEF LineOf
<1>12. InPipe' = {p}
  <2>1. m.kind = "Prompt" /\ m \in DriverCommand /\ toAgent \in Seq(DriverCommand)
    BY <1>1, <1>3, <1>4
  <2>2. PromptNumbers(Append(toAgent, m)) = PromptNumbers(toAgent) \cup {m.turn}
    <3>1. \A ms \in Seq(DriverCommand), c \in DriverCommand :
            c.kind = "Prompt" => PromptNumbers(Append(ms, c)) = PromptNumbers(ms) \cup {c.turn}
      BY MessagesAppend, ZenonT(40)
    <3> QED
      BY <2>1, <3>1
  <2>3. PromptNumbers(toAgent') = PromptNumbers(toAgent) \cup {p}
    BY <1>1, <2>2 DEF p
  <2> QED
    BY <1>1, <1>5, <2>3 DEF InPipe
<1>13. StopsIn(fromAgent') = StopsIn(fromAgent) /\ fromAgent' = fromAgent
  BY <1>1
<1> QED
  BY <1>1, <1>10, <1>11, <1>12, <1>13 DEF OrderInv, AtMostOne, K

\* What the loop reads is of the turn in the pipe, and a stop empties the pipe.
LEMMA OrderReads ==
  ASSUME TypeOK, InFlightMeansATurn, OrderInv, ReadUpdate \/ ReadStop, UNCHANGED managerVars
  PROVE  OrderInv'
<1> DEFINE K == {"Prompt", "Cancel"}
           m == Head(fromAgent)
           t == m.turn
<1>1. /\ inFlight /\ fromAgent # <<>> /\ fromAgent' = Tail(fromAgent)
      /\ UNCHANGED <<driverCommands, toAgent, running>>
  BY DEF ReadUpdate, ReadStop, ReadMessage, agentVars
<1>2. UNCHANGED <<queue, commands, sent, events>>
  BY DEF managerVars, callerVars, sessionVars
<1>3. fromAgent \in Seq(AgentMessage) /\ t \in Prompts /\ driverEvents \in Seq(DriverEvent)
      /\ events \in Seq(DriverEvent)
  BY <1>1, HeadTypes DEF TypeOK, AcpTypeOK, PortTypeOK, ManagerTypeOK
<1>4. /\ t \in InPipe /\ Len(fromAgent') = Len(fromAgent) - 1 /\ Len(fromAgent) \in Nat \ {0}
      /\ fromAgent' = <<>> <=> Len(fromAgent) = 1
      /\ TurnsIn(fromAgent') \subseteq TurnsIn(fromAgent)
  BY <1>1, <1>3, PipeTail DEF InPipe
<1>5. InPipe' \subseteq InPipe
  BY <1>1, <1>4 DEF InPipe
<1>6. LineOf(K, ToldTurns, driverCommands', queue', commands', sent')
  BY <1>1, <1>2 DEF OrderInv
<1>7. \A i \in StopsIn(fromAgent') : i = Len(fromAgent')
  <2>1. \A i : i \in StopsIn(fromAgent') <=> i \in Nat \ {0} /\ i + 1 \in StopsIn(fromAgent)
    BY <1>1, <1>3, PositionsTail DEF StopsIn
  <2> QED
    BY <1>4, <2>1 DEF OrderInv
<1>8. CASE ReadUpdate
  <2> DEFINE e == Event("Update", t)
  <2>1. e \in DriverEvent /\ e.turn = t /\ e.kind \notin StopKinds
    BY <1>3, MessageTypes DEF Event, EventKinds, StopKinds
  <2>2. driverEvents' = Append(driverEvents, e) /\ inFlight'
    BY <1>1, <1>8 DEF ReadUpdate
  <2> HIDE DEF e, t
  <2>3. LET d == Append(driverEvents, e)
        IN  InTurnOrder(events \o d) /\ NotOver(events \o d, t) /\ TurnsIn(events \o d) = ToldTurns
    BY <1>4, <2>1, OrderTells
  <2>4. InTurnOrder(Told') /\ NotOver(Told', t) /\ ToldTurns' = ToldTurns
    BY <1>2, <2>2, <2>3 DEF Told, ToldTurns
  <2>5. InPipe' \subseteq {t} /\ t \in ToldTurns'
    BY <1>4, <1>5, <2>4 DEF OrderInv, AtMostOne
  <2> QED
    BY <1>6, <1>7, <2>2, <2>4, <2>5 DEF OrderInv, AtMostOne
<1>9. CASE ReadStop
  <2> DEFINE a == Event("Idle", t)
             e == Event(m.kind, t)
             d == Append(driverEvents, a)
  <2>1. m.kind \in StopKinds /\ ~inFlight' /\ driverEvents' = Append(d, e)
    BY <1>9 DEF ReadStop, ReadMessage
  <2>2. /\ a \in DriverEvent /\ a.turn = t /\ a.kind \notin StopKinds
        /\ e \in DriverEvent /\ e.turn = t
    BY <1>3, <2>1, MessageTypes DEF Event, EventKinds, StatusKinds, StopKinds
  <2>3. 1 \in StopsIn(fromAgent)
    BY <1>1, <1>3, <2>1, PositionsHead DEF StopsIn
  <2>4. fromAgent' = <<>>
    BY <1>4, <2>3 DEF OrderInv
  <2>5. InPipe' = {}
    <3>1. PromptsIn(toAgent) = {} /\ running = {}
      BY <2>3 DEF InFlightMeansATurn
    <3>2. PromptNumbers(toAgent') = {}
      BY <1>1, <3>1 DEF PromptNumbers
    <3>3. TurnsIn(fromAgent') = {}
      BY <2>4 DEF TurnsIn
    <3> QED
      BY <1>1, <3>1, <3>2, <3>3 DEF InPipe
  <2> HIDE DEF a, e, d, t
  <2>6. /\ d \in Seq(DriverEvent) /\ InTurnOrder(events \o d) /\ NotOver(events \o d, t)
        /\ TurnsIn(events \o d) = ToldTurns
    BY <1>4, <2>2, OrderTells DEF d
  <2>7. Told' = Append(events \o d, e) /\ events \o d \in Seq(DriverEvent)
    BY <1>2, <1>3, <2>1, <2>2, <2>6, EventJoins DEF Told
  <2>8. InTurnOrder(Told') /\ ToldTurns' = ToldTurns
    <3> DEFINE es == events \o d
    <3>1. es \in Seq(DriverEvent) /\ InTurnOrder(es) /\ NotOver(es, e.turn) /\ TurnsIn(es) = ToldTurns
      BY <2>2, <2>6, <2>7
    <3>2. Told' = Append(es, e) /\ ToldTurns' = TurnsIn(Told')
      BY <2>7 DEF ToldTurns
    <3>3. e.turn \in ToldTurns
      BY <1>4, <2>2 DEF OrderInv
    <3> HIDE DEF es
    <3>4. InTurnOrder(Append(es, e)) /\ TurnsIn(Append(es, e)) = TurnsIn(es) \cup {e.turn}
      BY <2>2, <3>1, OrderAppend
    <3> QED
      BY <3>1, <3>2, <3>3, <3>4
  <2> QED
    BY <1>6, <1>7, <2>5, <2>8 DEF OrderInv, AtMostOne
<1> QED
  BY <1>8, <1>9

\* The driver's loop tells events of the one turn in its pipe, and takes a new one only when
\* there is none.
LEMMA OrderDriver ==
  ASSUME TypeOK, InFlightMeansATurn, OrderInv, DriverStep, UNCHANGED managerVars
  PROVE  OrderInv'
<1> DEFINE K == {"Prompt", "Cancel"}
<1>1. UNCHANGED <<queue, commands, sent, events>>
  BY DEF managerVars, callerVars, sessionVars
<1>2. CASE DropWhileInFlight \/ SendCancel
  <2>1. /\ driverCommands # <<>> /\ driverCommands' = Tail(driverCommands)
        /\ UNCHANGED <<driverEvents, inFlight, fromAgent, running>>
        /\ toAgent' = toAgent \/ toAgent' = Append(toAgent, CancelCommand)
    BY <1>2 DEF DropWhileInFlight, SendCancel, ReceiveCommand, acpVars, agentVars
  <2>2. Told' = Told /\ ToldTurns' = ToldTurns
    BY <1>1, <2>1 DEF Told, ToldTurns
  <2>3. LineOf(K, ToldTurns, driverCommands', queue', commands', sent')
    BY <2>1, OrderSkips
  <2>4. PromptNumbers(toAgent') = PromptNumbers(toAgent)
    <3>1. CancelCommand \in DriverCommand /\ CancelCommand.kind # "Prompt"
      BY MessageTypes DEF CancelCommand
    <3>2. toAgent \in Seq(DriverCommand)
      BY DEF TypeOK, AcpTypeOK
    <3> QED
      <4>1. CASE toAgent' = Append(toAgent, CancelCommand)
        BY <3>1, <3>2, <4>1, MessagesAppend
      <4> QED
        BY <2>1, <4>1
  <2>5. InPipe' = InPipe
    BY <2>1, <2>4 DEF InPipe
  <2> QED
    BY <2>1, <2>2, <2>3, <2>5 DEF OrderInv, StopsIn, Positions
<1>3. CASE TaskEnds
  <2>1. /\ driverCommands' = <<>> /\ toAgent' = <<>> /\ fromAgent' = <<>> /\ running' = {}
        /\ UNCHANGED driverEvents
    BY <1>3 DEF TaskEnds
  <2>2. Told' = Told /\ ToldTurns' = ToldTurns
    BY <1>1, <2>1 DEF Told, ToldTurns
  <2>3. InPipe' = {} /\ StopsIn(fromAgent)' = {}
    BY <2>1 DEF InPipe, TurnsIn, PromptNumbers, PromptsIn, StopsIn, Positions
  <2>4. LineOf(K, ToldTurns, driverCommands', queue', commands', sent')
    <3>1. /\ driverCommands' \in Seq(Numbered(K)) /\ PromptNumbers(driverCommands') = {}
          /\ RisingPrompts(driverCommands')
      BY <2>1 DEF PromptNumbers, RisingPrompts, PromptsIn, Positions
    <3>2. LineOf(K, ToldTurns, driverCommands, queue, commands, sent)
      BY DEF OrderInv
    <3> HIDE DEF K
    <3>3. InLine(ToldTurns, {}, Elements(queue), PromptNumbers(commands), sent)
      BY <3>2, LineShrinks DEF LineOf
    <3> QED
      BY <1>1, <3>1, <3>2, <3>3 DEF LineOf
  <2> QED
    BY <2>2, <2>3, <2>4 DEF OrderInv, AtMostOne
<1> QED
  BY <1>2, <1>3, OrderSend, OrderReads
  DEF DriverStep, ReadMalformed, ConnectionLost, CommandsClosed

\* The agent moves the turn along the pipe and adds none.
LEMMA OrderAgent ==
  ASSUME TypeOK, InFlightMeansATurn, OrderInv, AgentStep, UNCHANGED managerVars
  PROVE  OrderInv'
<1>1. UNCHANGED <<queue, commands, sent, events, driverCommands, driverEvents, inFlight>>
  BY DEF AgentStep, AgentReads, AgentStreams, AgentEnds, AgentDies, managerVars, callerVars, sessionVars,
         portVars
<1>2. Told' = Told /\ ToldTurns' = ToldTurns
  BY <1>1 DEF Told, ToldTurns
<1>3. toAgent \in Seq(DriverCommand) /\ fromAgent \in Seq(AgentMessage) /\ running \in SUBSET Prompts
  BY DEF TypeOK, AcpTypeOK
<1>4. ASSUME InPipe' \subseteq InPipe, \A i \in StopsIn(fromAgent') : i = Len(fromAgent')
      PROVE  OrderInv'
  BY <1>1, <1>2, <1>4 DEF OrderInv, AtMostOne
<1>5. CASE AgentReads
  <2>1. /\ toAgent # <<>> /\ toAgent' = Tail(toAgent) /\ UNCHANGED fromAgent
        /\ \/ Head(toAgent).kind = "Prompt" /\ running' = running \cup {Head(toAgent).turn}
           \/ running' = running
    BY <1>5 DEF AgentReads
  <2>2. /\ PromptNumbers(toAgent') \subseteq PromptNumbers(toAgent)
        /\ Head(toAgent).kind = "Prompt" => Head(toAgent).turn \in PromptNumbers(toAgent)
    BY <1>3, <2>1, MessagesTail
  <2>3. InPipe' \subseteq InPipe
    BY <2>1, <2>2 DEF InPipe
  <2> QED
    BY <1>4, <2>1, <2>3 DEF OrderInv
<1>6. ASSUME NEW p \in running, NEW k, fromAgent' = Append(fromAgent, Event(k, p)),
             Event(k, p) \in AgentMessage, running' \subseteq running, UNCHANGED toAgent
      PROVE  OrderInv'
  <2>1. StopsIn(fromAgent) = {}
    BY <1>6 DEF InFlightMeansATurn
  <2>2. StopsIn(fromAgent') \subseteq {Len(fromAgent) + 1} /\ Len(fromAgent') = Len(fromAgent) + 1
    BY <1>3, <1>6, <2>1, PositionsAppend DEF StopsIn
  <2>3. /\ \A i \in 1..Len(fromAgent) : fromAgent'[i] = fromAgent[i]
        /\ fromAgent'[Len(fromAgent) + 1] = Event(k, p) /\ Len(fromAgent) \in Nat
    BY <1>3, <1>6
  <2>4. \A i \in 1..Len(fromAgent') : i \in 1..Len(fromAgent) \/ i = Len(fromAgent) + 1
    BY <2>2, <2>3
  <2>5. TurnsIn(fromAgent') \subseteq TurnsIn(fromAgent) \cup {p}
    BY <2>3, <2>4 DEF Event, TurnsIn
  <2>6. InPipe' \subseteq InPipe
    BY <1>6, <2>5 DEF InPipe
  <2> QED
    BY <1>4, <2>2, <2>6
<1>7. CASE AgentStreams
  <2>1. PICK p \in running, k \in {"Update", "Malformed"} : fromAgent' = Append(fromAgent, Event(k, p))
    BY <1>7 DEF AgentStreams
  <2>2. Event(k, p) \in AgentMessage /\ UNCHANGED <<running, toAgent>>
    BY <1>3, <1>7, <2>1, AgentMessageTypes DEF AgentStreams
  <2> QED
    BY <1>6, <2>1, <2>2
<1>8. ASSUME NEW p \in Prompts, AgentEnds(p)
      PROVE  OrderInv'
  <2>1. PICK k \in StopKinds : fromAgent' = Append(fromAgent, Event(k, p))
    BY <1>8 DEF AgentEnds
  <2>2. Event(k, p) \in AgentMessage /\ p \in running /\ running' \subseteq running /\ UNCHANGED toAgent
    BY <1>8, AgentMessageTypes DEF AgentEnds
  <2> QED
    BY <1>6, <2>1, <2>2
<1>9. CASE AgentDies
  <2>1. running' = {} /\ toAgent' = <<>> /\ UNCHANGED fromAgent
    BY <1>9 DEF AgentDies
  <2>2. InPipe' \subseteq InPipe
    BY <2>1 DEF InPipe, PromptNumbers, PromptsIn, Positions
  <2> QED
    BY <1>4, <2>1, <2>2 DEF OrderInv
<1> QED
  BY <1>5, <1>7, <1>8, <1>9 DEF AgentStep

\* No turn was told of.
LEMMA OrderInit == Init => OrderInv
<1> SUFFICES ASSUME Init PROVE OrderInv
  OBVIOUS
<1>1. /\ events = <<>> /\ driverEvents = <<>> /\ toAgent = <<>> /\ fromAgent = <<>> /\ running = {}
  BY DEF Init, PortInit, ManagerInit, AcpInit
<1>2. Told = <<>>
  BY <1>1 DEF Told
<1>3. ToldTurns = {} /\ InTurnOrder(Told)
  BY <1>2 DEF ToldTurns, TurnsIn, InTurnOrder
<1>4. InPipe = {} /\ StopsIn(fromAgent) = {}
  BY <1>1 DEF InPipe, TurnsIn, PromptNumbers, PromptsIn, StopsIn, Positions
<1>5. LineOf({"Prompt", "Cancel"}, {}, driverCommands, queue, commands, sent)
  BY LineInit DEF Init
<1> QED
  BY <1>3, <1>4, <1>5 DEF OrderInv, AtMostOne

\* The order of everything told, forwarded or not, holds in every state.
LEMMA OrderInvariant == Spec => []OrderInv
<1>1. ASSUME TypeOK, InFlightMeansATurn, QueueOnlyBehindATurn, OrderInv, [Next]_vars
      PROVE  OrderInv'
  <2>1. CASE UNCHANGED vars
    <3>1. UNCHANGED <<driverCommands, driverEvents, commands, sent, queue, events, inFlight, toAgent,
                      fromAgent, running>>
      BY <2>1 DEF vars, portVars, managerVars, callerVars, sessionVars, acpVars, agentVars
    <3>2. Told' = Told /\ ToldTurns' = ToldTurns
      BY <3>1 DEF Told, ToldTurns
    <3>3. InPipe' = InPipe
      BY <3>1 DEF InPipe
    <3> QED
      BY <1>1, <3>1, <3>2, <3>3 DEF OrderInv
  <2> QED
    BY <1>1, <2>1, OrderManager, OrderDriver, OrderAgent DEF Next
<1> QED
  BY <1>1, OrderInit, TypeCorrect, InFlightInvariant, QueueNeverStranded, PTL DEF Spec

\* What the connection is told of turns comes in turn order, and nothing of a prompt after
\* its stop, although a stall timeout lets run_session hand over prompts the driver drops and
\* forget turns the agent still works on (session_manager.rs:64-70, acp_driver.rs:345-377).
THEOREM EventsComeInOrder == Spec => []EventsInTurnOrder
<1>1. ASSUME TypeOK, OrderInv
      PROVE  EventsInTurnOrder
  <2>1. events \in Seq(DriverEvent) /\ driverEvents \in Seq(DriverEvent)
    BY <1>1 DEF TypeOK, PortTypeOK, ManagerTypeOK
  <2>2. Len(Told) = Len(events) + Len(driverEvents) /\ Len(events) \in Nat /\ Len(driverEvents) \in Nat
    BY <2>1 DEF Told
  <2>3. \A i \in 1..Len(events) : i \in 1..Len(Told) /\ Told[i] = events[i]
    BY <2>1, <2>2 DEF Told
  <2>4. InTurnOrder(Told)
    BY <1>1 DEF OrderInv
  <2> QED
    BY <2>3, <2>4 DEF InTurnOrder, EventsInTurnOrder
<1> QED
  BY <1>1, TypeCorrect, OrderInvariant, PTL

-------------------------------------------------------------------------------
(* No turn is left for another before its stop was told. *)

\* The turns told of without a stop.
Unstopped(es) ==
  {t \in TurnsIn(es) : \A k \in 1..Len(es) : es[k].kind \in StopKinds => es[k].turn # t}

\* Between events of different turns the stop of the first is told.
StopBetween(es) ==
  \A j \in 1..Len(es) : \A i \in 1..(j - 1) :
    es[i].turn # es[j].turn =>
      \E k \in 1..(j - 1) : es[k].kind \in StopKinds /\ es[k].turn = es[i].turn

\* StopBetween is kept because prompt_in_flight is only reset by a stop, or with the task.
StopsInv ==
  /\ StopBetween(Told)
  /\ AtMostOne(Unstopped(Told))
  /\ driverUp /\ ~inFlight => Unstopped(Told) = {}

\* An event of the one turn without a stop, or of a new one when there is none.
LEMMA StopsAppend ==
  ASSUME NEW es \in Seq(DriverEvent), NEW e \in DriverEvent,
         StopBetween(es), Unstopped(es) \subseteq {e.turn}
  PROVE  /\ StopBetween(Append(es, e))
         /\ Unstopped(Append(es, e)) \subseteq {e.turn}
         /\ e.kind \in StopKinds => Unstopped(Append(es, e)) = {}
<1> DEFINE a == Append(es, e)
<1>1. /\ Len(a) = Len(es) + 1 /\ Len(es) \in Nat
      /\ \A i \in 1..Len(es) : a[i] = es[i]
      /\ a[Len(es) + 1] = e
  OBVIOUS
<1> HIDE DEF a
<1>2. \A i \in 1..Len(a) : i \in 1..Len(es) \/ i = Len(es) + 1
  BY <1>1
<1>3. ASSUME NEW i \in 1..Len(es), es[i].turn # e.turn
      PROVE  \E k \in 1..Len(es) : es[k].kind \in StopKinds /\ es[k].turn = es[i].turn
  BY <1>3 DEF Unstopped, TurnsIn
<1>4. ASSUME NEW j \in 1..Len(a), NEW i \in 1..(j - 1), a[i].turn # a[j].turn
      PROVE  \E k \in 1..(j - 1) : a[k].kind \in StopKinds /\ a[k].turn = a[i].turn
  <2>1. i \in 1..Len(es) /\ a[i] = es[i]
    BY <1>1
  <2>2. CASE j = Len(es) + 1
    <3>1. j - 1 = Len(es) /\ a[j] = e
      BY <1>1, <2>2
    <3> QED
      BY <1>1, <1>3, <1>4, <2>1, <3>1
  <2>3. CASE j \in 1..Len(es)
    <3>1. es[i].turn # es[j].turn
      BY <1>1, <1>4, <2>1, <2>3
    <3>2. PICK k \in 1..(j - 1) : es[k].kind \in StopKinds /\ es[k].turn = es[i].turn
      BY <2>3, <3>1 DEF StopBetween
    <3>3. k \in 1..Len(es)
      BY <1>1, <2>3
    <3> QED
      BY <1>1, <2>1, <3>2, <3>3
  <2> QED
    BY <1>2, <2>2, <2>3
<1>5. Unstopped(a) \subseteq {e.turn}
  <2>1. ASSUME NEW t \in Unstopped(a), t # e.turn
        PROVE  FALSE
    <3>1. PICK i \in 1..Len(a) : a[i].turn = t
      BY DEF Unstopped, TurnsIn
    <3>2. i \in 1..Len(es) /\ es[i].turn = t
      BY <1>1, <1>2, <2>1, <3>1
    <3>3. PICK k \in 1..Len(es) : es[k].kind \in StopKinds /\ es[k].turn = t
      BY <1>3, <2>1, <3>2
    <3>4. k \in 1..Len(a) /\ a[k] = es[k]
      BY <1>1
    <3> QED
      BY <3>3, <3>4 DEF Unstopped
  <2> QED
    BY <2>1
<1>6. e.kind \in StopKinds => Unstopped(a) = {}
  <2>1. Len(es) + 1 \in 1..Len(a)
    BY <1>1
  <2> QED
    BY <1>1, <1>5, <2>1 DEF Unstopped
<1> QED
  BY <1>4, <1>5, <1>6 DEF StopBetween, a

\* What the loop sends and reads is of the one turn without a stop.
LEMMA StopsDriver ==
  ASSUME TypeOK, OrderInv, StopsInv, DriverStep, UNCHANGED managerVars
  PROVE  StopsInv'
<1>1. UNCHANGED events /\ events \in Seq(DriverEvent) /\ driverEvents \in Seq(DriverEvent)
  BY DEF managerVars, sessionVars, TypeOK, PortTypeOK, ManagerTypeOK
<1>2. Told \in Seq(DriverEvent)
  BY <1>1 DEF Told
<1>3. ASSUME NEW e \in DriverEvent, driverEvents' = Append(driverEvents, e)
      PROVE  Told' = Append(Told, e)
  BY <1>1, <1>3, EventJoins DEF Told
<1>4. ASSUME NEW t \in InPipe
      PROVE  Unstopped(Told) \subseteq {t}
  <2>1. t \in ToldTurns /\ NotOver(Told, t)
    BY DEF OrderInv
  <2>2. \A e \in DriverEvent : e.turn \in Nat
    BY DEF DriverEvent, Turns, Prompts, NoTurn
  <2>3. \A k \in 1..Len(Told) : Told[k].kind \in StopKinds => Told[k].turn # t
    BY <1>2, <2>1, <2>2 DEF NotOver
  <2>4. t \in Unstopped(Told)
    BY <2>1, <2>3 DEF Unstopped, ToldTurns
  <2> QED
    BY <2>4 DEF StopsInv, AtMostOne
<1>5. CASE SendPrompt
  <2> DEFINE e == Event("Working", Head(driverCommands).turn)
  <2>1. driverUp /\ ~inFlight /\ inFlight' /\ driverEvents' = Append(driverEvents, e)
    BY <1>5 DEF SendPrompt, ReceiveCommand
  <2>2. e \in DriverEvent
    BY <1>5, HeadTypes, MessageTypes DEF SendPrompt, ReceiveCommand, EventKinds, StatusKinds
  <2> HIDE DEF e
  <2>3. Told' = Append(Told, e)
    BY <1>3, <2>1, <2>2
  <2>4. StopBetween(Told) /\ Unstopped(Told) \subseteq {e.turn}
    BY <2>1 DEF StopsInv
  <2>5. StopBetween(Append(Told, e)) /\ Unstopped(Append(Told, e)) \subseteq {e.turn}
    BY <1>2, <2>2, <2>4, StopsAppend
  <2> QED
    BY <2>1, <2>3, <2>5 DEF StopsInv, AtMostOne
<1>6. CASE ReadUpdate \/ ReadStop
  <2> DEFINE m == Head(fromAgent)
             t == m.turn
  <2>1. fromAgent # <<>> /\ fromAgent \in Seq(AgentMessage) /\ inFlight
    BY <1>6 DEF ReadUpdate, ReadStop, ReadMessage, TypeOK, AcpTypeOK
  <2>2. t \in InPipe /\ t \in Prompts
    BY <2>1, PipeTail, HeadTypes DEF InPipe
  <2>3. StopBetween(Told) /\ Unstopped(Told) \subseteq {t}
    BY <1>4, <2>2 DEF StopsInv
  <2>4. CASE ReadUpdate
    <3> DEFINE e == Event("Update", t)
    <3>1. inFlight' /\ driverEvents' = Append(driverEvents, e)
      BY <2>1, <2>4 DEF ReadUpdate
    <3>2. e \in DriverEvent /\ e.turn = t
      BY <2>2, MessageTypes DEF Event, EventKinds
    <3> HIDE DEF e, t
    <3>3. StopBetween(Append(Told, e)) /\ Unstopped(Append(Told, e)) \subseteq {e.turn}
      BY <1>2, <2>3, <3>2, StopsAppend
    <3>4. Told' = Append(Told, e)
      BY <1>3, <3>1, <3>2
    <3> QED
      BY <3>1, <3>3, <3>4 DEF StopsInv, AtMostOne
  <2>5. CASE ReadStop
    <3> DEFINE a == Event("Idle", t)
               e == Event(m.kind, t)
               d == Append(driverEvents, a)
               es == Append(Told, a)
    <3>1. m.kind \in StopKinds /\ driverEvents' = Append(d, e)
      BY <2>5 DEF ReadStop, ReadMessage
    <3>2. a \in DriverEvent /\ a.turn = t /\ e \in DriverEvent /\ e.turn = t /\ e.kind \in StopKinds
      BY <2>2, <3>1, MessageTypes DEF Event, EventKinds, StatusKinds
    <3> HIDE DEF a, e, t, m
    <3>3. d \in Seq(DriverEvent) /\ events \o d = es /\ es \in Seq(DriverEvent)
      BY <1>1, <1>2, <3>2, EventJoins, AppendType DEF Told
    <3>4. Told' = Append(es, e)
      <4> HIDE DEF d, es
      <4>1. events \o Append(d, e) = Append(events \o d, e)
        BY <1>1, <3>2, <3>3, EventJoins
      <4> QED
        BY <1>1, <3>1, <3>3, <4>1 DEF Told
    <3>5. StopBetween(es) /\ Unstopped(es) \subseteq {e.turn}
      BY <1>2, <2>3, <3>2, StopsAppend
    <3> HIDE DEF es
    <3>6. StopBetween(Append(es, e)) /\ Unstopped(Append(es, e)) = {}
      BY <3>2, <3>3, <3>5, StopsAppend
    <3> QED
      BY <3>4, <3>6 DEF StopsInv, AtMostOne
  <2> QED
    BY <1>6, <2>4, <2>5
<1>7. CASE UNCHANGED <<driverEvents, inFlight, driverUp>> \/ (UNCHANGED driverEvents /\ ~driverUp')
  <2>1. Told' = Told
    BY <1>1, <1>7 DEF Told
  <2> QED
    BY <1>7, <2>1 DEF StopsInv
<1> QED
  BY <1>5, <1>6, <1>7
  DEF DriverStep, DropWhileInFlight, SendCancel, ReadMalformed, ConnectionLost, CommandsClosed, TaskEnds,
      acpVars

\* Nothing of another turn is told before the stop of a turn that began.
LEMMA StopsInvariant == Spec => []StopsInv
<1>1. Init => StopsInv
  <2> SUFFICES ASSUME Init PROVE StopsInv
    OBVIOUS
  <2>1. Told = <<>>
    BY DEF Init, PortInit, ManagerInit, Told
  <2> QED
    BY <2>1 DEF StopsInv, StopBetween, Unstopped, TurnsIn, AtMostOne
<1>2. ASSUME TypeOK, OrderInv, StopsInv, [Next]_vars
      PROVE  StopsInv'
  <2>1. ASSUME Told' = Told, UNCHANGED <<inFlight, driverUp>>
        PROVE  StopsInv'
    BY <1>2, <2>1 DEF StopsInv
  <2>2. CASE (CallerStep \/ ManagerStep) /\ UNCHANGED acpVars
    <3>1. UNCHANGED <<inFlight, driverUp>>
      BY <2>2
      DEF acpVars, CallerStep, Prompt, Await, Shutdown, ManagerStep, ReceiveStep, StartPrompt, QueuePrompt,
          DropPrompt, InterruptIdle, InterruptTurn, AnswerAcp, TellFlag, StopManager, TakeEvent, DriverGone,
          StallTimeout, ManagerStopped, sessionVars, portVars
    <3> QED
      BY <1>2, <2>1, <2>2, <3>1, ManagerTellsNothing
  <2>3. CASE DriverStep /\ UNCHANGED managerVars
    BY <1>2, <2>3, StopsDriver
  <2>4. CASE AgentStep /\ UNCHANGED managerVars
    <3>1. UNCHANGED <<events, driverEvents, inFlight, driverUp>>
      BY <2>4
      DEF AgentStep, AgentReads, AgentStreams, AgentEnds, AgentDies, managerVars, sessionVars, portVars
    <3> QED
      BY <2>1, <3>1 DEF Told
  <2>5. CASE UNCHANGED vars
    <3>1. UNCHANGED <<events, driverEvents, inFlight, driverUp>>
      BY <2>5 DEF vars, portVars, managerVars, sessionVars, acpVars
    <3> QED
      BY <2>1, <3>1 DEF Told
  <2> QED
    BY <1>2, <2>2, <2>3, <2>4, <2>5 DEF Next
<1> QED
  BY <1>1, <1>2, TypeCorrect, OrderInvariant, PTL DEF Spec

-------------------------------------------------------------------------------
(* The session implements PromptLedger.                                      *)

\* The agent's turn, as the ledger sees it.
LEMMA LedgerTurn ==
  ASSUME NEW S, AtMostOne(S)
  PROVE  LET turn == IF S = {} THEN 0 ELSE CHOOSE p \in S : TRUE
         IN  /\ S = {} => turn = 0
             /\ \A p \in S : S = {p} /\ turn = p
BY DEF AtMostOne

\* A step that leaves the prompts on their way where they are, or moves them along it.
LEMMA LedgerStutters ==
  ASSUME UNCHANGED <<sent, running, forced, agentUp, driverUp>>, OnTheWay' = OnTheWay
  PROVE  UNCHANGED Ledger!ledgerVars
BY DEF Ledger!ledgerVars, Whole

\* A session that is no longer whole may lose some of them, and the turn.
LEMMA LedgerLoses ==
  ASSUME ~Whole', UNCHANGED sent, OnTheWay' \subseteq OnTheWay, running' = running \/ running' = {}
  PROVE  Ledger!Next
<1>1. Ledger!Lose
  BY DEF Ledger!Lose
<1> QED
  BY <1>1 DEF Ledger!Next

\* What a hand-over and the end of a turn do to the prompts on their way.
LEMMA LedgerHandOver ==
  ASSUME TypeOK, NEW p \in Prompts, HandOver(p)
  PROVE  /\ driverUp => PromptNumbers(driverCommands') = PromptNumbers(driverCommands) \cup {p}
         /\ ~driverUp => PromptNumbers(driverCommands') = PromptNumbers(driverCommands)
<1>1. driverCommands \in Seq(DriverCommand) /\ PromptCommand(p) \in DriverCommand
  BY MessageTypes DEF TypeOK, PortTypeOK
<1>2. PromptCommand(p).kind = "Prompt" /\ PromptCommand(p).turn = p
  BY DEF PromptCommand
<1> DEFINE c == PromptCommand(p)
<1> HIDE DEF c
<1>3. PromptNumbers(Append(driverCommands, c)) = PromptNumbers(driverCommands) \cup {c.turn}
  <2>1. \A cs \in Seq(DriverCommand), m \in DriverCommand :
          m.kind = "Prompt" => PromptNumbers(Append(cs, m)) = PromptNumbers(cs) \cup {m.turn}
    BY MessagesAppend, ZenonT(40)
  <2> QED
    BY <1>1, <1>2, <2>1 DEF c
<1> QED
  BY <1>2, <1>3 DEF HandOver, c

\* The end of a turn, for the ledger: nothing that waits is added, nor lost while the driver is
\* up.
LEMMA LedgerTurnOver ==
  ASSUME TypeOK, TurnOver
  PROVE  LET before == PromptNumbers(driverCommands) \cup Elements(queue)
             after  == PromptNumbers(driverCommands') \cup Elements(queue')
         IN  after \subseteq before /\ (driverUp => after = before)
<1>1. CASE queue = <<>> /\ UNCHANGED <<queue, driverCommands>>
  BY <1>1
<1>2. CASE queue # <<>> /\ queue' = Tail(queue) /\ HandOver(Head(queue))
  <2>1. queue \in Seq(Prompts) /\ Head(queue) \in Prompts
    BY <1>2, HeadTypes DEF TypeOK, ManagerTypeOK
  <2>2. Elements(queue) = Elements(queue') \cup {Head(queue)}
    BY <1>2, <2>1, ElementsTail
  <2> QED
    BY <1>2, <2>1, <2>2, LedgerHandOver
<1> QED
  BY <1>1, <1>2 DEF TurnOver

\* What run_session receives leaves the line to it.
LEMMA LedgerReceive ==
  ASSUME TypeOK, NEW k, Receive(k)
  PROVE  /\ k = "Prompt" => /\ Head(commands).turn \in Prompts
                            /\ PromptNumbers(commands)
                                 = PromptNumbers(commands') \cup {Head(commands).turn}
         /\ k # "Prompt" => PromptNumbers(commands') = PromptNumbers(commands)
BY HeadTypes, PromptNumbersTail DEF Receive, TypeOK, ManagerTypeOK

\* The caller and run_session accept prompts, move them along, and lose them only after a failure.
LEMMA LedgerManager ==
  ASSUME TypeOK, DownMeansGone, CallerStep \/ ManagerStep, UNCHANGED acpVars
  PROVE  [Ledger!Next]_Ledger!ledgerVars
<1>1. UNCHANGED <<toAgent, running, agentUp, driverUp>>
  BY DEF acpVars, agentVars, CallerStep, Prompt, Await, Shutdown, ManagerStep, ReceiveStep, StartPrompt,
         QueuePrompt, DropPrompt, InterruptIdle, InterruptTurn, AnswerAcp, TellFlag, StopManager,
         TakeEvent, DriverGone, StallTimeout, ManagerStopped, portVars
<1>2. /\ commands \in Seq(ManagerCommand) /\ driverCommands \in Seq(DriverCommand)
      /\ queue \in Seq(Prompts) /\ sent \in Nat
  BY MaxPromptsAssumption DEF TypeOK, PortTypeOK, ManagerTypeOK
<1>3. CASE Prompt
  <2> DEFINE c == [kind |-> "Prompt", turn |-> sent + 1]
  <2>1. /\ sent < MaxPrompts /\ sent' = sent + 1 /\ commands' = Append(commands, c)
        /\ UNCHANGED <<queue, driverCommands, forced>>
    BY <1>3 DEF Prompt, sessionVars, portVars
  <2>2. c \in ManagerCommand /\ c.kind = "Prompt" /\ c.turn = sent + 1
    BY <1>2, <2>1, MaxPromptsAssumption DEF ManagerCommand, Prompts
  <2> HIDE DEF c
  <2>3. PromptNumbers(commands') = PromptNumbers(commands) \cup {sent + 1}
    <3>1. \A cs \in Seq(ManagerCommand), m \in ManagerCommand :
            m.kind = "Prompt" => PromptNumbers(Append(cs, m)) = PromptNumbers(cs) \cup {m.turn}
      BY MessagesAppend, ZenonT(40)
    <3> QED
      BY <1>2, <2>1, <2>2, <3>1
  <2>4. OnTheWay' = OnTheWay \cup {sent + 1}
    BY <1>1, <2>1, <2>3 DEF OnTheWay
  <2>5. Ledger!Accept
    BY <1>1, <2>1, <2>4 DEF Ledger!Accept, Whole
  <2> QED
    BY <2>5 DEF Ledger!Next
<1>4. ASSUME NEW k \in Calls, Await(k)
      PROVE  UNCHANGED Ledger!ledgerVars
  <2> DEFINE c == [kind |-> k, turn |-> NoTurn]
  <2>1. commands' = Append(commands, c) /\ UNCHANGED <<sent, queue, driverCommands, forced>>
    BY <1>4 DEF Await, sessionVars, portVars
  <2>2. c \in ManagerCommand /\ c.kind # "Prompt"
    BY CallsAssumption, MessageTypes DEF AwaitedCalls
  <2> HIDE DEF c
  <2>3. PromptNumbers(commands') = PromptNumbers(commands)
    <3>1. \A cs \in Seq(ManagerCommand), m \in ManagerCommand :
            m.kind # "Prompt" => PromptNumbers(Append(cs, m)) = PromptNumbers(cs)
      BY MessagesAppend
    <3> QED
      BY <1>2, <2>1, <2>2, <3>1
  <2> QED
    BY <1>1, <2>1, <2>3, LedgerStutters DEF OnTheWay
<1>5. CASE StartPrompt
  <2>1. /\ Receive("Prompt") /\ HandOver(Head(commands).turn)
        /\ UNCHANGED <<sent, queue, forced>>
    BY <1>5 DEF StartPrompt, callerVars
  <2>2. CASE driverUp
    <3>1. OnTheWay' = OnTheWay
      BY <1>1, <2>1, <2>2, LedgerReceive, LedgerHandOver DEF OnTheWay
    <3> QED
      BY <1>1, <2>1, <3>1, LedgerStutters
  <2>3. CASE ~driverUp
    <3>1. OnTheWay' \subseteq OnTheWay
      BY <1>1, <2>1, <2>3, LedgerReceive, LedgerHandOver DEF OnTheWay
    <3> QED
      BY <1>1, <2>1, <2>3, <3>1, LedgerLoses DEF Whole
  <2> QED
    BY <2>2, <2>3
<1>6. CASE QueuePrompt
  <2>1. /\ Receive("Prompt") /\ queue' = Append(queue, Head(commands).turn)
        /\ UNCHANGED <<sent, driverCommands, forced>>
    BY <1>6 DEF QueuePrompt, Queued, callerVars, portVars
  <2>2. Elements(queue') = Elements(queue) \cup {Head(commands).turn}
    BY <1>2, <2>1, LedgerReceive, ElementsAppend
  <2>3. OnTheWay' = OnTheWay
    BY <1>1, <2>1, <2>2, LedgerReceive DEF OnTheWay
  <2> QED
    BY <1>1, <2>1, <2>3, LedgerStutters
<1>7. CASE DropPrompt
  <2>1. Receive("Prompt") /\ ~driverUp /\ UNCHANGED <<sent, queue, driverCommands, forced>>
    BY <1>7 DEF DropPrompt, DownMeansGone, callerVars, sessionVars, portVars
  <2>2. OnTheWay' \subseteq OnTheWay
    BY <1>1, <2>1, LedgerReceive DEF OnTheWay
  <2> QED
    BY <1>1, <2>1, <2>2, LedgerLoses DEF Whole
<1>8. CASE InterruptIdle \/ InterruptTurn \/ AnswerAcp \/ TellFlag
  <2>1. PICK k \in AwaitedCalls : Receive(k)
    BY <1>8 DEF InterruptIdle, InterruptTurn, AnswerAcp, TellFlag, AwaitedCalls
  <2>2. /\ UNCHANGED <<sent, queue, forced>>
        /\ driverCommands' = driverCommands \/ driverCommands' = Append(driverCommands, CancelCommand)
    BY <1>8
    DEF InterruptIdle, InterruptTurn, AttemptCancel, AnswerAcp, TellFlag, callerVars, sessionVars, portVars
  <2>3. PromptNumbers(driverCommands') = PromptNumbers(driverCommands)
    <3>1. CancelCommand \in DriverCommand /\ CancelCommand.kind # "Prompt"
      BY MessageTypes DEF CancelCommand
    <3>2. PromptNumbers(Append(driverCommands, CancelCommand)) = PromptNumbers(driverCommands)
      BY <1>2, <3>1, MessagesAppend
    <3> QED
      BY <2>2, <3>2
  <2>4. k # "Prompt"
    BY DEF AwaitedCalls
  <2>5. OnTheWay' = OnTheWay
    BY <1>1, <2>1, <2>2, <2>3, <2>4, LedgerReceive DEF OnTheWay
  <2> QED
    BY <1>1, <2>2, <2>5, LedgerStutters
<1>9. CASE UNCHANGED <<sent, commands, queue, driverCommands, forced>>
  <2>1. OnTheWay' = OnTheWay
    BY <1>1, <1>9 DEF OnTheWay
  <2> QED
    BY <1>1, <1>9, <2>1, LedgerStutters
<1>10. CASE (TakeEvent \/ StallTimeout) /\ TurnOver
  <2>1. UNCHANGED <<sent, commands>> /\ (UNCHANGED forced \/ forced')
    BY <1>10 DEF TakeEvent, StallTimeout, callerVars
  <2>2. OnTheWay' \subseteq OnTheWay /\ (driverUp => OnTheWay' = OnTheWay)
    <3>1. /\ PromptNumbers(driverCommands') \cup Elements(queue')
               \subseteq PromptNumbers(driverCommands) \cup Elements(queue)
          /\ driverUp => PromptNumbers(driverCommands') \cup Elements(queue')
                           = PromptNumbers(driverCommands) \cup Elements(queue)
      BY <1>10, LedgerTurnOver
    <3> QED
      BY <1>1, <2>1, <3>1 DEF OnTheWay
  <2>3. CASE driverUp /\ UNCHANGED forced
    BY <1>1, <2>1, <2>2, <2>3, LedgerStutters
  <2>4. CASE ~driverUp \/ forced'
    BY <1>1, <2>1, <2>2, <2>4, LedgerLoses DEF Whole
  <2> QED
    BY <2>1, <2>3, <2>4
<1>11. CASE \/ Shutdown \/ StopManager \/ DriverGone \/ ManagerStopped
            \/ (TakeEvent /\ UNCHANGED <<queue, driverCommands>>)
  BY <1>9, <1>11 DEF Shutdown, StopManager, DriverGone, ManagerStopped, TakeEvent, callerVars, sessionVars,
                     portVars
<1>12. TakeEvent => TurnOver \/ UNCHANGED <<queue, driverCommands>>
  BY DEF TakeEvent
<1>13. StallTimeout => TurnOver
  BY DEF StallTimeout
<1> QED
  BY <1>3, <1>4, <1>5, <1>6, <1>7, <1>8, <1>10, <1>11, <1>12, <1>13
  DEF CallerStep, ManagerStep, ReceiveStep

\* The driver's loop passes prompts on, and drops one only when a stall timeout handed it over
\* during a turn.
LEMMA LedgerDriver ==
  ASSUME TypeOK, BusyMeansATurn, DriverStep, UNCHANGED managerVars
  PROVE  [Ledger!Next]_Ledger!ledgerVars
<1>1. UNCHANGED <<sent, commands, queue, forced>>
  BY DEF managerVars, callerVars, sessionVars
<1>2. driverCommands \in Seq(DriverCommand) /\ toAgent \in Seq(DriverCommand)
  BY DEF TypeOK, PortTypeOK, AcpTypeOK
<1>3. ASSUME NEW k, ReceiveCommand(k)
      PROVE  /\ k = "Prompt" => PromptNumbers(driverCommands)
                                  = PromptNumbers(driverCommands') \cup {Head(driverCommands).turn}
             /\ k # "Prompt" => PromptNumbers(driverCommands') = PromptNumbers(driverCommands)
  BY <1>2, <1>3, PromptNumbersTail DEF ReceiveCommand
<1>4. CASE SendPrompt
  <2> DEFINE m == Head(driverCommands)
  <2>1. /\ ReceiveCommand("Prompt") /\ toAgent' = Append(toAgent, m)
        /\ UNCHANGED <<driverUp, running, agentUp>>
    BY <1>4 DEF SendPrompt, agentVars
  <2>2. m \in DriverCommand /\ m.kind = "Prompt"
    BY <2>1, HeadTypes DEF ReceiveCommand
  <2> HIDE DEF m
  <2>3. PromptNumbers(toAgent') = PromptNumbers(toAgent) \cup {m.turn}
    <3>1. \A cs \in Seq(DriverCommand), c \in DriverCommand :
            c.kind = "Prompt" => PromptNumbers(Append(cs, c)) = PromptNumbers(cs) \cup {c.turn}
      BY MessagesAppend
    <3> QED
      BY <1>2, <2>1, <2>2, <3>1
  <2>4. OnTheWay' = OnTheWay
    <3>1. PromptNumbers(driverCommands) = PromptNumbers(driverCommands') \cup {m.turn}
      BY <1>3, <2>1 DEF m
    <3> QED
      BY <1>1, <2>3, <3>1 DEF OnTheWay
  <2> QED
    BY <1>1, <2>1, <2>4, LedgerStutters
<1>5. CASE DropWhileInFlight
  <2>1. ReceiveCommand("Prompt") /\ inFlight /\ UNCHANGED <<driverUp, running, agentUp, toAgent>>
    BY <1>5 DEF DropWhileInFlight, acpVars, agentVars
  <2>2. PromptsIn(driverCommands) # {}
    BY <1>2, <2>1, PositionsHead DEF ReceiveCommand, PromptsIn
  <2>3. ~Whole'
    BY <1>1, <2>1, <2>2 DEF BusyMeansATurn, Whole
  <2>4. OnTheWay' \subseteq OnTheWay
    BY <1>1, <1>3, <2>1 DEF OnTheWay
  <2> QED
    BY <1>1, <2>1, <2>3, <2>4, LedgerLoses
<1>6. CASE SendCancel
  <2>1. /\ ReceiveCommand("Cancel") /\ toAgent' = Append(toAgent, CancelCommand)
        /\ UNCHANGED <<driverUp, running, agentUp>>
    BY <1>6 DEF SendCancel, agentVars
  <2>2. PromptNumbers(toAgent') = PromptNumbers(toAgent)
    <3>1. CancelCommand \in DriverCommand /\ CancelCommand.kind # "Prompt"
      BY MessageTypes DEF CancelCommand
    <3> QED
      BY <1>2, <2>1, <3>1, MessagesAppend
  <2>3. OnTheWay' = OnTheWay
    BY <1>1, <1>3, <2>1, <2>2 DEF OnTheWay
  <2> QED
    BY <1>1, <2>1, <2>3, LedgerStutters
<1>7. CASE ReadUpdate \/ ReadStop
  <2>1. UNCHANGED <<driverCommands, toAgent, driverUp, running, agentUp>>
    BY <1>7 DEF ReadUpdate, ReadStop, agentVars
  <2>2. OnTheWay' = OnTheWay
    BY <1>1, <2>1 DEF OnTheWay
  <2> QED
    BY <1>1, <2>1, <2>2, LedgerStutters
<1>8. CASE TaskEnds
  <2>1. driverCommands' = <<>> /\ toAgent' = <<>> /\ running' = {} /\ ~driverUp'
    BY <1>8 DEF TaskEnds
  <2>2. PromptNumbers(driverCommands') = {} /\ PromptNumbers(toAgent') = {}
    BY <2>1 DEF PromptNumbers, PromptsIn, Positions
  <2>3. OnTheWay' \subseteq OnTheWay
    BY <1>1, <2>2 DEF OnTheWay
  <2> QED
    BY <1>1, <2>1, <2>3, LedgerLoses DEF Whole
<1> QED
  BY <1>4, <1>5, <1>6, <1>7, <1>8 DEF DriverStep, ReadMalformed, ConnectionLost, CommandsClosed

\* The prompt the agent takes is the oldest, and its turn is the only one.
LEMMA LedgerAgent ==
  ASSUME TypeOK, InFlightMeansATurn, OrderInv, AgentStep, UNCHANGED managerVars
  PROVE  [Ledger!Next]_Ledger!ledgerVars
<1>1. UNCHANGED <<sent, commands, queue, forced, driverCommands, driverUp>>
  BY DEF managerVars, callerVars, sessionVars, AgentStep, AgentReads, AgentStreams, AgentEnds, AgentDies,
         portVars
<1>2. toAgent \in Seq(DriverCommand) /\ running \in SUBSET Prompts /\ AtMostOne(running)
  BY DEF TypeOK, AcpTypeOK, InFlightMeansATurn
<1>3. CASE AgentReads
  <2> DEFINE m == Head(toAgent)
             p == m.turn
  <2>1. /\ toAgent # <<>> /\ toAgent' = Tail(toAgent) /\ UNCHANGED agentUp
        /\ \/ m.kind = "Prompt" /\ running' = running \cup {p}
           \/ m.kind = "Cancel" /\ running' = running
    BY <1>3 DEF AgentReads
  <2>2. CASE m.kind = "Cancel" /\ running' = running
    <3>1. PromptNumbers(toAgent') = PromptNumbers(toAgent)
      BY <1>2, <2>1, <2>2, PromptNumbersTail
    <3>2. OnTheWay' = OnTheWay
      BY <1>1, <3>1 DEF OnTheWay
    <3> QED
      BY <1>1, <2>1, <2>2, <3>2, LedgerStutters
  <2>3. CASE m.kind = "Prompt" /\ running' = running \cup {p}
    <3> DEFINE rest == PromptNumbers(driverCommands) \cup Elements(queue) \cup PromptNumbers(commands)
    <3>1. 1 \in PromptsIn(toAgent)
      BY <1>2, <2>1, <2>3, PositionsHead DEF PromptsIn
    <3>2. running = {} /\ PromptsIn(toAgent') = {} /\ running' = {p}
      BY <1>2, <2>1, <2>3, <3>1, ReceiveOnly DEF InFlightMeansATurn, PromptsIn
    <3>3. PromptNumbers(toAgent') = {} /\ PromptNumbers(toAgent) = {p}
      <4>1. PromptNumbers(toAgent') = {}
        BY <3>2 DEF PromptNumbers
      <4>2. PromptNumbers(toAgent) = PromptNumbers(toAgent') \cup {p}
        BY <1>2, <2>1, <2>3, PromptNumbersTail
      <4> QED
        BY <4>1, <4>2
    <3> HIDE DEF p
    <3>4. OnTheWay = rest \cup {p} /\ OnTheWay' = rest
      BY <1>1, <3>3 DEF OnTheWay
    <3>5. \A q \in rest : p < q /\ q \in Nat
      <4>1. p \in ToldTurns
        BY <3>3 DEF OrderInv, InPipe
      <4>2. /\ Before(ToldTurns, rest) /\ rest \subseteq 1..sent
        BY DEF OrderInv, LineOf, InLine
      <4> QED
        BY <4>1, <4>2 DEF Before
    <3>6. p \in Nat
      BY <2>1, <2>3, HeadTypes DEF p, Prompts
    <3> HIDE DEF rest
    <3>7. rest = (rest \cup {p}) \ {p}
      BY <3>5, <3>6
    <3> DEFINE turn == IF running = {} THEN 0 ELSE CHOOSE q \in running : TRUE
    <3>8. turn = 0 /\ turn' = p
      BY <3>2, LedgerTurn
    <3> HIDE DEF turn
    <3>9. Ledger!Start
      <4>1. turn' \in OnTheWay /\ \A q \in OnTheWay : turn' <= q
        <5>1. \A q \in rest \cup {p} : p <= q
          BY <3>5, <3>6
        <5> QED
          BY <3>4, <3>8, <5>1
      <4>2. OnTheWay' = OnTheWay \ {turn'}
        BY <3>4, <3>7, <3>8
      <4>3. Whole' = Whole /\ sent' = sent
        BY <1>1, <2>1 DEF Whole
      <4> QED
        BY <3>8, <4>1, <4>2, <4>3 DEF turn, Ledger!Start
    <3> QED
      BY <3>9 DEF Ledger!Next
  <2> QED
    BY <2>1, <2>2, <2>3
<1>4. CASE AgentStreams
  <2>1. UNCHANGED <<toAgent, running, agentUp>>
    BY <1>4 DEF AgentStreams
  <2>2. OnTheWay' = OnTheWay
    BY <1>1, <2>1 DEF OnTheWay
  <2> QED
    BY <1>1, <2>1, <2>2, LedgerStutters
<1>5. ASSUME NEW p \in Prompts, AgentEnds(p)
      PROVE  Ledger!Next
  <2>1. p \in running /\ running' = running \ {p} /\ UNCHANGED <<toAgent, agentUp>>
    BY <1>5 DEF AgentEnds
  <2>2. running = {p} /\ running' = {} /\ p # 0
    <3>1. \A q \in running : q = p
      BY <2>1 DEF InFlightMeansATurn, AtMostOne
    <3>2. running = {p} /\ running' = {}
      BY <2>1, <3>1
    <3>3. p # 0
      BY MaxPromptsAssumption DEF Prompts
    <3> QED
      BY <3>2, <3>3
  <2>3. OnTheWay' = OnTheWay /\ Whole' = Whole
    BY <1>1, <2>1 DEF OnTheWay, Whole
  <2>4. Ledger!Finish
    BY <1>1, <2>2, <2>3 DEF Ledger!Finish
  <2> QED
    BY <2>4 DEF Ledger!Next
<1>6. CASE AgentDies
  <2>1. toAgent' = <<>> /\ running' = {} /\ ~agentUp'
    BY <1>6 DEF AgentDies
  <2>2. PromptNumbers(toAgent') = {}
    BY <2>1 DEF PromptNumbers, PromptsIn, Positions
  <2>3. OnTheWay' \subseteq OnTheWay
    BY <1>1, <2>2 DEF OnTheWay
  <2> QED
    BY <1>1, <2>1, <2>3, LedgerLoses DEF Whole
<1> QED
  BY <1>3, <1>4, <1>5, <1>6 DEF AgentStep

\* The session implements the ledger for any number of prompts, interrupts and stall timeouts,
\* whenever its agent or driver dies: one turn at a time, oldest first, nothing lost while it is
\* whole and nothing repeated ever (run_session, run_command_loop).
THEOREM LedgerKept == Spec => LedgerSpec
<1>1. Init => Ledger!Init
  <2> SUFFICES ASSUME Init PROVE Ledger!Init
    OBVIOUS
  <2>1. /\ commands = <<>> /\ queue = <<>> /\ driverCommands = <<>> /\ toAgent = <<>> /\ running = {}
        /\ sent = 0 /\ ~forced /\ agentUp /\ driverUp
    BY DEF Init, PortInit, ManagerInit, AcpInit
  <2>2. OnTheWay = {}
    BY <2>1 DEF OnTheWay, Elements, PromptNumbers, PromptsIn, Positions
  <2> QED
    BY <2>1, <2>2 DEF Ledger!Init, Whole
<1>2. ASSUME TypeOK, InFlightMeansATurn, DownMeansGone, BusyMeansATurn, OrderInv, [Next]_vars
      PROVE  [Ledger!Next]_Ledger!ledgerVars
  <2>1. CASE UNCHANGED vars
    <3>1. /\ UNCHANGED <<sent, running, forced, agentUp, driverUp>>
          /\ UNCHANGED <<commands, queue, driverCommands, toAgent>>
      BY <2>1 DEF vars, portVars, managerVars, callerVars, sessionVars, acpVars, agentVars
    <3> QED
      BY <3>1, LedgerStutters DEF OnTheWay
  <2> QED
    BY <1>2, <2>1, LedgerManager, LedgerDriver, LedgerAgent DEF Next
<1> QED
  BY <1>1, <1>2, TypeCorrect, InFlightInvariant, DownInvariant, BusyIsExact, OrderInvariant, PTL
  DEF Spec, LedgerSpec, Ledger!Spec
===============================================================================
