------------------------- MODULE AttachSession_proofs -------------------------
(***************************************************************************)
(* Theorems about AttachSession for every value of its constants.           *)
(***************************************************************************)
EXTENDS AttachSession, SessionManager_proofs, FiniteSetTheorems

-------------------------------------------------------------------------------
(* Type correctness.                                                         *)

\* The calls in progress: one at a time, and an interrupt that was sent was counted as a call
\* before its flag was set.
CallsInv ==
  /\ AtMostOne(Positions(commands, AwaitedCalls))
  /\ call = "none" /\ ~closed => Positions(commands, AwaitedCalls) = {}
  /\ managerPc \in {"interrupting", "answering"} =>
       /\ Positions(commands, AwaitedCalls) = {}
       /\ call = "none" => closed
  /\ interrupts <= calls
  /\ Positions(commands, {"Interrupt"}) # {} => interrupts < calls

\* What the types of the loop's variables rest on: an attached session's driver is only
\* ever sent prompts, and the texts are counted.
LoopInv ==
  /\ Positions(driverCommands, {"Cancel"}) = {}
  /\ httpPc = "posting" => prompting \in Prompts
  /\ \A t \in Turns : said[t] <= texts

AttachInv == TypeOK /\ CallsInv /\ LoopInv

\* The bounds as numbers, and what no request and no turn are.
LEMMA AttachBounds ==
  /\ MaxForeign \in Nat /\ MaxTexts \in Nat /\ MaxRequests \in Nat /\ MaxMisses \in Nat
  /\ MaxPrompts \in Nat /\ MaxCalls \in Nat
  /\ NoTurn \in Turns /\ Prompts \subseteq Turns
  /\ NoRequest \notin PendingBlock
  /\ \A r \in PendingBlock \cup {NoRequest} : r.id \in Nat /\ (r.id = 0 <=> r = NoRequest)
BY AttachBoundsAssumption, MaxPromptsAssumption, CallsAssumption
DEF Turns, NoTurn, Prompts, PendingBlock, NoRequest, RequestKinds

\* An interrupt is one of the awaited calls.
LEMMA InterruptsAreCalls ==
  /\ Positions(commands, {"Interrupt"}) \subseteq Positions(commands, AwaitedCalls)
  /\ Positions(commands', {"Interrupt"}) \subseteq Positions(commands', AwaitedCalls)
BY DEF Positions, AwaitedCalls

\* A session starts with no call, no request and nothing on its way.
LEMMA AttachInvInit == Init => AttachInv
<1> SUFFICES ASSUME Init PROVE AttachInv
  OBVIOUS
<1> USE DEF Init
<1>1. PairTypeOK
  BY PairTypeInit
<1>2. /\ httpPc = "connecting" /\ prompting = NoTurn /\ found = NoRequest /\ ~interruptRequested
      /\ interruptRequested \in BOOLEAN /\ pendingBlock = NoRequest /\ messageRoles = {}
      /\ sse = <<>> /\ ~streaming /\ streaming \in BOOLEAN /\ openCodeUp \in BOOLEAN
      /\ openCodeQueue = <<>> /\ interrupted = {} /\ pending = {}
      /\ texts = 0 /\ requests = 0 /\ misses = 0 /\ posted = <<>> /\ said = [t \in Turns |-> 0]
  BY DEF AttachInit
<1>3. running \subseteq Turns /\ foreign \in 0..MaxForeign
  <2>1. CASE MaxForeign = 0
    BY <2>1, AttachBounds DEF AttachInit
  <2>2. CASE MaxForeign = 1
    BY <2>2, AttachBounds DEF AttachInit
  <2> QED
    BY <2>1, <2>2, AttachBoundsAssumption
<1>4. sse \in Seq(StreamEvent) /\ openCodeQueue \in Seq(Turns) /\ posted \in Seq(Prompts)
  BY <1>2, EmptyType
<1>5. said \in [Turns -> 0..MaxTexts]
  BY <1>2, AttachBounds
<1>6. AttachTypeOK
  BY <1>2, <1>3, <1>4, <1>5, AttachBounds DEF AttachTypeOK
<1>7. TypeOK
  BY <1>1, <1>6, AttachBounds DEF TypeOK, PairTypeOK
<1>8. commands = <<>> /\ driverCommands = <<>> /\ calls = 0 /\ interrupts = 0 /\ managerPc = "running"
  BY DEF ManagerInit, PortInit
<1>9. \A ks : Positions(commands, ks) = {} /\ Positions(driverCommands, ks) = {}
  BY <1>8 DEF Positions
<1> QED
  BY <1>2, <1>7, <1>8, <1>9 DEF AttachInv, CallsInv, LoopInv, AtMostOne

\* What run_session receives leaves at most the other awaited call, and there is none.
LEMMA CallsReceive ==
  ASSUME AttachInv, NEW k, Receive(k)
  PROVE  /\ AtMostOne(Positions(commands', AwaitedCalls))
         /\ Positions(commands, AwaitedCalls) = {} => Positions(commands', AwaitedCalls) = {}
         /\ k \in AwaitedCalls => Positions(commands', AwaitedCalls) = {}
         /\ Positions(commands, {"Interrupt"}) = {} => Positions(commands', {"Interrupt"}) = {}
         /\ k = "Interrupt" => interrupts < calls
<1>1. /\ commands \in Seq(ManagerCommand) /\ commands # <<>> /\ commands' = Tail(commands)
      /\ Head(commands).kind = k
  BY DEF AttachInv, TypeOK, ManagerTypeOK, Receive
<1>2. k = "Interrupt" => Positions(commands, {"Interrupt"}) # {}
  <2>1. k = "Interrupt" => 1 \in Positions(commands, {"Interrupt"})
    BY <1>1, PositionsHead
  <2> QED
    BY <2>1
<1> QED
  BY <1>1, <1>2, ReceiveKeeps, ReceiveOnly DEF AttachInv, CallsInv

\* The caller's steps and the arms every session has, and the arms of an attached one.
SharedStep == (CallerStep \/ CommonStep) /\ UNCHANGED <<attachVars, postVars>>
OwnStep    == InterruptAttached \/ AnswerRefused \/ AnswerAttached \/ InterruptReturns \/ AnswerReturns

\* The cases the invariants of this module are argued by.
LEMMA AttachSteps ==
  (CallerStep /\ UNCHANGED <<attachVars, postVars>>) \/ AttachManagerStep <=> SharedStep \/ OwnStep
BY DEF SharedStep, OwnStep, AttachManagerStep, AttachReceiveStep, CommonStep, CommonReceive

\* The caller and run_session keep the calls in order.
LEMMA CallsManager ==
  ASSUME AttachInv, SharedStep \/ OwnStep
  PROVE  CallsInv'
<1> USE DEF AttachInv, CallsInv
<1>1. /\ commands \in Seq(ManagerCommand) /\ calls \in Nat /\ interrupts \in Nat
  BY AttachBounds DEF TypeOK, ManagerTypeOK
<1>0. SharedStep => UNCHANGED interrupts
  BY DEF SharedStep, postVars
<1>2. CASE Prompt /\ SharedStep
  <2> DEFINE c == [kind |-> "Prompt", turn |-> sent + 1]
  <2>1. /\ commands' = Append(commands, c)
        /\ UNCHANGED <<calls, closed, call, managerPc, interrupts>> /\ sent < MaxPrompts
    BY <1>0, <1>2 DEF Prompt, awaitVars, sessionVars
  <2>2. c \in ManagerCommand /\ c.kind = "Prompt" /\ c.kind \notin AwaitedCalls
    <3>1. sent + 1 \in Prompts
      BY <2>1, AttachBounds DEF TypeOK, ManagerTypeOK, Prompts
    <3> QED
      BY <3>1 DEF ManagerCommand, AwaitedCalls
  <2> HIDE DEF c
  <2>3. \A ks \in SUBSET AwaitedCalls : Positions(commands', ks) = Positions(commands, ks)
    BY <1>1, <2>1, <2>2, PositionsAppend
  <2>4. {"Interrupt"} \in SUBSET AwaitedCalls
    BY DEF AwaitedCalls
  <2>5. /\ Positions(commands', AwaitedCalls) = Positions(commands, AwaitedCalls)
        /\ Positions(commands', {"Interrupt"}) = Positions(commands, {"Interrupt"})
    BY <2>3, <2>4
  <2> QED
    BY <2>1, <2>5
<1>3. ASSUME NEW k \in Calls, Await(k), SharedStep
      PROVE  CallsInv'
  <2> DEFINE c == [kind |-> k, turn |-> NoTurn]
  <2>1. /\ commands' = Append(commands, c) /\ calls' = calls + 1 /\ call' = k
        /\ call = "none" /\ ~closed /\ UNCHANGED <<closed, managerPc, interrupts>>
    BY <1>0, <1>3 DEF Await, sessionVars
  <2>2. c \in ManagerCommand /\ c.kind \in AwaitedCalls /\ k # "none"
    BY CallsAssumption, MessageTypes DEF AwaitedCalls
  <2> HIDE DEF c
  <2>3. Positions(commands', AwaitedCalls) = {Len(commands) + 1}
    BY <1>1, <2>1, <2>2, PositionsAppend
  <2>4. managerPc \notin {"interrupting", "answering"}
    BY <2>1
  <2> QED
    BY <1>1, <2>1, <2>2, <2>3, <2>4 DEF AtMostOne
<1>4. CASE Shutdown /\ SharedStep
  BY <1>0, <1>4 DEF Shutdown, sessionVars
<1>5. ASSUME UNCHANGED <<calls, closed, managerPc, interrupts>>,
             \/ UNCHANGED <<commands, call>>
             \/ Receive("Prompt") /\ UNCHANGED call
             \/ \E k \in AwaitedCalls : Receive(k) /\ call' = "none"
      PROVE  CallsInv'
  <2>1. managerPc = "running" \/ UNCHANGED <<commands, call>>
    BY <1>5 DEF Receive
  <2>2. CASE UNCHANGED <<commands, call>>
    BY <1>5, <2>2
  <2>3. CASE Receive("Prompt") /\ UNCHANGED call
    BY <1>5, <2>1, <2>3, CallsReceive DEF Receive
  <2>4. ASSUME NEW k \in AwaitedCalls, Receive(k), call' = "none"
        PROVE  CallsInv'
    <3>1. Positions(commands', AwaitedCalls) = {} /\ Positions(commands', {"Interrupt"}) = {}
      BY <2>4, CallsReceive, InterruptsAreCalls
    <3> QED
      BY <1>5, <2>4, <3>1 DEF Receive, AtMostOne
  <2> QED
    BY <1>5, <2>2, <2>3, <2>4
<1>6. CASE (StartPrompt \/ QueuePrompt \/ DropPrompt) /\ SharedStep
  BY <1>0, <1>5, <1>6 DEF StartPrompt, QueuePrompt, DropPrompt, callerVars, awaitVars, sessionVars
<1>7. CASE (InterruptIdle \/ TellFlag) /\ SharedStep
  <2>1. UNCHANGED <<calls, closed, managerPc, interrupts>>
    BY <1>0, <1>7 DEF InterruptIdle, TellFlag, callerVars, sessionVars
  <2>2. \E k \in AwaitedCalls : Receive(k) /\ call' = "none"
    BY <1>7 DEF InterruptIdle, TellFlag, Return, AwaitedCalls
  <2> QED
    BY <1>5, <2>1, <2>2
<1>8. CASE (StopManager \/ ManagerStopped) /\ SharedStep
  <2>1. /\ UNCHANGED <<commands, calls, closed, call, interrupts>>
        /\ managerPc' \in {"stopping", "stopped"}
    BY <1>0, <1>8 DEF StopManager, ManagerStopped, callerVars, awaitVars
  <2> QED
    BY <2>1
<1>9. CASE (TakeEvent \/ DriverGone \/ StallTimeout) /\ SharedStep
  BY <1>0, <1>5, <1>9 DEF TakeEvent, DriverGone, StallTimeout, callerVars, awaitVars
<1>10. CASE InterruptAttached
  <2>1. /\ Receive("Interrupt") /\ interrupts' = interrupts + 1 /\ managerPc' = "interrupting"
        /\ UNCHANGED <<calls, closed, call>>
    BY <1>10 DEF InterruptAttached, callerVars, awaitVars
  <2>2. Positions(commands', AwaitedCalls) = {} /\ Positions(commands', {"Interrupt"}) = {}
    BY <2>1, CallsReceive, InterruptsAreCalls DEF AwaitedCalls
  <2>3. call = "none" => closed
    <3>1. "Interrupt" \in AwaitedCalls /\ commands \in Seq(ManagerCommand)
      BY <1>1 DEF AwaitedCalls
    <3>2. 1 \in Positions(commands, AwaitedCalls)
      BY <2>1, <3>1, PositionsHead DEF Receive
    <3> QED
      BY <3>2
  <2>4. interrupts + 1 <= calls
    BY <1>1, <2>1, CallsReceive
  <2> QED
    BY <2>1, <2>2, <2>3, <2>4 DEF AtMostOne
<1>11. CASE AnswerAttached
  <2>1. /\ Receive("Answer") /\ managerPc' = "answering"
        /\ UNCHANGED <<calls, closed, call, interrupts>>
    BY <1>11 DEF AnswerAttached, callerVars, awaitVars
  <2>2. Positions(commands', AwaitedCalls) = {} /\ Positions(commands', {"Interrupt"}) = {}
    BY <2>1, CallsReceive, InterruptsAreCalls DEF AwaitedCalls
  <2>3. call = "none" => closed
    <3>1. "Answer" \in AwaitedCalls /\ commands \in Seq(ManagerCommand)
      BY <1>1 DEF AwaitedCalls
    <3>2. 1 \in Positions(commands, AwaitedCalls)
      BY <2>1, <3>1, PositionsHead DEF Receive
    <3> QED
      BY <3>2
  <2> QED
    BY <2>1, <2>2, <2>3 DEF AtMostOne
<1>12. CASE AnswerRefused
  <2>1. UNCHANGED <<calls, closed, managerPc, interrupts>> /\ Receive("Answer") /\ call' = "none"
    BY <1>12 DEF AnswerRefused, Return, callerVars, sessionVars, postVars
  <2> QED
    BY <1>5, <2>1 DEF AwaitedCalls
<1>13. CASE InterruptReturns \/ AnswerReturns
  <2>1. /\ UNCHANGED <<commands, calls, closed, interrupts>> /\ managerPc' = "running"
        /\ managerPc \in {"interrupting", "answering"}
    BY <1>13 DEF InterruptReturns, AnswerReturns, callerVars
  <2> QED
    BY <2>1
<1> QED
  BY <1>2, <1>3, <1>4, <1>6, <1>7, <1>8, <1>9, <1>10, <1>11, <1>12, <1>13
  DEF SharedStep, OwnStep, CallerStep, CommonStep, CommonReceive

\* The types of the loop and of OpenCode rest on nothing run_session changes but its commands.
LEMMA AttachManagerType ==
  ASSUME AttachInv, SharedStep \/ OwnStep
  PROVE  AttachInv'
<1> USE DEF portVars, sessionVars, awaitVars, callerVars
<1>1. CallsInv'
  BY CallsManager
<1>2. PairTypeOK
  BY DEF AttachInv, TypeOK, PairTypeOK
<1>3. interrupts \in Nat /\ calls \in 0..MaxCalls
  BY AttachBounds DEF AttachInv, TypeOK, ManagerTypeOK
<1>4. CASE SharedStep
  <2>1. PairTypeOK'
    BY <1>2, <1>4, CallerType, CommonType DEF SharedStep
  <2>2. UNCHANGED <<httpPc, prompting, found, messageRoles, interruptRequested, pendingBlock, sse,
                    streaming, openCodeUp, openCodeQueue, running, interrupted, pending, foreign,
                    texts, requests, misses, posted, said, post, answering, interrupts>>
    BY <1>4 DEF SharedStep, attachVars, loopVars, sharedVars, streamVars, openCodeVars, postVars
  <2>3. TypeOK'
    BY <2>1, <2>2 DEF AttachInv, TypeOK, AttachTypeOK, PairTypeOK
  <2>4. Positions(driverCommands', {"Cancel"}) = {}
    <3>1. ASSUME NEW p \in Prompts, HandOver(p)
          PROVE  Positions(driverCommands', {"Cancel"}) = {}
      <4>1. /\ PromptCommand(p) \in DriverCommand /\ PromptCommand(p).kind = "Prompt"
            /\ driverCommands \in Seq(DriverCommand)
        BY <1>2, <3>1, MessageTypes DEF PromptCommand, PairTypeOK, PortTypeOK
      <4>2. Positions(Append(driverCommands, PromptCommand(p)), {"Cancel"})
              = Positions(driverCommands, {"Cancel"})
        BY <4>1, PositionsAppend
      <4> QED
        BY <3>1, <4>2 DEF HandOver, AttachInv, LoopInv
    <3>2. CASE UNCHANGED driverCommands
      BY <3>2 DEF AttachInv, LoopInv
    <3>3. ASSUME TurnOver
          PROVE  UNCHANGED driverCommands \/ (queue # <<>> /\ HandOver(Head(queue)))
      <4>1. CASE queue = <<>> /\ UNCHANGED <<queue, driverAlive, driverCommands>>
        BY <4>1
      <4>2. CASE queue # <<>> /\ HandOver(Head(queue))
        BY <4>2
      <4> QED
        BY <3>3, <4>1, <4>2 DEF TurnOver
    <3>4. StartPrompt => HandOver(Head(commands).turn) /\ commands # <<>> /\ Head(commands).kind = "Prompt"
      BY DEF StartPrompt, Receive
    <3>5. \/ UNCHANGED driverCommands
          \/ \E p \in Prompts : HandOver(p)
      BY <1>2, <1>4, <3>3, <3>4, PairHeadTypes
      DEF SharedStep, CallerStep, Prompt, Await, Shutdown, CommonStep, CommonReceive, QueuePrompt, DropPrompt,
          InterruptIdle, TellFlag, StopManager, TakeEvent, DriverGone, StallTimeout, ManagerStopped
    <3> QED
      BY <3>1, <3>2, <3>5
  <2> QED
    BY <1>1, <2>2, <2>3, <2>4 DEF AttachInv, LoopInv
<1>5. ASSUME UNCHANGED <<sent, calls, closed, queue, busy, blocked, driverAlive, events, forced, portVars,
                         loopVars, pendingBlock, streamVars, openCodeVars>>,
             interruptRequested' \in BOOLEAN, deadline' \in BOOLEAN,
             managerPc' \in {"running", "interrupting", "answering"},
             commands' \in Seq(ManagerCommand), call' \in {"none"} \cup AwaitedCalls, reply' \in Replies,
             post' \in {"none", "sent"}, answering' \in PendingBlock \cup {NoRequest},
             interrupts' \in Nat
      PROVE  AttachInv'
  <2>1. interrupts' \in 0..MaxCalls
    BY <1>1, <1>3, <1>5, AttachBounds DEF CallsInv
  <2>2. AttachTypeOK'
    BY <1>5 DEF AttachInv, TypeOK, AttachTypeOK, loopVars, streamVars, openCodeVars
  <2>3. PortTypeOK' /\ ManagerTypeOK'
    BY <1>5 DEF AttachInv, TypeOK, PortTypeOK, ManagerTypeOK
  <2> QED
    BY <1>1, <1>5, <2>1, <2>2, <2>3 DEF AttachInv, TypeOK, LoopInv, loopVars, openCodeVars
<1>6. /\ interruptRequested \in BOOLEAN /\ deadline \in BOOLEAN /\ pendingBlock \in PendingBlock \cup {NoRequest}
      /\ answering \in PendingBlock \cup {NoRequest} /\ commands \in Seq(ManagerCommand)
      /\ call \in {"none"} \cup AwaitedCalls /\ reply \in Replies
      /\ NoRequest \in PendingBlock \cup {NoRequest}
  BY DEF AttachInv, TypeOK, AttachTypeOK, ManagerTypeOK
<1>7. CASE InterruptAttached
  <2>1. commands' \in Seq(ManagerCommand)
    BY <1>2, <1>7, ReceiveType DEF InterruptAttached
  <2> QED
    BY <1>3, <1>5, <1>6, <1>7, <2>1 DEF InterruptAttached
<1>8. CASE AnswerRefused
  <2>1. commands' \in Seq(ManagerCommand) /\ managerPc' = "running"
    BY <1>2, <1>8, ReceiveType DEF AnswerRefused, Receive
  <2>2. call' \in {"none"} \cup AwaitedCalls /\ reply' \in Replies
    BY <1>2, <1>8, ReturnType DEF AnswerRefused, Replies
  <2>3. UNCHANGED <<httpPc, prompting, found, messageRoles, interruptRequested, pendingBlock, sse,
                    streaming, openCodeUp, openCodeQueue, running, interrupted, pending, foreign,
                    texts, requests, misses, posted, said, post, answering, interrupts>>
    BY <1>8 DEF AnswerRefused, attachVars, loopVars, sharedVars, streamVars, openCodeVars, postVars
  <2>4. PortTypeOK' /\ ManagerTypeOK'
    BY <1>8, <2>1, <2>2 DEF AnswerRefused, AttachInv, TypeOK, PortTypeOK, ManagerTypeOK
  <2>5. TypeOK'
    BY <2>3, <2>4 DEF AttachInv, TypeOK, AttachTypeOK
  <2> QED
    BY <1>1, <1>8, <2>3, <2>5 DEF AnswerRefused, AttachInv, LoopInv
<1>9. CASE AnswerAttached
  <2>1. commands' \in Seq(ManagerCommand)
    BY <1>2, <1>9, ReceiveType DEF AnswerAttached
  <2> QED
    BY <1>3, <1>5, <1>6, <1>9, <2>1 DEF AnswerAttached, attachVars, sharedVars
<1>10. CASE InterruptReturns
  <2>1. call' \in {"none"} \cup AwaitedCalls /\ reply' \in Replies
    BY <1>2, <1>10, ReturnType DEF InterruptReturns, Replies
  <2>2. deadline' \in BOOLEAN
    BY <1>6, <1>10 DEF InterruptReturns
  <2> QED
    BY <1>3, <1>5, <1>6, <1>10, <2>1, <2>2 DEF InterruptReturns, attachVars, sharedVars
<1>11. CASE AnswerReturns
  <2>1. call' \in {"none"} \cup AwaitedCalls /\ reply' \in Replies
    BY <1>2, <1>11, ReturnType DEF AnswerReturns, Replies
  <2> QED
    BY <1>3, <1>5, <1>6, <1>11, <2>1 DEF AnswerReturns, attachVars, sharedVars
<1> QED
  BY <1>4, <1>7, <1>8, <1>9, <1>10, <1>11 DEF OwnStep

\* What the loop emits are events.
LEMMA EmitType ==
  ASSUME AttachInv, NEW es \in Seq(DriverEvent), Emit(es)
  PROVE  driverEvents' \in Seq(DriverEvent)
<1>1. driverEvents \in Seq(DriverEvent)
  BY DEF AttachInv, TypeOK, PortTypeOK
<1> QED
  BY <1>1, ConcatProperties DEF Emit

\* The events it makes.
LEMMA LoopEventTypes ==
  /\ \A k \in EventKinds, t \in Turns : Event(k, t) \in DriverEvent /\ <<Event(k, t)>> \in Seq(DriverEvent)
  /\ \A t \in Turns, k \in StopKinds : <<Event("Idle", t), Event(k, t)>> \in Seq(DriverEvent)
  /\ {"Update", "Working", "Blocked", "Idle", "EndTurn", "Cancelled"} = EventKinds
  /\ StopKinds = {"EndTurn", "Cancelled"}
<1>1. {"Update", "Working", "Blocked", "Idle", "EndTurn", "Cancelled"} = EventKinds
  BY DEF EventKinds, StatusKinds, StopKinds
<1>2. \A k \in EventKinds, t \in Turns : Event(k, t) \in DriverEvent
  BY DEF Event, DriverEvent
<1>3. \A k \in EventKinds, t \in Turns : <<Event(k, t)>> \in Seq(DriverEvent)
  BY <1>2
<1>4. \A t \in Turns, k \in StopKinds : <<Event("Idle", t), Event(k, t)>> \in Seq(DriverEvent)
  BY <1>1, <1>2 DEF StopKinds
<1> QED
  BY <1>1, <1>2, <1>3, <1>4 DEF StopKinds

\* The head of the stream.
LEMMA StreamHead ==
  ASSUME AttachInv, sse # <<>>
  PROVE  /\ Head(sse) \in StreamEvent /\ Tail(sse) \in Seq(StreamEvent)
         /\ Head(sse).turn \in Turns
<1>1. sse \in Seq(StreamEvent)
  BY DEF AttachInv, TypeOK, AttachTypeOK
<1>2. Head(sse) \in StreamEvent /\ Tail(sse) \in Seq(StreamEvent)
  BY <1>1
<1>3. \A e \in StreamEvent : e.turn \in Turns
  BY DEF StreamEvent
<1> QED
  BY <1>2, <1>3

\* The driver's loop keeps the types: what it holds came from its channel, the stream or
\* OpenCode.
LEMMA AttachLoopType ==
  ASSUME AttachInv, LoopStep, UNCHANGED <<managerVars, postVars>>
  PROVE  AttachInv'
<1>1. CallsInv' /\ ManagerTypeOK'
  BY DEF AttachInv, TypeOK, CallsInv, ManagerTypeOK, managerVars, callerVars, awaitVars, sessionVars, postVars
<1>2. UNCHANGED <<post, answering, interrupts>>
  BY DEF postVars
<1>3. UNCHANGED <<openCodeUp, openCodeQueue, running, interrupted, pending, foreign, texts, requests,
                  posted, said>>
  BY DEF LoopStep, OpenStream, ConnectFails, PostPrompt, PromptPosted, PostFails, StreamEnds, Abort,
         LoopEnds, ReadStream, MessageUpdated, PartUpdated, StatusBusy, SessionIdle, ReadEvent,
         StartPoll, PollQuestion, PollPermission, polledVars, openCodeVars
<1>4. ASSUME /\ httpPc' \in {"connecting", "select", "posting", "posted", "questions", "permissions", "ended"}
             /\ httpPc' = "posting" => prompting' \in Prompts
             /\ prompting' \in Turns /\ found' \in PendingBlock \cup {NoRequest}
             /\ pendingBlock' \in PendingBlock \cup {NoRequest} /\ interruptRequested' \in BOOLEAN
             /\ messageRoles' \subseteq Turns /\ sse' \in Seq(StreamEvent) /\ streaming' \in BOOLEAN
             /\ misses' \in 0..MaxMisses,
             /\ driverCommands' \in Seq(DriverCommand) /\ driverEvents' \in Seq(DriverEvent)
             /\ driverUp' \in BOOLEAN /\ driverClosed' \in BOOLEAN
             /\ Positions(driverCommands', {"Cancel"}) = {}
      PROVE  AttachInv'
  <2>1. AttachTypeOK'
    BY <1>3, <1>4 DEF AttachInv, TypeOK, AttachTypeOK
  <2>2. PortTypeOK'
    BY <1>4 DEF PortTypeOK
  <2>3. TypeOK'
    BY <1>1, <1>2, <2>1, <2>2 DEF AttachInv, TypeOK
  <2> QED
    BY <1>1, <1>3, <1>4, <2>3 DEF AttachInv, LoopInv
<1>5. /\ httpPc \in {"connecting", "select", "posting", "posted", "questions", "permissions", "ended"}
      /\ prompting \in Turns /\ found \in PendingBlock \cup {NoRequest}
      /\ pendingBlock \in PendingBlock \cup {NoRequest} /\ interruptRequested \in BOOLEAN
      /\ messageRoles \subseteq Turns /\ sse \in Seq(StreamEvent) /\ streaming \in BOOLEAN
      /\ misses \in 0..MaxMisses
      /\ driverCommands \in Seq(DriverCommand) /\ driverEvents \in Seq(DriverEvent)
      /\ driverUp \in BOOLEAN /\ driverClosed \in BOOLEAN
      /\ Positions(driverCommands, {"Cancel"}) = {}
      /\ NoTurn \in Turns /\ NoRequest \in PendingBlock \cup {NoRequest}
  BY AttachBounds DEF AttachInv, TypeOK, AttachTypeOK, PortTypeOK, LoopInv
<1> USE DEF portVars, streamVars, sharedVars, openCodeVars
<1>6. CASE LoopEnds
  <2>1. driverCommands' = <<>> /\ sse' = <<>>
    BY <1>6 DEF LoopEnds
  <2>2. /\ driverCommands' \in Seq(DriverCommand) /\ sse' \in Seq(StreamEvent)
        /\ Positions(driverCommands', {"Cancel"}) = {}
    BY <2>1, EmptyType DEF Positions
  <2> QED
    BY <1>4, <1>5, <1>6, <2>2 DEF LoopEnds
<1>7. CASE OpenStream
  BY <1>4, <1>5, <1>7 DEF OpenStream
<1>8. CASE PostPrompt
  <2> DEFINE p == Head(driverCommands).turn
  <2>1. /\ driverCommands # <<>> /\ driverCommands' = Tail(driverCommands) /\ prompting' = p
        /\ httpPc' = "posting"
    BY <1>8 DEF PostPrompt
  <2>2. Positions(driverCommands', {"Cancel"}) = {} /\ driverCommands' \in Seq(DriverCommand)
    BY <1>5, <2>1, ReceiveKeeps
  <2>3. p \in Prompts
    <3>1. Head(driverCommands).kind # "Cancel"
      <4>1. Head(driverCommands).kind \in {"Cancel"} => 1 \in Positions(driverCommands, {"Cancel"})
        BY <1>5, <2>1, PositionsHead
      <4> QED
        BY <1>5, <4>1
    <3>2. Head(driverCommands) \in DriverCommand
      BY <1>5, <2>1
    <3> QED
      BY <3>1, <3>2 DEF DriverCommand
  <2> HIDE DEF p
  <2> QED
    BY <1>4, <1>5, <1>8, <2>1, <2>2, <2>3, AttachBounds DEF PostPrompt
<1>9. CASE PromptPosted
  <2>1. driverEvents' \in Seq(DriverEvent)
    BY <1>5, <1>9, EmitType, LoopEventTypes DEF PromptPosted
  <2> QED
    BY <1>4, <1>5, <1>9, <2>1 DEF PromptPosted
<1>10. CASE ReadStream
  <2>1. PICK k : ReadEvent(k)
    BY <1>10 DEF ReadStream, MessageUpdated, PartUpdated, StatusBusy, SessionIdle
  <2>2. /\ httpPc = "select" /\ sse # <<>> /\ sse' = Tail(sse)
        /\ UNCHANGED <<driverCommands, driverUp, driverClosed, httpPc, prompting, found, pendingBlock,
                       streaming, misses>>
    BY <2>1 DEF ReadEvent
  <2> DEFINE t == Head(sse).turn
  <2>3. sse' \in Seq(StreamEvent) /\ t \in Turns
    BY <2>2, StreamHead
  <2> HIDE DEF t
  <2>4. CASE MessageUpdated
    <3>1. messageRoles' \subseteq Turns
      BY <1>5, <2>3, <2>4 DEF MessageUpdated, t
    <3> QED
      BY <1>4, <1>5, <2>2, <2>3, <2>4, <3>1 DEF MessageUpdated
  <2>5. CASE PartUpdated
    <3>1. Emit(<<Event("Update", t)>>) \/ UNCHANGED driverEvents
      BY <2>5 DEF PartUpdated, t
    <3>2. driverEvents' \in Seq(DriverEvent)
      BY <1>5, <2>3, <3>1, EmitType, LoopEventTypes
    <3> QED
      BY <1>4, <1>5, <2>2, <2>3, <2>5, <3>2 DEF PartUpdated
  <2>6. CASE StatusBusy
    <3>1. driverEvents' \in Seq(DriverEvent)
      BY <1>5, <2>3, <2>6, EmitType, LoopEventTypes DEF StatusBusy, t
    <3> QED
      BY <1>4, <1>5, <2>2, <2>3, <2>6, <3>1 DEF StatusBusy
  <2>7. CASE SessionIdle
    <3>1. PICK s \in StopKinds : Emit(<<Event("Idle", t), Event(s, t)>>)
      BY <2>7 DEF SessionIdle, StopKinds, t
    <3>2. driverEvents' \in Seq(DriverEvent)
      BY <2>3, <3>1, EmitType, LoopEventTypes
    <3> QED
      BY <1>4, <1>5, <2>2, <2>3, <2>7, <3>2 DEF SessionIdle
  <2> QED
    BY <1>10, <2>4, <2>5, <2>6, <2>7 DEF ReadStream
<1>11. CASE StartPoll
  BY <1>4, <1>5, <1>11 DEF StartPoll
<1>12. ASSUME NEW k, NEW r, Heard(k, r)
       PROVE  misses' \in 0..MaxMisses
  BY <1>5, <1>12, AttachBounds DEF Heard
<1>13. CASE PollQuestion
  <2>1. found' \in PendingBlock \cup {NoRequest} /\ misses' \in 0..MaxMisses
    BY <1>12, <1>13 DEF PollQuestion
  <2> QED
    BY <1>4, <1>5, <1>13, <2>1 DEF PollQuestion
<1>14. CASE PollPermission
  <2>1. PICK p \in PendingBlock \cup {NoRequest} :
          LET r == IF found # NoRequest THEN found ELSE p IN
            /\ Heard("Permission", p)
            /\ pendingBlock' = r
            /\ IF r.id = pendingBlock.id THEN UNCHANGED driverEvents ELSE Transition(r)
    BY <1>14 DEF PollPermission
  <2>2. pendingBlock' \in PendingBlock \cup {NoRequest} /\ misses' \in 0..MaxMisses
    BY <1>5, <1>12, <2>1
  <2>3. driverEvents' \in Seq(DriverEvent)
    <3>1. UNCHANGED driverEvents \/ \E k \in EventKinds : Emit(<<Event(k, NoTurn)>>)
      BY <2>1, LoopEventTypes DEF Transition
    <3> QED
      BY <1>5, <3>1, EmitType, LoopEventTypes
  <2> QED
    BY <1>4, <1>5, <1>14, <2>2, <2>3 DEF PollPermission
<1> QED
  BY <1>6, <1>7, <1>8, <1>9, <1>10, <1>11, <1>13, <1>14
  DEF LoopStep, ConnectFails, PostFails, StreamEnds, Abort

\* What reaches the stream are stream events.
LEMMA StreamType ==
  ASSUME AttachInv, NEW es \in Seq(StreamEvent), Stream(es)
  PROVE  sse' \in Seq(StreamEvent)
<1>1. sse \in Seq(StreamEvent)
  BY DEF AttachInv, TypeOK, AttachTypeOK
<1>2. sse \o es \in Seq(StreamEvent)
  BY <1>1, ConcatProperties
<1> QED
  BY <1>1, <1>2 DEF Stream

\* What OpenCode puts on its event stream.
LEMMA StreamEventTypes ==
  \A k \in StreamKinds, t \in Turns, by \in {"assistant", "user"} : OcEvent(k, t, by) \in StreamEvent
BY DEF OcEvent, StreamEvent

\* What OpenCode does keeps the types: it starts turns it was given, within the bounds.
LEMMA AttachOpenCodeType ==
  ASSUME AttachInv, OpenCodeStep, UNCHANGED <<managerVars, postVars>>
  PROVE  AttachInv'
<1> USE DEF portVars, loopVars, streamVars, sharedVars, openCodeVars
<1>1. CallsInv' /\ ManagerTypeOK'
  BY DEF AttachInv, TypeOK, CallsInv, ManagerTypeOK, managerVars, callerVars, awaitVars, sessionVars, postVars
<1>2. UNCHANGED <<post, answering, interrupts>>
  BY DEF postVars
<1>3. UNCHANGED <<driverCommands, driverEvents, driverUp, driverClosed, prompting, found, messageRoles,
                  interruptRequested, pendingBlock, misses>>
  BY DEF OpenCodeStep, TakesPrompt, OperatorPrompts, TurnStarts, TurnStreams, TurnAsks, RequestResolved,
         TurnEnds, StreamBreaks, OpenCodeDies
<1>4. ASSUME httpPc' \in {httpPc, "posted"}, sse' \in Seq(StreamEvent), streaming' \in BOOLEAN,
             openCodeUp' \in BOOLEAN, openCodeQueue' \in Seq(Turns), running' \subseteq Turns,
             interrupted' \subseteq Turns, pending' \subseteq PendingBlock,
             foreign' \in 0..MaxForeign, texts' \in 0..MaxTexts, requests' \in 0..MaxRequests,
             posted' \in Seq(Prompts), said' \in [Turns -> 0..MaxTexts],
             \A t \in Turns : said'[t] <= texts'
      PROVE  AttachInv'
  <2>1. AttachTypeOK'
    BY <1>3, <1>4 DEF AttachInv, TypeOK, AttachTypeOK
  <2>2. TypeOK'
    BY <1>1, <1>2, <1>3, <2>1 DEF AttachInv, TypeOK, PortTypeOK
  <2> QED
    BY <1>1, <1>3, <1>4, <2>2 DEF AttachInv, LoopInv
<1>5. /\ sse \in Seq(StreamEvent) /\ streaming \in BOOLEAN
      /\ openCodeUp \in BOOLEAN /\ openCodeQueue \in Seq(Turns) /\ running \subseteq Turns
      /\ interrupted \subseteq Turns /\ pending \subseteq PendingBlock
      /\ foreign \in 0..MaxForeign /\ texts \in 0..MaxTexts /\ requests \in 0..MaxRequests
      /\ posted \in Seq(Prompts) /\ said \in [Turns -> 0..MaxTexts]
      /\ \A t \in Turns : said[t] <= texts
      /\ httpPc = "posting" => prompting \in Prompts
      /\ {} \subseteq Turns /\ {} \subseteq PendingBlock
  BY DEF AttachInv, TypeOK, AttachTypeOK, LoopInv
<1>6. CASE TakesPrompt
  <2>1. prompting \in Prompts /\ prompting \in Turns
    BY <1>5, <1>6, AttachBounds DEF TakesPrompt
  <2>2. posted' \in Seq(Prompts) /\ openCodeQueue' \in Seq(Turns)
    BY <1>5, <1>6, <2>1, AppendType DEF TakesPrompt
  <2> QED
    BY <1>4, <1>5, <1>6, <2>2 DEF TakesPrompt
<1>7. CASE OperatorPrompts
  <2>1. openCodeQueue' \in Seq(Turns)
    BY <1>5, <1>7, AttachBounds, AppendType DEF OperatorPrompts
  <2>2. foreign' \in 0..MaxForeign
    BY <1>5, <1>7, AttachBounds DEF OperatorPrompts
  <2> QED
    BY <1>4, <1>5, <1>7, <2>1, <2>2 DEF OperatorPrompts
<1>8. CASE TurnStarts
  <2> DEFINE t == Head(openCodeQueue)
  <2>1. t \in Turns /\ Tail(openCodeQueue) \in Seq(Turns)
    BY <1>5, <1>8 DEF TurnStarts
  <2>2. <<OcEvent("PartUpdated", t, "user"), OcEvent("Busy", t, "assistant"),
          OcEvent("MessageUpdated", t, "assistant")>> \in Seq(StreamEvent)
    <3>1. /\ OcEvent("PartUpdated", t, "user") \in StreamEvent
          /\ OcEvent("Busy", t, "assistant") \in StreamEvent
          /\ OcEvent("MessageUpdated", t, "assistant") \in StreamEvent
      BY <2>1, StreamEventTypes DEF StreamKinds
    <3> QED
      BY <3>1
  <2>3. sse' \in Seq(StreamEvent)
    BY <1>8, <2>2, StreamType DEF TurnStarts
  <2> QED
    BY <1>4, <1>5, <1>8, <2>1, <2>3 DEF TurnStarts
<1>9. CASE TurnStreams
  <2>1. PICK t \in running, by \in {"assistant", "user"} :
          /\ Stream(<<OcEvent("PartUpdated", t, by)>>)
          /\ said' = said \/ said' = [said EXCEPT ![t] = @ + 1]
    BY <1>9 DEF TurnStreams
  <2>2. t \in Turns /\ texts' = texts + 1 /\ texts + 1 \in 0..MaxTexts
    BY <1>5, <1>9, <2>1, AttachBounds DEF TurnStreams
  <2>3. sse' \in Seq(StreamEvent)
    <3>1. OcEvent("PartUpdated", t, by) \in StreamEvent
      BY <2>2, StreamEventTypes DEF StreamKinds
    <3>2. <<OcEvent("PartUpdated", t, by)>> \in Seq(StreamEvent)
      BY <3>1
    <3> QED
      BY <2>1, <3>2, StreamType
  <2>4. texts \in Nat /\ \A u \in Turns : said[u] \in Nat /\ said[u] <= texts
    BY <1>5, AttachBounds
  <2>5. /\ said' \in [Turns -> 0..MaxTexts]
        /\ \A u \in Turns : said'[u] <= texts'
    <3>1. CASE said' = said
      BY <1>5, <2>2, <2>4, <3>1, AttachBounds
    <3>2. CASE said' = [said EXCEPT ![t] = @ + 1]
      <4>1. \A u \in Turns : said'[u] = IF u = t THEN said[u] + 1 ELSE said[u]
        BY <1>5, <2>2, <3>2
      <4>2. \A u \in Turns : said'[u] <= texts + 1 /\ said'[u] \in Nat
        <5>1. ASSUME NEW u \in Turns
              PROVE  said'[u] <= texts + 1 /\ said'[u] \in Nat
          BY <2>4, <4>1
        <5> QED
          BY <5>1
      <4>3. \A u \in Turns : said'[u] \in 0..MaxTexts
        BY <2>2, <4>2, AttachBounds
      <4> QED
        BY <1>5, <2>2, <3>2, <4>2, <4>3
    <3> QED
      BY <2>1, <3>1, <3>2
  <2> QED
    BY <1>4, <1>5, <1>9, <2>2, <2>3, <2>5 DEF TurnStreams
<1>10. CASE TurnAsks
  <2>1. PICK k \in RequestKinds : pending' = pending \cup {[kind |-> k, id |-> requests + 1]}
    BY <1>10 DEF TurnAsks
  <2>2. requests' = requests + 1 /\ requests' \in 0..MaxRequests /\ requests + 1 \in 1..MaxRequests
    BY <1>5, <1>10, AttachBounds DEF TurnAsks
  <2>3. pending' \subseteq PendingBlock
    BY <1>5, <2>1, <2>2 DEF PendingBlock
  <2> QED
    BY <1>4, <1>5, <1>10, <2>2, <2>3 DEF TurnAsks
<1>11. CASE RequestResolved
  BY <1>4, <1>5, <1>11 DEF RequestResolved
<1>12. CASE TurnEnds
  <2>1. sse' \in Seq(StreamEvent)
    <3>1. CASE UNCHANGED sse
      BY <1>5, <3>1
    <3>2. ASSUME NEW t \in running, Stream(<<OcEvent("SessionIdle", t, "assistant")>>)
          PROVE  sse' \in Seq(StreamEvent)
      <4>1. OcEvent("SessionIdle", t, "assistant") \in StreamEvent
        BY <1>5, StreamEventTypes DEF StreamKinds
      <4>2. <<OcEvent("SessionIdle", t, "assistant")>> \in Seq(StreamEvent)
        BY <4>1
      <4> QED
        BY <3>2, <4>2, StreamType
    <3> QED
      BY <1>12, <3>1, <3>2 DEF TurnEnds
  <2> QED
    BY <1>4, <1>5, <1>12, <2>1 DEF TurnEnds
<1>13. CASE StreamBreaks
  BY <1>4, <1>5, <1>13 DEF StreamBreaks
<1>14. CASE OpenCodeDies
  <2>1. openCodeQueue' \in Seq(Turns)
    BY <1>14, EmptyType DEF OpenCodeDies
  <2> QED
    BY <1>4, <1>5, <1>14, <2>1 DEF OpenCodeDies
<1> QED
  BY <1>6, <1>7, <1>8, <1>9, <1>10, <1>11, <1>12, <1>13, <1>14 DEF OpenCodeStep

\* OpenCode's answer to run_session's own POST.
LEMMA AttachServeType ==
  ASSUME AttachInv, ServeStep
  PROVE  AttachInv'
<1>1. /\ UNCHANGED <<managerVars, portVars, loopVars, sharedVars, streamVars, openCodeUp, openCodeQueue,
                     running, foreign, texts, requests, misses, posted, said, answering, interrupts>>
      /\ post' \in {"ok", "failed"}
      /\ interrupted' \subseteq interrupted \cup running /\ pending' \subseteq pending
  BY DEF ServeStep, ServesInterrupt, ServesAnswer, PostLost, attachVars, openCodeVars
<1>2. CallsInv' /\ ManagerTypeOK' /\ PortTypeOK'
  BY <1>1 DEF AttachInv, TypeOK, CallsInv, ManagerTypeOK, PortTypeOK, portVars, managerVars, callerVars,
              awaitVars, sessionVars
<1>3. AttachTypeOK'
  BY <1>1 DEF AttachInv, TypeOK, AttachTypeOK, loopVars, sharedVars, streamVars
<1> QED
  BY <1>1, <1>2, <1>3 DEF AttachInv, TypeOK, LoopInv, portVars, loopVars

\* So the types hold in every state, and with them the bookkeeping they rest on.
LEMMA AttachInvAlways == Spec => []AttachInv
<1>1. ASSUME AttachInv, [Next]_vars
      PROVE  AttachInv'
  <2>1. CASE UNCHANGED vars
    <3>1. UNCHANGED <<managerVars, postVars, attachVars, portVars>>
      BY <2>1 DEF vars
    <3> QED
      BY <1>1, <3>1
      DEF AttachInv, TypeOK, CallsInv, LoopInv, ManagerTypeOK, PortTypeOK, AttachTypeOK, portVars,
          managerVars, callerVars, awaitVars, sessionVars, postVars, attachVars, loopVars, sharedVars,
          streamVars, openCodeVars
  <2> QED
    BY <1>1, <2>1, AttachSteps, AttachManagerType, AttachLoopType, AttachOpenCodeType, AttachServeType DEF Next
<1> QED
  BY <1>1, AttachInvInit, PTL DEF Spec

\* Every variable of an attached session keeps its type, in every reachable state: no cancel is
\* sent to the driver's loop, what it posts are the session's own prompts, and no interrupt sets
\* the flag that was not called for.
THEOREM AttachTypeCorrect == Spec => []TypeOK
<1>1. AttachInv => TypeOK
  BY DEF AttachInv
<1> QED
  BY <1>1, AttachInvAlways, PTL

-------------------------------------------------------------------------------
(* The queue and the turn.                                                   *)

\* An interrupt waits for its POST only while the turn it was sent for is in flight.
QueueInv ==
  /\ QueueOnlyBehindATurn
  /\ managerPc = "interrupting" => busy

\* Only run_session moves the queue, and it ends a turn only by taking over from it.
LEMMA QueueInvNext == QueueInv /\ [Next]_vars => QueueInv'
<1> SUFFICES ASSUME QueueInv, [Next]_vars PROVE QueueInv'
  OBVIOUS
<1> USE DEF QueueInv, QueueOnlyBehindATurn, sessionVars, managerVars, callerVars, awaitVars
<1>1. CASE CallerStep
  <2>1. UNCHANGED sessionVars
    BY <1>1 DEF CallerStep, Prompt, Await, Shutdown
  <2> QED
    BY <2>1
<1>2. CASE AttachReceiveStep
  <2>1. CASE StartPrompt
    BY <2>1 DEF StartPrompt, Receive, HandOver
  <2>2. CASE QueuePrompt
    BY <2>2 DEF QueuePrompt, Receive
  <2>3. CASE DropPrompt \/ InterruptIdle \/ TellFlag \/ AnswerRefused
    BY <2>3 DEF DropPrompt, InterruptIdle, TellFlag, AnswerRefused
  <2>4. CASE StopManager
    BY <2>4 DEF StopManager
  <2>5. CASE InterruptAttached
    BY <2>5 DEF InterruptAttached
  <2>6. CASE AnswerAttached
    BY <2>6 DEF AnswerAttached
  <2> QED
    BY <1>2, <2>1, <2>2, <2>3, <2>4, <2>5, <2>6 DEF AttachReceiveStep
<1>3. CASE InterruptReturns
  BY <1>3 DEF InterruptReturns
<1>4. CASE AnswerReturns
  BY <1>4 DEF AnswerReturns
<1>5. ASSUME TurnOver, managerPc' = "running" PROVE QueueInv'
  <2>1. ~deadline'
    BY <1>5 DEF TurnOver
  <2>2. CASE queue = <<>> /\ UNCHANGED queue
    BY <1>5, <2>1, <2>2
  <2>3. CASE HandOver(Head(queue))
    <3>1. driverAlive' => busy'
      BY <2>3 DEF HandOver
    <3> QED
      BY <1>5, <2>1, <3>1
  <2> QED
    BY <1>5, <2>2, <2>3 DEF TurnOver
<1>6. CASE TakeEvent
  <2>1. managerPc' = "running"
    BY <1>6 DEF TakeEvent
  <2>2. TurnOver \/ UNCHANGED <<queue, busy, driverAlive, deadline>>
    BY <1>6 DEF TakeEvent
  <2>3. CASE UNCHANGED <<queue, busy, driverAlive, deadline>>
    BY <2>1, <2>3
  <2> QED
    BY <1>5, <2>1, <2>2, <2>3
<1>7. CASE StallTimeout
  <2>1. managerPc' = "running" /\ TurnOver
    BY <1>7 DEF StallTimeout
  <2> QED
    BY <1>5, <2>1
<1>8. CASE DriverGone \/ ManagerStopped
  BY <1>8 DEF DriverGone, ManagerStopped
<1>9. CASE UNCHANGED managerVars
  BY <1>9
<1>10. ServeStep => UNCHANGED managerVars
  BY DEF ServeStep, ServesInterrupt, ServesAnswer, PostLost
<1> QED
  BY <1>1, <1>2, <1>3, <1>4, <1>6, <1>7, <1>8, <1>9, <1>10 DEF Next, AttachManagerStep, vars

\* The strengthened invariant of every attached session.
LEMMA QueueInvAlways == Spec => []QueueInv
<1>1. Init => QueueInv
  BY DEF Init, ManagerInit, QueueInv, QueueOnlyBehindATurn
<1> QED
  BY <1>1, QueueInvNext, PTL DEF Spec

\* Prompts wait in an attached session's queue, and its stall deadline is armed, only while a
\* turn is in flight: the turn cannot end between the interrupt and its response.
THEOREM AttachedQueueNeverStranded == Spec => []QueueOnlyBehindATurn
<1>1. QueueInv => QueueOnlyBehindATurn
  BY DEF QueueInv
<1> QED
  BY <1>1, QueueInvAlways, PTL

-------------------------------------------------------------------------------
(* The line of prompts: posted, being posted, with the driver, queued, sent.  *)

InHand == IF httpPc = "posting" THEN {prompting} ELSE {}

\* The prompts that went past the driver's channel.
Ahead == Elements(posted) \cup InHand

LineInv ==
  /\ posted \in Seq(Nat) /\ Rising(posted) /\ prompting \in Nat
  /\ Before(Elements(posted), InHand)
  /\ LineOf({"Prompt"}, Ahead, driverCommands, queue, commands, sent)

\* The line as far as the driver and OpenCode move it.
LEMMA LineBehind ==
  ASSUME LineInv, UNCHANGED <<posted, prompting, httpPc>>,
         LineOf({"Prompt"}, Ahead, driverCommands', queue', commands', sent')
  PROVE  LineInv'
BY DEF LineInv, Ahead, InHand

\* The callers and run_session move the line as in either mode.
LEMMA LineManager ==
  ASSUME LineInv, QueueInv, CallerStep \/ AttachManagerStep, UNCHANGED <<posted, prompting, httpPc>>
  PROVE  LineInv'
<1> DEFINE K == {"Prompt"}
<1>1. LineOf(K, Ahead, driverCommands, queue, commands, sent) /\ "Prompt" \in K
  BY DEF LineInv
<1>2. driverAlive /\ queue # <<>> => busy
  BY DEF QueueInv, QueueOnlyBehindATurn
<1> HIDE DEF K
<1>3. CASE CallerStep
  BY <1>1, <1>3, LineCaller, LineBehind DEF K
<1>4. CASE CommonStep
  BY <1>1, <1>2, <1>4, LineCommon, LineBehind DEF K
<1>5. CASE AnswerRefused \/ AnswerAttached \/ InterruptAttached
  <2>1. UNCHANGED <<queue, driverCommands, sent>> /\ \E k : Receive(k)
    BY <1>5 DEF AnswerRefused, AnswerAttached, InterruptAttached, sessionVars, portVars, callerVars
  <2> QED
    BY <1>1, <2>1, LineDrops, LineBehind DEF K
<1>6. CASE InterruptReturns \/ AnswerReturns
  <2>1. UNCHANGED <<commands, queue, driverCommands, sent>>
    BY <1>6 DEF InterruptReturns, AnswerReturns, portVars, callerVars
  <2> QED
    BY <1>1, <2>1, LineBehind DEF K
<1> QED
  BY <1>3, <1>4, <1>5, <1>6 DEF AttachManagerStep, AttachReceiveStep, CommonStep, CommonReceive

\* The loop moves a prompt from its channel to its hands, and lets go of one that is posted or
\* lost.
LEMMA LineLoop ==
  ASSUME LineInv, LoopStep, UNCHANGED managerVars
  PROVE  LineInv'
<1> USE DEF LineInv
<1>1. UNCHANGED <<commands, queue, sent, posted>>
  BY DEF LoopStep, OpenStream, ConnectFails, PostPrompt, PromptPosted, PostFails, StreamEnds, Abort,
         LoopEnds, ReadStream, MessageUpdated, PartUpdated, StatusBusy, SessionIdle, ReadEvent,
         StartPoll, PollQuestion, PollPermission, polledVars, openCodeVars, managerVars, callerVars,
         sessionVars
<1>2. sent \in Nat /\ InLine(Ahead, PromptNumbers(driverCommands), Elements(queue), PromptNumbers(commands), sent)
  BY DEF LineOf
<1>3. CASE LoopEnds
  <2>1. driverCommands' = <<>> /\ prompting' = 0 /\ httpPc' = "ended"
    BY <1>3 DEF LoopEnds, NoTurn
  <2>2. /\ driverCommands' \in Seq(Numbered({"Prompt"})) /\ PromptNumbers(driverCommands') = {}
        /\ RisingPrompts(driverCommands')
    BY <2>1 DEF PromptNumbers, RisingPrompts, PromptsIn, Positions
  <2>3. InLine(Elements(posted), {}, Elements(queue), PromptNumbers(commands), sent)
    BY <1>2, LineShrinks DEF Ahead
  <2>4. InHand' = {} /\ Ahead' = Elements(posted)
    BY <1>1, <2>1 DEF InHand, Ahead
  <2> QED
    BY <1>1, <2>1, <2>2, <2>3, <2>4 DEF LineOf, Before
<1>4. CASE PostPrompt
  <2> DEFINE p == Head(driverCommands).turn
             T == Numbered({"Prompt"})
  <2>1. /\ driverCommands # <<>> /\ driverCommands' = Tail(driverCommands)
        /\ prompting' = p /\ httpPc = "select" /\ httpPc' = "posting"
    BY <1>4 DEF PostPrompt
  <2>2. driverCommands \in Seq(T) /\ RisingPrompts(driverCommands)
    BY DEF LineOf
  <2>3. Head(driverCommands) \in T => Head(driverCommands).kind = "Prompt" /\ p \in Nat
    BY DEF Numbered
  <2> HIDE DEF p, T
  <2>4. /\ driverCommands' \in Seq(T) /\ RisingPrompts(driverCommands') /\ p \in Nat
        /\ PromptNumbers(driverCommands') \subseteq PromptNumbers(driverCommands)
        /\ p \in PromptNumbers(driverCommands) /\ Before({p}, PromptNumbers(driverCommands'))
    BY <2>1, <2>2, <2>3, MessagesTail DEF p
  <2>5. /\ InLine(Ahead \cup {p}, PromptNumbers(driverCommands'), Elements(queue),
                  PromptNumbers(commands), sent)
        /\ Before(Ahead, {p})
    BY <1>2, <2>4, LinePasses
  <2>6. Ahead = Elements(posted) /\ Ahead' = Ahead \cup {p} /\ InHand' = {p}
    BY <1>1, <2>1 DEF Ahead, InHand
  <2> QED
    BY <1>1, <2>1, <2>4, <2>5, <2>6 DEF LineOf, T
<1>5. CASE PromptPosted
  <2>1. InHand = {} /\ InHand' = {}
    BY <1>5 DEF PromptPosted, InHand
  <2> QED
    BY <1>1, <1>5, <2>1 DEF PromptPosted, NoTurn, Ahead
<1>6. CASE OpenStream \/ StartPoll \/ PollQuestion \/ PollPermission
  <2>1. UNCHANGED <<driverCommands, prompting>> /\ httpPc # "posting" /\ httpPc' # "posting"
    BY <1>6 DEF OpenStream, StartPoll, PollQuestion, PollPermission, portVars
  <2> QED
    BY <1>1, <2>1 DEF InHand, Ahead
<1>7. CASE ReadStream
  <2>1. UNCHANGED <<driverCommands, prompting, httpPc>>
    BY <1>7 DEF ReadStream, MessageUpdated, PartUpdated, StatusBusy, SessionIdle, ReadEvent
  <2> QED
    BY <1>1, <2>1 DEF InHand, Ahead
<1> QED
  BY <1>3, <1>4, <1>5, <1>6, <1>7 DEF LoopStep, ConnectFails, PostFails, StreamEnds, Abort

\* OpenCode takes the prompt that is in the loop's hands, and no other.
LEMMA LineOpenCode ==
  ASSUME LineInv, OpenCodeStep \/ ServeStep, UNCHANGED managerVars
  PROVE  LineInv'
<1> USE DEF LineInv
<1>1. UNCHANGED <<commands, queue, sent, driverCommands, prompting>>
  BY DEF OpenCodeStep, ServeStep, TakesPrompt, OperatorPrompts, TurnStarts, TurnStreams, TurnAsks,
         RequestResolved, TurnEnds, StreamBreaks, OpenCodeDies, ServesInterrupt, ServesAnswer, PostLost,
         portVars, loopVars, attachVars, managerVars, callerVars, sessionVars
<1>2. CASE TakesPrompt
  <2>1. /\ httpPc = "posting" /\ httpPc' = "posted" /\ posted' = Append(posted, prompting)
    BY <1>2 DEF TakesPrompt
  <2>2. Before(Elements(posted), {prompting}) /\ InHand = {prompting}
    BY <2>1 DEF InHand
  <2>3. /\ posted' \in Seq(Nat) /\ Elements(posted') = Elements(posted) \cup {prompting}
        /\ Rising(posted')
    BY <2>1, <2>2, NumbersAppend
  <2>4. InHand' = {} /\ Ahead' = Ahead
    BY <2>1, <2>2, <2>3 DEF InHand, Ahead
  <2> QED
    BY <1>1, <2>3, <2>4 DEF Before
<1>3. CASE UNCHANGED <<httpPc, posted>>
  BY <1>1, <1>3 DEF InHand, Ahead
<1>4. TakesPrompt \/ UNCHANGED <<httpPc, posted>>
  BY DEF OpenCodeStep, ServeStep, OperatorPrompts, TurnStarts, TurnStreams, TurnAsks,
         RequestResolved, TurnEnds, StreamBreaks, OpenCodeDies, ServesInterrupt, ServesAnswer, PostLost,
         loopVars, openCodeVars, attachVars
<1> QED
  BY <1>2, <1>3, <1>4

\* At the start nothing is on the line.
LEMMA LineStart == Init => LineInv
<1> SUFFICES ASSUME Init PROVE LineInv
  OBVIOUS
<1>1. posted = <<>> /\ prompting = 0 /\ httpPc = "connecting"
  BY DEF Init, AttachInit, NoTurn
<1>2. Elements(posted) = {} /\ InHand = {} /\ Rising(posted)
  BY <1>1 DEF Elements, InHand, Rising
<1>3. LineOf({"Prompt"}, {}, driverCommands, queue, commands, sent)
  BY LineInit DEF Init
<1>4. Ahead = {}
  BY <1>2 DEF Ahead
<1>5. posted \in Seq(Nat) /\ Before(Elements(posted), InHand)
  BY <1>1, <1>2 DEF Before
<1> QED
  BY <1>1, <1>2, <1>3, <1>4, <1>5 DEF LineInv

\* OpenCode is sent the prompts in the order they were accepted and each at most once,
\* whatever is dropped on the way: in every place a prompt passes through it is behind all
\* that went ahead.  That a prompt handed over at once overtakes none in the queue is
\* QueueOnlyBehindATurn.
THEOREM PromptsArePostedInOrder == Spec => []PromptsPostedInOrder
<1>1. LineInv /\ QueueInv /\ [Next]_vars => LineInv'
  <2> SUFFICES ASSUME LineInv, QueueInv, [Next]_vars PROVE LineInv'
    OBVIOUS
  <2>1. CASE UNCHANGED vars
    BY <2>1 DEF vars, portVars, managerVars, callerVars, sessionVars, attachVars, loopVars,
                openCodeVars, LineInv, Ahead, InHand
  <2>2. AttachManagerStep => UNCHANGED <<posted, prompting, httpPc>>
    BY DEF AttachManagerStep, AttachReceiveStep, InterruptAttached, AnswerRefused, AnswerAttached,
           InterruptReturns, AnswerReturns, attachVars, loopVars, openCodeVars
  <2>3. CASE CallerStep /\ UNCHANGED attachVars
    BY <2>3, LineManager DEF attachVars, loopVars, openCodeVars
  <2>4. ServeStep => UNCHANGED managerVars
    BY DEF ServeStep, ServesInterrupt, ServesAnswer, PostLost
  <2> QED
    BY <2>1, <2>2, <2>3, <2>4, LineManager, LineLoop, LineOpenCode DEF Next
<1>2. LineInv => PromptsPostedInOrder
  BY DEF LineInv, Rising, PromptsPostedInOrder
<1> QED
  BY <1>1, <1>2, LineStart, QueueInvAlways, PTL DEF Spec
-------------------------------------------------------------------------------
(* What the connection is told of an attached session.                       *)

\* What the loop emits joins what is told.
LEMMA EmitTells ==
  ASSUME AttachInv, UNCHANGED events
  PROVE  /\ \A e \in DriverEvent : Emit(<<e>>) => Told' = Append(Told, e)
         /\ \A e, f \in DriverEvent : Emit(<<e, f>>) => Told' = Append(Append(Told, e), f)
<1>1. events \in Seq(DriverEvent) /\ driverEvents \in Seq(DriverEvent)
  BY DEF AttachInv, TypeOK, PortTypeOK, ManagerTypeOK
<1>2. ASSUME NEW e \in DriverEvent, Emit(<<e>>)
      PROVE  Told' = Append(Told, e)
  <2>1. driverEvents' = Append(driverEvents, e)
    BY <1>1, <1>2, AppendIsConcat DEF Emit
  <2> QED
    BY <1>1, <2>1, EventJoins DEF Told
<1>3. ASSUME NEW e \in DriverEvent, NEW f \in DriverEvent, Emit(<<e, f>>)
      PROVE  Told' = Append(Append(Told, e), f)
  <2> DEFINE d == Append(driverEvents, e)
  <2>1. d \in Seq(DriverEvent)
    BY <1>1
  <2>2. driverEvents' = Append(d, f)
    <3>1. <<e, f>> = <<e>> \o <<f>> /\ <<e>> \in Seq(DriverEvent) /\ <<f>> \in Seq(DriverEvent)
      <4>1. <<e>> \in Seq(DriverEvent) /\ <<f>> \in Seq(DriverEvent) /\ <<e, f>> = Append(<<e>>, f)
        OBVIOUS
      <4> QED
        BY <4>1, AppendIsConcat
    <3>2. driverEvents' = (driverEvents \o <<e>>) \o <<f>>
      BY <1>1, <1>3, <3>1, ConcatAssociative DEF Emit
    <3> QED
      BY <1>1, <2>1, <3>2, AppendIsConcat
  <2>3. events \o d = Append(Told, e)
    BY <1>1, EventJoins DEF Told
  <2> HIDE DEF d
  <2>4. events \o Append(d, f) = Append(events \o d, f)
    BY <1>1, <2>1, EventJoins
  <2> QED
    BY <2>2, <2>3, <2>4 DEF Told
<1> QED
  BY <1>2, <1>3

\* The steps that tell the connection of something: every other leaves what was told.
LEMMA WhatTells ==
  ASSUME AttachInv, [Next]_vars
  PROVE  \/ Told' = Told
         \/ LoopStep /\ UNCHANGED <<managerVars, postVars>> /\ (PromptPosted \/ ReadStream \/ PollPermission)
<1>1. PairTypeOK
  BY DEF AttachInv, TypeOK, PairTypeOK
<1>2. CASE SharedStep
  BY <1>1, <1>2, CommonTellsNothing DEF SharedStep
<1>3. CASE OwnStep
  BY <1>3
  DEF OwnStep, InterruptAttached, AnswerRefused, AnswerAttached, InterruptReturns, AnswerReturns,
      sessionVars, portVars, Told
<1>4. CASE LoopStep /\ UNCHANGED <<managerVars, postVars>>
  <2>1. CASE UNCHANGED driverEvents
    BY <1>4, <2>1 DEF Told, managerVars, sessionVars
  <2>2. UNCHANGED driverEvents \/ PromptPosted \/ ReadStream \/ PollPermission
    BY <1>4 DEF LoopStep, OpenStream, ConnectFails, PostPrompt, PostFails, StreamEnds, Abort, LoopEnds,
                StartPoll, PollQuestion, portVars
  <2> QED
    BY <1>4, <2>1, <2>2
<1>5. CASE OpenCodeStep /\ UNCHANGED <<managerVars, postVars>>
  BY <1>5 DEF OpenCodeStep, TakesPrompt, OperatorPrompts, TurnStarts, TurnStreams, TurnAsks,
              RequestResolved, TurnEnds, StreamBreaks, OpenCodeDies, portVars, managerVars, sessionVars, Told
<1>6. CASE ServeStep \/ UNCHANGED vars
  <2>1. UNCHANGED <<managerVars, portVars>>
    BY <1>6 DEF ServeStep, ServesInterrupt, ServesAnswer, PostLost, vars
  <2> QED
    BY <2>1 DEF managerVars, sessionVars, portVars, Told
<1> QED
  BY <1>2, <1>3, <1>4, <1>5, <1>6, AttachSteps DEF Next

\* What the last status says after one more event.
LEMMA BlockedAppend ==
  ASSUME NEW es \in Seq(DriverEvent), NEW e \in DriverEvent
  PROVE  SaysBlocked(Append(es, e))
           <=> IF e.kind \in StatusKinds THEN e.kind = "Blocked" ELSE SaysBlocked(es)
<1> DEFINE a == Append(es, e)
           n == Len(es) + 1
<1>1. /\ Len(a) = n /\ Len(es) \in Nat /\ n \in Nat /\ a[n] = e
      /\ \A i \in 1..Len(es) : a[i] = es[i]
  OBVIOUS
<1> HIDE DEF a
<1>2. \A i : i \in 1..Len(a) <=> i \in 1..Len(es) \/ i = n
  BY <1>1
<1>3. /\ \A i \in 1..Len(es) : \A j : j \in i + 1 .. Len(a) <=> j \in i + 1 .. Len(es) \/ j = n
      /\ n + 1 .. Len(a) = {}
  <2>1. \A l \in Nat : /\ \A i \in 1..l : \A j : j \in i + 1 .. l + 1 <=> j \in i + 1 .. l \/ j = l + 1
                       /\ (l + 1) + 1 .. l + 1 = {}
    OBVIOUS
  <2> QED
    BY <1>1, <2>1
<1>7. \A i \in 1..Len(es) : \A j \in i + 1 .. Len(es) : j \in 1..Len(es)
  BY <1>1
<1>4. CASE e.kind = "Blocked"
  <2>1. n \in 1..Len(a) /\ a[n].kind = "Blocked" /\ \A j \in n + 1 .. Len(a) : a[j].kind \notin StatusKinds
    BY <1>1, <1>2, <1>3, <1>4
  <2> QED
    BY <1>4, <2>1 DEF SaysBlocked, StatusKinds, a
<1>5. CASE e.kind \in StatusKinds /\ e.kind # "Blocked"
  <2>1. ASSUME NEW i \in 1..Len(a), a[i].kind = "Blocked", \A j \in i + 1 .. Len(a) : a[j].kind \notin StatusKinds
        PROVE  FALSE
    <3>1. i \in 1..Len(es)
      BY <1>1, <1>2, <1>5, <2>1
    <3>2. n \in i + 1 .. Len(a)
      BY <1>3, <3>1
    <3> QED
      BY <1>1, <1>5, <2>1, <3>2
  <2> QED
    BY <1>5, <2>1 DEF SaysBlocked, a
<1>6. CASE e.kind \notin StatusKinds
  <2>1. ASSUME NEW i \in 1..Len(es)
        PROVE  /\ a[i].kind = "Blocked" <=> es[i].kind = "Blocked"
               /\ (\A j \in i + 1 .. Len(a) : a[j].kind \notin StatusKinds)
                    <=> (\A j \in i + 1 .. Len(es) : es[j].kind \notin StatusKinds)
    BY <1>1, <1>3, <1>6, <1>7
  <2>2. a[n].kind # "Blocked"
    BY <1>1, <1>6 DEF StatusKinds
  <2> QED
    BY <1>2, <1>6, <2>1, <2>2 DEF SaysBlocked, a
<1> QED
  BY <1>4, <1>5, <1>6

\* Blocked is told only with a request to store, and the transition out of it is told with it.
LEMMA BlockedNext ==
  ASSUME AttachInv, BlockedHasARequest, [Next]_vars
  PROVE  BlockedHasARequest'
<1> USE DEF BlockedHasARequest
<1>1. /\ events \in Seq(DriverEvent) /\ driverEvents \in Seq(DriverEvent) /\ Told \in Seq(DriverEvent)
      /\ pendingBlock \in PendingBlock \cup {NoRequest} /\ found \in PendingBlock \cup {NoRequest}
  BY ConcatProperties DEF AttachInv, TypeOK, PortTypeOK, ManagerTypeOK, AttachTypeOK, Told
<1>2. blocked' = SaysBlocked(events)'
  <2>1. CASE TakeEvent
    <3> DEFINE e == Head(driverEvents)
    <3>1. /\ e \in DriverEvent /\ events' = Append(events, e)
          /\ blocked' = IF e.kind \in StatusKinds THEN e.kind = "Blocked" ELSE blocked
      BY <1>1, <2>1 DEF TakeEvent
    <3> HIDE DEF e
    <3>2. SaysBlocked(events') <=> IF e.kind \in StatusKinds THEN e.kind = "Blocked" ELSE SaysBlocked(events)
      BY <1>1, <3>1, BlockedAppend
    <3>3. SaysBlocked(events') \in BOOLEAN /\ SaysBlocked(events) \in BOOLEAN
      BY DEF SaysBlocked
    <3> QED
      BY <3>1, <3>2, <3>3
  <2>2. CASE UNCHANGED <<blocked, events>>
    BY <2>2
  <2>3. TakeEvent \/ UNCHANGED <<blocked, events>>
    <3>1. CASE SharedStep
      BY <3>1 DEF SharedStep, CallerStep, Prompt, Await, Shutdown, CommonStep, CommonReceive, StartPrompt,
                  QueuePrompt, DropPrompt, InterruptIdle, TellFlag, StopManager, DriverGone, StallTimeout,
                  ManagerStopped, sessionVars
    <3>2. CASE OwnStep
      BY <3>2 DEF OwnStep, InterruptAttached, AnswerRefused, AnswerAttached, InterruptReturns, AnswerReturns,
                  sessionVars
    <3>3. CASE UNCHANGED managerVars
      BY <3>3 DEF managerVars, sessionVars
    <3>4. ServeStep \/ UNCHANGED vars => UNCHANGED managerVars
      BY DEF ServeStep, ServesInterrupt, ServesAnswer, PostLost, vars
    <3> QED
      BY <3>1, <3>2, <3>3, <3>4, AttachSteps DEF Next
  <2> QED
    BY <2>1, <2>2, <2>3
<1>3. SaysBlocked(Told') => pendingBlock' # NoRequest
  <2>0. SaysBlocked(Told) => pendingBlock # NoRequest
    BY DEF Told
  <2>1. CASE Told' = Told /\ UNCHANGED pendingBlock
    BY <2>0, <2>1
  <2>2. ASSUME NEW e \in DriverEvent, Told' = Append(Told, e), UNCHANGED pendingBlock, e.kind # "Blocked"
        PROVE  SaysBlocked(Told') => pendingBlock' # NoRequest
    BY <1>1, <2>0, <2>2, BlockedAppend DEF StatusKinds
  <2>3. CASE PromptPosted /\ UNCHANGED managerVars
    <3>1. Event("Working", prompting) \in DriverEvent
      BY LoopEventTypes DEF AttachInv, TypeOK, AttachTypeOK
    <3> QED
      BY <2>2, <2>3, <3>1, EmitTells DEF PromptPosted, managerVars, sessionVars, sharedVars, Event
  <2>4. CASE ReadStream /\ UNCHANGED managerVars
    <3> DEFINE t == Head(sse).turn
    <3>1. /\ sse # <<>> /\ UNCHANGED <<pendingBlock, events>>
      BY <2>4 DEF ReadStream, MessageUpdated, PartUpdated, StatusBusy, SessionIdle, ReadEvent,
                  managerVars, sessionVars
    <3>2. t \in Turns
      BY <3>1, StreamHead
    <3> HIDE DEF t
    <3>3. CASE UNCHANGED driverEvents
      BY <2>1, <3>1, <3>3 DEF Told
    <3>4. ASSUME NEW k \in EventKinds, k # "Blocked", Emit(<<Event(k, t)>>)
          PROVE  SaysBlocked(Told') => pendingBlock' # NoRequest
      <4>1. Event(k, t) \in DriverEvent /\ Event(k, t).kind = k
        BY <3>2, LoopEventTypes DEF Event
      <4> QED
        BY <2>2, <3>1, <3>4, <4>1, EmitTells
    <3>5. CASE SessionIdle
      <4>1. PICK k \in StopKinds : Emit(<<Event("Idle", t), Event(k, t)>>)
        BY <3>5 DEF SessionIdle, StopKinds, t
      <4> DEFINE e == Event("Idle", t)
                 f == Event(k, t)
      <4>2. e \in DriverEvent /\ f \in DriverEvent /\ e.kind = "Idle" /\ f.kind = k
        BY <3>2, LoopEventTypes DEF Event
      <4> HIDE DEF e, f
      <4>3. Told' = Append(Append(Told, e), f) /\ Append(Told, e) \in Seq(DriverEvent)
        BY <1>1, <3>1, <4>1, <4>2, EmitTells DEF e, f
      <4>4. ~SaysBlocked(Append(Told, e))
        BY <1>1, <4>2, BlockedAppend DEF StatusKinds
      <4>5. k \notin StatusKinds
        BY DEF StopKinds, StatusKinds
      <4> QED
        BY <4>2, <4>3, <4>4, <4>5, BlockedAppend
    <3>6. \/ UNCHANGED driverEvents \/ SessionIdle
          \/ \E k \in {"Update", "Working"} : Emit(<<Event(k, t)>>)
      BY <2>4 DEF ReadStream, MessageUpdated, PartUpdated, StatusBusy, t
    <3> QED
      BY <3>3, <3>4, <3>5, <3>6, LoopEventTypes
  <2>5. CASE PollPermission /\ UNCHANGED managerVars
    <3>1. PICK p \in PendingBlock \cup {NoRequest} :
            LET r == IF found # NoRequest THEN found ELSE p IN
              /\ pendingBlock' = r
              /\ IF r.id = pendingBlock.id THEN UNCHANGED driverEvents ELSE Transition(r)
      BY <2>5 DEF PollPermission
    <3> DEFINE r == pendingBlock'
    <3>2. /\ r \in PendingBlock \cup {NoRequest} /\ UNCHANGED events
          /\ IF r.id = pendingBlock.id THEN UNCHANGED driverEvents ELSE Transition(r)
      BY <1>1, <2>5, <3>1 DEF managerVars, sessionVars
    <3>3. CASE r.id = pendingBlock.id /\ UNCHANGED driverEvents
      <4>1. Told' = Told
        BY <3>2, <3>3 DEF Told
      <4>2. pendingBlock # NoRequest => r # NoRequest
        BY <1>1, <3>2, <3>3, AttachBounds
      <4> QED
        BY <2>0, <4>1, <4>2
    <3>4. CASE r = NoRequest /\ Emit(<<Event("Working", NoTurn)>>)
      <4>1. Event("Working", NoTurn) \in DriverEvent /\ Event("Working", NoTurn).kind = "Working"
        BY AttachBounds, LoopEventTypes DEF Event
      <4>2. Told' = Append(Told, Event("Working", NoTurn))
        BY <3>2, <3>4, <4>1, EmitTells
      <4> QED
        BY <1>1, <4>1, <4>2, BlockedAppend DEF StatusKinds
    <3>5. CASE r # NoRequest
      BY <3>5
    <3> QED
      BY <3>2, <3>3, <3>4, <3>5 DEF Transition
  <2>6. UNCHANGED pendingBlock \/ (PollPermission /\ UNCHANGED managerVars)
    <3>1. ASSUME UNCHANGED attachVars
          PROVE  UNCHANGED pendingBlock
      BY <3>1 DEF attachVars, sharedVars
    <3>2. SharedStep \/ UNCHANGED vars => UNCHANGED attachVars
      BY DEF SharedStep, vars
    <3>3. OwnStep => UNCHANGED pendingBlock
      BY DEF OwnStep, InterruptAttached, AnswerRefused, AnswerAttached, InterruptReturns, AnswerReturns,
             attachVars, sharedVars
    <3>4. LoopStep => UNCHANGED pendingBlock \/ PollPermission
      BY DEF LoopStep, OpenStream, ConnectFails, PostPrompt, PromptPosted, PostFails, StreamEnds, Abort,
             LoopEnds, ReadStream, MessageUpdated, PartUpdated, StatusBusy, SessionIdle, ReadEvent,
             StartPoll, PollQuestion, sharedVars
    <3>5. OpenCodeStep => UNCHANGED pendingBlock
      <4>1. ASSUME OpenCodeStep
            PROVE  UNCHANGED sharedVars
        BY <4>1 DEF OpenCodeStep, TakesPrompt, OperatorPrompts, TurnStarts, TurnStreams, TurnAsks,
                    RequestResolved, TurnEnds, StreamBreaks, OpenCodeDies
      <4> QED
        BY <4>1 DEF sharedVars
    <3>6. ServeStep => UNCHANGED pendingBlock
      BY DEF ServeStep, ServesInterrupt, ServesAnswer, PostLost, attachVars, sharedVars
    <3> QED
      BY <3>1, <3>2, <3>3, <3>4, <3>5, <3>6, AttachSteps DEF Next
  <2> QED
    BY <2>1, <2>3, <2>4, <2>5, <2>6, WhatTells
<1> QED
  BY <1>2, <1>3 DEF Told

\* Blocked is never a false alarm of the client's own making: whenever the last status told of
\* says Blocked there is a request stored that an answer can be sent to, however the polls,
\* the stream and run_session's steps interleave (http_attach_driver.rs:767-808).
THEOREM BlockedIsAnswerable == Spec => []BlockedHasARequest
<1>1. Init => BlockedHasARequest
  <2> SUFFICES ASSUME Init PROVE BlockedHasARequest
    OBVIOUS
  <2>1. events = <<>> /\ driverEvents = <<>> /\ blocked = FALSE
    BY DEF Init, ManagerInit, PortInit
  <2>2. ~SaysBlocked(<<>>) /\ <<>> \o <<>> = <<>>
    BY DEF SaysBlocked
  <2>3. SaysBlocked(<<>>) = FALSE
    BY <2>2 DEF SaysBlocked
  <2> QED
    BY <2>1, <2>2, <2>3 DEF BlockedHasARequest
<1> QED
  BY <1>1, BlockedNext, AttachInvAlways, PTL DEF Spec

-------------------------------------------------------------------------------
(* Stops that say they were cancelled.                                       *)

\* How many of the events es say that a turn was cancelled.
CancelsIn(es) == Cardinality(Positions(es, {"Cancelled"}))

\* Places in a sequence can be counted.
LEMMA PlacesAreFinite ==
  ASSUME NEW n \in Nat, NEW S \in SUBSET (1..n)
  PROVE  /\ IsFiniteSet(S) /\ Cardinality(S) \in Nat
         /\ IsFiniteSet(S \cup {n + 1}) /\ Cardinality(S \cup {n + 1}) = Cardinality(S) + 1
<1>1. IsFiniteSet(S)
  <2>1. IsFiniteSet(1..n)
    BY FS_Interval
  <2> QED
    BY <2>1, FS_Subset
<1>2. n + 1 \notin S
  OBVIOUS
<1> QED
  BY <1>1, <1>2, FS_AddElement, FS_CardinalityType

\* One more event is one more cancelled stop if it says so.
LEMMA CancelsAppend ==
  ASSUME NEW es \in Seq(DriverEvent), NEW e \in DriverEvent
  PROVE  /\ CancelsIn(es) \in Nat
         /\ CancelsIn(Append(es, e)) = CancelsIn(es) + (IF e.kind = "Cancelled" THEN 1 ELSE 0)
<1>1. Len(es) \in Nat /\ Positions(es, {"Cancelled"}) \subseteq 1..Len(es)
  BY DEF Positions
<1>2. /\ CancelsIn(es) \in Nat
      /\ Cardinality(Positions(es, {"Cancelled"}) \cup {Len(es) + 1}) = CancelsIn(es) + 1
  BY <1>1, PlacesAreFinite DEF CancelsIn
<1>3. CASE e.kind = "Cancelled"
  <2>1. Positions(Append(es, e), {"Cancelled"}) = Positions(es, {"Cancelled"}) \cup {Len(es) + 1}
    BY <1>3, PositionsAppend
  <2> QED
    BY <1>2, <1>3, <2>1 DEF CancelsIn
<1>4. CASE e.kind # "Cancelled"
  <2>1. Positions(Append(es, e), {"Cancelled"}) = Positions(es, {"Cancelled"})
    BY <1>4, PositionsAppend
  <2> QED
    BY <1>2, <1>4, <2>1 DEF CancelsIn
<1> QED
  BY <1>3, <1>4

\* The flag is set and counted at once, and an idle turns it into one label.
LEMMA CancelsStep ==
  ASSUME AttachInv, CancelsCounted, [Next]_vars
  PROVE  CancelsCounted'
<1> DEFINE set(b) == IF b THEN 1 ELSE 0
<1>1. /\ events \in Seq(DriverEvent) /\ driverEvents \in Seq(DriverEvent) /\ Told \in Seq(DriverEvent)
      /\ interrupts \in Nat /\ interruptRequested \in BOOLEAN
  BY ConcatProperties, CallsAssumption
  DEF AttachInv, TypeOK, PortTypeOK, ManagerTypeOK, AttachTypeOK, Told
<1>2. /\ CancelsIn(Told) \in Nat /\ CancelsIn(Told) + set(interruptRequested) <= interrupts
      /\ CancelsCounted' <=> CancelsIn(Told') + set(interruptRequested') <= interrupts'
  <2>1. Len(Told) \in Nat /\ Positions(Told, {"Cancelled"}) \subseteq 1..Len(Told)
    BY <1>1 DEF Positions
  <2>2. CancelsIn(Told) \in Nat
    BY <2>1, PlacesAreFinite DEF CancelsIn
  <2> QED
    BY <2>2 DEF CancelsCounted, CancelsIn, Told
<1> HIDE DEF set
<1>3. set(TRUE) = 1 /\ set(FALSE) = 0
  BY DEF set
<1>4. CASE SessionIdle /\ LoopStep /\ UNCHANGED <<managerVars, postVars>>
  <2> DEFINE k == IF interruptRequested THEN "Cancelled" ELSE "EndTurn"
             e == Event("Idle", Head(sse).turn)
             f == Event(k, Head(sse).turn)
  <2>1. /\ Emit(<<e, f>>) /\ sse # <<>> /\ interruptRequested' = FALSE
        /\ UNCHANGED events /\ UNCHANGED interrupts
    BY <1>4 DEF SessionIdle, ReadEvent, managerVars, sessionVars, postVars
  <2>2. Head(sse).turn \in Turns
    BY <2>1, StreamHead
  <2>3. e \in DriverEvent /\ f \in DriverEvent /\ e.kind = "Idle" /\ f.kind = k
    BY <2>2, LoopEventTypes DEF Event, StopKinds
  <2>4. f.kind = "Cancelled" <=> interruptRequested
    BY <2>3
  <2> HIDE DEF e, f, k
  <2>5. Told' = Append(Append(Told, e), f) /\ Append(Told, e) \in Seq(DriverEvent)
    BY <1>1, <2>1, <2>3, EmitTells
  <2>6. CancelsIn(Append(Told, e)) = CancelsIn(Told)
    BY <1>1, <1>2, <2>3, CancelsAppend
  <2>7. CancelsIn(Told') = CancelsIn(Told) + set(interruptRequested)
    BY <2>3, <2>4, <2>5, <2>6, CancelsAppend DEF set
  <2>8. set(interruptRequested') = 0 /\ interrupts' = interrupts
    BY <1>3, <2>1
  <2>9. set(interruptRequested) \in {0, 1}
    BY DEF set
  <2> QED
    BY <1>1, <1>2, <2>7, <2>8, <2>9
<1>5. CASE InterruptAttached
  <2>1. /\ interruptRequested' = TRUE /\ interrupts' = interrupts + 1 /\ Told' = Told
    BY <1>5 DEF InterruptAttached, portVars, Told
  <2>2. set(interruptRequested) \in {0, 1}
    BY DEF set
  <2>3. set(interruptRequested') = 1 /\ CancelsIn(Told') = CancelsIn(Told)
    BY <1>3, <2>1
  <2> QED
    BY <1>1, <1>2, <2>1, <2>2, <2>3
<1>6. ASSUME UNCHANGED <<interruptRequested, interrupts>>, CancelsIn(Told') = CancelsIn(Told)
      PROVE  CancelsCounted'
  BY <1>2, <1>6
<1>7. \/ SessionIdle /\ LoopStep /\ UNCHANGED <<managerVars, postVars>>
      \/ InterruptAttached
      \/ UNCHANGED <<interruptRequested, interrupts>> /\ CancelsIn(Told') = CancelsIn(Told)
  <2>1. \/ SessionIdle /\ LoopStep /\ UNCHANGED <<managerVars, postVars>>
        \/ InterruptAttached
        \/ UNCHANGED <<interruptRequested, interrupts>>
    <3>1. SharedStep \/ UNCHANGED vars => UNCHANGED <<interruptRequested, interrupts>>
      BY DEF SharedStep, vars, attachVars, sharedVars, postVars
    <3>2. OwnStep => InterruptAttached \/ UNCHANGED <<interruptRequested, interrupts>>
      BY DEF OwnStep, AnswerRefused, AnswerAttached, InterruptReturns, AnswerReturns,
             attachVars, sharedVars, postVars
    <3>3. LoopStep => SessionIdle \/ UNCHANGED interruptRequested
      BY DEF LoopStep, OpenStream, ConnectFails, PostPrompt, PromptPosted, PostFails, StreamEnds, Abort,
             LoopEnds, ReadStream, MessageUpdated, PartUpdated, StatusBusy,
             StartPoll, PollQuestion, PollPermission, sharedVars
    <3>4. OpenCodeStep => UNCHANGED interruptRequested
      <4>1. ASSUME OpenCodeStep
            PROVE  UNCHANGED sharedVars
        BY <4>1 DEF OpenCodeStep, TakesPrompt, OperatorPrompts, TurnStarts, TurnStreams, TurnAsks,
                    RequestResolved, TurnEnds, StreamBreaks, OpenCodeDies
      <4> QED
        BY <4>1 DEF sharedVars
    <3>5. ServeStep => UNCHANGED <<interruptRequested, interrupts>>
      BY DEF ServeStep, ServesInterrupt, ServesAnswer, PostLost, attachVars, sharedVars
    <3>6. UNCHANGED postVars => UNCHANGED interrupts
      BY DEF postVars
    <3> QED
      BY <3>1, <3>2, <3>3, <3>4, <3>5, <3>6, AttachSteps DEF Next
  <2>2. ASSUME NEW e \in DriverEvent, e.kind # "Cancelled", Emit(<<e>>), UNCHANGED events
        PROVE  CancelsIn(Told') = CancelsIn(Told)
    <3>1. Told' = Append(Told, e)
      BY <2>2, EmitTells
    <3> QED
      BY <1>1, <1>2, <2>2, <3>1, CancelsAppend
  <2>3. UNCHANGED managerVars => UNCHANGED events
    BY DEF managerVars, sessionVars
  <2>4. UNCHANGED <<events, driverEvents>> => CancelsIn(Told') = CancelsIn(Told)
    BY DEF Told
  <2>5. PromptPosted /\ UNCHANGED managerVars => CancelsIn(Told') = CancelsIn(Told)
    <3>1. Event("Working", prompting) \in DriverEvent /\ Event("Working", prompting).kind # "Cancelled"
      BY LoopEventTypes DEF AttachInv, TypeOK, AttachTypeOK, Event
    <3> QED
      BY <2>2, <2>3, <3>1 DEF PromptPosted
  <2>6. PollPermission /\ UNCHANGED managerVars => CancelsIn(Told') = CancelsIn(Told)
    <3>1. ASSUME NEW k \in {"Working", "Blocked"}
          PROVE  Event(k, NoTurn) \in DriverEvent /\ Event(k, NoTurn).kind # "Cancelled"
      BY AttachBounds, LoopEventTypes DEF Event
    <3>2. PollPermission =>
            UNCHANGED driverEvents \/ \E k \in {"Working", "Blocked"} : Emit(<<Event(k, NoTurn)>>)
      BY DEF PollPermission, Transition
    <3> QED
      BY <2>2, <2>3, <2>4, <3>1, <3>2
  <2>7. ReadStream /\ UNCHANGED managerVars => SessionIdle \/ CancelsIn(Told') = CancelsIn(Told)
    <3> SUFFICES ASSUME ReadStream, UNCHANGED managerVars, ~SessionIdle
                 PROVE  CancelsIn(Told') = CancelsIn(Told)
      OBVIOUS
    <3> DEFINE t == Head(sse).turn
    <3>1. /\ sse # <<>>
          /\ \/ UNCHANGED driverEvents
             \/ \E k \in {"Update", "Working"} : Emit(<<Event(k, t)>>)
      BY DEF ReadStream, MessageUpdated, PartUpdated, StatusBusy, ReadEvent
    <3>2. t \in Turns
      BY <3>1, StreamHead
    <3> HIDE DEF t
    <3>3. ASSUME NEW k \in {"Update", "Working"}
          PROVE  Event(k, t) \in DriverEvent /\ Event(k, t).kind # "Cancelled"
      BY <3>2, LoopEventTypes DEF Event
    <3> QED
      BY <2>2, <2>3, <2>4, <3>1, <3>3
  <2>8. \/ SessionIdle /\ UNCHANGED <<managerVars, postVars>> /\ LoopStep
        \/ CancelsIn(Told') = CancelsIn(Told)
    BY <2>5, <2>6, <2>7, WhatTells
  <2> QED
    BY <2>1, <2>8
<1> QED
  BY <1>4, <1>5, <1>6, <1>7

\* One interrupt labels at most one stop: over any interleaving of interrupts, idles and
\* failed POSTs the flag is never turned into more Cancelled stops than interrupts set it
\* (http_attach_driver.rs:152-157, 902-911).
THEOREM CancelsAreCounted == Spec => []CancelsCounted
<1>1. Init => CancelsCounted
  <2> SUFFICES ASSUME Init PROVE CancelsCounted
    OBVIOUS
  <2>1. events = <<>> /\ driverEvents = <<>> /\ interruptRequested = FALSE /\ interrupts = 0
    BY DEF Init, ManagerInit, PortInit, AttachInit
  <2>2. <<>> \o <<>> = <<>> /\ Positions(<<>>, {"Cancelled"}) = {}
    BY DEF Positions
  <2> QED
    BY <2>1, <2>2, FS_EmptySet DEF CancelsCounted
<1> QED
  BY <1>1, CancelsStep, AttachInvAlways, PTL DEF Spec

-------------------------------------------------------------------------------
(* What the agent said.  Every text of an announced assistant message is       *)
(* either told already or still in the stream, behind its announcement.        *)

AgentText(t)    == OcEvent("PartUpdated", t, "assistant")
AgentMessage(t) == OcEvent("MessageUpdated", t, "assistant")

\* How many of the events es are texts of turn t.
UpdatesOf(es, t) == Cardinality(Occurrences(es, Event("Update", t)))

\* Where the stream s has texts of t that will be told of, when roles are known by now.
StreamedOf(roles, s, t) ==
  {i \in Occurrences(s, AgentText(t)) :
     t \in roles \/ \E j \in Occurrences(s, AgentMessage(t)) : j < i}

ToTell(roles, s, t) == Cardinality(StreamedOf(roles, s, t))

\* Where a message is once another one joins, and behind the first one.
LEMMA OccurrencesAppend ==
  ASSUME NEW T, NEW ms \in Seq(T), NEW m \in T, NEW x
  PROVE  /\ Occurrences(ms, x) \subseteq 1..Len(ms) /\ Len(ms) \in Nat
         /\ m = x => Occurrences(Append(ms, m), x) = Occurrences(ms, x) \cup {Len(ms) + 1}
         /\ m # x => Occurrences(Append(ms, m), x) = Occurrences(ms, x)
<1> DEFINE a == Append(ms, m)
<1>1. /\ Len(a) = Len(ms) + 1 /\ Len(ms) \in Nat /\ a[Len(ms) + 1] = m
      /\ \A i \in 1..Len(ms) : a[i] = ms[i]
  OBVIOUS
<1> HIDE DEF a
<1>2. \A i : i \in 1..Len(a) <=> i \in 1..Len(ms) \/ i = Len(ms) + 1
  BY <1>1
<1> QED
  BY <1>1, <1>2 DEF Occurrences, a

\* Taking the head of a sequence moves every other occurrence down by one.
LEMMA OccurrencesTail ==
  ASSUME NEW T, NEW ms \in Seq(T), ms # <<>>, NEW x
  PROVE  /\ Len(ms) \in Nat /\ Len(ms) = Len(Tail(ms)) + 1 /\ Len(Tail(ms)) \in Nat
         /\ \A i \in 1..Len(Tail(ms)) : i \in Occurrences(Tail(ms), x) <=> i + 1 \in Occurrences(ms, x)
         /\ 1 \in Occurrences(ms, x) <=> Head(ms) = x
<1> DEFINE t == Tail(ms)
<1>1. /\ Len(t) = Len(ms) - 1 /\ Len(ms) \in Nat \ {0} /\ Head(ms) = ms[1]
      /\ \A i \in 1..(Len(ms) - 1) : t[i] = ms[i + 1]
  OBVIOUS
<1> HIDE DEF t
<1>2. \A i \in 1..Len(t) : i + 1 \in 1..Len(ms) /\ t[i] = ms[i + 1]
  BY <1>1
<1>3. 1 \in 1..Len(ms) /\ Len(ms) = Len(t) + 1 /\ Len(t) \in Nat
  BY <1>1
<1> QED
  BY <1>1, <1>2, <1>3 DEF Occurrences, t

\* One more event is one more text of t if it is one.
LEMMA UpdatesAppend ==
  ASSUME NEW es \in Seq(DriverEvent), NEW e \in DriverEvent, NEW t \in Turns
  PROVE  /\ UpdatesOf(es, t) \in Nat
         /\ UpdatesOf(Append(es, e), t)
              = UpdatesOf(es, t) + (IF e.kind = "Update" /\ e.turn = t THEN 1 ELSE 0)
<1> DEFINE x == Event("Update", t)
<1>1. e = x <=> e.kind = "Update" /\ e.turn = t
  BY DEF Event, DriverEvent
<1> HIDE DEF x
<1>2. /\ Occurrences(es, x) \subseteq 1..Len(es) /\ Len(es) \in Nat
      /\ e = x => Occurrences(Append(es, e), x) = Occurrences(es, x) \cup {Len(es) + 1}
      /\ e # x => Occurrences(Append(es, e), x) = Occurrences(es, x)
  BY OccurrencesAppend
<1>3. /\ Cardinality(Occurrences(es, x)) \in Nat
      /\ Cardinality(Occurrences(es, x) \cup {Len(es) + 1}) = Cardinality(Occurrences(es, x)) + 1
  BY <1>2, PlacesAreFinite
<1>4. /\ UpdatesOf(es, t) = Cardinality(Occurrences(es, x))
      /\ UpdatesOf(Append(es, e), t) = Cardinality(Occurrences(Append(es, e), x))
  BY DEF UpdatesOf, x
<1>5. CASE e = x
  BY <1>1, <1>2, <1>3, <1>4, <1>5
<1>6. CASE e # x
  BY <1>1, <1>2, <1>3, <1>4, <1>6
<1> QED
  BY <1>5, <1>6

\* One more stream event is one more text to tell of if it is one of a message announced.
LEMMA ToTellAppend ==
  ASSUME NEW s \in Seq(StreamEvent), NEW e \in StreamEvent, NEW t, NEW roles
  PROVE  /\ ToTell(roles, s, t) \in Nat
         /\ ToTell(roles, Append(s, e), t)
              = ToTell(roles, s, t)
                + (IF e = AgentText(t) /\ (t \in roles \/ Occurrences(s, AgentMessage(t)) # {})
                   THEN 1 ELSE 0)
<1> DEFINE x == AgentText(t)
           m == AgentMessage(t)
           a == Append(s, e)
           n == Len(s) + 1
           S == StreamedOf(roles, s, t)
<1>1. x # m
  BY DEF AgentText, AgentMessage, OcEvent
<1> HIDE DEF x, m, a
<1>2. /\ Occurrences(s, x) \subseteq 1..Len(s) /\ Len(s) \in Nat
      /\ e = x => Occurrences(a, x) = Occurrences(s, x) \cup {n}
      /\ e # x => Occurrences(a, x) = Occurrences(s, x)
  BY OccurrencesAppend DEF a
<1>3. /\ Occurrences(s, m) \subseteq 1..Len(s)
      /\ e = m => Occurrences(a, m) = Occurrences(s, m) \cup {n}
      /\ e # m => Occurrences(a, m) = Occurrences(s, m)
  BY OccurrencesAppend DEF a
<1>4. \A i \in 1..Len(s) : i < n /\ ~(n < i)
  BY <1>2
<1>5. /\ S = {i \in Occurrences(s, x) : t \in roles \/ \E j \in Occurrences(s, m) : j < i}
      /\ StreamedOf(roles, a, t)
           = {i \in Occurrences(a, x) : t \in roles \/ \E j \in Occurrences(a, m) : j < i}
  BY DEF StreamedOf, x, m
<1>6. S \subseteq 1..Len(s)
  BY <1>2, <1>5
<1> HIDE DEF S
<1>7. Cardinality(S) \in Nat /\ Cardinality(S \cup {n}) = Cardinality(S) + 1
  BY <1>2, <1>6, PlacesAreFinite
<1>8. CASE e = x /\ (t \in roles \/ Occurrences(s, m) # {})
  <2>1. StreamedOf(roles, a, t) = S \cup {n}
    BY <1>1, <1>2, <1>3, <1>4, <1>5, <1>8
  <2> QED
    BY <1>7, <1>8, <2>1 DEF ToTell, S, a, x, m
<1>9. CASE ~(e = x /\ (t \in roles \/ Occurrences(s, m) # {}))
  <2>1. StreamedOf(roles, a, t) = S
    <3>1. CASE e = x
      BY <1>1, <1>2, <1>3, <1>4, <1>5, <1>9, <3>1
    <3>2. CASE e # x
      <4>1. \A i \in Occurrences(s, x) : ~(n < i)
        BY <1>2, <1>4
      <4> QED
        BY <1>2, <1>3, <1>5, <3>2, <4>1
    <3> QED
      BY <3>1, <3>2
  <2> QED
    BY <1>7, <1>9, <2>1 DEF ToTell, S, a, x, m
<1> QED
  BY <1>8, <1>9

\* As many places one to the right.
LEMMA ShiftedAreAsMany ==
  ASSUME NEW n \in Nat, NEW S \in SUBSET (1..n), NEW R, \A i : i \in R <=> i \in 2..n + 1 /\ i - 1 \in S
  PROVE  Cardinality(R) = Cardinality(S)
<1> DEFINE f == [i \in S |-> i + 1]
<1>1. \A i \in S : i \in Int /\ i + 1 \in R
  OBVIOUS
<1>2. \A r \in R : r \in Int /\ r - 1 \in S /\ (r - 1) + 1 = r
  OBVIOUS
<1>3. f \in [S -> R]
  BY <1>1
<1>4. \A a, b \in S : f[a] = f[b] => a = b
  BY <1>1
<1>5. \A r \in R : \E i \in S : f[i] = r
  BY <1>2
<1>6. f \in Bijection(S, R)
  BY <1>3, <1>4, <1>5 DEF Bijection, Injection, IsInjective, Surjection
<1>7. ExistsBijection(S, R)
  BY <1>6 DEF ExistsBijection
<1> QED
  BY <1>7, PlacesAreFinite, FS_Bijection

\* What is read off the stream is a text told of, or leaves the others to tell of.
LEMMA ToTellTail ==
  ASSUME NEW s \in Seq(StreamEvent), s # <<>>, NEW t, NEW roles, NEW roles2,
         t \in roles2 <=> t \in roles \/ Head(s) = AgentMessage(t)
  PROVE  /\ ToTell(roles, s, t) \in Nat /\ ToTell(roles2, Tail(s), t) \in Nat
         /\ ToTell(roles, s, t)
              = ToTell(roles2, Tail(s), t) + (IF Head(s) = AgentText(t) /\ t \in roles THEN 1 ELSE 0)
<1> DEFINE x == AgentText(t)
           m == AgentMessage(t)
           u == Tail(s)
           h == Head(s)
           n == Len(u)
           A == Occurrences(s, x)
           B == Occurrences(s, m)
           C == Occurrences(u, x)
           D == Occurrences(u, m)
           S == {i \in A : t \in roles \/ \E j \in B : j < i}
           U == {i \in C : t \in roles2 \/ \E j \in D : j < i}
           R == S \ {1}
<1>1. /\ Len(s) = n + 1 /\ n \in Nat
      /\ \A i \in 1..n : i \in C <=> i + 1 \in A
      /\ 1 \in A <=> h = x
  BY OccurrencesTail
<1>2. /\ \A i \in 1..n : i \in D <=> i + 1 \in B
      /\ 1 \in B <=> h = m
  BY OccurrencesTail
<1>3. /\ A \subseteq 1..n + 1 /\ B \subseteq 1..n + 1 /\ C \subseteq 1..n /\ D \subseteq 1..n
  BY <1>1 DEF Occurrences
<1>4. ToTell(roles, s, t) = Cardinality(S) /\ ToTell(roles2, u, t) = Cardinality(U)
  BY DEF ToTell, StreamedOf
<1>5. t \in roles2 <=> t \in roles \/ 1 \in B
  BY <1>2
<1> HIDE DEF x, m, u, h, A, B, C, D, n
<1>6. ASSUME NEW i \in 1..n
      PROVE  i + 1 \in S <=> i \in U
  <2>1. (\E j \in B : j < i + 1) <=> 1 \in B \/ \E j \in D : j < i
    <3>1. ASSUME NEW j \in B, j < i + 1
          PROVE  1 \in B \/ \E k \in D : k < i
      <4>1. CASE j = 1
        BY <3>1, <4>1
      <4>2. CASE j # 1
        <5>1. j - 1 \in 1..n /\ (j - 1) + 1 = j /\ j - 1 < i
          BY <1>1, <1>3, <3>1, <4>2
        <5>2. j - 1 \in D
          BY <1>2, <5>1
        <5> QED
          BY <5>1, <5>2
      <4> QED
        BY <4>1, <4>2
    <3>2. ASSUME NEW j \in D, j < i
          PROVE  j + 1 \in B /\ j + 1 < i + 1
      BY <1>1, <1>2, <1>3, <3>2
    <3>3. 1 < i + 1
      BY <1>1
    <3> QED
      BY <3>1, <3>2, <3>3
  <2>2. i \in C <=> i + 1 \in A
    BY <1>1
  <2> QED
    BY <1>5, <2>1, <2>2
<1>7. S \subseteq 1..n + 1 /\ U \subseteq 1..n
  BY <1>3
<1>8. 1 \in S <=> h = x /\ t \in roles
  <2>1. \A j \in B : ~(j < 1)
    BY <1>1, <1>3
  <2> QED
    BY <1>1, <2>1
<1> HIDE DEF S, U
<1>9. Cardinality(R) = Cardinality(U)
  <2>1. ASSUME NEW i
        PROVE  i \in R <=> i \in 2..n + 1 /\ i - 1 \in U
    <3>1. i \in R => i \in 2..n + 1
      BY <1>1, <1>7
    <3>2. i \in 2..n + 1 => i - 1 \in 1..n /\ (i - 1) + 1 = i /\ i # 1
      BY <1>1
    <3> QED
      BY <1>6, <3>1, <3>2
  <2> HIDE DEF R
  <2> QED
    BY <1>1, <1>7, <2>1, ShiftedAreAsMany
<1>10. /\ IsFiniteSet(S) /\ Cardinality(S) \in Nat /\ Cardinality(U) \in Nat
  <2>1. n + 1 \in Nat
    BY <1>1
  <2> QED
    BY <1>1, <1>7, <2>1, PlacesAreFinite
<1>11. Cardinality(R) = IF 1 \in S THEN Cardinality(S) - 1 ELSE Cardinality(S)
  BY <1>10, FS_RemoveElement
<1> QED
  BY <1>4, <1>8, <1>9, <1>10, <1>11 DEF x, h, u

\* What is told and what is left to tell of t: as much as was said.
Balanced(t) == said[t] = UpdatesOf(Told, t) + ToTell(messageRoles, sse, t)

\* The invariant, in these terms.
LEMMA UpdatesBalanced == UpdatesAreTheAgents <=> (driverUp => \A t \in Turns : Balanced(t))
BY DEF UpdatesAreTheAgents, Balanced, UpdatesOf, ToTell, StreamedOf, AgentText, AgentMessage, Told

\* Reading: a text of a message announced is told of, any other event leaves the balance.
LEMMA ReadKeepsBalance ==
  ASSUME AttachInv, ReadStream, UNCHANGED managerVars, NEW t \in Turns, Balanced(t)
  PROVE  Balanced(t)'
<1> DEFINE h == Head(sse)
<1>1. /\ Told \in Seq(DriverEvent) /\ sse \in Seq(StreamEvent)
  BY ConcatProperties DEF AttachInv, TypeOK, PortTypeOK, ManagerTypeOK, AttachTypeOK, Told
<1>2. sse # <<>> /\ sse' = Tail(sse) /\ UNCHANGED <<said, events>>
  BY DEF ReadStream, MessageUpdated, PartUpdated, StatusBusy, SessionIdle, ReadEvent, openCodeVars,
         managerVars, sessionVars
<1>3. h \in StreamEvent /\ h.turn \in Turns
  BY <1>2, StreamHead
<1>4. /\ h = AgentText(t) <=> h.kind = "PartUpdated" /\ h.turn = t /\ h.by = "assistant"
      /\ h = AgentMessage(t) <=> h.kind = "MessageUpdated" /\ h.turn = t /\ h.by = "assistant"
  BY <1>3 DEF AgentText, AgentMessage, OcEvent, StreamEvent
<1> DEFINE one == IF h = AgentText(t) /\ t \in messageRoles THEN 1 ELSE 0
<1>5. t \in messageRoles' <=> t \in messageRoles \/ h = AgentMessage(t)
  <2>1. CASE MessageUpdated
    BY <1>4, <2>1 DEF MessageUpdated, ReadEvent
  <2>2. CASE PartUpdated \/ StatusBusy \/ SessionIdle
    BY <1>4, <2>2 DEF PartUpdated, StatusBusy, SessionIdle, ReadEvent
  <2> QED
    BY <2>1, <2>2 DEF ReadStream
<1>6. /\ ToTell(messageRoles, sse, t) = ToTell(messageRoles', sse', t) + one
      /\ ToTell(messageRoles', sse', t) \in Nat
  BY <1>1, <1>2, <1>5, ToTellTail
<1>7. UpdatesOf(Told', t) = UpdatesOf(Told, t) + one /\ UpdatesOf(Told, t) \in Nat
  <2>0. UpdatesOf(Told, t) \in Nat
    <3>1. Occurrences(Told, Event("Update", t)) \subseteq 1..Len(Told) /\ Len(Told) \in Nat
      BY <1>1 DEF Occurrences
    <3> QED
      BY <3>1, PlacesAreFinite DEF UpdatesOf
  <2>1. CASE PartUpdated /\ IsAssistantText(h)
    <3> DEFINE e == Event("Update", h.turn)
    <3>1. e \in DriverEvent /\ e.kind = "Update" /\ e.turn = h.turn
      BY <1>3, LoopEventTypes DEF Event
    <3>2. Emit(<<e>>) /\ h.kind = "PartUpdated"
      BY <2>1 DEF PartUpdated, ReadEvent
    <3> HIDE DEF e
    <3>3. Told' = Append(Told, e)
      BY <1>2, <3>1, <3>2, EmitTells
    <3>4. h = AgentText(t) /\ t \in messageRoles <=> h.turn = t
      BY <1>4, <2>1, <3>2 DEF IsAssistantText
    <3> QED
      BY <1>1, <2>0, <3>1, <3>3, <3>4, UpdatesAppend
  <2>2. CASE (PartUpdated /\ ~IsAssistantText(h)) \/ MessageUpdated
    <3>1. Told' = Told
      BY <1>2, <2>2 DEF PartUpdated, MessageUpdated, Told
    <3>2. ~(h = AgentText(t) /\ t \in messageRoles)
      BY <1>4, <2>2 DEF MessageUpdated, ReadEvent, IsAssistantText
    <3> QED
      BY <2>0, <3>1, <3>2
  <2>3. CASE StatusBusy
    <3> DEFINE e == Event("Working", h.turn)
    <3>1. e \in DriverEvent /\ e.kind # "Update"
      BY <1>3, LoopEventTypes DEF Event
    <3>2. Emit(<<e>>) /\ h.kind # "PartUpdated"
      BY <2>3 DEF StatusBusy, ReadEvent
    <3> HIDE DEF e
    <3>3. Told' = Append(Told, e)
      BY <1>2, <3>1, <3>2, EmitTells
    <3> QED
      BY <1>1, <1>4, <2>0, <3>1, <3>2, <3>3, UpdatesAppend
  <2>4. CASE SessionIdle
    <3> DEFINE e == Event("Idle", h.turn)
    <3>1. PICK k \in StopKinds : Emit(<<e, Event(k, h.turn)>>)
      BY <2>4 DEF SessionIdle, StopKinds
    <3> DEFINE f == Event(k, h.turn)
    <3>2. e \in DriverEvent /\ e.kind # "Update" /\ f \in DriverEvent /\ f.kind # "Update"
      BY <1>3, LoopEventTypes DEF Event, StopKinds
    <3>3. h.kind # "PartUpdated"
      BY <2>4 DEF SessionIdle, ReadEvent
    <3> HIDE DEF e, f
    <3>4. Told' = Append(Append(Told, e), f) /\ Append(Told, e) \in Seq(DriverEvent)
      BY <1>1, <1>2, <3>1, <3>2, EmitTells DEF f
    <3>5. UpdatesOf(Append(Told, e), t) = UpdatesOf(Told, t)
      BY <1>1, <2>0, <3>2, UpdatesAppend
    <3> DEFINE d == Append(Told, e)
    <3> HIDE DEF d
    <3>6. UpdatesOf(Append(d, f), t) = UpdatesOf(d, t)
      <4>1. d \in Seq(DriverEvent)
        BY <3>4 DEF d
      <4> QED
        BY <3>2, <4>1, UpdatesAppend
    <3>7. UpdatesOf(Told', t) = UpdatesOf(Told, t)
      BY <3>4, <3>5, <3>6 DEF d
    <3> QED
      BY <1>4, <2>0, <3>3, <3>7
  <2> QED
    BY <2>1, <2>2, <2>3, <2>4 DEF ReadStream
<1>8. one \in Nat
  OBVIOUS
<1> HIDE DEF one
<1> QED
  BY <1>2, <1>6, <1>7, <1>8 DEF Balanced

\* OpenCode's turns: a text joins what is left to tell as it joins what was said.
LEMMA OpenCodeKeepsBalance ==
  ASSUME AttachInv, OpenCodeStep, UNCHANGED managerVars, NEW t \in Turns, Balanced(t)
  PROVE  Balanced(t)'
<1>1. /\ UNCHANGED <<messageRoles, driverEvents, events, driverUp>> /\ Told' = Told
  BY DEF OpenCodeStep, TakesPrompt, OperatorPrompts, TurnStarts, TurnStreams, TurnAsks, RequestResolved,
         TurnEnds, StreamBreaks, OpenCodeDies, loopVars, portVars, managerVars, sessionVars, Told
<1>2. sse \in Seq(StreamEvent) /\ running \subseteq Turns /\ said \in [Turns -> 0..MaxTexts]
      /\ openCodeQueue \in Seq(Turns)
  BY DEF AttachInv, TypeOK, AttachTypeOK
<1>3. ToTell(messageRoles, sse, t) \in Nat
  <2>1. StreamedOf(messageRoles, sse, t) \subseteq 1..Len(sse) /\ Len(sse) \in Nat
    BY <1>2 DEF StreamedOf, Occurrences
  <2> QED
    BY <2>1, PlacesAreFinite DEF ToTell
<1>4. UpdatesOf(Told, t) \in Nat
  <2>1. Occurrences(Told, Event("Update", t)) \subseteq 1..Len(Told)
    BY DEF Occurrences
  <2>2. Told \in Seq(DriverEvent)
    BY ConcatProperties DEF AttachInv, TypeOK, PortTypeOK, ManagerTypeOK, Told
  <2>3. Len(Told) \in Nat
    BY <2>2
  <2> QED
    BY <2>1, <2>3, PlacesAreFinite DEF UpdatesOf
<1>5. ASSUME UNCHANGED said, ToTell(messageRoles, sse', t) = ToTell(messageRoles, sse, t)
      PROVE  Balanced(t)'
  BY <1>1, <1>5 DEF Balanced
<1>6. ASSUME NEW s \in Seq(StreamEvent), NEW e \in StreamEvent, e # AgentText(t)
      PROVE  /\ ToTell(messageRoles, Append(s, e), t) = ToTell(messageRoles, s, t)
             /\ Append(s, e) \in Seq(StreamEvent)
  BY <1>6, ToTellAppend
<1>7. ASSUME NEW e \in StreamEvent PROVE sse \o <<e>> = Append(sse, e)
  BY <1>2, AppendIsConcat
<1>8. CASE UNCHANGED <<sse, said>>
  BY <1>5, <1>8
<1>9. CASE TurnStarts
  <2> DEFINE q == Head(openCodeQueue)
             a == OcEvent("PartUpdated", q, "user")
             b == OcEvent("Busy", q, "assistant")
             c == OcEvent("MessageUpdated", q, "assistant")
  <2>1. q \in Turns
    BY <1>2, <1>9 DEF TurnStarts
  <2>2. /\ a \in StreamEvent /\ b \in StreamEvent /\ c \in StreamEvent
        /\ a # AgentText(t) /\ b # AgentText(t) /\ c # AgentText(t)
    BY <2>1, StreamEventTypes DEF AgentText, OcEvent, StreamKinds
  <2>3. UNCHANGED said /\ sse' \in {sse, sse \o <<a, b, c>>}
    BY <1>9 DEF TurnStarts, Stream
  <2> HIDE DEF a, b, c
  <2>4. sse \o <<a, b, c>> = Append(Append(Append(sse, a), b), c)
    <3>1. /\ <<a, b, c>> = Append(Append(<<a>>, b), c)
          /\ <<a>> \in Seq(StreamEvent) /\ Append(<<a>>, b) \in Seq(StreamEvent)
      BY <2>2
    <3>2. sse \o Append(Append(<<a>>, b), c) = Append(sse \o Append(<<a>>, b), c)
      BY <1>2, <2>2, <3>1, EventJoins
    <3>3. sse \o Append(<<a>>, b) = Append(sse \o <<a>>, b)
      BY <1>2, <2>2, <3>1, EventJoins
    <3> QED
      BY <1>7, <2>2, <3>1, <3>2, <3>3
  <2>5. ToTell(messageRoles, sse \o <<a, b, c>>, t) = ToTell(messageRoles, sse, t)
    <3> DEFINE s1 == Append(sse, a)
               s2 == Append(s1, b)
    <3>1. s1 \in Seq(StreamEvent) /\ ToTell(messageRoles, s1, t) = ToTell(messageRoles, sse, t)
      BY <1>2, <1>6, <2>2
    <3> HIDE DEF s1
    <3>2. s2 \in Seq(StreamEvent) /\ ToTell(messageRoles, s2, t) = ToTell(messageRoles, s1, t)
      BY <1>6, <2>2, <3>1
    <3> HIDE DEF s2
    <3>3. ToTell(messageRoles, Append(s2, c), t) = ToTell(messageRoles, s2, t)
      BY <1>6, <2>2, <3>2
    <3> QED
      BY <2>4, <3>1, <3>2, <3>3 DEF s1, s2
  <2> QED
    BY <1>5, <2>3, <2>5
<1>10. CASE TurnStreams
  <2>1. PICK q \in running, by \in {"assistant", "user"} :
          /\ Stream(<<OcEvent("PartUpdated", q, by)>>)
          /\ said' = IF by = "assistant" /\ streaming /\ Announced(q)
                     THEN [said EXCEPT ![q] = @ + 1] ELSE said
    BY <1>10 DEF TurnStreams
  <2> DEFINE e == OcEvent("PartUpdated", q, by)
  <2>2. q \in Turns /\ e \in StreamEvent /\ (e = AgentText(t) <=> q = t /\ by = "assistant")
    BY <1>2, StreamEventTypes DEF AgentText, OcEvent, StreamKinds
  <2> HIDE DEF e
  <2>3. Announced(t) <=> t \in messageRoles \/ Occurrences(sse, AgentMessage(t)) # {}
    BY DEF Announced, Occurrences, AgentMessage
  <2>4. sse' = IF streaming THEN Append(sse, e) ELSE sse
    BY <1>7, <2>1, <2>2 DEF Stream, e
  <2>5. CASE streaming /\ e = AgentText(t) /\ Announced(t)
    <3>1. ToTell(messageRoles, sse', t) = ToTell(messageRoles, sse, t) + 1
      BY <1>2, <2>2, <2>3, <2>4, <2>5, ToTellAppend
    <3>2. said'[t] = said[t] + 1
      BY <1>2, <2>1, <2>2, <2>5
    <3> QED
      BY <1>1, <1>3, <1>4, <3>1, <3>2 DEF Balanced
  <2>6. CASE ~(streaming /\ e = AgentText(t) /\ Announced(t))
    <3>1. ToTell(messageRoles, sse', t) = ToTell(messageRoles, sse, t)
      <4>1. CASE ~streaming
        BY <2>4, <4>1
      <4>2. CASE streaming
        BY <1>2, <1>3, <2>2, <2>3, <2>4, <2>6, <4>2, ToTellAppend
      <4> QED
        BY <4>1, <4>2
    <3>2. said'[t] = said[t]
      BY <1>2, <2>1, <2>2, <2>6
    <3> QED
      BY <1>1, <3>1, <3>2 DEF Balanced
  <2> QED
    BY <2>5, <2>6
<1>11. CASE TurnEnds
  <2>1. UNCHANGED said
    BY <1>11 DEF TurnEnds
  <2>2. CASE UNCHANGED sse
    BY <1>8, <2>1, <2>2
  <2>3. ASSUME NEW q \in running, Stream(<<OcEvent("SessionIdle", q, "assistant")>>)
        PROVE  Balanced(t)'
    <3> DEFINE e == OcEvent("SessionIdle", q, "assistant")
    <3>1. e \in StreamEvent /\ e # AgentText(t)
      BY <1>2, StreamEventTypes DEF AgentText, OcEvent, StreamKinds
    <3>2. sse' \in {sse, sse \o <<e>>}
      BY <2>3 DEF Stream
    <3> HIDE DEF e
    <3> QED
      BY <1>2, <1>5, <1>6, <1>7, <2>1, <3>1, <3>2, ZenonT(40)
  <2> QED
    BY <1>11, <2>2, <2>3 DEF TurnEnds
<1>12. UNCHANGED <<sse, said>> \/ TurnStarts \/ TurnStreams \/ TurnEnds
  BY DEF OpenCodeStep, TakesPrompt, OperatorPrompts, TurnAsks, RequestResolved, StreamBreaks,
         OpenCodeDies, streamVars, openCodeVars
<1> QED
  BY <1>8, <1>9, <1>10, <1>11, <1>12

\* While the loop runs, nothing the agent said is lost, doubled or made up.
LEMMA UpdatesStep ==
  ASSUME AttachInv, UpdatesAreTheAgents, [Next]_vars
  PROVE  UpdatesAreTheAgents'
<1> SUFFICES ASSUME driverUp', NEW t \in Turns
             PROVE  Balanced(t)'
  <2>1. UpdatesAreTheAgents' <=> (driverUp' => \A t \in Turns : Balanced(t)')
    BY DEF UpdatesAreTheAgents, Balanced, UpdatesOf, ToTell, StreamedOf, AgentText, AgentMessage, Told
  <2> QED
    BY <2>1
<1>1. driverUp /\ Told \in Seq(DriverEvent) => Balanced(t)
  BY UpdatesBalanced
<1>2. Told \in Seq(DriverEvent) /\ NoTurn \in Turns /\ prompting \in Turns
  BY ConcatProperties, AttachBounds
  DEF AttachInv, TypeOK, PortTypeOK, ManagerTypeOK, AttachTypeOK, Told, Turns, NoTurn
<1>3. driverUp
  <2>1. SharedStep \/ OwnStep \/ ServeStep \/ UNCHANGED vars => UNCHANGED driverUp
    BY DEF SharedStep, CallerStep, Prompt, Await, Shutdown, CommonStep, CommonReceive, StartPrompt,
           QueuePrompt, DropPrompt, InterruptIdle, TellFlag, StopManager, TakeEvent, DriverGone,
           StallTimeout, ManagerStopped, OwnStep, InterruptAttached, AnswerRefused, AnswerAttached,
           InterruptReturns, AnswerReturns, ServeStep, ServesInterrupt, ServesAnswer, PostLost, vars, portVars
  <2>2. LoopStep => driverUp' = driverUp \/ driverUp' = FALSE
    BY DEF LoopStep, OpenStream, ConnectFails, PostPrompt, PromptPosted, PostFails, StreamEnds, Abort,
           LoopEnds, ReadStream, MessageUpdated, PartUpdated, StatusBusy, SessionIdle, ReadEvent,
           StartPoll, PollQuestion, PollPermission, portVars
  <2>3. OpenCodeStep => UNCHANGED driverUp
    BY DEF OpenCodeStep, TakesPrompt, OperatorPrompts, TurnStarts, TurnStreams, TurnAsks,
           RequestResolved, TurnEnds, StreamBreaks, OpenCodeDies, portVars
  <2> QED
    BY <2>1, <2>2, <2>3, AttachSteps DEF Next
<1>4. Balanced(t)
  BY <1>1, <1>2, <1>3
<1>5. CASE ReadStream /\ UNCHANGED managerVars
  BY <1>4, <1>5, ReadKeepsBalance
<1>6. CASE OpenCodeStep /\ UNCHANGED managerVars
  BY <1>4, <1>6, OpenCodeKeepsBalance
<1>7. ASSUME UNCHANGED <<messageRoles, sse, said>>, UpdatesOf(Told', t) = UpdatesOf(Told, t)
      PROVE  Balanced(t)'
  BY <1>4, <1>7 DEF Balanced
<1>8. ASSUME NEW k \in {"Working", "Blocked"}, NEW q \in Turns, Emit(<<Event(k, q)>>), UNCHANGED events
      PROVE  UpdatesOf(Told', t) = UpdatesOf(Told, t)
  <2> DEFINE e == Event(k, q)
  <2>1. e \in DriverEvent /\ e.kind # "Update"
    BY LoopEventTypes DEF Event
  <2> HIDE DEF e
  <2>2. Told' = Append(Told, e)
    BY <1>8, <2>1, EmitTells DEF e
  <2> QED
    BY <1>2, <2>1, <2>2, UpdatesAppend
<1>9. (PromptPosted \/ PollPermission) /\ UNCHANGED managerVars => UpdatesOf(Told', t) = UpdatesOf(Told, t)
  <2>1. UNCHANGED managerVars => UNCHANGED events
    BY DEF managerVars, sessionVars
  <2>2. PromptPosted => \E k \in {"Working", "Blocked"}, q \in Turns : Emit(<<Event(k, q)>>)
    BY <1>2 DEF PromptPosted
  <2>3. PollPermission =>
          UNCHANGED driverEvents \/ \E k \in {"Working", "Blocked"}, q \in Turns : Emit(<<Event(k, q)>>)
    BY <1>2 DEF PollPermission, Transition
  <2>4. UNCHANGED <<events, driverEvents>> => UpdatesOf(Told', t) = UpdatesOf(Told, t)
    BY DEF Told
  <2> QED
    BY <1>8, <2>1, <2>2, <2>3, <2>4
<1>10. \/ (ReadStream \/ OpenCodeStep) /\ UNCHANGED managerVars
       \/ UNCHANGED <<messageRoles, sse, said>>
  <2>1. ASSUME UNCHANGED attachVars
        PROVE  UNCHANGED <<messageRoles, sse, said>>
    BY <2>1 DEF attachVars, loopVars, streamVars, openCodeVars
  <2>2. SharedStep \/ UNCHANGED vars => UNCHANGED attachVars
    BY DEF SharedStep, vars
  <2>3. OwnStep => UNCHANGED <<messageRoles, sse, said>>
    BY DEF OwnStep, InterruptAttached, AnswerRefused, AnswerAttached, InterruptReturns, AnswerReturns,
           attachVars, loopVars, streamVars, openCodeVars
  <2>4. LoopStep => ReadStream \/ UNCHANGED <<messageRoles, sse, said>>
    <3>1. LoopEnds => ~driverUp'
      BY DEF LoopEnds
    <3> QED
      BY <3>1 DEF LoopStep, OpenStream, ConnectFails, PostPrompt, PromptPosted, PostFails, StreamEnds, Abort,
             StartPoll, PollQuestion, PollPermission, streamVars, openCodeVars, polledVars
  <2>5. ServeStep => UNCHANGED <<messageRoles, sse, said>>
    BY <2>1 DEF ServeStep, ServesInterrupt, ServesAnswer, PostLost, loopVars, streamVars
  <2> QED
    BY <2>1, <2>2, <2>3, <2>4, <2>5, AttachSteps DEF Next
<1>11. UpdatesOf(Told', t) = UpdatesOf(Told, t) \/ (ReadStream /\ UNCHANGED managerVars)
  BY <1>9, WhatTells
<1> QED
  BY <1>5, <1>6, <1>7, <1>10, <1>11

\* What the session is told of a turn is what the agent said in it, all of it and nothing the
\* operator typed, however reading the stream and the turns of OpenCode interleave.
THEOREM UpdatesAreOfTheAgent == Spec => []UpdatesAreTheAgents
<1>1. Init => UpdatesAreTheAgents
  <2> SUFFICES ASSUME Init, NEW t \in Turns PROVE Balanced(t)
    BY UpdatesBalanced
  <2>1. events = <<>> /\ driverEvents = <<>> /\ sse = <<>> /\ said[t] = 0
    BY DEF Init, ManagerInit, PortInit, AttachInit
  <2>2. /\ <<>> \o <<>> = <<>> /\ \A x : Occurrences(<<>>, x) = {}
    BY DEF Occurrences
  <2>3. StreamedOf(messageRoles, <<>>, t) = {}
    BY <2>2 DEF StreamedOf
  <2>4. UpdatesOf(Told, t) = 0 /\ ToTell(messageRoles, sse, t) = 0
    BY <2>1, <2>2, <2>3, FS_EmptySet DEF UpdatesOf, ToTell, Told
  <2> QED
    BY <2>1, <2>4 DEF Balanced
<1> QED
  BY <1>1, UpdatesStep, AttachInvAlways, PTL DEF Spec

===============================================================================
