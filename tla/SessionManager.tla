---------------------------- MODULE SessionManager ----------------------------
(***************************************************************************)
(* src/src/session_manager.rs for one session: the calls its only caller,   *)
(* connection::session_loop, makes on SessionManager, and run_session, the  *)
(* task that owns the session's busy flag, prompt queue, blocked flag and   *)
(* interrupt stall deadline.  The other side of the driver is left to the   *)
(* module that composes this one with a driver.                             *)
(***************************************************************************)
EXTENDS DriverPort

CONSTANTS
  Calls,     \* the awaited calls the caller makes, a subset of AwaitedCalls
  MaxCalls   \* bound: how many awaited calls a behaviour may make

AwaitedCalls == {"Interrupt", "Answer", "IsBusy", "IsBlocked"}

ASSUME CallsAssumption == Calls \subseteq AwaitedCalls /\ MaxCalls \in Nat

VARIABLES
  commands,     \* ManagerCommands sent, not yet received by run_session
  sent,         \* how many prompts SessionManager::prompt has accepted
  calls,        \* how many awaited calls were made
  call,         \* the awaited call in progress, or "none"
  reply,        \* what the last awaited call returned
  closed,       \* SessionManager::shutdown dropped the command sender
  queue,        \* run_session: prompts waiting for the turn in flight to end
  busy,         \* run_session: a turn is in flight
  blocked,      \* run_session: the last status the driver reported is Blocked
  driverAlive,  \* run_session: driver.next_event() has not returned None
  deadline,     \* run_session: interrupt_deadline is armed
  managerPc,    \* run_session: in its select!, awaiting a POST, in shutdown(), or returned
  events,       \* every DriverEvent run_session sent to the connection, in order
  forced        \* history: the stall timeout has cleared a turn

callerVars  == <<sent, calls, closed>>
awaitVars   == <<call, reply>>
sessionVars == <<queue, busy, blocked, driverAlive, deadline, managerPc, events, forced>>
managerVars == <<commands, callerVars, awaitVars, sessionVars>>

ManagerCommand == [kind : {"Prompt"}, turn : Prompts] \cup [kind : AwaitedCalls, turn : {NoTurn}]
Replies == {"none", "Cancelled", "NoTurnInFlight", "Disconnected", "AnswerUnsupported",
            "Answered", "NoPendingAnswer", "HttpError", "yes", "no"}

ManagerInit ==
  /\ commands = <<>>
  /\ sent = 0 /\ calls = 0 /\ closed = FALSE
  /\ call = "none" /\ reply = "none"
  /\ queue = <<>>
  /\ busy = FALSE /\ blocked = FALSE
  /\ driverAlive = TRUE
  /\ deadline = FALSE
  /\ managerPc = "running"
  /\ events = <<>>
  /\ forced = FALSE

ManagerTypeOK ==
  /\ commands \in Seq(ManagerCommand)
  /\ sent \in 0..MaxPrompts
  /\ calls \in 0..MaxCalls
  /\ closed \in BOOLEAN
  /\ call \in {"none"} \cup AwaitedCalls
  /\ reply \in Replies
  /\ queue \in Seq(Prompts)
  /\ busy \in BOOLEAN /\ blocked \in BOOLEAN
  /\ driverAlive \in BOOLEAN
  /\ deadline \in BOOLEAN
  /\ managerPc \in {"running", "interrupting", "answering", "stopping", "stopped"}
  /\ events \in Seq(DriverEvent)
  /\ forced \in BOOLEAN

-------------------------------------------------------------------------------
(* The caller.  session_loop is one task: it makes one call at a time and    *)
(* waits for the answer of every call but prompt.                            *)

Prompt ==
  /\ ~closed /\ call = "none"
  /\ sent < MaxPrompts
  /\ sent' = sent + 1
  /\ commands' = Append(commands, [kind |-> "Prompt", turn |-> sent + 1])
  /\ UNCHANGED <<calls, closed, awaitVars, sessionVars, portVars>>

Await(k) ==
  /\ ~closed /\ call = "none"
  /\ calls < MaxCalls
  /\ calls' = calls + 1
  /\ call' = k /\ reply' = "none"
  /\ commands' = Append(commands, [kind |-> k, turn |-> NoTurn])
  /\ UNCHANGED <<sent, closed, sessionVars, portVars>>

\* run_run's select! drops session_loop, with any call it awaits, and then
\* calls SessionManager::shutdown.
Shutdown ==
  /\ ~closed
  /\ closed' = TRUE
  /\ call' = "none"
  /\ UNCHANGED <<commands, sent, calls, reply, sessionVars, portVars>>

-------------------------------------------------------------------------------
(* run_session.                                                              *)

\* The command arm of either loop receives a command of kind k.
Receive(k) ==
  /\ managerPc = "running"
  /\ commands # <<>> /\ Head(commands).kind = k
  /\ commands' = Tail(commands)

\* reply_tx.send(r): lost when the caller is gone.
Return(r) ==
  /\ call' = "none"
  /\ reply' = IF call = "none" THEN reply ELSE r

\* Mutant: busy is left to the driver's first event.
HandOverNotBusy(p) ==
  /\ driverCommands' = IF driverUp THEN Append(driverCommands, PromptCommand(p))
                                   ELSE driverCommands
  /\ busy' = FALSE
  /\ driverAlive' = (driverAlive /\ driverUp)

\* driver.prompt(text) and the two ways run_session takes its result.
HandOver(p) ==
  /\ driverCommands' = IF driverUp THEN Append(driverCommands, PromptCommand(p))
                                   ELSE driverCommands
  /\ busy' = driverUp
  /\ driverAlive' = (driverAlive /\ driverUp)

\* Mutant: the deadline outlives the turn it was armed for.
TurnOverKeepsDeadline ==
  /\ UNCHANGED deadline
  /\ \/ /\ queue = <<>>
        /\ busy' = FALSE
        /\ UNCHANGED <<queue, driverAlive, driverCommands>>
     \/ /\ queue # <<>>
        /\ queue' = Tail(queue)
        /\ HandOver(Head(queue))

\* Mutant: the end of a turn starts nothing, the queue waits for the next prompt.
TurnOverKeepsQueue ==
  /\ deadline' = FALSE
  /\ busy' = FALSE
  /\ UNCHANGED <<queue, driverAlive, driverCommands>>

\* The turn in flight is over: disarm the deadline, start the next prompt.
TurnOver ==
  /\ deadline' = FALSE
  /\ \/ /\ queue = <<>>
        /\ busy' = FALSE
        /\ UNCHANGED <<queue, driverAlive, driverCommands>>
     \/ /\ queue # <<>>
        /\ queue' = Tail(queue)
        /\ HandOver(Head(queue))

StartPrompt ==
  /\ Receive("Prompt")
  /\ driverAlive /\ ~busy
  /\ HandOver(Head(commands).turn)
  /\ UNCHANGED <<callerVars, awaitVars, queue, blocked, deadline, managerPc, events, forced,
                 driverEvents, driverUp, driverClosed>>

\* Mutant: push_front for push_back.
QueuedInFront(p) == <<p>> \o queue

\* queue.push_back(p)
Queued(p) == Append(queue, p)

QueuePrompt ==
  /\ Receive("Prompt")
  /\ driverAlive /\ busy
  /\ queue' = Queued(Head(commands).turn)
  /\ UNCHANGED <<callerVars, awaitVars, busy, blocked, driverAlive, deadline, managerPc,
                 events, forced, portVars>>

\* Once the driver's connection ended: Some(ManagerCommand::Prompt(_)) => {}.
DropPrompt ==
  /\ Receive("Prompt")
  /\ ~driverAlive
  /\ UNCHANGED <<callerVars, awaitVars, sessionVars, portVars>>

InterruptIdle ==
  /\ Receive("Interrupt")
  /\ ~busy
  /\ Return("NoTurnInFlight")
  /\ UNCHANGED <<callerVars, sessionVars, portVars>>

\* attempt_cancel for a spawned session.  Without an HTTP fallback base URL
\* (main.rs always passes None) a cancel the driver's task can no longer take
\* is Err(Disconnected).
AttemptCancel ==
  /\ Return(IF driverUp THEN "Cancelled" ELSE "Disconnected")
  /\ driverCommands' = IF driverUp THEN Append(driverCommands, CancelCommand)
                                   ELSE driverCommands

\* Only the loop that still has a driver arms the deadline.
InterruptTurn ==
  /\ Receive("Interrupt")
  /\ busy
  /\ AttemptCancel
  /\ deadline' = (deadline \/ (driverAlive /\ driverUp))
  /\ UNCHANGED <<callerVars, queue, busy, blocked, driverAlive, managerPc, events, forced,
                 driverEvents, driverUp, driverClosed>>

\* Mutant: reply_tx is kept and never used.
AnswerLost ==
  /\ Receive("Answer")
  /\ UNCHANGED <<callerVars, awaitVars, sessionVars, portVars>>

AnswerAcp ==
  /\ Receive("Answer")
  /\ Return("AnswerUnsupported")
  /\ UNCHANGED <<callerVars, sessionVars, portVars>>

TellFlag ==
  /\ \/ Receive("IsBusy") /\ Return(IF busy THEN "yes" ELSE "no")
     \/ Receive("IsBlocked") /\ Return(IF blocked THEN "yes" ELSE "no")
  /\ UNCHANGED <<callerVars, sessionVars, portVars>>

\* Mutant: an Idle status ends the turn too.
EndsTurnOrIdle(e) == e.kind \in StopKinds \cup {"Idle"}

EndsTurn(e) == e.kind \in StopKinds

\* The event arm receives e: mirror a status, forward e, and end the turn on a stop.
TakeEvent ==
  /\ managerPc = "running" /\ driverAlive
  /\ driverEvents # <<>>
  /\ LET e == Head(driverEvents) IN
       /\ driverEvents' = Tail(driverEvents)
       /\ blocked' = IF e.kind \in StatusKinds THEN e.kind = "Blocked" ELSE blocked
       /\ events' = Append(events, e)
       /\ \/ EndsTurn(e) /\ TurnOver
          \/ /\ ~EndsTurn(e)
             /\ UNCHANGED <<queue, busy, driverAlive, deadline, driverCommands>>
  /\ UNCHANGED <<commands, callerVars, awaitVars, managerPc, forced, driverUp, driverClosed>>

\* driver.next_event() returns None: the task ended and its events are drained.
DriverGone ==
  /\ managerPc = "running" /\ driverAlive
  /\ ~driverUp /\ driverEvents = <<>>
  /\ driverAlive' = FALSE
  /\ UNCHANGED <<commands, callerVars, awaitVars, queue, busy, blocked, deadline, managerPc,
                 events, forced, portVars>>

\* INTERRUPT_STALL_TIMEOUT after the last acked interrupt, still no stop.
StallTimeout ==
  /\ managerPc = "running" /\ driverAlive
  /\ deadline
  /\ TurnOver
  /\ forced' = TRUE
  /\ UNCHANGED <<commands, callerVars, awaitVars, blocked, managerPc, events,
                 driverEvents, driverUp, driverClosed>>

\* command_rx.recv() returns None: leave the loop and call driver.shutdown().
StopManager ==
  /\ managerPc = "running"
  /\ closed /\ commands = <<>>
  /\ managerPc' = "stopping"
  /\ driverClosed' = TRUE
  /\ UNCHANGED <<commands, callerVars, awaitVars, queue, busy, blocked, driverAlive, deadline,
                 events, forced, driverCommands, driverEvents, driverUp>>

\* driver.shutdown() returns once the driver's task has ended.
ManagerStopped ==
  /\ managerPc = "stopping"
  /\ ~driverUp
  /\ managerPc' = "stopped"
  /\ UNCHANGED <<commands, callerVars, awaitVars, queue, busy, blocked, driverAlive, deadline,
                 events, forced, portVars>>

CallerStep == Prompt \/ (\E k \in Calls : Await(k)) \/ Shutdown

ReceiveStep ==
  StartPrompt \/ QueuePrompt \/ DropPrompt \/ InterruptIdle \/ InterruptTurn
    \/ AnswerAcp \/ TellFlag \/ StopManager

ManagerStep == ReceiveStep \/ TakeEvent \/ DriverGone \/ StallTimeout \/ ManagerStopped
===============================================================================
