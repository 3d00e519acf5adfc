----------------------------- MODULE AttachSession -----------------------------
(***************************************************************************)
(* One attach-mode session: the caller, run_session, the attach driver's     *)
(* loop and OpenCode.  run_session's interrupt and answer arms await a POST  *)
(* of their own, which bypasses the driver's loop: while it is on its way    *)
(* run_session does nothing else, and the loop and OpenCode go on.           *)
(***************************************************************************)
EXTENDS SessionManager, HttpAttachDriver, FiniteSets

VARIABLES
  post,       \* run_session's own POST: none, sent, ok or failed
  answering,  \* the request that POST answers
  interrupts  \* history: how many interrupts set the driver's flag

postVars == <<post, answering, interrupts>>
vars     == <<portVars, managerVars, attachVars, postVars>>

Init ==
  /\ PortInit /\ ManagerInit /\ AttachInit
  /\ post = "none" /\ answering = NoRequest /\ interrupts = 0

TypeOK ==
  /\ PortTypeOK /\ ManagerTypeOK /\ AttachTypeOK
  /\ post \in {"none", "sent", "ok", "failed"}
  /\ answering \in PendingBlock \cup {NoRequest}
  /\ interrupts \in 0..MaxCalls

-------------------------------------------------------------------------------
(* The arms of run_session that differ for an attached session.              *)

\* HttpAttachDriver::interrupt sets the flag, then posts.
InterruptAttached ==
  /\ Receive("Interrupt")
  /\ busy
  /\ interruptRequested' = TRUE /\ interrupts' = interrupts + 1
  /\ managerPc' = "interrupting" /\ post' = "sent"
  /\ UNCHANGED <<callerVars, awaitVars, queue, busy, blocked, driverAlive, deadline, events,
                 forced, portVars, loopVars, pendingBlock, streamVars, openCodeVars, answering>>

\* Only the loop that still has a driver arms the deadline.
InterruptReturns ==
  /\ managerPc = "interrupting" /\ post \in {"ok", "failed"}
  /\ managerPc' = "running" /\ post' = "none"
  /\ Return(IF post = "ok" THEN "Cancelled" ELSE "HttpError")
  /\ deadline' = (deadline \/ (post = "ok" /\ driverAlive))
  /\ UNCHANGED <<commands, callerVars, queue, busy, blocked, driverAlive, events, forced,
                 portVars, attachVars, answering, interrupts>>

\* Nothing pending, or a choice that resolves to none of its options.
AnswerRefused ==
  /\ Receive("Answer")
  /\ Return("NoPendingAnswer")
  /\ UNCHANGED <<callerVars, sessionVars, portVars, attachVars, postVars>>

AnswerAttached ==
  /\ Receive("Answer")
  /\ pendingBlock # NoRequest
  /\ managerPc' = "answering" /\ post' = "sent" /\ answering' = pendingBlock
  /\ UNCHANGED <<callerVars, awaitVars, queue, busy, blocked, driverAlive, deadline, events,
                 forced, portVars, attachVars, interrupts>>

\* Mutant: a failed POST leaves through ? without an answer to the caller.
AnswerReturnsOnlyOk ==
  /\ managerPc = "answering" /\ post \in {"ok", "failed"}
  /\ managerPc' = "running" /\ post' = "none" /\ answering' = NoRequest
  /\ IF post = "ok" THEN Return("Answered") ELSE UNCHANGED <<call, reply>>
  /\ UNCHANGED <<commands, callerVars, queue, busy, blocked, driverAlive, deadline, events,
                 forced, portVars, attachVars, interrupts>>

\* pending_block is left to the poll.
AnswerReturns ==
  /\ managerPc = "answering" /\ post \in {"ok", "failed"}
  /\ managerPc' = "running" /\ post' = "none" /\ answering' = NoRequest
  /\ Return(IF post = "ok" THEN "Answered" ELSE "HttpError")
  /\ UNCHANGED <<commands, callerVars, queue, busy, blocked, driverAlive, deadline, events,
                 forced, portVars, attachVars, interrupts>>

-------------------------------------------------------------------------------
(* The other end of that POST (external).                                    *)

\* An interrupt frees the turn from what it waits for; 204 comes in any case.
ServesInterrupt ==
  /\ openCodeUp /\ managerPc = "interrupting" /\ post = "sent"
  /\ post' = "ok"
  /\ interrupted' = interrupted \cup running
  /\ pending' = {}
  /\ UNCHANGED <<managerVars, portVars, loopVars, sharedVars, streamVars, openCodeUp,
                 openCodeQueue, running, foreign, texts, requests, misses, posted, said,
                 answering, interrupts>>

\* An id that is not, or no longer, pending is a 404.
ServesAnswer ==
  /\ openCodeUp /\ managerPc = "answering" /\ post = "sent"
  /\ post' = IF answering \in pending THEN "ok" ELSE "failed"
  /\ pending' = pending \ {answering}
  /\ UNCHANGED <<managerVars, portVars, loopVars, sharedVars, streamVars, openCodeUp,
                 openCodeQueue, running, interrupted, foreign, texts, requests, misses, posted, said,
                 answering, interrupts>>

\* Not delivered, refused, or the response was lost.
PostLost ==
  /\ post \in {"sent", "ok"}
  /\ post' = "failed"
  /\ UNCHANGED <<managerVars, portVars, attachVars, answering, interrupts>>

-------------------------------------------------------------------------------
AttachReceiveStep ==
  \/ /\ StartPrompt \/ QueuePrompt \/ DropPrompt \/ InterruptIdle \/ TellFlag \/ StopManager
     /\ UNCHANGED <<attachVars, postVars>>
  \/ InterruptAttached \/ AnswerRefused \/ AnswerAttached

AttachManagerStep ==
  \/ AttachReceiveStep
  \/ InterruptReturns \/ AnswerReturns
  \/ (TakeEvent \/ DriverGone \/ StallTimeout \/ ManagerStopped) /\ UNCHANGED <<attachVars, postVars>>

ServeStep == ServesInterrupt \/ ServesAnswer \/ PostLost

Next ==
  \/ CallerStep /\ UNCHANGED <<attachVars, postVars>>
  \/ AttachManagerStep
  \/ LoopStep /\ UNCHANGED <<managerVars, postVars>>
  \/ OpenCodeStep /\ UNCHANGED <<managerVars, postVars>>
  \/ ServeStep

Spec == Init /\ [][Next]_vars

\* The arms of run_session as in SpawnSession.  OpenCode answers run_session's own
\* POSTs or they fail (the code sets no timeout on them), and the loop, at an await of
\* a request of its own, notices that it is aborted: OpenCode may leave it hanging there.
ManagerArm(a) ==
  \/ a = "command" /\ AttachReceiveStep
  \/ a = "returns" /\ (InterruptReturns \/ AnswerReturns)
  \/ a = "served" /\ ServeStep
  \/ /\ \/ a = "event" /\ TakeEvent
        \/ a = "gone" /\ DriverGone
        \/ a = "stall" /\ StallTimeout
        \/ a = "stopped" /\ ManagerStopped
     /\ UNCHANGED <<attachVars, postVars>>
  \/ a = "abort" /\ Abort /\ UNCHANGED <<managerVars, postVars>>

FairArms == {"command", "returns", "served", "event", "gone", "stall", "stopped", "abort"}

\* The arms of run_http_loop's select!, the tick of its poll among them, are ready again
\* and again, between polls, and are picked at random: strongly fair.
LoopArm(a) ==
  /\ \/ a = "post" /\ (PostPrompt \/ PromptPosted)
     \/ a = "read" /\ (ReadStream \/ StreamEnds)
     \/ a = "poll" /\ StartPoll
  /\ UNCHANGED <<managerVars, postVars>>

LoopArms == {"post", "read", "poll"}

\* OpenCode answers the requests of the driver's loop, or is seen to be down.
ServedArm(a) ==
  /\ \/ a = "lists" /\ (PollQuestion \/ PollPermission)
     \/ a = "stream" /\ OpenStream
     \/ a = "prompt" /\ TakesPrompt
     \/ a = "down" /\ ~openCodeUp /\ (ConnectFails \/ PostFails)
  /\ UNCHANGED <<managerVars, postVars>>

ServedArms == {"lists", "stream", "prompt", "down"}

-------------------------------------------------------------------------------
\* The last of the events es that is a status says Blocked.
SaysBlocked(es) ==
  \E i \in 1..Len(es) : /\ es[i].kind = "Blocked"
                        /\ \A j \in i + 1 .. Len(es) : es[j].kind \notin StatusKinds

\* While run_session still has a driver, prompts wait in its queue only behind a
\* turn, and the stall deadline is armed only during one: also when the turn ended
\* while run_session was waiting for the interrupt's response (session_manager.rs:464-482).
QueueOnlyBehindATurn ==
  driverAlive => /\ queue # <<>> => busy
                 /\ deadline => busy

\* Blocked is never a false alarm of the client's own making: whenever the last status
\* on its way to the connection says Blocked, pending_block holds a request an answer
\* can be sent to; and the flag is_blocked returns is the last status taken
\* (poll_pending_block, http_attach_driver.rs:767-808, session_manager.rs:500-506).
BlockedHasARequest ==
  /\ SaysBlocked(events \o driverEvents) => pendingBlock # NoRequest
  /\ blocked = SaysBlocked(events)

\* One interrupt labels at most one stop: over any interleaving of interrupts, idles
\* and failed POSTs there are no more Cancelled stops than interrupts
\* (http_attach_driver.rs:152-157, 902-911).
CancelsCounted ==
  Cardinality(Positions(events \o driverEvents, {"Cancelled"}))
    + (IF interruptRequested THEN 1 ELSE 0) <= interrupts

\* OpenCode is sent each prompt at most once and in the order they were accepted,
\* whatever ends, fails or is forced in between.
PromptsPostedInOrder ==
  \A i, j \in 1..Len(posted) : i < j => posted[i] < posted[j]

\* Where the message m is among ms.
Occurrences(ms, m) == {i \in 1..Len(ms) : ms[i] = m}

\* What the session is told of a turn is what the agent said in it, all of it and
\* nothing the operator typed: the texts forwarded and those still in the stream are
\* the texts of the assistant's messages the stream announced.
UpdatesAreTheAgents ==
  LET forwarded(t) == Occurrences(events \o driverEvents, Event("Update", t))
      streamed(t)  == {i \in Occurrences(sse, OcEvent("PartUpdated", t, "assistant")) :
                         \/ t \in messageRoles
                         \/ \E j \in Occurrences(sse, OcEvent("MessageUpdated", t, "assistant")) :
                              j < i}
  IN  driverUp => \A t \in Turns :
        said[t] = Cardinality(forwarded(t)) + Cardinality(streamed(t))

\* Every awaited call returns, as long as its POST is answered or fails.
CallsReturn == (call # "none") ~> (call = "none")

\* SessionManager::shutdown returns although OpenCode leaves the loop's own requests
\* hanging, and leaves OpenCode running.
ShutdownCompletes == closed ~> (managerPc = "stopped" /\ ~driverUp)

\* What the stall timeout is for (session_manager.rs:59-70): after an acked interrupt
\* the prompt first in the queue goes out, even if OpenCode never reports the turn's end.
InterruptFreesQueue ==
  \A p \in Prompts :
    (deadline /\ queue # <<>> /\ Head(queue) = p)
      ~> ((\E i \in 1..Len(posted) : posted[i] = p) \/ ~driverUp \/ closed)

\* A question or permission that stays pending is found by the poll, also when another
\* one was resolved and it raised between two polls.
RequestNoticed ==
  (pending # {}) ~> (pending = {} \/ pendingBlock \in pending \/ ~driverUp)

\* The documented meaning of is_blocked (session_manager.rs:355-356): the session is
\* currently blocked on a question or permission.  So once the poll has stored one
\* and its events are taken, the flag says so.
BlockedMeansPending ==
  pendingBlock # NoRequest /\ driverUp /\ driverEvents = <<>> => blocked

===============================================================================
