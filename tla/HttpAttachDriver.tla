--------------------------- MODULE HttpAttachDriver ---------------------------
(***************************************************************************)
(* src/src/http_attach_driver.rs: the background task of one attached       *)
(* session, run_http_loop, the flag and the pending request it shares with   *)
(* the calls made on the driver, and (external) the OpenCode process it      *)
(* reaches over HTTP.  The operator may type into the same OpenCode session. *)
(* Only this session's part of the global event stream and of the question  *)
(* and permission lists is kept: the rest is skipped by the session id.      *)
(***************************************************************************)
EXTENDS DriverPort

CONSTANTS
  MaxForeign,   \* bound: turns the operator starts in the session (0 or 1)
  MaxTexts,     \* bound: text parts OpenCode streams
  MaxRequests,  \* bound: questions and permission requests it raises
  MaxMisses     \* bound: lists of them that cannot be had although OpenCode is up

ASSUME AttachBoundsAssumption ==
  MaxForeign \in 0..1 /\ MaxTexts \in Nat /\ MaxRequests \in Nat /\ MaxMisses \in Nat

VARIABLES
  httpPc,              \* what run_http_loop awaits
  prompting,           \* the prompt whose POST it awaits
  found,               \* poll_pending_block: what the question list said
  interruptRequested,  \* the driver's interrupt_requested flag
  pendingBlock,        \* the driver's pending_block
  messageRoles,        \* the assistant messages in message_roles, by turn
  sse,                 \* bytes of the event stream the loop has not read
  streaming,           \* external: the event stream is open
  openCodeUp,          \* external: OpenCode answers requests
  openCodeQueue,       \* external: turns it has yet to start
  running,             \* external: the turn it is working on
  interrupted,         \* external: the turns an interrupt request reached
  pending,             \* external: the questions and permissions it waits for
  foreign, texts, requests, misses,  \* external: how many there were
  posted,              \* history: the prompts whose POST reached OpenCode, in order
  said                 \* history: texts streamed of announced assistant messages, by turn

loopVars     == <<httpPc, prompting, found, messageRoles>>
sharedVars   == <<interruptRequested, pendingBlock>>
openCodeVars == <<openCodeUp, openCodeQueue, running, interrupted, pending, foreign, texts,
                  requests, misses, posted, said>>
streamVars   == <<sse, streaming>>
attachVars   == <<loopVars, sharedVars, streamVars, openCodeVars>>

RequestKinds == {"Question", "Permission"}
PendingBlock == [kind : RequestKinds, id : 1..MaxRequests]
NoRequest    == [kind |-> "None", id |-> 0]

\* An event of the stream.  "by" is the role of the message it is about.
StreamKinds == {"MessageUpdated", "PartUpdated", "Busy", "SessionIdle"}
StreamEvent == [kind : StreamKinds, turn : Turns, by : {"assistant", "user"}]
OcEvent(kind, t, by) == [kind |-> kind, turn |-> t, by |-> by]

AttachInit ==
  /\ httpPc = "connecting" /\ prompting = NoTurn /\ found = NoRequest
  /\ interruptRequested = FALSE /\ pendingBlock = NoRequest
  /\ messageRoles = {}
  /\ sse = <<>> /\ streaming = FALSE
  /\ openCodeUp = TRUE /\ openCodeQueue = <<>>
  /\ running \in IF MaxForeign = 0 THEN {{}} ELSE {{}, {NoTurn}}
  /\ interrupted = {} /\ pending = {}
  /\ foreign = IF running = {} THEN 0 ELSE 1
  /\ texts = 0 /\ requests = 0 /\ misses = 0
  /\ posted = <<>> /\ said = [t \in Turns |-> 0]

AttachTypeOK ==
  /\ httpPc \in {"connecting", "select", "posting", "posted", "questions", "permissions", "ended"}
  /\ prompting \in Turns
  /\ found \in PendingBlock \cup {NoRequest} /\ pendingBlock \in PendingBlock \cup {NoRequest}
  /\ interruptRequested \in BOOLEAN
  /\ messageRoles \subseteq Turns
  /\ sse \in Seq(StreamEvent) /\ streaming \in BOOLEAN
  /\ openCodeUp \in BOOLEAN /\ openCodeQueue \in Seq(Turns)
  /\ running \subseteq Turns /\ interrupted \subseteq Turns
  /\ pending \subseteq PendingBlock
  /\ foreign \in 0..MaxForeign /\ texts \in 0..MaxTexts
  /\ requests \in 0..MaxRequests /\ misses \in 0..MaxMisses
  /\ posted \in Seq(Prompts) /\ said \in [Turns -> 0..MaxTexts]

-------------------------------------------------------------------------------
(* run_http_loop.                                                            *)

\* return: both channel ends go, and the event stream with them.
LoopEnds ==
  /\ driverUp' = FALSE
  /\ driverCommands' = <<>>
  /\ httpPc' = "ended"
  /\ prompting' = NoTurn /\ found' = NoRequest
  /\ messageRoles' = {}
  /\ sse' = <<>> /\ streaming' = FALSE
  /\ UNCHANGED <<driverEvents, driverClosed, sharedVars, openCodeVars>>

Emit(es) == driverEvents' = driverEvents \o es

OpenStream ==
  /\ httpPc = "connecting"
  /\ openCodeUp
  /\ httpPc' = "select"
  /\ streaming' = TRUE
  /\ UNCHANGED <<portVars, prompting, found, messageRoles, sharedVars, sse, openCodeVars>>

ConnectFails == httpPc = "connecting" /\ LoopEnds

PostPrompt ==
  /\ httpPc = "select"
  /\ driverCommands # <<>>
  /\ driverCommands' = Tail(driverCommands)
  /\ prompting' = Head(driverCommands).turn
  /\ httpPc' = "posting"
  /\ UNCHANGED <<driverEvents, driverUp, driverClosed, found, messageRoles, sharedVars,
                 streamVars, openCodeVars>>

\* Mutant: an answered POST is followed by the same POST again.
PromptPostedTwice ==
  /\ httpPc = "posted"
  /\ \/ httpPc' = "select" /\ prompting' = NoTurn
     \/ httpPc' = "posting" /\ UNCHANGED prompting
  /\ Emit(<<Event("Working", prompting)>>)
  /\ UNCHANGED <<driverCommands, driverUp, driverClosed, found, messageRoles, sharedVars,
                 streamVars, openCodeVars>>

\* The response arrived: the code looks at no status.
PromptPosted ==
  /\ httpPc = "posted"
  /\ httpPc' = "select" /\ prompting' = NoTurn
  /\ Emit(<<Event("Working", prompting)>>)
  /\ UNCHANGED <<driverCommands, driverUp, driverClosed, found, messageRoles, sharedVars,
                 streamVars, openCodeVars>>

\* The POST fails in transport, before or after OpenCode took it.
PostFails == httpPc \in {"posting", "posted"} /\ LoopEnds

\* The stream ends or breaks: what of it was not read is lost.
StreamEnds == httpPc = "select" /\ ~streaming /\ LoopEnds

\* HttpAttachDriver::shutdown aborts the task wherever it is.
Abort == driverUp /\ driverClosed /\ LoopEnds

-------------------------------------------------------------------------------
(* handle_event, one event of this session at a time.                        *)

ReadEvent(kind) ==
  /\ httpPc = "select"
  /\ sse # <<>> /\ Head(sse).kind = kind
  /\ sse' = Tail(sse)
  /\ UNCHANGED <<driverCommands, driverUp, driverClosed, httpPc, prompting, found, pendingBlock,
                 streaming, openCodeVars>>

MessageUpdated ==
  /\ ReadEvent("MessageUpdated")
  /\ messageRoles' = IF Head(sse).by = "assistant" THEN messageRoles \cup {Head(sse).turn}
                                                   ELSE messageRoles
  /\ UNCHANGED <<driverEvents, interruptRequested>>

\* Mutant: whoever the message is by.
IsAnyText(e) == e.turn \in messageRoles

\* The part's message is known to be the assistant's.
IsAssistantText(e) == e.by = "assistant" /\ e.turn \in messageRoles

PartUpdated ==
  /\ ReadEvent("PartUpdated")
  /\ IF IsAssistantText(Head(sse)) THEN Emit(<<Event("Update", Head(sse).turn)>>)
                                   ELSE UNCHANGED driverEvents
  /\ UNCHANGED <<messageRoles, interruptRequested>>

StatusBusy ==
  /\ ReadEvent("Busy")
  /\ Emit(<<Event("Working", Head(sse).turn)>>)
  /\ UNCHANGED <<messageRoles, interruptRequested>>

\* Mutant: the flag is loaded, not swapped.
SessionIdleKeepsFlag ==
  /\ ReadEvent("SessionIdle")
  /\ LET t == Head(sse).turn IN
       Emit(<<Event("Idle", t), Event(IF interruptRequested THEN "Cancelled" ELSE "EndTurn", t)>>)
  /\ UNCHANGED <<messageRoles, interruptRequested>>

SessionIdle ==
  /\ ReadEvent("SessionIdle")
  /\ interruptRequested' = FALSE
  /\ LET t == Head(sse).turn IN
       Emit(<<Event("Idle", t), Event(IF interruptRequested THEN "Cancelled" ELSE "EndTurn", t)>>)
  /\ UNCHANGED messageRoles

ReadStream == MessageUpdated \/ PartUpdated \/ StatusBusy \/ SessionIdle

-------------------------------------------------------------------------------
(* poll_pending_block.  A list that cannot be had, or does not parse, reads   *)
(* as one with nothing in it.                                                *)

\* What the list of the requests of kind k says of the session.
Listed(k) == LET rs == {r \in pending : r.kind = k} IN IF rs = {} THEN {NoRequest} ELSE rs

\* r was heard of the requests of kind k.
Heard(k, r) ==
  \/ openCodeUp /\ r \in Listed(k) /\ UNCHANGED misses
  \/ openCodeUp /\ misses < MaxMisses /\ r = NoRequest /\ misses' = misses + 1
  \/ ~openCodeUp /\ r = NoRequest /\ UNCHANGED misses

polledVars == <<openCodeUp, openCodeQueue, running, interrupted, pending, foreign, texts,
                requests, posted, said>>

\* With no request to find a poll leaves no trace, and is left out.
StartPoll ==
  /\ httpPc = "select" /\ MaxRequests > 0
  /\ httpPc' = "questions"
  /\ UNCHANGED <<portVars, prompting, found, messageRoles, sharedVars, streamVars, openCodeVars>>

PollQuestion ==
  /\ httpPc = "questions"
  /\ httpPc' = "permissions"
  /\ \E r \in PendingBlock \cup {NoRequest} : Heard("Question", r) /\ found' = r
  /\ UNCHANGED <<portVars, prompting, messageRoles, sharedVars, streamVars, polledVars>>

\* Mutant: the transition out of blocked is stored and not told.
TransitionInOnly(r) ==
  IF r = NoRequest THEN UNCHANGED driverEvents ELSE Emit(<<Event("Blocked", NoTurn)>>)

\* The event of a change of the pending request to r.
Transition(r) ==
  Emit(<<Event(IF r = NoRequest THEN "Working" ELSE "Blocked", NoTurn)>>)

\* Mutant: one question is taken for another.
PollPermissionByKind ==
  /\ httpPc = "permissions"
  /\ httpPc' = "select" /\ found' = NoRequest
  /\ \E p \in PendingBlock \cup {NoRequest} :
       LET r == IF found # NoRequest THEN found ELSE p IN
         /\ Heard("Permission", p)
         /\ IF r.kind = pendingBlock.kind THEN UNCHANGED <<pendingBlock, driverEvents>>
                                          ELSE pendingBlock' = r /\ Transition(r)
  /\ UNCHANGED <<driverCommands, driverUp, driverClosed, prompting, messageRoles,
                 interruptRequested, streamVars, polledVars>>

\* question.or(permission), compared with what is stored.
PollPermission ==
  /\ httpPc = "permissions"
  /\ httpPc' = "select" /\ found' = NoRequest
  /\ \E p \in PendingBlock \cup {NoRequest} :
       LET r == IF found # NoRequest THEN found ELSE p IN
         /\ Heard("Permission", p)
         /\ pendingBlock' = r
         /\ IF r.id = pendingBlock.id THEN UNCHANGED driverEvents ELSE Transition(r)
  /\ UNCHANGED <<driverCommands, driverUp, driverClosed, prompting, messageRoles,
                 interruptRequested, streamVars, polledVars>>

LoopStep ==
  \/ OpenStream \/ ConnectFails \/ PostPrompt \/ PromptPosted \/ PostFails \/ StreamEnds \/ Abort
  \/ ReadStream \/ StartPoll \/ PollQuestion \/ PollPermission

-------------------------------------------------------------------------------
(* OpenCode (external): one turn at a time, prompts queued behind it.  What    *)
(* it streams reaches the loop only through an open stream.                  *)

Stream(es) == sse' = IF streaming THEN sse \o es ELSE sse

\* prompt_async: taken or refused, whatever the status says.
TakesPrompt ==
  /\ openCodeUp /\ httpPc = "posting"
  /\ httpPc' = "posted"
  /\ posted' = Append(posted, prompting)
  /\ openCodeQueue' \in {Append(openCodeQueue, prompting), openCodeQueue}
  /\ UNCHANGED <<portVars, prompting, found, messageRoles, sharedVars, streamVars, openCodeUp,
                 running, interrupted, pending, foreign, texts, requests, misses, said>>

OperatorPrompts ==
  /\ openCodeUp /\ foreign < MaxForeign
  /\ foreign' = foreign + 1
  /\ openCodeQueue' = Append(openCodeQueue, NoTurn)
  /\ UNCHANGED <<portVars, loopVars, sharedVars, streamVars, openCodeUp, running, interrupted,
                 pending, texts, requests, misses, posted, said>>

TurnStarts ==
  /\ openCodeUp /\ running = {} /\ openCodeQueue # <<>>
  /\ LET t == Head(openCodeQueue) IN
       /\ running' = {t}
       /\ Stream(<<OcEvent("PartUpdated", t, "user"), OcEvent("Busy", t, "assistant"),
                   OcEvent("MessageUpdated", t, "assistant")>>)
  /\ openCodeQueue' = Tail(openCodeQueue)
  /\ UNCHANGED <<portVars, loopVars, sharedVars, streaming, openCodeUp, interrupted, pending,
                 foreign, texts, requests, misses, posted, said>>

\* The stream has carried the announcement of t's assistant message.
Announced(t) ==
  \/ t \in messageRoles
  \/ \E i \in 1..Len(sse) : sse[i] = OcEvent("MessageUpdated", t, "assistant")

TurnStreams ==
  /\ openCodeUp /\ texts < MaxTexts
  /\ texts' = texts + 1
  /\ \E t \in running :
       /\ \E by \in {"assistant", "user"} :
            /\ Stream(<<OcEvent("PartUpdated", t, by)>>)
            /\ said' = IF by = "assistant" /\ streaming /\ Announced(t)
                       THEN [said EXCEPT ![t] = @ + 1] ELSE said
  /\ UNCHANGED <<portVars, loopVars, sharedVars, streaming, openCodeUp, openCodeQueue, running,
                 interrupted, pending, foreign, requests, misses, posted>>

TurnAsks ==
  /\ openCodeUp /\ running # {} /\ requests < MaxRequests
  /\ requests' = requests + 1
  /\ \E k \in RequestKinds :
       /\ Listed(k) = {NoRequest}
       /\ pending' = pending \cup {[kind |-> k, id |-> requests + 1]}
  /\ UNCHANGED <<portVars, loopVars, sharedVars, streamVars, openCodeUp, openCodeQueue, running,
                 interrupted, foreign, texts, misses, posted, said>>

\* Answered in OpenCode itself, or withdrawn.
RequestResolved ==
  /\ openCodeUp
  /\ \E r \in pending : pending' = pending \ {r}
  /\ UNCHANGED <<portVars, loopVars, sharedVars, streamVars, openCodeUp, openCodeQueue, running,
                 interrupted, foreign, texts, requests, misses, posted, said>>

\* An interrupted turn may end without ever reporting session.idle.
TurnEnds ==
  /\ openCodeUp /\ running # {} /\ pending = {}
  /\ running' = {}
  /\ \/ \E t \in running : Stream(<<OcEvent("SessionIdle", t, "assistant")>>)
     \/ running \subseteq interrupted /\ UNCHANGED sse
  /\ UNCHANGED <<portVars, loopVars, sharedVars, streaming, openCodeUp, openCodeQueue,
                 interrupted, pending, foreign, texts, requests, misses, posted, said>>

StreamBreaks ==
  /\ streaming
  /\ streaming' = FALSE
  /\ UNCHANGED <<portVars, loopVars, sharedVars, sse, openCodeVars>>

OpenCodeDies ==
  /\ openCodeUp
  /\ openCodeUp' = FALSE /\ streaming' = FALSE
  /\ running' = {} /\ pending' = {} /\ openCodeQueue' = <<>>
  /\ UNCHANGED <<portVars, loopVars, sharedVars, sse, interrupted, foreign, texts, requests,
                 misses, posted, said>>

OpenCodeStep ==
  TakesPrompt \/ OperatorPrompts \/ TurnStarts \/ TurnStreams \/ TurnAsks \/ RequestResolved
    \/ TurnEnds \/ StreamBreaks \/ OpenCodeDies
===============================================================================
