--------------------------- MODULE SpawnRelay_proofs ---------------------------
(***************************************************************************)
(* Theorems about SpawnRelay for every value of its constants.              *)
(***************************************************************************)
EXTENDS SpawnRelay, SpawnSession_proofs

\* Every step of the connection is a step of SpawnSession's caller, or leaves the
\* session alone.
LEMMA RelayStepIsCallerStep ==
  ASSUME RelayStep
  PROVE  CallerStep \/ UNCHANGED <<managerVars, portVars>>
<1>1. CASE Connect \/ Resync
  BY <1>1, ConnectCallsAssumption DEF Connect, Resync, CallerStep
<1>2. CASE PromptFrame
  BY <1>2 DEF PromptFrame, CallerStep
<1>3. CASE InterruptFrame
  BY <1>3 DEF InterruptFrame, CallerStep
<1>4. CASE GoLive \/ Drop \/ TakeReplyEvent \/ Flush
  BY <1>4 DEF GoLive, Drop, TakeReplyEvent, Flush
<1> QED
  BY <1>1, <1>2, <1>3, <1>4 DEF RelayStep

\* Behind a connection, the session does only what SpawnSession lets it do
\* (connection.rs:763-843 are the only calls made on it).
THEOREM RelayedSession == RelayedSpec => SessionSpec
<1>1. RelayedInit => Init
  BY DEF RelayedInit
<1>2. ASSUME [RelayedNext]_relayedVars
      PROVE  [Next]_vars
  <2>1. CASE RelayStep /\ UNCHANGED acpVars
    BY <2>1, RelayStepIsCallerStep DEF Next, vars
  <2>2. CASE Shutdown /\ UNCHANGED <<acpVars, relayVars>>
    BY <2>2 DEF Next, CallerStep
  <2>3. CASE ManagerStep /\ UNCHANGED <<acpVars, relayVars>>
    BY <2>3 DEF Next
  <2>4. CASE DriverStep /\ UNCHANGED <<managerVars, relayVars>>
    BY <2>4 DEF Next
  <2>5. CASE AgentStep /\ UNCHANGED <<managerVars, relayVars>>
    BY <2>5 DEF Next
  <2>6. CASE UNCHANGED relayedVars
    BY <2>6 DEF relayedVars
  <2> QED
    BY <1>2, <2>1, <2>2, <2>3, <2>4, <2>5, <2>6 DEF RelayedNext
<1> QED
  BY <1>1, <1>2, PTL DEF RelayedSpec, SessionSpec, Spec

-------------------------------------------------------------------------------
(* Type correctness. *)

\* A connection that is up has a number.
ConnectionCounted == phase # "down" => connections \in 1..MaxConnections

\* What the connection's own type correctness rests on.
RelayInv == RelayTypeOK /\ ConnectionCounted

\* The client starts disconnected, with nothing batched and nothing sent.
LEMMA RelayTypeInit == RelayedInit => RelayInv
<1>1. SUFFICES ASSUME RelayedInit
               PROVE  RelayInv
  OBVIOUS
<1>2. /\ buffer = <<>> /\ replies = <<>> /\ promptedOn = <<>> /\ events = <<>> /\ sent = 0
      /\ phase = "down" /\ connections = 0 /\ lastPromptId = 0 /\ read = 0 /\ since = 0
      /\ overlapped = FALSE
  BY <1>1 DEF RelayedInit, RelayInit, NoId, Init, ManagerInit
<1>3. /\ buffer \in Seq(1..Len(events))
      /\ replies \in Seq(Reply)
      /\ promptedOn \in Seq(1..MaxConnections)
      /\ Len(promptedOn) = 0 /\ Len(events) = 0
  BY <1>2, EmptyType
<1>4. connections \in 0..MaxConnections /\ lastPromptId \in 0..sent
  BY <1>2, MaxConnectionsAssumption
<1>5. read \in 0..Len(events) /\ since \in 0..read /\ Len(promptedOn) = sent
  BY <1>2, <1>3
<1>6. /\ phase \in {"down", "presence", "resync", "live"} /\ overlapped \in BOOLEAN
      /\ ConnectionCounted
  BY <1>2 DEF ConnectionCounted
<1> QED
  BY <1>3, <1>4, <1>5, <1>6 DEF RelayInv, RelayTypeOK

\* What the session does on its own only adds to its events.
LEMMA EventsGrow ==
  ASSUME TypeOK,
         \/ ManagerStep \/ Shutdown
         \/ UNCHANGED managerVars
  PROVE  /\ Len(events) \in Nat /\ Len(events') \in Nat
         /\ Len(events) <= Len(events')
         /\ UNCHANGED sent
<1> USE DEF portVars, managerVars, callerVars, awaitVars, sessionVars
<1>1. events \in Seq(DriverEvent) /\ Len(events) \in Nat
  BY DEF TypeOK, ManagerTypeOK
<1>2. CASE TakeEvent
  <2>1. PICK e : events' = Append(events, e)
    BY <1>2 DEF TakeEvent
  <2>2. Len(events') = Len(events) + 1
    BY <1>1, <2>1
  <2> QED
    BY <1>1, <1>2, <2>2 DEF TakeEvent
<1>3. CASE \/ StartPrompt \/ QueuePrompt \/ DropPrompt \/ InterruptIdle \/ InterruptTurn
           \/ AnswerAcp \/ TellFlag \/ StopManager \/ DriverGone \/ StallTimeout \/ ManagerStopped
           \/ Shutdown \/ UNCHANGED managerVars
  <2>1. UNCHANGED <<events, sent>>
    BY <1>3
    DEF StartPrompt, QueuePrompt, DropPrompt, InterruptIdle, InterruptTurn, AnswerAcp, TellFlag,
        StopManager, DriverGone, StallTimeout, ManagerStopped, Shutdown
  <2> QED
    BY <1>1, <2>1
<1> QED
  BY <1>2, <1>3 DEF ManagerStep, ReceiveStep

\* RelayInv survives steps that leave the relay alone.
LEMMA RelayTypeIdle ==
  ASSUME RelayInv, UNCHANGED relayVars, UNCHANGED sent,
         Len(events) \in Nat, Len(events') \in Nat, Len(events) <= Len(events')
  PROVE  RelayInv'
<1>1. UNCHANGED <<phase, connections, lastPromptId, buffer, read, since, replies, promptedOn,
                  overlapped>>
  BY DEF relayVars, replyVars, historyVars
<1>2. 1..Len(events) \subseteq 1..Len(events')
  OBVIOUS
<1>3. buffer \in Seq(1..Len(events'))
  BY <1>2 DEF RelayInv, RelayTypeOK
<1> QED
  BY <1>1, <1>3 DEF RelayInv, RelayTypeOK, ConnectionCounted

\* A frame built from the batch, or from chunks of known positions, is a Reply.
LEMMA SendReplyType ==
  ASSUME TypeOK, RelayInv, phase = "live",
         NEW chunks \in Seq(Nat), NEW done \in BOOLEAN, NEW turn \in Turns,
         SendReply(chunks, done, turn)
  PROVE  /\ phase' \in {"down", "live"}
         /\ lastPromptId' \in 0..sent
         /\ buffer' = <<>>
         /\ replies' \in Seq(Reply)
<1>1. /\ lastPromptId \in 0..sent /\ sent \in 0..MaxPrompts /\ replies \in Seq(Reply)
      /\ connections \in 1..MaxConnections
  BY DEF TypeOK, ManagerTypeOK, RelayInv, RelayTypeOK, ConnectionCounted
<1>2. lastPromptId \in 0..MaxPrompts /\ 0 \in 0..sent
  BY <1>1, MaxPromptsAssumption
<1> DEFINE f == [id |-> lastPromptId, chunks |-> chunks, done |-> done, turn |-> turn,
                 on |-> connections]
<1>3. f \in Reply
  BY <1>1, <1>2 DEF Reply
<1>4. CASE Forget
  BY <1>1, <1>2, <1>4 DEF Forget, NoId
<1>5. CASE replies' = Append(replies, f) /\ buffer' = <<>> /\ lastPromptId' = IdAfter(done)
             /\ UNCHANGED phase
  <2>1. replies' \in Seq(Reply)
    BY <1>1, <1>3, <1>5, AppendType
  <2> QED
    BY <1>1, <1>2, <1>5, <2>1 DEF IdAfter, NoId
<1> QED
  BY <1>4, <1>5 DEF SendReply

\* Every event is of a turn.
LEMMA EventTurns ==
  ASSUME TypeOK
  PROVE  \A i \in 1..Len(events) : events[i].turn \in Turns
<1>1. \A e \in DriverEvent : e.turn \in Turns
  BY DEF DriverEvent
<1>2. \A i \in 1..Len(events) : events[i] \in DriverEvent
  BY DEF TypeOK, ManagerTypeOK
<1> QED
  BY <1>1, <1>2

\* Every step of the connection keeps the types and the count (connection.rs:763-1069).
LEMMA RelayTypeStep ==
  ASSUME TypeOK, TypeOK', RelayInv, RelayStep
  PROVE  RelayInv'
<1> USE DEF RelayInv, RelayTypeOK, ConnectionCounted
<1>1. /\ events \in Seq(DriverEvent) /\ Len(events) \in Nat
      /\ sent \in 0..MaxPrompts /\ sent' \in 0..MaxPrompts
  BY DEF TypeOK, ManagerTypeOK
<1>2. ASSUME NEW k, Await(k)
      PROVE  UNCHANGED <<events, sent>>
  BY <1>2 DEF Await, sessionVars
<1>3. CASE Connect
  BY <1>1, <1>2, <1>3, MaxConnectionsAssumption DEF Connect, replyVars, historyVars
<1>4. CASE Resync
  BY <1>1, <1>2, <1>4 DEF Resync, replyVars, historyVars
<1>5. CASE GoLive
  BY <1>1, <1>5 DEF GoLive, replyVars, managerVars, callerVars, sessionVars
<1>6. CASE Drop
  <2>1. buffer' \in Seq(1..Len(events))
    BY <1>6, EmptyType DEF Drop, Forget
  <2> QED
    BY <1>1, <1>6, <2>1 DEF Drop, Forget, NoId, historyVars, managerVars, callerVars, sessionVars
<1>7. CASE PromptFrame
  <2>1. /\ sent' = sent + 1
        /\ UNCHANGED events
    BY <1>7 DEF PromptFrame, Prompt, sessionVars
  <2>2. connections \in 1..MaxConnections
    BY <1>7 DEF PromptFrame, Live
  <2>3. promptedOn' \in Seq(1..MaxConnections) /\ Len(promptedOn') = sent'
    BY <1>7, <2>1, <2>2, AppendType DEF PromptFrame
  <2>4. lastPromptId' = sent' /\ lastPromptId' \in 0..sent'
    BY <1>1, <1>7, <2>1 DEF PromptFrame
  <2>5. overlapped' \in BOOLEAN
    BY <1>7 DEF PromptFrame
  <2> QED
    BY <1>7, <2>1, <2>3, <2>4, <2>5 DEF PromptFrame
<1>8. CASE InterruptFrame
  BY <1>2, <1>8 DEF InterruptFrame, relayVars, replyVars, historyVars
<1>9. CASE TakeReplyEvent
  <2> DEFINE e == events[read + 1]
  <2>1. /\ UNCHANGED <<events, sent, connections, since, promptedOn, overlapped>>
        /\ read' = read + 1 /\ read + 1 \in 1..Len(events) /\ phase = "live"
    BY <1>1, <1>9
    DEF TakeReplyEvent, Live, historyVars, managerVars, callerVars, sessionVars
  <2>2. e.turn \in Turns
    BY <2>1, EventTurns
  <2>3. /\ Append(buffer, read + 1) \in Seq(1..Len(events))
        /\ Append(buffer, read + 1) \in Seq(Nat) /\ buffer \in Seq(Nat)
    <3>1. Append(buffer, read + 1) \in Seq(1..Len(events))
      BY <2>1, AppendType
    <3> QED
      BY <3>1
  <2>4. CASE buffer' = Append(buffer, read + 1) /\ UNCHANGED <<phase, lastPromptId, replies>>
    BY <1>1, <2>1, <2>3, <2>4
  <2>5. CASE \/ SendReply(Append(buffer, read + 1), FALSE, e.turn)
             \/ SendReply(buffer, TRUE, e.turn)
    <3>1. /\ phase' \in {"down", "live"} /\ lastPromptId' \in 0..sent /\ buffer' = <<>>
          /\ replies' \in Seq(Reply)
      BY <2>1, <2>2, <2>3, <2>5, SendReplyType
    <3>2. buffer' \in Seq(1..Len(events))
      BY <3>1, EmptyType
    <3> QED
      BY <1>1, <2>1, <3>1, <3>2
  <2>6. CASE UNCHANGED <<phase, replyVars>>
    BY <1>1, <2>1, <2>6 DEF replyVars
  <2> QED
    BY <1>9, <2>4, <2>5, <2>6 DEF TakeReplyEvent, Stragglers
<1>10. CASE Flush
  <2>1. /\ UNCHANGED <<events, sent, connections, read, since, promptedOn, overlapped>>
        /\ buffer # <<>> /\ phase = "live"
        /\ SendReply(buffer, FALSE, events[buffer[1]].turn)
    BY <1>10 DEF Flush, Live, historyVars, managerVars, callerVars, sessionVars
  <2>2. buffer[1] \in 1..Len(events) /\ buffer \in Seq(Nat)
    BY <2>1
  <2>3. events[buffer[1]].turn \in Turns
    BY <2>2, EventTurns
  <2>4. /\ phase' \in {"down", "live"} /\ lastPromptId' \in 0..sent /\ buffer' = <<>>
        /\ replies' \in Seq(Reply)
    BY <2>1, <2>2, <2>3, SendReplyType
  <2>5. buffer' \in Seq(1..Len(events))
    BY <2>4, EmptyType
  <2> QED
    BY <1>1, <2>1, <2>4, <2>5
<1> QED
  BY <1>3, <1>4, <1>5, <1>6, <1>7, <1>8, <1>9, <1>10 DEF RelayStep

\* So types and count hold in every state.
LEMMA RelayInvariant == RelayedSpec => [](TypeOK /\ RelayInv)
<1>1. RelayedSpec => []TypeOK
  BY RelayedSession, TypeCorrect DEF SessionSpec
<1>2. ASSUME TypeOK, TypeOK', RelayInv, [RelayedNext]_relayedVars
      PROVE  RelayInv'
  <2>1. CASE RelayStep
    BY <1>2, <2>1, RelayTypeStep
  <2>2. CASE (ManagerStep \/ Shutdown \/ UNCHANGED managerVars) /\ UNCHANGED relayVars
    BY <1>2, <2>2, EventsGrow, RelayTypeIdle
  <2> QED
    BY <1>2, <2>1, <2>2 DEF RelayedNext, relayedVars, vars
<1> QED
  BY <1>1, <1>2, RelayTypeInit, PTL DEF RelayedSpec

\* Type correctness of a session behind a connection.
THEOREM RelayTypeCorrect == RelayedSpec => []RelayedTypeOK
BY RelayInvariant, PTL DEF RelayInv, RelayedTypeOK

-------------------------------------------------------------------------------
(* The ids of replies. *)

\* NothingAfterDone is kept because an id that was done is not the one session_loop
\* holds, and no prompt will bring it back: prompts get ids above all used so far.
DoneIdsRetired ==
  /\ \A i \in 1..Len(replies) : replies[i].id <= sent
  /\ \A i \in 1..Len(replies) : replies[i].done /\ replies[i].id # NoId
                                  => replies[i].id # lastPromptId

\* The property with its strengthening.
IdsInv == DoneIdsRetired /\ NothingAfterDone

\* A drop forgets the id; sending uses it, and forgets it with done.
LEMMA IdsForget ==
  ASSUME IdsInv, lastPromptId' = NoId, UNCHANGED <<replies, sent>>
  PROVE  IdsInv'
BY DEF IdsInv, DoneIdsRetired, NothingAfterDone

\* A reply bears the id held now: it was not done before, and its own done retires it.
LEMMA IdsSend ==
  ASSUME TypeOK, RelayInv, IdsInv, UNCHANGED sent,
         NEW chunks, NEW done \in BOOLEAN, NEW turn, SendReply(chunks, done, turn),
         replies' \in Seq(Reply)
  PROVE  IdsInv'
<1> DEFINE f == [id |-> lastPromptId, chunks |-> chunks, done |-> done, turn |-> turn,
                 on |-> connections]
<1>1. CASE Forget
  BY <1>1, IdsForget DEF Forget
<1>2. CASE replies' = Append(replies, f) /\ lastPromptId' = IdAfter(done)
  <2>1. replies \in Seq(Reply) /\ lastPromptId \in 0..sent /\ sent \in Nat
    BY DEF RelayInv, RelayTypeOK, TypeOK, ManagerTypeOK
  <2>2. Len(replies) \in Nat /\ Len(replies') = Len(replies) + 1
    BY <1>2, <2>1
  <2>3. \A i \in 1..Len(replies) : replies'[i] = replies[i]
    BY <1>2, <2>1
  <2>4. replies'[Len(replies) + 1] = f
    BY <1>2, <2>1
  <2>5. \A i \in 1..Len(replies') : i \in 1..Len(replies) \/ i = Len(replies) + 1
    BY <2>2
  <2>6. f.id = lastPromptId /\ f.done = done
    OBVIOUS
  <2>7. DoneIdsRetired'
    <3>1. \A i \in 1..Len(replies') : replies'[i].id <= sent
      BY <2>1, <2>3, <2>4, <2>5, <2>6 DEF IdsInv, DoneIdsRetired
    <3>2. ASSUME NEW i \in 1..Len(replies'), replies'[i].done, replies'[i].id # NoId
          PROVE  replies'[i].id # lastPromptId'
      <4>1. CASE done
        BY <1>2, <3>2, <4>1 DEF IdAfter
      <4>2. CASE ~done
        BY <1>2, <2>3, <2>4, <2>5, <2>6, <3>2, <4>2 DEF IdAfter, IdsInv, DoneIdsRetired
      <4> QED
        BY <4>1, <4>2
    <3> QED
      BY <3>1, <3>2 DEF DoneIdsRetired
  <2>8. ASSUME NEW i \in 1..Len(replies'), NEW j \in 1..Len(replies'), i < j,
               replies'[i].done, replies'[i].id # NoId
        PROVE  replies'[j].id # replies'[i].id
    <3>1. i \in 1..Len(replies) /\ replies'[i] = replies[i]
      BY <2>2, <2>3, <2>8
    <3>2. CASE j \in 1..Len(replies)
      BY <2>3, <2>8, <3>1, <3>2 DEF IdsInv, NothingAfterDone
    <3>3. CASE j = Len(replies) + 1
      BY <2>4, <2>6, <2>8, <3>1, <3>3 DEF IdsInv, DoneIdsRetired
    <3> QED
      BY <2>5, <3>2, <3>3
  <2> QED
    BY <2>7, <2>8 DEF IdsInv, NothingAfterDone
<1> QED
  BY <1>1, <1>2 DEF SendReply

\* A prompt frame's id is above the id of every reply already sent.
LEMMA IdsPrompt ==
  ASSUME TypeOK, RelayInv, IdsInv, PromptFrame
  PROVE  IdsInv'
<1>1. /\ sent \in Nat /\ sent' = sent + 1 /\ lastPromptId' = sent + 1
      /\ replies' = replies
  BY DEF PromptFrame, Prompt, TypeOK, ManagerTypeOK
<1>2. \A i \in 1..Len(replies) : replies[i].id \in Nat
  <2>1. \A r \in Reply : r.id \in Nat
    BY DEF Reply
  <2> QED
    BY <2>1 DEF RelayInv, RelayTypeOK
<1> QED
  BY <1>1, <1>2 DEF IdsInv, DoneIdsRetired, NothingAfterDone

\* Every step of the connection keeps the ids in order.
LEMMA IdsStep ==
  ASSUME TypeOK, RelayInv, RelayInv', IdsInv, RelayStep
  PROVE  IdsInv'
<1>1. replies' \in Seq(Reply)
  BY DEF RelayInv, RelayTypeOK
<1>2. CASE PromptFrame
  BY <1>2, IdsPrompt
<1>3. CASE Drop
  BY <1>3, IdsForget DEF Drop, Forget, managerVars, callerVars
<1>4. ASSUME UNCHANGED <<lastPromptId, replies, sent>>
      PROVE  IdsInv'
  BY <1>4 DEF IdsInv, DoneIdsRetired, NothingAfterDone
<1>5. CASE Connect \/ Resync \/ GoLive \/ InterruptFrame
  BY <1>4, <1>5
  DEF Connect, Resync, GoLive, InterruptFrame, Await, relayVars, replyVars, managerVars, callerVars
<1>6. CASE TakeReplyEvent
  <2>1. UNCHANGED sent
    BY <1>6 DEF TakeReplyEvent, managerVars, callerVars
  <2>2. CASE UNCHANGED <<lastPromptId, replies>>
    BY <1>4, <2>1, <2>2
  <2>3. ASSUME NEW chunks, NEW done \in BOOLEAN, NEW turn, SendReply(chunks, done, turn)
        PROVE  IdsInv'
    BY <1>1, <2>1, <2>3, IdsSend
  <2> QED
    BY <1>6, <2>2, <2>3 DEF TakeReplyEvent, replyVars
<1>7. CASE Flush
  <2>1. UNCHANGED sent /\ SendReply(buffer, FALSE, events[buffer[1]].turn)
    BY <1>7 DEF Flush, managerVars, callerVars
  <2> QED
    BY <1>1, <2>1, IdsSend
<1> QED
  BY <1>2, <1>3, <1>5, <1>6, <1>7 DEF RelayStep

\* The server is never sent a reply to an id after the done of that id, for any number
\* of prompts, chunks, drops and interrupts (connection.rs:958-966, 987).
THEOREM NothingFollowsDone == RelayedSpec => []NothingAfterDone
<1>1. RelayedInit => IdsInv
  BY DEF RelayedInit, RelayInit, IdsInv, DoneIdsRetired, NothingAfterDone
<1>2. ASSUME TypeOK, RelayInv, RelayInv', IdsInv, [RelayedNext]_relayedVars
      PROVE  IdsInv'
  <2>1. CASE RelayStep
    BY <1>2, <2>1, IdsStep
  <2>2. CASE (ManagerStep \/ Shutdown \/ UNCHANGED managerVars) /\ UNCHANGED relayVars
    <3>1. UNCHANGED sent
      BY <1>2, <2>2, EventsGrow
    <3>2. UNCHANGED <<lastPromptId, replies>>
      BY <2>2 DEF relayVars, replyVars
    <3> QED
      BY <1>2, <3>1, <3>2 DEF IdsInv, DoneIdsRetired, NothingAfterDone
  <2> QED
    BY <1>2, <2>1, <2>2 DEF RelayedNext, relayedVars, vars
<1>3. IdsInv => NothingAfterDone
  BY DEF IdsInv
<1> QED
  BY <1>1, <1>2, <1>3, RelayInvariant, PTL DEF RelayedSpec

-------------------------------------------------------------------------------
(* Whose chunks a frame holds. *)

\* A turn that may still be sent of after the frame f: a later one, or f's own
\* unless f says done.
MayFollow(f, t) == f.turn <= t /\ (f.done => f.turn < t)

\* f is of one of the first r of the events es, of a stop if it says done.
FrameOf(f, es, r) ==
  /\ \A n \in 1..Len(f.chunks) :
       f.chunks[n] \in 1..Len(es) /\ es[f.chunks[n]].turn = f.turn
  /\ \E m \in 1..r : es[m].turn = f.turn /\ (f.done => es[m].kind \in StopKinds)

\* FramesKeepTurnsApart is kept because the batch holds events read of one turn whose stop
\* was not read, and every frame sent is of a turn before that, or of that turn and not done.
FramesInv ==
  /\ \A i \in 1..Len(replies) : FrameOf(replies[i], events, read)
  /\ \A i, j \in 1..Len(replies) : i < j => MayFollow(replies[i], replies[j].turn)
  /\ \A n \in 1..Len(buffer) :
       /\ buffer[n] \in 1..read
       /\ events[buffer[n]].turn = events[buffer[1]].turn
       /\ \A m \in 1..read : events[m].kind \in StopKinds => events[m].turn # events[buffer[n]].turn
       /\ \A i \in 1..Len(replies) : MayFollow(replies[i], events[buffer[n]].turn)

\* The facts about the session's events that FramesInv and CorrelateInv rest on.
EventsInOrder == InTurnOrder(events) /\ StopBetween(events) /\ TurnsIn(events) \subseteq 1..sent

\* They hold of the events forwarded because they hold of all told of.
LEMMA EventsOrdered == Spec => []EventsInOrder
<1>1. ASSUME TypeOK, OrderInv, StopsInv
      PROVE  EventsInOrder
  <2>1. events \in Seq(DriverEvent) /\ driverEvents \in Seq(DriverEvent)
    BY <1>1 DEF TypeOK, PortTypeOK, ManagerTypeOK
  <2>2. Len(Told) = Len(events) + Len(driverEvents) /\ Len(events) \in Nat /\ Len(driverEvents) \in Nat
    BY <2>1 DEF Told
  <2>3. \A i \in 1..Len(events) : i \in 1..Len(Told) /\ Told[i] = events[i]
    BY <2>1, <2>2 DEF Told
  <2> HIDE DEF Told
  <2>4. InTurnOrder(events)
    BY <1>1, <2>3 DEF OrderInv, InTurnOrder
  <2>5. ASSUME NEW j \in 1..Len(events), NEW i \in 1..(j - 1), events[i].turn # events[j].turn
        PROVE  \E k \in 1..(j - 1) : events[k].kind \in StopKinds /\ events[k].turn = events[i].turn
    <3>1. \A k \in 1..(j - 1) : k \in 1..Len(events)
      BY <2>2
    <3>2. Told[i].turn # Told[j].turn /\ j \in 1..Len(Told)
      BY <2>3, <2>5, <3>1
    <3>3. PICK k \in 1..(j - 1) : Told[k].kind \in StopKinds /\ Told[k].turn = Told[i].turn
      BY <1>1, <3>2 DEF StopsInv, StopBetween
    <3> QED
      BY <2>3, <3>1, <3>3
  <2>6. TurnsIn(events) \subseteq 1..sent
    BY <1>1, <2>3 DEF OrderInv, LineOf, InLine, ToldTurns, TurnsIn
  <2> QED
    BY <2>4, <2>5, <2>6 DEF EventsInOrder, StopBetween
<1> QED
  BY <1>1, TypeCorrect, OrderInvariant, StopsInvariant, PTL

\* What FramesInv's steps know of the numbers in it.
LEMMA FramesTypes ==
  ASSUME TypeOK, RelayInv
  PROVE  /\ events \in Seq(DriverEvent) /\ Len(events) \in Nat
         /\ read \in 0..Len(events)
         /\ replies \in Seq(Reply) /\ Len(replies) \in Nat
         /\ buffer \in Seq(1..Len(events)) /\ Len(buffer) \in Nat
         /\ \A i \in 1..Len(events) : events[i].turn \in Nat
         /\ \A i \in 1..Len(replies) : replies[i].turn \in Nat
<1>1. \A e \in DriverEvent : e.turn \in Nat
  BY DEF DriverEvent, Turns, Prompts, NoTurn
<1>2. \A r \in Reply : r.turn \in Nat
  BY DEF Reply, Turns, Prompts, NoTurn
<1>3. /\ events \in Seq(DriverEvent) /\ replies \in Seq(Reply) /\ read \in 0..Len(events)
      /\ buffer \in Seq(1..Len(events))
  BY DEF TypeOK, ManagerTypeOK, RelayInv, RelayTypeOK
<1> QED
  BY <1>1, <1>2, <1>3

\* A turn of an event not yet read may follow every frame.
LEMMA UnreadMayFollow ==
  ASSUME TypeOK, RelayInv, EventsInOrder, FramesInv,
         NEW m \in (read + 1)..Len(events), NEW i \in 1..Len(replies)
  PROVE  MayFollow(replies[i], events[m].turn)
<1>1. PICK k \in 1..read : events[k].turn = replies[i].turn
                             /\ (replies[i].done => events[k].kind \in StopKinds)
  BY DEF FramesInv, FrameOf
<1>2. k \in 1..Len(events) /\ m \in 1..Len(events) /\ k < m
  BY FramesTypes
<1> QED
  BY <1>1, <1>2 DEF EventsInOrder, InTurnOrder, MayFollow

\* The next event, unless it is a status, is of the batch's turn.
LEMMA BatchIsOfNextTurn ==
  ASSUME TypeOK, RelayInv, EventsInOrder, FramesInv, read < Len(events), NEW n \in 1..Len(buffer)
  PROVE  events[read + 1].turn = events[buffer[n]].turn
<1>1. buffer[n] \in 1..read /\ read + 1 \in 1..Len(events) /\ buffer[n] \in 1..((read + 1) - 1)
  BY FramesTypes DEF FramesInv
<1>2. ASSUME events[buffer[n]].turn # events[read + 1].turn
      PROVE  FALSE
  <2>1. PICK k \in 1..((read + 1) - 1) : events[k].kind \in StopKinds
                                           /\ events[k].turn = events[buffer[n]].turn
    BY <1>1, <1>2 DEF EventsInOrder, StopBetween
  <2>2. k \in 1..read
    BY FramesTypes
  <2> QED
    BY <2>1, <2>2 DEF FramesInv
<1> QED
  BY <1>2

\* Sending a frame of chunks of its turn, which may follow every frame sent.
LEMMA FramesSend ==
  ASSUME TypeOK, RelayInv, FramesInv, UNCHANGED events, read' \in read..Len(events),
         NEW chunks, NEW done \in BOOLEAN, NEW turn \in Turns, SendReply(chunks, done, turn),
         chunks \in Seq(1..Len(events)),
         \A n \in 1..Len(chunks) : events[chunks[n]].turn = turn,
         \A i \in 1..Len(replies) : MayFollow(replies[i], turn),
         \E m \in 1..read' : events[m].turn = turn /\ (done => events[m].kind \in StopKinds),
         replies' \in Seq(Reply)
  PROVE  FramesInv'
<1> DEFINE f == [id |-> lastPromptId, chunks |-> chunks, done |-> done, turn |-> turn,
                 on |-> connections]
<1>1. buffer' = <<>> /\ Len(buffer') = 0
  BY DEF SendReply, Forget
<1>2. replies' = replies \/ replies' = Append(replies, f)
  BY DEF SendReply, Forget
<1>3. f.chunks = chunks /\ f.done = done /\ f.turn = turn
  OBVIOUS
<1> HIDE DEF f
<1>4. \A i \in 1..Len(replies) : FrameOf(replies[i], events', read')
  <2>1. 1..read \subseteq 1..read'
    BY FramesTypes
  <2> QED
    BY <2>1 DEF FramesInv, FrameOf
<1>5. CASE replies' = replies
  BY <1>1, <1>4, <1>5 DEF FramesInv
<1>6. CASE replies' = Append(replies, f)
  <2>1. /\ Len(replies) \in Nat /\ Len(replies') = Len(replies) + 1
        /\ \A i \in 1..Len(replies) : replies'[i] = replies[i]
        /\ replies'[Len(replies) + 1] = f
    BY <1>6, FramesTypes
  <2>2. \A i \in 1..Len(replies') : i \in 1..Len(replies) \/ i = Len(replies) + 1
    BY <2>1
  <2>3. /\ \A n \in 1..Len(chunks) : chunks[n] \in 1..Len(events) /\ events[chunks[n]].turn = turn
        /\ \E m \in 1..read' : events[m].turn = turn /\ (done => events[m].kind \in StopKinds)
    OBVIOUS
  <2>4. \A i \in 1..Len(replies') : FrameOf(replies'[i], events', read')
    <3>1. FrameOf(f, events', read')
      BY <1>3, <2>3 DEF FrameOf
    <3> QED
      BY <1>4, <2>1, <2>2, <3>1
  <2>5. ASSUME NEW i \in 1..Len(replies'), NEW j \in 1..Len(replies'), i < j
        PROVE  MayFollow(replies'[i], replies'[j].turn)
    <3>1. i \in 1..Len(replies) /\ replies'[i] = replies[i]
      BY <2>1, <2>5
    <3>2. CASE j = Len(replies) + 1
      BY <1>3, <2>1, <3>1, <3>2
    <3>3. CASE j \in 1..Len(replies)
      BY <2>1, <2>5, <3>1, <3>3 DEF FramesInv
    <3> QED
      BY <2>2, <3>2, <3>3
  <2> QED
    BY <1>1, <2>4, <2>5 DEF FramesInv
<1> QED
  BY <1>2, <1>5, <1>6

\* FramesInv survives a step that sends nothing, adds nothing to the batch and reads nothing.
LEMMA FramesIdle ==
  ASSUME TypeOK, RelayInv, FramesInv, UNCHANGED <<replies, read>>,
         buffer' = buffer \/ buffer' = <<>>,
         Len(events') \in Nat, Len(events) <= Len(events'),
         \A i \in 1..Len(events) : events'[i] = events[i]
  PROVE  FramesInv'
<1>1. \A m \in 1..read : m \in 1..Len(events) /\ events'[m] = events[m]
  BY FramesTypes
<1>2. 1..Len(events) \subseteq 1..Len(events')
  BY FramesTypes
<1>3. \A i \in 1..Len(replies) : FrameOf(replies[i], events', read')
  <2>1. ASSUME NEW f, FrameOf(f, events, read)
        PROVE  FrameOf(f, events', read')
    BY <1>1, <1>2, <2>1 DEF FrameOf
  <2> QED
    BY <2>1 DEF FramesInv
<1>4. CASE buffer' = <<>>
  BY <1>3, <1>4 DEF FramesInv
<1>5. CASE buffer' = buffer
  <2>1. \A n \in 1..Len(buffer) : events'[buffer[n]] = events[buffer[n]]
    BY <1>1 DEF FramesInv
  <2>2. Len(buffer) # 0 => 1 \in 1..Len(buffer)
    BY FramesTypes
  <2>3. \A n \in 1..Len(buffer) : events'[buffer[1]] = events[buffer[1]]
    BY <2>1, <2>2, FramesTypes
  <2>4. ASSUME NEW n \in 1..Len(buffer')
        PROVE  /\ buffer'[n] \in 1..read'
               /\ events'[buffer'[n]].turn = events'[buffer'[1]].turn
               /\ \A m \in 1..read' :
                    events'[m].kind \in StopKinds => events'[m].turn # events'[buffer'[n]].turn
               /\ \A i \in 1..Len(replies') : MayFollow(replies'[i], events'[buffer'[n]].turn)
    BY <1>1, <1>5, <2>1, <2>3 DEF FramesInv
  <2> QED
    BY <1>3, <2>4 DEF FramesInv
<1> QED
  BY <1>4, <1>5

\* The event arm keeps FramesInv (connection.rs:956-1034).
LEMMA FramesTake ==
  ASSUME TypeOK, RelayInv, RelayInv', EventsInOrder, FramesInv, TakeReplyEvent
  PROVE  FramesInv'
<1> DEFINE e == events[read + 1]
           a == Append(buffer, read + 1)
<1>1. /\ UNCHANGED events /\ read' = read + 1 /\ read + 1 \in (read + 1)..Len(events)
      /\ read + 1 \in 1..Len(events) /\ read' \in read..Len(events) /\ read < Len(events)
  BY FramesTypes DEF TakeReplyEvent, managerVars, sessionVars
<1>2. replies' \in Seq(Reply) /\ e \in DriverEvent /\ e.turn \in Turns
  <2>1. \A x \in DriverEvent : x.turn \in Turns
    BY DEF DriverEvent
  <2> QED
    BY <1>1, <2>1, FramesTypes, SMTT(30) DEF RelayInv, RelayTypeOK
<1>3. \A i \in 1..Len(replies) : MayFollow(replies[i], e.turn)
  BY <1>1, UnreadMayFollow
<1>4. \A n \in 1..Len(buffer) : events[buffer[n]].turn = e.turn
  BY <1>1, BatchIsOfNextTurn
<1>5. /\ a \in Seq(1..Len(events)) /\ Len(a) = Len(buffer) + 1 /\ a[Len(buffer) + 1] = read + 1
      /\ \A n \in 1..Len(buffer) : a[n] = buffer[n]
  BY <1>1, FramesTypes
<1> HIDE DEF a
<1>6. \A n \in 1..Len(a) : n \in 1..Len(buffer) \/ n = Len(buffer) + 1
  BY <1>5, FramesTypes
<1>7. \A n \in 1..Len(a) : events[a[n]].turn = e.turn
  BY <1>4, <1>5, <1>6
<1>8. read + 1 \in 1..read' /\ \A m \in 1..read' : m \in 1..read \/ m = read + 1
  BY <1>1, FramesTypes
<1>9. StopKinds \cap ({"Update"} \cup StatusKinds) = {}
  BY DEF StopKinds, StatusKinds
<1>10. \A n \in 1..Len(buffer), m \in 1..read : events[m].kind \in StopKinds => events[m].turn # e.turn
  BY <1>4 DEF FramesInv
<1>15. \A i \in 1..Len(replies) : FrameOf(replies[i], events', read')
  <2>1. 1..read \subseteq 1..read'
    BY <1>1, FramesTypes
  <2> QED
    BY <1>1, <2>1 DEF FramesInv, FrameOf
<1>11. CASE e.kind = "Update" /\ buffer' = a /\ UNCHANGED replies
  <2>1. \A i \in 1..Len(replies) : FrameOf(replies[i], events', read')
    BY <1>15
  <2>2. \A n \in 1..Len(a) : a[n] \in 1..read' /\ events[a[n]].turn = events[a[1]].turn
    <3>1. 1 \in 1..Len(a)
      BY <1>5, FramesTypes
    <3>2. \A n \in 1..Len(buffer) : buffer[n] \in 1..read'
      BY <1>1, FramesTypes DEF FramesInv
    <3> QED
      BY <1>5, <1>6, <1>7, <1>8, <3>1, <3>2
  <2>3. \A m \in 1..read' : events[m].kind \in StopKinds => events[m].turn # e.turn
    <3>1. ASSUME NEW m \in 1..read, events[m].kind \in StopKinds
          PROVE  events[m].turn # e.turn
      <4>1. m \in 1..Len(events) /\ m < read + 1
        BY FramesTypes
      <4>2. events[m].turn < e.turn
        BY <1>1, <3>1, <4>1 DEF EventsInOrder, InTurnOrder
      <4> QED
        BY <1>1, <4>1, <4>2, FramesTypes
    <3> QED
      BY <1>8, <1>9, <1>11, <3>1
  <2> QED
    BY <1>1, <1>3, <1>7, <1>11, <2>1, <2>2, <2>3 DEF FramesInv
<1>12. CASE e.kind = "Update" /\ SendReply(a, FALSE, e.turn)
  BY <1>1, <1>2, <1>3, <1>5, <1>7, <1>8, <1>12, FramesSend
<1>13. CASE e.kind \in StopKinds /\ SendReply(buffer, TRUE, e.turn)
  BY <1>1, <1>2, <1>3, <1>4, <1>8, <1>13, FramesSend, FramesTypes
<1>14. CASE e.kind \in StatusKinds /\ UNCHANGED <<buffer, replies>>
  <2>1. \A i \in 1..Len(replies) : FrameOf(replies[i], events', read')
    BY <1>15
  <2>2. \A n \in 1..Len(buffer) : buffer[n] \in 1..read'
    BY <1>1, FramesTypes DEF FramesInv
  <2> QED
    BY <1>1, <1>4, <1>8, <1>9, <1>10, <1>14, <2>1, <2>2 DEF FramesInv
<1> QED
  BY <1>11, <1>12, <1>13, <1>14 DEF TakeReplyEvent, Stragglers, replyVars, a

\* The flush arm sends the batch as a frame of its turn (connection.rs:1053-1066).
LEMMA FramesFlush ==
  ASSUME TypeOK, RelayInv, RelayInv', FramesInv, Flush
  PROVE  FramesInv'
<1> DEFINE t == events[buffer[1]].turn
<1>1. /\ UNCHANGED <<events, read>> /\ buffer # <<>> /\ SendReply(buffer, FALSE, t)
      /\ replies' \in Seq(Reply)
  BY DEF Flush, managerVars, sessionVars, RelayInv, RelayTypeOK
<1>2. 1 \in 1..Len(buffer) /\ buffer[1] \in 1..read /\ buffer[1] \in 1..Len(events)
      /\ read' \in read..Len(events)
  BY <1>1, FramesTypes DEF FramesInv
<1>3. t \in Turns
  BY <1>2, EventTurns
<1>4. /\ \A n \in 1..Len(buffer) : events[buffer[n]].turn = t
      /\ \A i \in 1..Len(replies) : MayFollow(replies[i], t)
      /\ \E m \in 1..read' : events[m].turn = t /\ (FALSE => events[m].kind \in StopKinds)
  BY <1>1, <1>2 DEF FramesInv
<1> HIDE DEF t
<1> QED
  BY <1>1, <1>2, <1>3, <1>4, FramesTypes, FramesSend

\* The session only adds to its events.
LEMMA EventsExtend ==
  ASSUME TypeOK, [RelayedNext]_relayedVars
  PROVE  /\ Len(events') \in Nat /\ Len(events) <= Len(events')
         /\ \A i \in 1..Len(events) : events'[i] = events[i]
<1>1. events \in Seq(DriverEvent)
  BY DEF TypeOK, ManagerTypeOK
<1>2. ASSUME NEW e, events' = Append(events, e)
      PROVE  /\ Len(events') \in Nat /\ Len(events) <= Len(events')
             /\ \A i \in 1..Len(events) : events'[i] = events[i]
  BY <1>1, <1>2
<1>3. CASE TakeEvent
  BY <1>2, <1>3 DEF TakeEvent
<1>4. CASE UNCHANGED events
  BY <1>1, <1>4
<1>5. TakeEvent \/ UNCHANGED events
  <2>1. CASE RelayStep
    <3>1. CASE CallerStep
      BY <3>1 DEF CallerStep, Prompt, Await, Shutdown, sessionVars
    <3> QED
      BY <2>1, <3>1, RelayStepIsCallerStep DEF managerVars, sessionVars
  <2>2. CASE ManagerStep \/ Shutdown \/ UNCHANGED managerVars
    BY <2>2
    DEF ManagerStep, ReceiveStep, StartPrompt, QueuePrompt, DropPrompt, InterruptIdle, InterruptTurn,
        AnswerAcp, TellFlag, StopManager, DriverGone, StallTimeout, ManagerStopped, Shutdown, sessionVars,
        managerVars
  <2> QED
    BY <2>1, <2>2 DEF RelayedNext, relayedVars, vars
<1> QED
  BY <1>3, <1>4, <1>5

\* Every step of the client keeps FramesInv.
LEMMA FramesStep ==
  ASSUME TypeOK, RelayInv, RelayInv', EventsInOrder, FramesInv, [RelayedNext]_relayedVars
  PROVE  FramesInv'
<1>1. CASE TakeReplyEvent
  BY <1>1, FramesTake
<1>2. CASE Flush
  BY <1>2, FramesFlush
<1>3. CASE UNCHANGED <<replies, read>> /\ (buffer' = buffer \/ buffer' = <<>>)
  BY <1>3, EventsExtend, FramesIdle
<1>4. CASE Connect \/ Resync \/ GoLive \/ Drop \/ PromptFrame \/ InterruptFrame
  BY <1>3, <1>4 DEF Connect, Resync, GoLive, Drop, Forget, PromptFrame, InterruptFrame, relayVars, replyVars
<1>5. CASE UNCHANGED relayVars
  BY <1>3, <1>5 DEF relayVars, replyVars
<1> QED
  BY <1>1, <1>2, <1>4, <1>5 DEF RelayedNext, RelayStep, relayedVars

\* The frames' invariant, throughout, given that the session's events are in order.
LEMMA FramesInvariant == RelayedSpec => []FramesInv
<1>1. RelayedInit => FramesInv
  BY DEF RelayedInit, RelayInit, FramesInv
<1>2. RelayedSpec => [](TypeOK /\ EventsInOrder)
  BY RelayedSession, TypeCorrect, EventsOrdered, PTL DEF SessionSpec
<1> QED
  BY <1>1, <1>2, RelayInvariant, FramesStep, PTL DEF RelayedSpec

\* No frame mixes chunks of two turns, none comes after the done frame of its turn, and
\* nothing of such a turn waits to be sent, over any number of prompts, connections and
\* drops, whatever the batch's cap and window do (connection.rs:956-1066).
THEOREM FramesStayApart == RelayedSpec => []FramesKeepTurnsApart
<1>1. ASSUME TypeOK, RelayInv, FramesInv
      PROVE  FramesKeepTurnsApart
  <2>1. \A i, j \in 1..Len(replies) :
          i < j => /\ replies[i].turn <= replies[j].turn
                   /\ replies[i].done => replies[i].turn < replies[j].turn
    BY <1>1 DEF FramesInv, MayFollow
  <2>2. ASSUME NEW n \in 1..Len(buffer), NEW i \in 1..Len(replies), replies[i].done,
               replies[i].turn = events[buffer[n]].turn
        PROVE  FALSE
    <3>1. replies[i].turn < replies[i].turn
      BY <1>1, <2>2 DEF FramesInv, MayFollow
    <3> QED
      BY <1>1, <3>1, FramesTypes
  <2>3. \A i \in 1..Len(replies) : \A n \in 1..Len(replies[i].chunks) :
          events[replies[i].chunks[n]].turn = replies[i].turn
    BY <1>1 DEF FramesInv, FrameOf
  <2> QED
    BY <2>1, <2>2, <2>3 DEF FramesKeepTurnsApart, Answered
<1> QED
  BY <1>1, RelayInvariant, FramesInvariant, PTL

-------------------------------------------------------------------------------
(* The ids a patient server sees. *)

\* The id a frame of turn p on connection c should carry, by where its prompt arrived.
IdOn(arrivals, p, c) == IF arrivals[p] = c THEN p ELSE NoId

\* PatientServerCorrelates is kept because a patient server leaves at most its last prompt
\* unanswered, and session_loop holds that prompt's id, unless it came on an earlier
\* connection: then it holds none.
CorrelateInv ==
  /\ \A p \in 1..sent : promptedOn[p] <= connections
  /\ phase = "down" => lastPromptId = NoId
  /\ ~overlapped =>
       /\ \A p \in 1..(sent - 1) : Answered(p)
       /\ phase # "down" /\ sent # 0 /\ ~Answered(sent)
            => lastPromptId = IdOn(promptedOn, sent, connections)
       /\ \A i \in 1..Len(replies) :
            replies[i].id = IdOn(promptedOn, replies[i].turn, replies[i].on)

\* What CorrelateInv's steps know of the numbers in it.
LEMMA CorrelateTypes ==
  ASSUME TypeOK, RelayInv, EventsInOrder, FramesInv
  PROVE  /\ sent \in Nat /\ connections \in Nat
         /\ promptedOn \in Seq(1..MaxConnections) /\ Len(promptedOn) = sent
         /\ \A i \in 1..Len(events) : events[i].turn \in 1..sent
         /\ \A i \in 1..Len(replies) : replies[i].turn \in 1..sent
<1>1. sent \in Nat /\ connections \in Nat
  BY MaxConnectionsAssumption, MaxPromptsAssumption
  DEF TypeOK, ManagerTypeOK, RelayInv, RelayTypeOK
<1>2. promptedOn \in Seq(1..MaxConnections) /\ Len(promptedOn) = sent
  BY DEF RelayInv, RelayTypeOK
<1>3. \A i \in 1..Len(events) : events[i].turn \in 1..sent
  BY DEF EventsInOrder, TurnsIn
<1>4. ASSUME NEW i \in 1..Len(replies)
      PROVE  replies[i].turn \in 1..sent
  <2>1. PICK m \in 1..read : events[m].turn = replies[i].turn
    BY DEF FramesInv, FrameOf
  <2>2. m \in 1..Len(events)
    BY FramesTypes
  <2> QED
    BY <1>3, <2>1, <2>2
<1> QED
  BY <1>1, <1>2, <1>3, <1>4

\* A frame of a turn that is not answered is of the last prompt, whose id is held.
LEMMA CorrelateSend ==
  ASSUME TypeOK, RelayInv, EventsInOrder, FramesInv, CorrelateInv, phase = "live",
         UNCHANGED <<sent, connections, promptedOn, overlapped>>,
         NEW chunks, NEW done \in BOOLEAN, NEW turn \in 1..sent, SendReply(chunks, done, turn),
         \A i \in 1..Len(replies) : MayFollow(replies[i], turn)
  PROVE  CorrelateInv'
<1> DEFINE f == [id |-> lastPromptId, chunks |-> chunks, done |-> done, turn |-> turn,
                 on |-> connections]
<1>1. ~Answered(turn)
  BY CorrelateTypes DEF Answered, MayFollow
<1>2. ~overlapped => turn = sent /\ lastPromptId = IdOn(promptedOn, sent, connections)
  <2>1. ASSUME ~overlapped, turn # sent
        PROVE  FALSE
    <3>1. turn \in 1..(sent - 1)
      BY <2>1, CorrelateTypes
    <3> QED
      BY <1>1, <2>1, <3>1 DEF CorrelateInv
  <2>2. sent # 0
    BY CorrelateTypes
  <2> QED
    BY <1>1, <2>1, <2>2 DEF CorrelateInv
<1>3. CASE Forget
  <2>1. replies' = replies /\ phase' = "down" /\ lastPromptId' = NoId
    BY <1>3 DEF Forget
  <2> QED
    BY <2>1 DEF CorrelateInv, Answered
<1>4. CASE replies' = Append(replies, f) /\ lastPromptId' = IdAfter(done) /\ UNCHANGED phase
  <2>1. /\ Len(replies) \in Nat /\ Len(replies') = Len(replies) + 1
        /\ \A i \in 1..Len(replies) : replies'[i] = replies[i]
        /\ replies'[Len(replies) + 1] = f
    BY <1>4, FramesTypes
  <2>2. /\ f.id = lastPromptId /\ f.done = done /\ f.turn = turn /\ f.on = connections
    OBVIOUS
  <2> HIDE DEF f
  <2>3. \A i \in 1..Len(replies') : i \in 1..Len(replies) \/ i = Len(replies) + 1
    BY <2>1
  <2>4. 1..Len(replies) \subseteq 1..Len(replies') /\ Len(replies) + 1 \in 1..Len(replies')
    BY <2>1
  <2>5. \A p : Answered(p) => Answered(p)'
    BY <2>1, <2>4 DEF Answered
  <2>6. done => Answered(turn)'
    BY <2>1, <2>2, <2>4 DEF Answered
  <2>7. ASSUME ~overlapped, ~Answered(sent)'
        PROVE  lastPromptId' = IdOn(promptedOn, sent, connections)
    <3>1. ~done
      BY <1>2, <2>6, <2>7
    <3> QED
      BY <1>2, <1>4, <2>7, <3>1 DEF IdAfter
  <2>8. ASSUME ~overlapped, NEW i \in 1..Len(replies')
        PROVE  replies'[i].id = IdOn(promptedOn, replies'[i].turn, replies'[i].on)
    <3>1. CASE i \in 1..Len(replies)
      BY <2>1, <2>8, <3>1 DEF CorrelateInv
    <3>2. CASE i = Len(replies) + 1
      BY <1>2, <2>1, <2>2, <2>8, <3>2
    <3> QED
      BY <2>3, <3>1, <3>2
  <2>9. phase' # "down"
    BY <1>4
  <2> QED
    BY <2>5, <2>7, <2>8, <2>9 DEF CorrelateInv
<1> QED
  BY <1>3, <1>4 DEF SendReply

\* A patient server's prompt finds every earlier one answered, and leaves its id.
LEMMA CorrelatePrompt ==
  ASSUME TypeOK, RelayInv, EventsInOrder, FramesInv, CorrelateInv, PromptFrame
  PROVE  CorrelateInv'
<1>1. /\ sent' = sent + 1 /\ lastPromptId' = sent + 1 /\ promptedOn' = Append(promptedOn, connections)
      /\ overlapped' = (overlapped \/ \E p \in 1..sent : ~Answered(p))
      /\ UNCHANGED <<phase, connections, replies>> /\ phase = "live"
  BY DEF PromptFrame, Prompt, Live
<1>2. /\ sent \in Nat /\ connections \in Nat /\ Len(promptedOn) = sent
      /\ promptedOn' [sent + 1] = connections
      /\ \A p \in 1..sent : promptedOn'[p] = promptedOn[p]
  BY <1>1, CorrelateTypes
<1>3. \A p \in 1..(sent + 1) : p \in 1..sent \/ p = sent + 1
  BY <1>2
<1>4. \A p \in 1..sent' : promptedOn'[p] <= connections
  BY <1>1, <1>2, <1>3 DEF CorrelateInv
<1>5. (sent + 1) - 1 = sent
  BY <1>2
<1>6. ASSUME ~overlapped'
      PROVE  /\ \A p \in 1..(sent' - 1) : Answered(p)'
             /\ lastPromptId' = IdOn(promptedOn', sent', connections')
             /\ \A i \in 1..Len(replies') :
                  replies'[i].id = IdOn(promptedOn', replies'[i].turn, replies'[i].on)
  <2>1. ~overlapped /\ \A p \in 1..sent : Answered(p)
    BY <1>1, <1>6
  <2>2. \A p : Answered(p)' <=> Answered(p)
    BY <1>1 DEF Answered
  <2>3. \A p \in 1..(sent' - 1) : Answered(p)'
    BY <1>1, <1>5, <2>1, <2>2
  <2>4. lastPromptId' = IdOn(promptedOn', sent', connections')
    BY <1>1, <1>2 DEF IdOn
  <2>5. \A i \in 1..Len(replies) : replies[i].turn \in 1..sent
    BY CorrelateTypes
  <2>6. \A i \in 1..Len(replies') :
          replies'[i].id = IdOn(promptedOn', replies'[i].turn, replies'[i].on)
    BY <1>1, <1>2, <2>1, <2>5 DEF CorrelateInv, IdOn
  <2> QED
    BY <2>3, <2>4, <2>6
<1>7. phase' # "down"
  BY <1>1
<1> QED
  BY <1>1, <1>4, <1>6, <1>7 DEF CorrelateInv

\* Every step of the connection keeps CorrelateInv.
LEMMA CorrelateRelay ==
  ASSUME TypeOK, RelayInv, EventsInOrder, FramesInv, CorrelateInv, RelayStep
  PROVE  CorrelateInv'
<1>1. connections \in Nat /\ \A p \in 1..sent : promptedOn[p] \in Nat
  BY CorrelateTypes, MaxConnectionsAssumption
<1>2. CASE PromptFrame
  BY <1>2, CorrelatePrompt
<1>3. CASE TakeReplyEvent
  <2> DEFINE e == events[read + 1]
  <2>1. /\ phase = "live" /\ UNCHANGED <<sent, connections, promptedOn, overlapped>>
        /\ read + 1 \in (read + 1)..Len(events) /\ read + 1 \in 1..Len(events)
    BY <1>3, FramesTypes DEF TakeReplyEvent, Live, managerVars, callerVars, historyVars
  <2>2. e.turn \in 1..sent /\ \A i \in 1..Len(replies) : MayFollow(replies[i], e.turn)
    BY <2>1, CorrelateTypes, UnreadMayFollow
  <2>3. CASE UNCHANGED <<phase, lastPromptId, replies>>
    BY <2>1, <2>3 DEF CorrelateInv, Answered
  <2>4. ASSUME NEW chunks, NEW done \in BOOLEAN, SendReply(chunks, done, e.turn)
        PROVE  CorrelateInv'
    BY <2>1, <2>2, <2>4, CorrelateSend
  <2> QED
    BY <1>3, <2>3, <2>4 DEF TakeReplyEvent, replyVars
<1>4. CASE Flush
  <2> DEFINE t == events[buffer[1]].turn
  <2>1. /\ phase = "live" /\ UNCHANGED <<sent, connections, promptedOn, overlapped>>
        /\ SendReply(buffer, FALSE, t) /\ buffer # <<>>
    BY <1>4 DEF Flush, Live, managerVars, callerVars, historyVars
  <2>2. 1 \in 1..Len(buffer) /\ buffer[1] \in 1..Len(events)
    BY <2>1, FramesTypes
  <2>3. t \in 1..sent /\ \A i \in 1..Len(replies) : MayFollow(replies[i], t)
    BY <2>2, CorrelateTypes DEF FramesInv
  <2> HIDE DEF t
  <2> QED
    BY <2>1, <2>3, CorrelateSend
<1>5. CASE Connect
  <2>1. /\ connections' = connections + 1 /\ phase = "down"
        /\ UNCHANGED <<sent, lastPromptId, promptedOn, replies, overlapped>>
    BY <1>5 DEF Connect, Await, replyVars, historyVars
  <2>2. \A p \in 1..sent : promptedOn[p] < connections' /\ promptedOn[p] <= connections'
    BY <1>1, <2>1 DEF CorrelateInv
  <2>3. sent # 0 => IdOn(promptedOn, sent, connections') = NoId
    <3>1. sent # 0 => sent \in 1..sent
      BY CorrelateTypes
    <3>2. ASSUME sent # 0, promptedOn[sent] = connections'
          PROVE  FALSE
      BY <1>1, <2>1, <2>2, <3>1, <3>2
    <3> QED
      BY <3>2 DEF IdOn
  <2>4. lastPromptId = NoId
    BY <2>1 DEF CorrelateInv
  <2> QED
    BY <2>1, <2>2, <2>3, <2>4 DEF CorrelateInv, Answered
<1>6. CASE Resync \/ GoLive \/ InterruptFrame
  <2>1. /\ UNCHANGED <<sent, connections, lastPromptId, promptedOn, replies, overlapped>>
        /\ phase # "down" /\ phase' # "down"
    BY <1>6
    DEF Resync, GoLive, InterruptFrame, Live, Await, replyVars, historyVars, relayVars, managerVars,
        callerVars
  <2> QED
    BY <2>1 DEF CorrelateInv, Answered
<1>7. CASE Drop
  <2>1. /\ UNCHANGED <<sent, connections, promptedOn, replies, overlapped>>
        /\ phase' = "down" /\ lastPromptId' = NoId
    BY <1>7 DEF Drop, Forget, historyVars, managerVars, callerVars
  <2> QED
    BY <2>1 DEF CorrelateInv, Answered
<1> QED
  BY <1>2, <1>3, <1>4, <1>5, <1>6, <1>7 DEF RelayStep

\* A server that sends a prompt only after the done of the one before gets every reply
\* under the id of its own prompt, or under a fresh id when the prompt came on an earlier
\* connection, whatever the connection drops and the agent does (connection.rs:656-663, 958-966).
THEOREM PatientServersCorrelate == RelayedSpec => []PatientServerCorrelates
<1>1. RelayedInit => CorrelateInv
  BY DEF RelayedInit, RelayInit, Init, ManagerInit, CorrelateInv, Answered
<1>2. ASSUME TypeOK, RelayInv, EventsInOrder, FramesInv, CorrelateInv, [RelayedNext]_relayedVars
      PROVE  CorrelateInv'
  <2>1. CASE RelayStep
    BY <1>2, <2>1, CorrelateRelay
  <2>2. CASE (ManagerStep \/ Shutdown \/ UNCHANGED managerVars) /\ UNCHANGED relayVars
    <3>1. UNCHANGED sent
      BY <1>2, <2>2, EventsGrow
    <3>2. UNCHANGED <<phase, connections, lastPromptId, promptedOn, replies, overlapped>>
      BY <2>2 DEF relayVars, replyVars, historyVars
    <3> QED
      BY <1>2, <3>1, <3>2 DEF CorrelateInv, Answered
  <2> QED
    BY <1>2, <2>1, <2>2 DEF RelayedNext, relayedVars, vars
<1>3. CorrelateInv => PatientServerCorrelates
  BY DEF CorrelateInv, PatientServerCorrelates, IdOn
<1>4. RelayedSpec => [](TypeOK /\ EventsInOrder)
  BY RelayedSession, TypeCorrect, EventsOrdered, PTL DEF SessionSpec
<1> QED
  BY <1>1, <1>2, <1>3, <1>4, RelayInvariant, FramesInvariant, PTL DEF RelayedSpec

-------------------------------------------------------------------------------
(* The chunks a live connection takes. *)

\* The frames of fs sent on connection c, and the chunks they hold.
SentOn(fs, c)   == {i \in 1..Len(fs) : fs[i].on = c}
ChunksOn(fs, c) == UNION {Elements(fs[i].chunks) : i \in SentOn(fs, c)}

\* Those frames hold their chunks in order, each before the next's and before S.
RiseOn(fs, c, S) ==
  \A i \in SentOn(fs, c) :
    /\ Rising(fs[i].chunks)
    /\ Before(Elements(fs[i].chunks), S)
    /\ \A j \in SentOn(fs, c) : i < j => Before(Elements(fs[i].chunks), Elements(fs[j].chunks))

\* The updates among the events after the a-th, up to the b-th.
UpdatesIn(es, a, b) == {n \in a + 1 .. b : es[n].kind = "Update"}

\* NoChunkLostWhileLive is kept because a connection goes live with an empty batch and a
\* number no frame bears.
ChunksInv ==
  /\ \A i \in 1..Len(replies) : replies[i].on <= connections
  /\ phase # "live" => buffer = <<>>
  /\ phase \in {"presence", "resync"} => SentOn(replies, connections) = {}
  /\ phase = "live" =>
       /\ Elements(buffer) \cup ChunksOn(replies, connections) = UpdatesIn(events, since, read)
       /\ Rising(buffer)
       /\ RiseOn(replies, connections, Elements(buffer))

\* One more number, above all the others.
LEMMA RisingAppend ==
  ASSUME NEW T \in SUBSET Nat, NEW ns \in Seq(T), NEW n \in T,
         Rising(ns), Before(Elements(ns), {n})
  PROVE  Rising(Append(ns, n))
<1> DEFINE a == Append(ns, n)
<1>1. /\ Len(a) = Len(ns) + 1 /\ Len(ns) \in Nat /\ a[Len(ns) + 1] = n
      /\ \A i \in 1..Len(ns) : a[i] = ns[i] /\ ns[i] \in Elements(ns)
  BY DEF Elements
<1> HIDE DEF a
<1>2. ASSUME NEW i \in 1..Len(a), NEW j \in 1..Len(a), i < j
      PROVE  a[i] < a[j]
  <2>1. i \in 1..Len(ns)
    BY <1>1, <1>2
  <2>2. CASE j \in 1..Len(ns)
    BY <1>1, <1>2, <2>1, <2>2 DEF Rising
  <2>3. CASE j = Len(ns) + 1
    BY <1>1, <2>1, <2>3 DEF Before
  <2> QED
    BY <1>1, <2>2, <2>3
<1> QED
  BY <1>2 DEF Rising, a

\* One more frame on the connection adds its chunks, and follows in line when all of
\* them are among those announced.
LEMMA SentAppend ==
  ASSUME NEW fs \in Seq(Reply), NEW f \in Reply, NEW S,
         RiseOn(fs, f.on, S), Rising(f.chunks), Elements(f.chunks) \subseteq S
  PROVE  /\ ChunksOn(Append(fs, f), f.on) = ChunksOn(fs, f.on) \cup Elements(f.chunks)
         /\ RiseOn(Append(fs, f), f.on, {})
<1> DEFINE a == Append(fs, f)
           c == f.on
           n == Len(fs) + 1
<1>1. /\ Len(a) = n /\ Len(fs) \in Nat /\ a[n] = f
      /\ \A i \in 1..Len(fs) : a[i] = fs[i]
  OBVIOUS
<1> HIDE DEF a
<1>2. \A i : i \in 1..Len(a) <=> i \in 1..Len(fs) \/ i = n
  BY <1>1
<1>3. SentOn(a, c) = SentOn(fs, c) \cup {n} /\ SentOn(fs, c) \subseteq 1..Len(fs)
  BY <1>1, <1>2 DEF SentOn
<1>4. \A i \in SentOn(fs, c) : a[i] = fs[i]
  BY <1>1, <1>3
<1>5. ChunksOn(a, c) = ChunksOn(fs, c) \cup Elements(f.chunks)
  <2>1. ASSUME NEW x
        PROVE  x \in ChunksOn(a, c) <=> x \in ChunksOn(fs, c) \/ x \in Elements(f.chunks)
    <3>1. x \in ChunksOn(a, c) <=> \E i \in SentOn(a, c) : x \in Elements(a[i].chunks)
      BY DEF ChunksOn
    <3>2. x \in ChunksOn(fs, c) <=> \E i \in SentOn(fs, c) : x \in Elements(fs[i].chunks)
      BY DEF ChunksOn
    <3> QED
      BY <1>1, <1>3, <1>4, <3>1, <3>2
  <2> QED
    BY <2>1
<1>6. RiseOn(a, c, {})
  <2>1. ASSUME NEW i \in SentOn(a, c)
        PROVE  /\ Rising(a[i].chunks)
               /\ Before(Elements(a[i].chunks), {})
               /\ \A j \in SentOn(a, c) : i < j => Before(Elements(a[i].chunks), Elements(a[j].chunks))
    <3>1. CASE i = n
      <4>1. \A j \in SentOn(a, c) : ~(i < j)
        BY <1>1, <1>3, <3>1
      <4> QED
        BY <1>1, <3>1, <4>1 DEF Before
    <3>2. CASE i \in SentOn(fs, c)
      <4>1. Rising(fs[i].chunks) /\ Before(Elements(fs[i].chunks), S)
        BY <3>2 DEF RiseOn
      <4>2. Before(Elements(fs[i].chunks), Elements(f.chunks))
        BY <4>1 DEF Before
      <4>3. \A j \in SentOn(fs, c) : i < j => Before(Elements(fs[i].chunks), Elements(fs[j].chunks))
        BY <3>2 DEF RiseOn
      <4>4. \A j \in SentOn(a, c) : i < j => Before(Elements(a[i].chunks), Elements(a[j].chunks))
        BY <1>1, <1>3, <1>4, <3>2, <4>2, <4>3
      <4> QED
        BY <1>4, <3>2, <4>1, <4>4 DEF Before
    <3> QED
      BY <1>3, <3>1, <3>2
  <2> QED
    BY <2>1 DEF RiseOn
<1> QED
  BY <1>5, <1>6 DEF a

\* Sending the batch, or the batch and the chunk just taken, announced in bs.
LEMMA ChunksSend ==
  ASSUME TypeOK, RelayInv, RelayInv', ChunksInv, phase = "live",
         UNCHANGED <<events, connections, since>>,
         NEW bs \in Seq(Nat), NEW done \in BOOLEAN, NEW turn \in Turns, SendReply(bs, done, turn),
         Rising(bs), RiseOn(replies, connections, Elements(bs)),
         Elements(bs) \cup ChunksOn(replies, connections) = UpdatesIn(events, since, read')
  PROVE  ChunksInv'
<1> DEFINE f == [id |-> lastPromptId, chunks |-> bs, done |-> done, turn |-> turn,
                 on |-> connections]
<1>1. CASE Forget
  <2>1. phase' = "down" /\ buffer' = <<>> /\ replies' = replies
    BY <1>1 DEF Forget
  <2> QED
    BY <2>1 DEF ChunksInv
<1>2. CASE replies' = Append(replies, f) /\ buffer' = <<>> /\ UNCHANGED phase
  <2>1. f \in Reply /\ replies \in Seq(Reply) /\ f.on = connections /\ f.chunks = bs
    <3>1. connections \in 1..MaxConnections /\ lastPromptId \in 0..MaxPrompts
      BY MaxPromptsAssumption DEF RelayInv, RelayTypeOK, ConnectionCounted, TypeOK, ManagerTypeOK
    <3> QED
      BY <3>1 DEF Reply, RelayInv, RelayTypeOK
  <2> HIDE DEF f
  <2>2. /\ ChunksOn(replies', connections') = ChunksOn(replies, connections) \cup Elements(bs)
        /\ RiseOn(replies', connections', {})
    BY <1>2, <2>1, SentAppend
  <2>3. Elements(buffer') = {} /\ Rising(buffer')
    BY <1>2 DEF Elements, Rising
  <2>4. \A i \in 1..Len(replies') : replies'[i].on <= connections'
    <3>1. /\ Len(replies) \in Nat /\ Len(replies') = Len(replies) + 1
          /\ \A i \in 1..Len(replies) : replies'[i] = replies[i]
          /\ replies'[Len(replies) + 1] = f
      BY <1>2, <2>1
    <3>2. \A i \in 1..Len(replies') : i \in 1..Len(replies) \/ i = Len(replies) + 1
      BY <3>1
    <3>3. connections <= connections
      BY MaxConnectionsAssumption DEF RelayInv, RelayTypeOK
    <3> QED
      BY <2>1, <3>1, <3>2, <3>3 DEF ChunksInv
  <2> QED
    BY <1>2, <2>2, <2>3, <2>4 DEF ChunksInv
<1> QED
  BY <1>1, <1>2 DEF SendReply

\* The event arm (connection.rs:956-1034) keeps every update it takes, in the batch or in a frame.
LEMMA ChunksTake ==
  ASSUME TypeOK, RelayInv, RelayInv', ChunksInv, TakeReplyEvent
  PROVE  ChunksInv'
<1> DEFINE e  == events[read + 1]
           a  == Append(buffer, read + 1)
           us == UpdatesIn(events, since, read)
<1>1. /\ UNCHANGED <<events, connections, since>> /\ read' = read + 1 /\ phase = "live"
      /\ read + 1 \in 1..Len(events)
  BY FramesTypes DEF TakeReplyEvent, Live, managerVars, sessionVars, historyVars
<1>2. since \in 0..read /\ read \in Nat /\ buffer \in Seq(Nat)
  <2>1. since \in 0..read /\ read \in 0..Len(events)
    BY DEF RelayInv, RelayTypeOK
  <2>2. buffer \in Seq(1..Len(events)) /\ Len(events) \in Nat
    BY FramesTypes
  <2> QED
    BY <2>1, <2>2
<1>3. /\ Elements(buffer) \cup ChunksOn(replies, connections) = us
      /\ Rising(buffer) /\ RiseOn(replies, connections, Elements(buffer))
  BY <1>1 DEF ChunksInv
<1>4. \A n \in us : n \in Nat /\ n < read + 1
  BY <1>2 DEF UpdatesIn
<1>5. /\ e.kind = "Update" => UpdatesIn(events, since, read + 1) = us \cup {read + 1}
      /\ e.kind # "Update" => UpdatesIn(events, since, read + 1) = us
  <2>1. \A n : n \in since + 1 .. read + 1 <=> n \in since + 1 .. read \/ n = read + 1
    BY <1>2
  <2> QED
    BY <2>1 DEF UpdatesIn
<1>6. e.turn \in Turns
  BY <1>1, EventTurns
<1>7. /\ Elements(a) = Elements(buffer) \cup {read + 1} /\ a \in Seq(Nat) /\ Rising(a)
      /\ RiseOn(replies, connections, Elements(a))
  <2>1. Elements(a) = Elements(buffer) \cup {read + 1} /\ a \in Seq(Nat)
    BY <1>2, ElementsAppend
  <2>2. Before(Elements(buffer), {read + 1})
    BY <1>3, <1>4 DEF Before
  <2>3. Rising(a)
    BY <1>2, <1>3, <2>2, RisingAppend
  <2> HIDE DEF a, us
  <2>4. ASSUME NEW i \in SentOn(replies, connections)
        PROVE  Before(Elements(replies[i].chunks), Elements(a))
    <3>1. Elements(replies[i].chunks) \subseteq us
      BY <1>3 DEF ChunksOn
    <3> QED
      BY <1>3, <1>4, <2>1, <3>1 DEF Before, RiseOn
  <2> QED
    BY <1>3, <2>1, <2>3, <2>4 DEF RiseOn
<1> HIDE DEF a, us
<1>8. CASE e.kind = "Update" /\ buffer' = a /\ UNCHANGED <<phase, replies>>
  BY <1>1, <1>3, <1>5, <1>7, <1>8 DEF ChunksInv
<1>9. CASE e.kind = "Update" /\ SendReply(a, FALSE, e.turn)
  <2>1. Elements(a) \cup ChunksOn(replies, connections) = UpdatesIn(events, since, read')
    BY <1>1, <1>3, <1>5, <1>7, <1>9
  <2> QED
    BY <1>1, <1>6, <1>7, <1>9, <2>1, ChunksSend
<1>10. CASE e.kind \in StopKinds /\ SendReply(buffer, TRUE, e.turn)
  <2>1. e.kind # "Update"
    BY <1>10 DEF StopKinds
  <2>2. Elements(buffer) \cup ChunksOn(replies, connections) = UpdatesIn(events, since, read')
    BY <1>1, <1>3, <1>5, <2>1
  <2> QED
    BY <1>1, <1>2, <1>3, <1>6, <1>10, <2>2, ChunksSend
<1>11. CASE e.kind \in StatusKinds /\ UNCHANGED <<phase, buffer, replies>>
  <2>1. e.kind # "Update"
    BY <1>11 DEF StatusKinds
  <2> QED
    BY <1>1, <1>3, <1>5, <1>11, <2>1 DEF ChunksInv, us
<1> QED
  BY <1>8, <1>9, <1>10, <1>11 DEF TakeReplyEvent, Stragglers, replyVars, a

\* The flush arm sends the batch (connection.rs:1053-1066).
LEMMA ChunksFlush ==
  ASSUME TypeOK, RelayInv, RelayInv', ChunksInv, Flush
  PROVE  ChunksInv'
<1> DEFINE t == events[buffer[1]].turn
<1>1. /\ UNCHANGED <<events, connections, since, read>> /\ phase = "live"
      /\ buffer # <<>> /\ SendReply(buffer, FALSE, t)
  BY DEF Flush, Live, managerVars, sessionVars, historyVars
<1>2. buffer[1] \in 1..Len(events) /\ buffer \in Seq(Nat)
  BY <1>1, FramesTypes
<1>3. t \in Turns
  BY <1>2, EventTurns
<1>4. /\ Elements(buffer) \cup ChunksOn(replies, connections) = UpdatesIn(events, since, read')
      /\ Rising(buffer) /\ RiseOn(replies, connections, Elements(buffer))
  BY <1>1 DEF ChunksInv
<1> HIDE DEF t
<1> QED
  BY <1>1, <1>2, <1>3, <1>4, ChunksSend

\* What neither sends nor reads keeps ChunksInv: the session's steps only add events.
LEMMA ChunksIdle ==
  ASSUME TypeOK, RelayInv, ChunksInv, [RelayedNext]_relayedVars,
         UNCHANGED <<phase, connections, buffer, read, since, replies>>
  PROVE  ChunksInv'
<1>1. since \in 0..read /\ read \in 0..Len(events) /\ Len(events) \in Nat
  BY FramesTypes DEF RelayInv, RelayTypeOK
<1>2. \A n \in since + 1 .. read : events'[n] = events[n]
  BY <1>1, EventsExtend
<1>3. UpdatesIn(events', since, read) = UpdatesIn(events, since, read)
  BY <1>2 DEF UpdatesIn
<1> QED
  BY <1>3 DEF ChunksInv

\* A read adds to the batch, a send moves the batch to the frames, a drop starts over.
LEMMA ChunksStep ==
  ASSUME TypeOK, RelayInv, RelayInv', ChunksInv, [RelayedNext]_relayedVars
  PROVE  ChunksInv'
<1>1. CASE TakeReplyEvent
  BY <1>1, ChunksTake
<1>2. CASE Flush
  BY <1>2, ChunksFlush
<1>3. CASE Connect
  <2>1. /\ phase = "down" /\ phase' = "presence" /\ connections' = connections + 1
        /\ UNCHANGED <<buffer, replies>>
    BY <1>3 DEF Connect, replyVars
  <2>2. connections \in Nat /\ \A i \in 1..Len(replies) : replies[i].on \in Nat
    <3>1. \A r \in Reply : r.on \in Nat
      BY MaxConnectionsAssumption DEF Reply
    <3> QED
      BY <3>1, MaxConnectionsAssumption, SMTT(30) DEF RelayInv, RelayTypeOK
  <2>3. \A i \in 1..Len(replies) : replies[i].on <= connections' /\ replies[i].on # connections'
    BY <2>1, <2>2 DEF ChunksInv
  <2> QED
    BY <2>1, <2>3 DEF ChunksInv, SentOn
<1>4. CASE Resync
  BY <1>4 DEF Resync, replyVars, ChunksInv
<1>5. CASE GoLive
  <2>1. /\ phase = "resync" /\ phase' = "live" /\ since' = read
        /\ UNCHANGED <<connections, buffer, read, replies, events>>
    BY <1>5 DEF GoLive, replyVars, managerVars, sessionVars
  <2>2. buffer = <<>> /\ SentOn(replies, connections) = {}
    BY <2>1 DEF ChunksInv
  <2>3. read \in Nat
    BY FramesTypes
  <2>4. UpdatesIn(events, read, read) = {}
    BY <2>3 DEF UpdatesIn
  <2>5. Elements(buffer) = {} /\ Rising(buffer) /\ ChunksOn(replies, connections) = {}
        /\ RiseOn(replies, connections, {})
    BY <2>2 DEF Elements, Rising, ChunksOn, RiseOn
  <2> QED
    BY <2>1, <2>4, <2>5 DEF ChunksInv
<1>6. CASE Drop
  BY <1>6 DEF Drop, Forget, ChunksInv
<1>7. CASE PromptFrame \/ InterruptFrame \/ UNCHANGED relayVars
  BY <1>7, ChunksIdle DEF PromptFrame, InterruptFrame, relayVars, replyVars, historyVars
<1> QED
  BY <1>1, <1>2, <1>3, <1>4, <1>5, <1>6, <1>7 DEF RelayedNext, RelayStep, relayedVars

\* While a connection is live, what it sent and what it holds back are all the updates it took
\* off the session, in order and once each, for any number of prompts, connections and drops,
\* whenever the cap and the window send a batch (connection.rs:968-995, 1053-1066).
THEOREM LiveConnectionsKeepChunks == RelayedSpec => []NoChunkLostWhileLive
<1>1. RelayedInit => ChunksInv
  BY DEF RelayedInit, RelayInit, ChunksInv
<1>2. ASSUME ChunksInv
      PROVE  NoChunkLostWhileLive
  <2>1. SUFFICES ASSUME phase = "live"
                 PROVE  NoChunkLostWhileLive
    BY DEF NoChunkLostWhileLive
  <2>2. /\ Elements(buffer) \cup ChunksOn(replies, connections) = UpdatesIn(events, since, read)
        /\ Rising(buffer)
        /\ RiseOn(replies, connections, Elements(buffer))
    BY <1>2, <2>1 DEF ChunksInv
  <2> QED
    BY <2>2 DEF NoChunkLostWhileLive, ChunksOn, UpdatesIn, RiseOn, SentOn
<1>3. RelayedSpec => []TypeOK
  BY RelayInvariant, PTL
<1> QED
  BY <1>1, <1>2, <1>3, RelayInvariant, ChunksStep, PTL DEF RelayedSpec
===============================================================================
