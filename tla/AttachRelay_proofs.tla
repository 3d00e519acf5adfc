-------------------------- MODULE AttachRelay_proofs --------------------------
(***************************************************************************)
(* Theorems about AttachRelay for every value of its constants.             *)
(***************************************************************************)
EXTENDS AttachRelay, AttachSession_proofs

\* Every step of the connection is a step of AttachSession's caller, or leaves the session
\* alone.
LEMMA BlockedStepIsCallerStep ==
  ASSUME BlockedStep
  PROVE  CallerStep \/ UNCHANGED <<managerVars, portVars>>
<1>1. CASE Connect \/ Resync
  BY <1>1, ConnectCallsAssumption DEF Connect, Resync, CallerStep
<1>2. CASE PromptFrame
  BY <1>2 DEF PromptFrame, CallerStep
<1>3. CASE InterruptFrame \/ AnswerFrame
  BY <1>3 DEF InterruptFrame, AnswerFrame, CallerStep
<1>4. CASE GoLiveResynced \/ DropBlocked \/ TakeEventBlocked \/ TellFails \/ FlushBlocked
  BY <1>4 DEF GoLiveResynced, DropBlocked, TakeEventBlocked, TellFails, FlushBlocked, GoLive, Drop,
              TakeReplyEvent, Flush
<1> QED
  BY <1>1, <1>2, <1>3, <1>4 DEF BlockedStep

\* Every step of the composition is one AttachSession allows, or leaves its state alone.
LEMMA RelayedSteps == [RelayedNext]_relayedVars => [Next]_vars
<1> SUFFICES ASSUME [RelayedNext]_relayedVars PROVE [Next]_vars
  OBVIOUS
<1>1. CASE BlockedStep /\ UNCHANGED ownVars
  BY <1>1, BlockedStepIsCallerStep DEF Next, vars, ownVars
<1>2. CASE Shutdown /\ UNCHANGED <<ownVars, blockedVars>>
  BY <1>2 DEF Next, CallerStep, ownVars
<1>3. CASE AttachManagerStep /\ UNCHANGED blockedVars
  BY <1>3 DEF Next
<1>4. CASE (LoopStep \/ OpenCodeStep) /\ UNCHANGED <<managerVars, postVars, blockedVars>>
  BY <1>4 DEF Next
<1>5. CASE ServeStep \/ UNCHANGED relayedVars
  BY <1>5 DEF Next, relayedVars
<1> QED
  BY <1>1, <1>2, <1>3, <1>4, <1>5 DEF RelayedNext

\* Behind a connection the session does only what AttachSession lets it do, so that all its
\* theorems hold here too.
THEOREM RelayedAttachedSession == RelayedSpec => Spec
<1>1. RelayedInit => Init
  BY DEF RelayedInit
<1> QED
  BY <1>1, RelayedSteps, PTL DEF RelayedSpec, Spec

-------------------------------------------------------------------------------
(* The server's picture.  The resync's answer is the answer to is_blocked: while *)
(* it is awaited run_session is sent no other call.                            *)

OtherCalls == AwaitedCalls \ {"IsBlocked"}

ResyncAsks ==
  phase = "resync" /\ ~closed =>
    /\ call \in {"none", "IsBlocked"}
    /\ managerPc \notin {"interrupting", "answering"}
    /\ Positions(commands, OtherCalls) = {}

ToldInv ==
  /\ read \in Nat /\ read <= Len(events) /\ toldBlocked \in BOOLEAN
  /\ ResyncAsks
  /\ BlockedReachesServer

\* What one more event, and one more event read, leave to be read.
LEMMA StatusesAppend ==
  ASSUME NEW es \in Seq(DriverEvent), NEW e \in DriverEvent, NEW n \in Nat, n <= Len(es)
  PROVE  (\A i \in n + 1 .. Len(Append(es, e)) : Append(es, e)[i].kind \notin StatusKinds)
           <=> e.kind \notin StatusKinds /\ \A i \in n + 1 .. Len(es) : es[i].kind \notin StatusKinds
<1> DEFINE a == Append(es, e)
<1>1. /\ Len(a) = Len(es) + 1 /\ Len(es) \in Nat /\ a[Len(es) + 1] = e
      /\ \A i \in 1..Len(es) : a[i] = es[i]
  OBVIOUS
<1> HIDE DEF a
<1>2. \A i : i \in n + 1 .. Len(a) <=> i \in n + 1 .. Len(es) \/ i = Len(es) + 1
  BY <1>1
<1>3. \A i \in n + 1 .. Len(es) : i \in 1..Len(es)
  BY <1>1
<1> QED
  BY <1>1, <1>2, <1>3 DEF a

\* Reading one event: what it leaves to be read, and what it says if it is a status with none
\* behind it.
LEMMA StatusesRead ==
  ASSUME NEW es \in Seq(DriverEvent), NEW n \in Nat, n < Len(es)
  PROVE  /\ es[n + 1] \in DriverEvent
         /\ (\A i \in n + 1 .. Len(es) : es[i].kind \notin StatusKinds)
              <=> /\ es[n + 1].kind \notin StatusKinds
                  /\ \A i \in (n + 1) + 1 .. Len(es) : es[i].kind \notin StatusKinds
         /\ es[n + 1].kind \in StatusKinds
              /\ (\A i \in (n + 1) + 1 .. Len(es) : es[i].kind \notin StatusKinds)
            => (SaysBlocked(es) <=> es[n + 1].kind = "Blocked")
<1>1. Len(es) \in Nat /\ n + 1 \in 1..Len(es)
  OBVIOUS
<1>2. \A i : i \in n + 1 .. Len(es) <=> i = n + 1 \/ i \in (n + 1) + 1 .. Len(es)
  BY <1>1
<1>3. es[n + 1] \in DriverEvent
  BY <1>1
<1>4. ASSUME es[n + 1].kind \in StatusKinds,
             \A i \in (n + 1) + 1 .. Len(es) : es[i].kind \notin StatusKinds
      PROVE  SaysBlocked(es) <=> es[n + 1].kind = "Blocked"
  <2>1. ASSUME NEW i \in 1..Len(es), es[i].kind = "Blocked",
               \A j \in i + 1 .. Len(es) : es[j].kind \notin StatusKinds
        PROVE  i = n + 1
    <3>1. ~(n + 1 \in i + 1 .. Len(es)) /\ ~(i \in (n + 1) + 1 .. Len(es))
      BY <1>4, <2>1 DEF StatusKinds
    <3> QED
      BY <1>1, <3>1
  <2> QED
    BY <1>1, <1>4, <2>1 DEF SaysBlocked
<1> QED
  BY <1>2, <1>3, <1>4

\* What run_session does to what the connection rests on: it forwards one event, or answers,
\* and in the resync nothing but what was asked.
LEMMA ManagerTells ==
  ASSUME AttachInv, ToldInv, AttachManagerStep, UNCHANGED blockedVars
  PROVE  /\ UNCHANGED closed
         /\ \/ UNCHANGED <<events, blocked>>
            \/ \E e \in DriverEvent :
                 /\ events' = Append(events, e)
                 /\ UNCHANGED <<call, reply>>
                 /\ e.kind \notin StatusKinds => UNCHANGED blocked
         /\ phase = "resync" /\ ~closed =>
              /\ \/ UNCHANGED <<call, reply>>
                 \/ call' = "none" /\ UNCHANGED <<events, blocked>> /\ (reply' = "yes" <=> blocked)
              /\ managerPc' \notin {"interrupting", "answering"}
              /\ Positions(commands', OtherCalls) = {}
<1> USE DEF sessionVars, callerVars, awaitVars
<1>1. /\ commands \in Seq(ManagerCommand) /\ driverEvents \in Seq(DriverEvent)
      /\ managerPc \in {"running", "interrupting", "answering", "stopping", "stopped"} /\ blocked \in BOOLEAN
  BY DEF AttachInv, TypeOK, PortTypeOK, ManagerTypeOK
<1>2. UNCHANGED closed
  BY DEF AttachManagerStep, AttachReceiveStep, StartPrompt, QueuePrompt, DropPrompt, InterruptIdle, TellFlag,
         StopManager, InterruptAttached, AnswerRefused, AnswerAttached, InterruptReturns, AnswerReturns,
         TakeEvent, DriverGone, StallTimeout, ManagerStopped
<1>3. UNCHANGED <<events, blocked>> \/ TakeEvent
  BY DEF AttachManagerStep, AttachReceiveStep, StartPrompt, QueuePrompt, DropPrompt, InterruptIdle, TellFlag,
         StopManager, InterruptAttached, AnswerRefused, AnswerAttached, InterruptReturns, AnswerReturns,
         DriverGone, StallTimeout, ManagerStopped
<1>4. TakeEvent => \E e \in DriverEvent :
                 /\ events' = Append(events, e)
                 /\ UNCHANGED <<call, reply>>
                 /\ e.kind \notin StatusKinds => UNCHANGED blocked
  BY <1>1 DEF TakeEvent
<1>5. ASSUME phase = "resync", ~closed
      PROVE  /\ \/ UNCHANGED <<call, reply>>
                \/ call' = "none" /\ UNCHANGED <<events, blocked>> /\ (reply' = "yes" <=> blocked)
             /\ managerPc' \notin {"interrupting", "answering"}
             /\ Positions(commands', OtherCalls) = {}
  <2>1. /\ managerPc \notin {"interrupting", "answering"} /\ Positions(commands, OtherCalls) = {}
        /\ call \in {"none", "IsBlocked"}
    BY <1>5 DEF ToldInv, ResyncAsks
  <2>2. \A k \in OtherCalls : ~Receive(k)
    BY <1>1, <2>1, PositionsHead DEF Receive
  <2>3. OtherCalls = {"Interrupt", "Answer", "IsBusy"}
    BY DEF OtherCalls, AwaitedCalls
  <2>4. ~InterruptIdle /\ ~InterruptAttached /\ ~AnswerRefused /\ ~AnswerAttached
        /\ ~InterruptReturns /\ ~AnswerReturns
    BY <2>1, <2>2, <2>3 DEF InterruptIdle, InterruptAttached, AnswerRefused, AnswerAttached,
                            InterruptReturns, AnswerReturns
  <2>5. Positions(commands', OtherCalls) = {}
    <3>1. UNCHANGED commands \/ \E k : Receive(k)
      BY <2>4 DEF AttachManagerStep, AttachReceiveStep, StartPrompt, QueuePrompt, DropPrompt, TellFlag,
         StopManager, TakeEvent, DriverGone, StallTimeout, ManagerStopped
    <3>2. (\E k : Receive(k)) => Positions(commands', OtherCalls) = {}
      BY <1>1, <2>1, ReceiveKeeps DEF Receive
    <3> QED
      BY <2>1, <3>1, <3>2
  <2>6. CASE TellFlag
    <3>1. Receive("IsBlocked") /\ Return(IF blocked THEN "yes" ELSE "no")
          /\ UNCHANGED <<events, blocked, managerPc>>
      BY <2>2, <2>3, <2>6 DEF TellFlag
    <3>2. call # "none"
      <4>1. 1 \in Positions(commands, AwaitedCalls)
        BY <1>1, <3>1, PositionsHead DEF Receive, AwaitedCalls
      <4> QED
        BY <1>5, <4>1 DEF AttachInv, CallsInv
    <3> QED
      BY <1>1, <2>1, <2>5, <3>1, <3>2 DEF Return
  <2>7. CASE ~TellFlag
    <3>1. UNCHANGED <<call, reply>> /\ managerPc' \in {managerPc, "stopping", "stopped"}
      BY <2>4, <2>7 DEF AttachManagerStep, AttachReceiveStep, StartPrompt, QueuePrompt, DropPrompt,
         StopManager, TakeEvent, DriverGone, StallTimeout, ManagerStopped
    <3> QED
      BY <2>1, <2>5, <3>1
  <2> QED
    BY <2>6, <2>7
<1> QED
  BY <1>2, <1>3, <1>4, <1>5

\* run_session's steps: a status it forwards is still to be read.
LEMMA ToldManager ==
  ASSUME AttachInv, ToldInv, AttachManagerStep, UNCHANGED blockedVars
  PROVE  ToldInv'
<1>1. UNCHANGED <<phase, read, toldBlocked, closed>>
  BY ManagerTells DEF blockedVars, relayVars
<1>2. events \in Seq(DriverEvent) /\ read \in Nat /\ read <= Len(events)
  BY DEF AttachInv, TypeOK, ManagerTypeOK, ToldInv
<1>3. \/ UNCHANGED <<events, blocked>>
      \/ \E e \in DriverEvent :
           /\ events' = Append(events, e)
           /\ UNCHANGED <<call, reply>>
           /\ e.kind \notin StatusKinds => UNCHANGED blocked
  BY ManagerTells
<1>4. /\ read <= Len(events')
      /\ StatusesTaken' => StatusesTaken /\ UNCHANGED blocked
  <2>1. CASE UNCHANGED <<events, blocked>>
    BY <1>1, <1>2, <2>1 DEF StatusesTaken
  <2>2. ASSUME NEW e \in DriverEvent, events' = Append(events, e),
               e.kind \notin StatusKinds => UNCHANGED blocked
        PROVE  /\ read <= Len(events')
               /\ StatusesTaken' => StatusesTaken /\ UNCHANGED blocked
    <3>1. Len(Append(events, e)) = Len(events) + 1 /\ Len(events) \in Nat
      BY <1>2
    <3> QED
      BY <1>1, <1>2, <2>2, <3>1, StatusesAppend DEF StatusesTaken
  <2> QED
    BY <1>3, <2>1, <2>2
<1>5. ServerKnowsBlocked'
  BY <1>1, <1>4 DEF ToldInv, BlockedReachesServer, ServerKnowsBlocked
<1>6. ResyncNotStale' /\ ResyncAsks'
  <2>1. CASE phase = "resync" /\ ~closed
    <3>1. /\ \/ UNCHANGED <<call, reply>>
             \/ call' = "none" /\ UNCHANGED <<events, blocked>> /\ (reply' = "yes" <=> blocked)
          /\ managerPc' \notin {"interrupting", "answering"}
          /\ Positions(commands', OtherCalls) = {}
      BY <2>1, ManagerTells
    <3>2. ResyncAsks'
      BY <1>1, <2>1, <3>1 DEF ToldInv, ResyncAsks
    <3>3. ResyncNotStale'
      BY <1>1, <1>4, <2>1, <3>1 DEF ToldInv, BlockedReachesServer, ResyncNotStale
    <3> QED
      BY <3>2, <3>3
  <2>2. CASE ~(phase = "resync" /\ ~closed)
    BY <1>1, <2>2 DEF ResyncNotStale, ResyncAsks
  <2> QED
    BY <2>1, <2>2
<1> QED
  BY <1>1, <1>2, <1>4, <1>5, <1>6 DEF ToldInv, BlockedReachesServer

\* The connection's steps: it tells what the resync said, and then what it reads.
LEMMA ToldConnection ==
  ASSUME AttachInv, BlockedHasARequest, ToldInv, BlockedStep
  PROVE  ToldInv'
<1>1. /\ events \in Seq(DriverEvent) /\ commands \in Seq(ManagerCommand) /\ blocked \in BOOLEAN
      /\ read \in Nat /\ read <= Len(events) /\ toldBlocked \in BOOLEAN
  BY DEF AttachInv, TypeOK, ManagerTypeOK, ToldInv
<1>2. UNCHANGED <<events, blocked>>
  BY DEF BlockedStep, Connect, Resync, PromptFrame, InterruptFrame, AnswerFrame, GoLiveResynced, DropBlocked,
         TakeEventBlocked, TellFails, FlushBlocked, GoLive, Drop, TakeReplyEvent, Flush, Await, Prompt,
         sessionVars, managerVars
<1> USE DEF ToldInv, BlockedReachesServer, ServerKnowsBlocked, ResyncNotStale, ResyncAsks, StatusesTaken
<1>3. CASE Connect /\ UNCHANGED toldBlocked
  BY <1>1, <1>2, <1>3 DEF Connect
<1>4. CASE Resync /\ UNCHANGED toldBlocked
  <2> DEFINE c == [kind |-> "IsBlocked", turn |-> NoTurn]
  <2>1. /\ phase' = "resync" /\ UNCHANGED <<read, closed, managerPc>> /\ call = "none" /\ ~closed
        /\ call' = "IsBlocked" /\ commands' = Append(commands, c)
    BY <1>4 DEF Resync, Await, sessionVars
  <2>2. c \in ManagerCommand /\ c.kind \notin OtherCalls
    BY MessageTypes DEF AwaitedCalls, OtherCalls
  <2> HIDE DEF c
  <2>3. Positions(commands, AwaitedCalls) = {} /\ managerPc \notin {"interrupting", "answering"}
    BY <2>1 DEF AttachInv, CallsInv
  <2>4. Positions(commands', OtherCalls) = {}
    <3>1. Positions(commands, OtherCalls) = {}
      BY <2>3 DEF Positions, OtherCalls
    <3> QED
      BY <1>1, <2>1, <2>2, <3>1, PositionsAppend
  <2> QED
    BY <1>1, <1>2, <1>4, <2>1, <2>3, <2>4
<1>5. CASE (PromptFrame \/ InterruptFrame \/ AnswerFrame) /\ UNCHANGED toldBlocked
  <2>1. phase = "live" /\ UNCHANGED <<phase, read>>
    BY <1>5 DEF PromptFrame, InterruptFrame, AnswerFrame, Live, relayVars
  <2> QED
    BY <1>1, <1>2, <1>5, <2>1
<1>6. CASE GoLiveResynced
  <2>1. /\ phase = "resync" /\ ~closed /\ call = "none" /\ phase' = "live"
        /\ UNCHANGED <<read, closed, call, reply>> /\ toldBlocked' = (reply = "yes")
    BY <1>6 DEF GoLiveResynced, GoLive, Resynced, managerVars, callerVars, awaitVars
  <2> QED
    BY <1>1, <1>2, <2>1
<1>7. CASE DropBlocked
  BY <1>1, <1>2, <1>7 DEF DropBlocked, Drop, Forget
<1>8. CASE TakeEventBlocked
  <2> DEFINE e == events[read + 1]
  <2>1. /\ phase = "live" /\ read < Len(events) /\ read' = read + 1 /\ phase' \in {"live", "down"}
        /\ toldBlocked' = (phase' = "live" /\ ToldAfter(e))
    BY <1>8 DEF TakeEventBlocked, TakeReplyEvent, Live, SendReply, Forget
  <2>2. /\ e \in DriverEvent
        /\ StatusesTaken <=> e.kind \notin StatusKinds /\ StatusesTaken'
        /\ e.kind \in StatusKinds /\ StatusesTaken' => (SaysBlocked(events) <=> e.kind = "Blocked")
    BY <1>1, <1>2, <2>1, StatusesRead
  <2>3. blocked = SaysBlocked(events)
    BY DEF BlockedHasARequest
  <2> HIDE DEF e
  <2>4. ServerKnowsBlocked'
    <3>1. CASE phase' = "live" /\ StatusesTaken'
      <4>1. CASE e.kind \in StatusKinds
        BY <1>2, <2>1, <2>2, <2>3, <3>1, <4>1 DEF ToldAfter
      <4>2. CASE e.kind \notin StatusKinds
        BY <1>1, <1>2, <2>1, <2>2, <3>1, <4>2 DEF ToldAfter
      <4> QED
        BY <4>1, <4>2
    <3> QED
      BY <3>1
  <2>5. read' \in Nat /\ read' <= Len(events') /\ toldBlocked' \in BOOLEAN
    BY <1>1, <1>2, <2>1
  <2> QED
    BY <2>1, <2>4, <2>5
<1>9. CASE TellFails
  <2>1. /\ read < Len(events) /\ read' = read + 1 /\ phase' = "down" /\ toldBlocked' = FALSE
    BY <1>9 DEF TellFails, Forget
  <2>2. read' \in Nat /\ read' <= Len(events')
    BY <1>1, <1>2, <2>1
  <2> QED
    BY <2>1, <2>2
<1>10. CASE FlushBlocked
  <2>1. /\ phase = "live" /\ UNCHANGED read /\ phase' \in {"live", "down"}
        /\ toldBlocked' = (phase' = "live" /\ toldBlocked)
    BY <1>10 DEF FlushBlocked, Flush, Live, SendReply, Forget
  <2> QED
    BY <1>1, <1>2, <2>1
<1> QED
  BY <1>3, <1>4, <1>5, <1>6, <1>7, <1>8, <1>9, <1>10 DEF BlockedStep

\* A connection that has handled the statuses forwarded to it has told the server what
\* run_session believes, whether it came up in the middle of a block, between the event and its
\* reading, or with statuses of its predecessor still in the channel
\* (connection.rs:626-646, 1004-1042).
THEOREM BlockedReachesTheServer == RelayedSpec => []BlockedReachesServer
<1>1. RelayedInit => ToldInv
  <2> SUFFICES ASSUME RelayedInit PROVE ToldInv
    OBVIOUS
  <2>1. phase = "down" /\ read = 0 /\ toldBlocked = FALSE /\ events = <<>>
    BY DEF RelayedInit, BlockedInit, RelayInit, Init, ManagerInit
  <2>2. read \in Nat /\ read <= Len(events) /\ toldBlocked \in BOOLEAN
    <3>1. Len(events) = 0
      BY <2>1
    <3>2. toldBlocked \in BOOLEAN
      BY <2>1
    <3>3. read \in Nat
      BY <2>1
    <3>4. read <= Len(events)
      BY <2>1, <3>1
    <3> QED
      BY <3>2, <3>3, <3>4
  <2> QED
    BY <2>1, <2>2 DEF ToldInv, BlockedReachesServer, ServerKnowsBlocked, ResyncNotStale, ResyncAsks
<1>2. AttachInv /\ BlockedHasARequest /\ ToldInv /\ [RelayedNext]_relayedVars => ToldInv'
  <2> SUFFICES ASSUME AttachInv, BlockedHasARequest, ToldInv, [RelayedNext]_relayedVars
               PROVE  ToldInv'
    OBVIOUS
  <2>1. CASE BlockedStep
    BY <2>1, ToldConnection
  <2>2. CASE AttachManagerStep /\ UNCHANGED blockedVars
    BY <2>2, ToldManager
  <2>3. CASE UNCHANGED <<managerVars, blockedVars>>
    <3>1. UNCHANGED <<phase, read, toldBlocked, events, blocked, call, reply, closed, managerPc, commands>>
      BY <2>3 DEF managerVars, callerVars, awaitVars, sessionVars, blockedVars, relayVars
    <3> QED
      BY <3>1 DEF ToldInv, ResyncAsks, BlockedReachesServer, ServerKnowsBlocked, ResyncNotStale, StatusesTaken
  <2>4. CASE Shutdown /\ UNCHANGED blockedVars
    <3>1. closed' = TRUE /\ UNCHANGED <<phase, read, toldBlocked, events, blocked>>
      BY <2>4 DEF Shutdown, sessionVars, blockedVars, relayVars
    <3> QED
      BY <3>1 DEF ToldInv, ResyncAsks, BlockedReachesServer, ServerKnowsBlocked, ResyncNotStale, StatusesTaken
  <2>5. ServeStep => UNCHANGED managerVars
    BY DEF ServeStep, ServesInterrupt, ServesAnswer, PostLost
  <2> QED
    BY <2>1, <2>2, <2>3, <2>4, <2>5 DEF RelayedNext, relayedVars, vars
<1>3. ToldInv => BlockedReachesServer
  BY DEF ToldInv
<1>4. RelayedSpec => [](AttachInv /\ BlockedHasARequest)
  BY RelayedAttachedSession, AttachInvAlways, BlockedIsAnswerable, PTL
<1> QED
  BY <1>1, <1>2, <1>3, <1>4, PTL DEF RelayedSpec
===============================================================================
