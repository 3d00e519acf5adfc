------------------------ MODULE SessionManager_proofs ------------------------
(***************************************************************************)
(* What run_session and its caller do, whatever driver is on the other side *)
(* of the channels: the lemmas SpawnSession_proofs and AttachSession_proofs *)
(* both rest on.                                                            *)
(***************************************************************************)
EXTENDS SessionManager, SequenceTheorems, TLAPS

(* Channels: what sending on one and receiving from one do to Positions. *)

\* Sending adds the new message's position, if it is of the kinds looked for.
LEMMA PositionsAppend ==
  ASSUME NEW T, NEW ms \in Seq(T), NEW m \in T, NEW ks
  PROVE  /\ m.kind \notin ks => Positions(Append(ms, m), ks) = Positions(ms, ks)
         /\ m.kind \in ks => Positions(Append(ms, m), ks) = Positions(ms, ks) \cup {Len(ms) + 1}
<1> DEFINE am == Append(ms, m)
<1>1. Len(am) = Len(ms) + 1 /\ Len(ms) \in Nat
  OBVIOUS
<1>2. \A i \in 1..Len(ms) : am[i] = ms[i]
  OBVIOUS
<1>3. am[Len(ms) + 1] = m
  OBVIOUS
<1>4. \A i : i \in 1..(Len(ms) + 1) <=> i \in 1..Len(ms) \/ i = Len(ms) + 1
  BY <1>1
<1> QED
  BY <1>1, <1>2, <1>3, <1>4 DEF Positions

\* Receiving the head shifts the positions of the others down by one.
LEMMA PositionsTail ==
  ASSUME NEW T, NEW ms \in Seq(T), ms # <<>>, NEW ks
  PROVE  \A i : i \in Positions(Tail(ms), ks) <=> i \in Nat \ {0} /\ i + 1 \in Positions(ms, ks)
<1>1. Len(Tail(ms)) = Len(ms) - 1 /\ Len(ms) \in Nat \ {0}
  OBVIOUS
<1>2. \A i \in 1..(Len(ms) - 1) : Tail(ms)[i] = ms[i + 1]
  OBVIOUS
<1> QED
  BY <1>1, <1>2 DEF Positions

\* The head of a channel is at position 1.
LEMMA PositionsHead ==
  ASSUME NEW T, NEW ms \in Seq(T), ms # <<>>, NEW ks, Head(ms).kind \in ks
  PROVE  1 \in Positions(ms, ks)
BY DEF Positions

\* Receiving a message that is the only one of its kinds leaves none.
LEMMA ReceiveOnly ==
  ASSUME NEW T, NEW ms \in Seq(T), ms # <<>>, NEW ks,
         Head(ms).kind \in ks, AtMostOne(Positions(ms, ks))
  PROVE  Positions(Tail(ms), ks) = {}
<1>1. 1 \in Positions(ms, ks)
  BY PositionsHead
<1> QED
  BY <1>1, PositionsTail DEF AtMostOne

\* Receiving any message keeps "none" and "at most one".
LEMMA ReceiveKeeps ==
  ASSUME NEW T, NEW ms \in Seq(T), ms # <<>>, NEW ks
  PROVE  /\ Positions(ms, ks) = {} => Positions(Tail(ms), ks) = {}
         /\ AtMostOne(Positions(ms, ks)) => AtMostOne(Positions(Tail(ms), ks))
         /\ Head(ms).kind \notin ks /\ Positions(Tail(ms), ks) = {} => Positions(ms, ks) = {}
<1>1. \A i : i \in Positions(Tail(ms), ks) <=> i \in Nat \ {0} /\ i + 1 \in Positions(ms, ks)
  BY PositionsTail
<1>2. Positions(ms, ks) = {} => Positions(Tail(ms), ks) = {}
  BY <1>1
<1>3. AtMostOne(Positions(ms, ks)) => AtMostOne(Positions(Tail(ms), ks))
  BY <1>1 DEF AtMostOne
<1>4. ASSUME Head(ms).kind \notin ks, Positions(Tail(ms), ks) = {}
      PROVE  Positions(ms, ks) = {}
  <2>1. SUFFICES ASSUME NEW i \in Positions(ms, ks)
                 PROVE  FALSE
    OBVIOUS
  <2>2. i \in 1..Len(ms) /\ ms[i].kind \in ks
    BY <2>1 DEF Positions
  <2>3. i # 1
    BY <1>4, <2>2
  <2>4. i - 1 \in Nat \ {0} /\ (i - 1) + 1 \in Positions(ms, ks)
    BY <2>1, <2>2, <2>3
  <2> QED
    BY <1>1, <1>4, <2>4
<1> QED
  BY <1>2, <1>3, <1>4

\* A channel with nothing in it.
LEMMA EmptyType ==
  ASSUME NEW T
  PROVE  <<>> \in Seq(T)
OBVIOUS

\* A message of type T sent on a channel of type T.
LEMMA AppendType ==
  ASSUME NEW T, NEW ms \in Seq(T), NEW m \in T
  PROVE  Append(ms, m) \in Seq(T)
OBVIOUS

-------------------------------------------------------------------------------
(* Types.                                                                     *)

PairTypeOK == PortTypeOK /\ ManagerTypeOK

\* The arms of run_session that both kinds of session have.
CommonReceive ==
  StartPrompt \/ QueuePrompt \/ DropPrompt \/ InterruptIdle \/ TellFlag \/ StopManager

CommonStep == CommonReceive \/ TakeEvent \/ DriverGone \/ StallTimeout \/ ManagerStopped

\* What is sent to run_session and to the driver has the types of the channels.
LEMMA MessageTypes ==
  /\ \A p \in Prompts : PromptCommand(p) \in DriverCommand
  /\ CancelCommand \in DriverCommand
  /\ \A k \in EventKinds, p \in Prompts \cup {NoTurn} : Event(k, p) \in DriverEvent
  /\ \A k \in AwaitedCalls : [kind |-> k, turn |-> NoTurn] \in ManagerCommand
  /\ \A p \in Prompts : [kind |-> "Prompt", turn |-> p] \in ManagerCommand
BY DEF PromptCommand, CancelCommand, Event, DriverCommand, DriverEvent,
       ManagerCommand, EventKinds, StatusKinds, StopKinds, AwaitedCalls, Turns

\* What the head of each channel can be.
LEMMA PairHeadTypes ==
  ASSUME PairTypeOK
  PROVE  /\ commands # <<>> =>
              /\ Head(commands) \in ManagerCommand
              /\ Head(commands).kind = "Prompt" => Head(commands).turn \in Prompts
              /\ Tail(commands) \in Seq(ManagerCommand)
         /\ queue # <<>> => Head(queue) \in Prompts /\ Tail(queue) \in Seq(Prompts)
         /\ driverCommands # <<>> =>
              /\ Head(driverCommands) \in DriverCommand
              /\ Head(driverCommands).kind = "Prompt" => Head(driverCommands).turn \in Prompts
              /\ Tail(driverCommands) \in Seq(DriverCommand)
         /\ driverEvents # <<>> =>
              /\ Head(driverEvents) \in DriverEvent
              /\ Tail(driverEvents) \in Seq(DriverEvent)
<1> USE DEF PairTypeOK, PortTypeOK, ManagerTypeOK
<1>1. commands # <<>> => Head(commands) \in ManagerCommand /\ Tail(commands) \in Seq(ManagerCommand)
  OBVIOUS
<1>2. \A c \in ManagerCommand : c.kind = "Prompt" => c.turn \in Prompts
  BY DEF ManagerCommand, AwaitedCalls
<1>3. queue # <<>> => Head(queue) \in Prompts /\ Tail(queue) \in Seq(Prompts)
  OBVIOUS
<1>4. driverCommands # <<>> =>
        Head(driverCommands) \in DriverCommand /\ Tail(driverCommands) \in Seq(DriverCommand)
  OBVIOUS
<1>5. \A c \in DriverCommand : c.kind = "Prompt" => c.turn \in Prompts
  BY DEF DriverCommand
<1>6. driverEvents # <<>> =>
        Head(driverEvents) \in DriverEvent /\ Tail(driverEvents) \in Seq(DriverEvent)
  OBVIOUS
<1> QED
  BY <1>1, <1>2, <1>3, <1>4, <1>5, <1>6

\* run_session handing a prompt to the driver keeps its part of the types.
LEMMA HandOverType ==
  ASSUME PairTypeOK, NEW p \in Prompts, HandOver(p)
  PROVE  driverCommands' \in Seq(DriverCommand) /\ busy' \in BOOLEAN /\ driverAlive' \in BOOLEAN
BY MessageTypes DEF HandOver, PairTypeOK, PortTypeOK, ManagerTypeOK

\* The end of a turn hands over the oldest of the queue, or clears busy.
LEMMA TurnOverType ==
  ASSUME PairTypeOK, TurnOver
  PROVE  /\ driverCommands' \in Seq(DriverCommand)
         /\ busy' \in BOOLEAN /\ driverAlive' \in BOOLEAN /\ deadline' \in BOOLEAN
         /\ queue' \in Seq(Prompts)
<1>1. CASE queue = <<>> /\ UNCHANGED <<queue, driverAlive, driverCommands>> /\ busy' = FALSE
  BY <1>1 DEF TurnOver, PairTypeOK, PortTypeOK, ManagerTypeOK
<1>2. CASE queue # <<>> /\ queue' = Tail(queue) /\ HandOver(Head(queue))
  BY <1>2, HandOverType, PairHeadTypes DEF TurnOver
<1> QED
  BY <1>1, <1>2 DEF TurnOver

\* Both channels and run_session start empty and idle.
LEMMA PairTypeInit == PortInit /\ ManagerInit => PairTypeOK
<1> SUFFICES ASSUME PortInit, ManagerInit PROVE PairTypeOK
  OBVIOUS
<1> USE EmptyType
<1>1. PortTypeOK
  BY DEF PortInit, PortTypeOK
<1>2. sent \in 0..MaxPrompts /\ calls \in 0..MaxCalls
  BY MaxPromptsAssumption, CallsAssumption DEF ManagerInit
<1>3. commands \in Seq(ManagerCommand) /\ queue \in Seq(Prompts) /\ events \in Seq(DriverEvent)
  BY DEF ManagerInit
<1>4. ManagerTypeOK
  BY <1>2, <1>3 DEF ManagerInit, ManagerTypeOK, Replies
<1> QED
  BY <1>1, <1>4 DEF PairTypeOK

\* What callers send and wait for keeps the types.
LEMMA CallerType ==
  ASSUME PairTypeOK, CallerStep
  PROVE  PairTypeOK'
<1> USE DEF portVars, sessionVars, awaitVars, PairTypeOK
<1>1. PortTypeOK'
  BY DEF CallerStep, Prompt, Await, Shutdown, PortTypeOK
<1>2. CASE Prompt
  <2>1. [kind |-> "Prompt", turn |-> sent + 1] \in ManagerCommand /\ sent' \in 0..MaxPrompts
    BY <1>2, MessageTypes, MaxPromptsAssumption DEF Prompt, Prompts, ManagerTypeOK
  <2>2. commands' \in Seq(ManagerCommand)
    BY <1>2, <2>1, AppendType DEF Prompt, ManagerTypeOK
  <2> QED
    BY <1>1, <1>2, <2>1, <2>2 DEF Prompt, ManagerTypeOK
<1>3. ASSUME NEW k \in Calls, Await(k)
      PROVE  PairTypeOK'
  <2>1. k \in AwaitedCalls
    BY CallsAssumption
  <2>2. commands' \in Seq(ManagerCommand)
    BY <1>3, <2>1, MessageTypes, AppendType DEF Await, ManagerTypeOK
  <2>3. calls' \in 0..MaxCalls
    BY <1>3, CallsAssumption DEF Await, ManagerTypeOK
  <2> QED
    BY <1>1, <1>3, <2>1, <2>2, <2>3 DEF Await, ManagerTypeOK, Replies
<1>4. CASE Shutdown
  BY <1>1, <1>4 DEF Shutdown, ManagerTypeOK
<1> QED
  BY <1>2, <1>3, <1>4 DEF CallerStep

\* A receive leaves a channel of the same type.
LEMMA ReceiveType ==
  ASSUME PairTypeOK, NEW k, Receive(k)
  PROVE  commands' \in Seq(ManagerCommand)
BY PairHeadTypes DEF Receive

\* An answer to a call is one the call can return.
LEMMA ReturnType ==
  ASSUME PairTypeOK, NEW r \in Replies, Return(r)
  PROVE  call' \in {"none"} \cup AwaitedCalls /\ reply' \in Replies
BY DEF Return, PairTypeOK, ManagerTypeOK

\* The arms that both modes share keep the types.
LEMMA CommonType ==
  ASSUME PairTypeOK, CommonStep
  PROVE  PairTypeOK'
<1> USE DEF portVars, sessionVars, awaitVars, callerVars, PairTypeOK, PortTypeOK, ManagerTypeOK
<1>1. CASE StartPrompt
  <2>1. HandOver(Head(commands).turn) /\ Head(commands).turn \in Prompts
    BY <1>1, PairHeadTypes DEF StartPrompt, Receive
  <2>2. driverCommands' \in Seq(DriverCommand) /\ busy' \in BOOLEAN /\ driverAlive' \in BOOLEAN
    BY <2>1, HandOverType
  <2> QED
    BY <1>1, <2>2, ReceiveType DEF StartPrompt
<1>2. CASE QueuePrompt
  <2>1. Head(commands).turn \in Prompts
    BY <1>2, PairHeadTypes DEF QueuePrompt, Queued, Receive
  <2>2. queue' \in Seq(Prompts)
    BY <1>2, <2>1, AppendType DEF QueuePrompt, Queued
  <2> QED
    BY <1>2, <2>2, ReceiveType DEF QueuePrompt
<1>3. CASE DropPrompt
  BY <1>3, ReceiveType DEF DropPrompt
<1>4. CASE InterruptIdle
  BY <1>4, ReceiveType, ReturnType DEF InterruptIdle, Replies
<1>5. CASE TellFlag
  <2>1. commands' \in Seq(ManagerCommand)
    BY <1>5, ReceiveType DEF TellFlag
  <2>2. call' \in {"none"} \cup AwaitedCalls /\ reply' \in Replies
    BY <1>5, ReturnType DEF TellFlag, Replies
  <2> QED
    BY <1>5, <2>1, <2>2 DEF TellFlag
<1>6. CASE StopManager
  BY <1>6 DEF StopManager
<1>7. CASE TakeEvent
  <2>1. /\ driverEvents' \in Seq(DriverEvent)
        /\ events' \in Seq(DriverEvent)
        /\ blocked' \in BOOLEAN
    BY <1>7, PairHeadTypes, AppendType DEF TakeEvent, EndsTurn
  <2>2. /\ driverCommands' \in Seq(DriverCommand)
        /\ busy' \in BOOLEAN /\ driverAlive' \in BOOLEAN /\ deadline' \in BOOLEAN
        /\ queue' \in Seq(Prompts)
    BY <1>7, TurnOverType DEF TakeEvent, EndsTurn
  <2> QED
    BY <1>7, <2>1, <2>2 DEF TakeEvent
<1>8. CASE DriverGone
  BY <1>8 DEF DriverGone
<1>9. CASE StallTimeout
  BY <1>9, TurnOverType DEF StallTimeout
<1>10. CASE ManagerStopped
  BY <1>10 DEF ManagerStopped
<1> QED
  BY <1>1, <1>2, <1>3, <1>4, <1>5, <1>6, <1>7, <1>8, <1>9, <1>10 DEF CommonStep, CommonReceive

-------------------------------------------------------------------------------
(* What the connection is told.                                               *)

\* Everything said of turns: forwarded, and on its way to run_session.
Told == events \o driverEvents

\* An event run_session takes moves from the one sequence to the other.
LEMMA EventMoves ==
  ASSUME NEW T, NEW a \in Seq(T), NEW b \in Seq(T), b # <<>>
  PROVE  Append(a, Head(b)) \o Tail(b) = a \o b
<1>1. /\ Tail(b) \in Seq(T) /\ Head(b) \in T /\ Len(Tail(b)) = Len(b) - 1 /\ Len(b) \in Nat \ {0}
      /\ \A i \in 1..(Len(b) - 1) : Tail(b)[i] = b[i + 1]
      /\ Head(b) = b[1] /\ Len(a) \in Nat
  OBVIOUS
<1> DEFINE c == Append(a, Head(b))
           t == Tail(b)
<1>2. c \in Seq(T) /\ Len(c) = Len(a) + 1 /\ c[Len(a) + 1] = b[1] /\ \A i \in 1..Len(a) : c[i] = a[i]
  BY <1>1
<1>3. t \in Seq(T) /\ Len(t) = Len(b) - 1 /\ \A i \in 1..(Len(b) - 1) : t[i] = b[i + 1]
  BY <1>1
<1> HIDE DEF c, t
<1>4. /\ c \o t \in Seq(T) /\ a \o b \in Seq(T)
      /\ Len(c \o t) = Len(c) + Len(t) /\ Len(a \o b) = Len(a) + Len(b)
  BY <1>2, <1>3, ConcatProperties
<1>5. ASSUME NEW i \in 1..Len(a \o b) PROVE (c \o t)[i] = (a \o b)[i]
  <2>1. CASE i <= Len(a)
    BY <1>1, <1>2, <1>3, <2>1
  <2>2. CASE i = Len(a) + 1
    BY <1>1, <1>2, <1>3, <2>2
  <2>3. CASE i > Len(a) + 1
    <3>1. (c \o t)[i] = t[i - (Len(a) + 1)] /\ i - (Len(a) + 1) \in 1..(Len(b) - 1)
      BY <1>1, <1>2, <1>3, <2>3
    <3>2. (a \o b)[i] = b[i - Len(a)]
      BY <1>1, <2>3
    <3> QED
      BY <1>1, <1>3, <3>1, <3>2, SMTT(30)
  <2>4. i <= Len(a) \/ i = Len(a) + 1 \/ i > Len(a) + 1
    <3>1. \A m, n \in Int : m <= n \/ m = n + 1 \/ m > n + 1
      OBVIOUS
    <3>2. i \in Int /\ Len(a) \in Int
      BY <1>1, <1>4
    <3> QED
      BY <3>1, <3>2
  <2> QED
    BY <2>1, <2>2, <2>3, <2>4
<1>6. c \o t = a \o b
  <2>1. Len(c \o t) = Len(a \o b)
    BY <1>1, <1>2, <1>3, <1>4
  <2> QED
    BY <1>4, <1>5, <2>1, SeqEqual
<1> QED
  BY <1>6 DEF c, t

\* An event the driver sends joins the end of what is told.
LEMMA EventJoins ==
  ASSUME NEW T, NEW a \in Seq(T), NEW b \in Seq(T), NEW e \in T
  PROVE  a \o Append(b, e) = Append(a \o b, e)
<1> DEFINE c == Append(b, e)
           d == a \o b
<1>1. c \in Seq(T) /\ Len(c) = Len(b) + 1 /\ c[Len(b) + 1] = e /\ \A i \in 1..Len(b) : c[i] = b[i]
  OBVIOUS
<1>2. /\ d \in Seq(T) /\ Len(d) = Len(a) + Len(b)
      /\ \A i \in 1..Len(a) : d[i] = a[i]
      /\ \A i \in 1..Len(d) : i > Len(a) => d[i] = b[i - Len(a)]
  OBVIOUS
<1> HIDE DEF c, d
<1>3. /\ a \o c \in Seq(T) /\ Append(d, e) \in Seq(T)
      /\ Len(a \o c) = Len(a) + Len(b) + 1 /\ Len(Append(d, e)) = Len(a) + Len(b) + 1
      /\ Len(a) \in Nat /\ Len(b) \in Nat
  BY <1>1, <1>2, ConcatProperties, AppendProperties
<1>4. ASSUME NEW i \in 1..Len(a \o c) PROVE (a \o c)[i] = Append(d, e)[i]
  <2>1. CASE i <= Len(a)
    BY <1>1, <1>2, <1>3, <2>1
  <2>2. CASE i > Len(a) /\ i <= Len(a) + Len(b)
    <3>1. (a \o c)[i] = c[i - Len(a)] /\ i - Len(a) \in 1..Len(b)
      BY <1>1, <1>3, <2>2
    <3>2. Append(d, e)[i] = d[i] /\ i \in 1..Len(d)
      BY <1>2, <1>3, <2>2
    <3> QED
      BY <1>1, <1>2, <2>2, <3>1, <3>2
  <2>3. CASE i = Len(a) + Len(b) + 1
    BY <1>1, <1>2, <1>3, <2>3
  <2>4. i <= Len(a) \/ (i > Len(a) /\ i <= Len(a) + Len(b)) \/ i = Len(a) + Len(b) + 1
    <3>1. \A m, n, k \in Int : m <= n + k + 1 => m <= n \/ (m > n /\ m <= n + k) \/ m = n + k + 1
      OBVIOUS
    <3>2. i \in Int /\ Len(a) \in Int /\ Len(b) \in Int /\ i <= Len(a) + Len(b) + 1
      BY <1>3
    <3> QED
      BY <3>1, <3>2
  <2> QED
    BY <2>1, <2>2, <2>3, <2>4
<1>5. a \o c = Append(d, e)
  BY <1>3, <1>4, SeqEqual
<1> QED
  BY <1>5 DEF c, d

\* run_session only takes events the driver told of.
LEMMA CommonTellsNothing ==
  ASSUME PairTypeOK, CallerStep \/ CommonStep
  PROVE  Told' = Told
<1>1. CASE TakeEvent
  <2>1. /\ events' = Append(events, Head(driverEvents)) /\ driverEvents' = Tail(driverEvents)
        /\ driverEvents # <<>> /\ events \in Seq(DriverEvent) /\ driverEvents \in Seq(DriverEvent)
    BY <1>1 DEF TakeEvent, PairTypeOK, PortTypeOK, ManagerTypeOK
  <2> QED
    BY <2>1, EventMoves DEF Told
<1>2. CASE UNCHANGED <<events, driverEvents>>
  BY <1>2 DEF Told
<1>3. TakeEvent \/ UNCHANGED <<events, driverEvents>>
  BY DEF CallerStep, Prompt, Await, Shutdown, CommonStep, CommonReceive, StartPrompt, QueuePrompt,
         DropPrompt, InterruptIdle, TellFlag, StopManager, DriverGone, StallTimeout, ManagerStopped,
         sessionVars, portVars
<1> QED
  BY <1>1, <1>2, <1>3

-------------------------------------------------------------------------------
(* The line of prompts: ahead (P), with the driver, queued, sent.             *)

RisingPrompts(ms) == \A i, j \in PromptsIn(ms) : i < j => ms[i].turn < ms[j].turn

\* Four places of a line, from its head to its end, of numbers up to n.
InLine(P, D, Q, C, n) ==
  /\ P \cup D \cup Q \cup C \subseteq 1..n
  /\ Before(P, D \cup Q \cup C) /\ Before(D, Q \cup C) /\ Before(Q, C)

\* Messages of the kinds K.
Numbered(K) == [kind : K, turn : Nat]

\* P stands for the prompts that went past the driver's channel, whose commands are of
\* the kinds K.
LineOf(K, P, ds, q, cs, n) ==
  /\ n \in Nat
  /\ ds \in Seq(Numbered(K)) /\ q \in Seq(Nat) /\ cs \in Seq(Numbered({"Prompt"} \cup AwaitedCalls))
  /\ InLine(P, PromptNumbers(ds), Elements(q), PromptNumbers(cs), n)
  /\ RisingPrompts(ds) /\ Rising(q) /\ RisingPrompts(cs)

\* A number that joins the end of a sequence.
LEMMA NumbersAppend ==
  ASSUME NEW ns \in Seq(Nat), NEW n \in Nat
  PROVE  /\ Append(ns, n) \in Seq(Nat)
         /\ Elements(Append(ns, n)) = Elements(ns) \cup {n}
         /\ Rising(ns) /\ Before(Elements(ns), {n}) => Rising(Append(ns, n))
<1>1. Len(Append(ns, n)) = Len(ns) + 1 /\ Len(ns) \in Nat
  OBVIOUS
<1>2. \A i \in 1..(Len(ns) + 1) : Append(ns, n)[i] = IF i = Len(ns) + 1 THEN n ELSE ns[i]
  OBVIOUS
<1>3. Elements(Append(ns, n)) = Elements(ns) \cup {n}
  BY <1>1, <1>2 DEF Elements
<1>4. Rising(ns) /\ Before(Elements(ns), {n}) => Rising(Append(ns, n))
  BY <1>1, <1>2 DEF Elements, Rising, Before
<1> QED
  BY <1>3, <1>4

\* The number that leaves its front.
LEMMA NumbersTail ==
  ASSUME NEW ns \in Seq(Nat), ns # <<>>
  PROVE  /\ Tail(ns) \in Seq(Nat) /\ Head(ns) \in Nat
         /\ Elements(ns) = Elements(Tail(ns)) \cup {Head(ns)}
         /\ Rising(ns) => Rising(Tail(ns)) /\ Before({Head(ns)}, Elements(Tail(ns)))
<1>1. Len(Tail(ns)) = Len(ns) - 1 /\ Len(ns) \in Nat \ {0} /\ Head(ns) = ns[1]
  OBVIOUS
<1>2. \A i \in 1..(Len(ns) - 1) : Tail(ns)[i] = ns[i + 1]
  OBVIOUS
<1>3. Elements(Tail(ns)) \cup {Head(ns)} \subseteq Elements(ns)
  BY <1>1, <1>2 DEF Elements
<1>4. ASSUME NEW i \in 1..Len(ns) PROVE ns[i] \in Elements(Tail(ns)) \cup {Head(ns)}
  <2>1. CASE i = 1
    BY <1>1, <2>1
  <2>2. CASE i # 1
    <3>1. i - 1 \in 1..Len(Tail(ns)) /\ Tail(ns)[i - 1] = ns[i]
      BY <1>1, <1>2, <2>2
    <3> QED
      BY <3>1 DEF Elements
  <2> QED
    BY <2>1, <2>2
<1>5. Rising(ns) => Rising(Tail(ns)) /\ Before({Head(ns)}, Elements(Tail(ns)))
  BY <1>1, <1>2 DEF Elements, Rising, Before
<1>6. Elements(ns) \subseteq Elements(Tail(ns)) \cup {Head(ns)}
  BY <1>4 DEF Elements
<1> QED
  BY <1>3, <1>5, <1>6

\* A message that joins a channel: only a prompt changes its prompts.
LEMMA MessagesAppend ==
  ASSUME NEW T, NEW ms \in Seq(T), NEW m \in T
  PROVE  /\ Append(ms, m) \in Seq(T)
         /\ m.kind = "Prompt" =>
              /\ PromptNumbers(Append(ms, m)) = PromptNumbers(ms) \cup {m.turn}
              /\ RisingPrompts(ms) /\ Before(PromptNumbers(ms), {m.turn})
                   => RisingPrompts(Append(ms, m))
         /\ m.kind # "Prompt" =>
              /\ PromptNumbers(Append(ms, m)) = PromptNumbers(ms)
              /\ RisingPrompts(ms) => RisingPrompts(Append(ms, m))
<1> DEFINE am == Append(ms, m)
<1>1. Len(am) = Len(ms) + 1 /\ Len(ms) \in Nat /\ am \in Seq(T)
  OBVIOUS
<1>2. \A i \in 1..Len(ms) : am[i] = ms[i]
  OBVIOUS
<1>3. am[Len(ms) + 1] = m
  OBVIOUS
<1>4. /\ \A i \in PromptsIn(ms) : i \in 1..Len(ms)
      /\ m.kind = "Prompt" => PromptsIn(am) = PromptsIn(ms) \cup {Len(ms) + 1}
      /\ m.kind # "Prompt" => PromptsIn(am) = PromptsIn(ms)
  <2>1. \A i : i \in 1..(Len(ms) + 1) <=> i \in 1..Len(ms) \/ i = Len(ms) + 1
    BY <1>1
  <2> HIDE DEF am
  <2> QED
    BY <1>1, <1>2, <1>3, <2>1 DEF PromptsIn, Positions
<1>5. \A i \in PromptsIn(ms) : i < Len(ms) + 1 /\ i \in Nat
  BY <1>1, <1>4
<1> HIDE DEF am
<1>6. CASE m.kind = "Prompt"
  <2>1. PromptNumbers(am) = PromptNumbers(ms) \cup {m.turn}
    BY <1>2, <1>3, <1>4, <1>6 DEF PromptNumbers
  <2>2. RisingPrompts(ms) /\ Before(PromptNumbers(ms), {m.turn}) => RisingPrompts(am)
    BY <1>1, <1>2, <1>3, <1>4, <1>5, <1>6 DEF PromptNumbers, RisingPrompts, Before
  <2> QED
    BY <1>1, <1>6, <2>1, <2>2 DEF am
<1>7. CASE m.kind # "Prompt"
  BY <1>1, <1>2, <1>4, <1>7 DEF PromptNumbers, RisingPrompts, am
<1> QED
  BY <1>6, <1>7

\* The message received from it.
LEMMA MessagesTail ==
  ASSUME NEW T, NEW ms \in Seq(T), ms # <<>>
  PROVE  /\ Tail(ms) \in Seq(T) /\ Head(ms) \in T
         /\ PromptNumbers(Tail(ms)) \subseteq PromptNumbers(ms)
         /\ RisingPrompts(ms) => RisingPrompts(Tail(ms))
         /\ Head(ms).kind = "Prompt" =>
              /\ Head(ms).turn \in PromptNumbers(ms)
              /\ RisingPrompts(ms) => Before({Head(ms).turn}, PromptNumbers(Tail(ms)))
<1> DEFINE tm == Tail(ms)
<1>1. Len(tm) = Len(ms) - 1 /\ Len(ms) \in Nat \ {0} /\ tm \in Seq(T) /\ Head(ms) = ms[1] /\ Head(ms) \in T
  OBVIOUS
<1>2. \A i \in 1..(Len(ms) - 1) : tm[i] = ms[i + 1]
  OBVIOUS
<1> HIDE DEF tm
<1>3. \A i \in PromptsIn(tm) : i \in Nat \ {0} /\ i + 1 \in PromptsIn(ms) /\ tm[i].turn = ms[i + 1].turn
  BY <1>1, <1>2 DEF PromptsIn, Positions
<1>4. PromptNumbers(tm) \subseteq PromptNumbers(ms)
  BY <1>3 DEF PromptNumbers
<1>5. RisingPrompts(ms) => RisingPrompts(tm)
  BY <1>3 DEF RisingPrompts
<1>6. ASSUME Head(ms).kind = "Prompt"
      PROVE  /\ Head(ms).turn \in PromptNumbers(ms)
             /\ RisingPrompts(ms) => Before({Head(ms).turn}, PromptNumbers(tm))
  <2>1. 1 \in PromptsIn(ms)
    BY <1>1, <1>6 DEF PromptsIn, Positions
  <2> QED
    BY <1>1, <1>3, <2>1 DEF PromptNumbers, RisingPrompts, Before
<1> QED
  BY <1>1, <1>4, <1>5, <1>6 DEF tm

\* The numbers, and the prompts among the messages, at the head of a sequence and behind it.
LEMMA ElementsTail ==
  ASSUME NEW T, NEW ns \in Seq(T), ns # <<>>
  PROVE  Elements(ns) = Elements(Tail(ns)) \cup {Head(ns)}
<1> DEFINE t == Tail(ns)
<1>1. /\ Len(t) = Len(ns) - 1 /\ Len(ns) \in Nat \ {0} /\ Head(ns) = ns[1]
      /\ \A i \in 1..(Len(ns) - 1) : t[i] = ns[i + 1]
  OBVIOUS
<1> HIDE DEF t
<1>2. ASSUME NEW i \in 1..Len(ns)
      PROVE  ns[i] \in Elements(t) \cup {Head(ns)}
  <2>1. CASE i = 1
    BY <1>1, <2>1
  <2>2. CASE i # 1
    <3>1. i - 1 \in 1..Len(t) /\ t[i - 1] = ns[(i - 1) + 1] /\ (i - 1) + 1 = i
      BY <1>1, <2>2
    <3> QED
      BY <3>1 DEF Elements
  <2> QED
    BY <2>1, <2>2
<1>3. \A i \in 1..Len(t) : i + 1 \in 1..Len(ns) /\ t[i] = ns[i + 1]
  BY <1>1
<1>4. Head(ns) \in Elements(ns)
  BY <1>1 DEF Elements
<1> QED
  BY <1>2, <1>3, <1>4 DEF Elements, t

\* An element that joins the end.
LEMMA ElementsAppend ==
  ASSUME NEW T, NEW ns \in Seq(T), NEW n \in T
  PROVE  Elements(Append(ns, n)) = Elements(ns) \cup {n}
<1> DEFINE a == Append(ns, n)
<1>1. /\ Len(a) = Len(ns) + 1 /\ Len(ns) \in Nat /\ a[Len(ns) + 1] = n
      /\ \A i \in 1..Len(ns) : a[i] = ns[i]
  OBVIOUS
<1> HIDE DEF a
<1>2. \A i : i \in 1..Len(a) <=> i \in 1..Len(ns) \/ i = Len(ns) + 1
  BY <1>1
<1> QED
  BY <1>1, <1>2 DEF Elements, a

\* A receive takes the head's number out of those in the channel, if it is a prompt.
LEMMA PromptNumbersTail ==
  ASSUME NEW T, NEW ms \in Seq(T), ms # <<>>
  PROVE  /\ Head(ms).kind = "Prompt" => PromptNumbers(ms) = PromptNumbers(Tail(ms)) \cup {Head(ms).turn}
         /\ Head(ms).kind # "Prompt" => PromptNumbers(Tail(ms)) = PromptNumbers(ms)
<1> DEFINE t == Tail(ms)
<1>1. /\ Len(t) = Len(ms) - 1 /\ Len(ms) \in Nat \ {0} /\ Head(ms) = ms[1]
      /\ \A i \in 1..(Len(ms) - 1) : t[i] = ms[i + 1]
  OBVIOUS
<1> HIDE DEF t
<1>2. \A i \in PromptsIn(t) : i + 1 \in PromptsIn(ms) /\ t[i] = ms[i + 1]
  BY <1>1 DEF PromptsIn, Positions
<1>3. ASSUME NEW i \in PromptsIn(ms), i # 1
      PROVE  i - 1 \in PromptsIn(t) /\ t[i - 1] = ms[i]
  <2>1. i \in 1..Len(ms) /\ ms[i].kind = "Prompt"
    BY DEF PromptsIn, Positions
  <2>2. i - 1 \in 1..Len(t) /\ t[i - 1] = ms[(i - 1) + 1] /\ (i - 1) + 1 = i
    BY <1>1, <1>3, <2>1
  <2> QED
    BY <2>1, <2>2 DEF PromptsIn, Positions
<1>4. 1 \in PromptsIn(ms) <=> Head(ms).kind = "Prompt"
  BY <1>1 DEF PromptsIn, Positions
<1>5. PromptNumbers(t) \subseteq PromptNumbers(ms)
  BY <1>2 DEF PromptNumbers
<1>6. ASSUME NEW i \in PromptsIn(ms), i # 1
      PROVE  ms[i].turn \in PromptNumbers(t)
  BY <1>3, <1>6 DEF PromptNumbers
<1>7. Head(ms).kind = "Prompt" => Head(ms).turn \in PromptNumbers(ms)
  BY <1>1, <1>4 DEF PromptNumbers
<1>8. ASSUME NEW n \in PromptNumbers(ms)
      PROVE  n \in PromptNumbers(t) \/ (Head(ms).kind = "Prompt" /\ n = Head(ms).turn)
  <2>1. PICK i \in PromptsIn(ms) : n = ms[i].turn
    BY DEF PromptNumbers
  <2> QED
    BY <1>1, <1>4, <1>6, <2>1
<1> QED
  BY <1>5, <1>7, <1>8 DEF t

\* Leaving the line, and moving up in it, keep it in order.
LEMMA LineShrinks ==
  ASSUME NEW n \in Nat, NEW P, NEW D, NEW Q, NEW C, InLine(P, D, Q, C, n),
         NEW P2 \in SUBSET P, NEW D2 \in SUBSET D, NEW Q2 \in SUBSET Q, NEW C2 \in SUBSET C
  PROVE  InLine(P2, D2, Q2, C2, n)
BY DEF InLine, Before

\* A new prompt joins at the end of the line.
LEMMA LineGrows ==
  ASSUME NEW n \in Nat, NEW P, NEW D, NEW Q, NEW C, InLine(P, D, Q, C, n)
  PROVE  InLine(P, D, Q, C \cup {n + 1}, n + 1) /\ Before(C, {n + 1})
<1>1. P \cup D \cup Q \cup C \subseteq 1..n
  BY DEF InLine
<1> QED
  BY <1>1 DEF InLine, Before

\* A prompt received during a turn goes to the queue.
LEMMA LineQueues ==
  ASSUME NEW n \in Nat, NEW P, NEW D, NEW Q, NEW C, InLine(P, D, Q, C, n),
         NEW c \in C, NEW C2 \in SUBSET C, Before({c}, C2)
  PROVE  InLine(P, D, Q \cup {c}, C2, n) /\ Before(Q, {c})
<1>1. P \cup D \cup Q \cup C \subseteq 1..n
  BY DEF InLine
<1> QED
  BY <1>1 DEF InLine, Before

\* A prompt received while idle goes to the driver past an empty queue.
LEMMA LineStarts ==
  ASSUME NEW n \in Nat, NEW P, NEW D, NEW Q, NEW C, InLine(P, D, Q, C, n),
         NEW c \in C, NEW C2 \in SUBSET C, Before({c}, C2), Q = {}
  PROVE  InLine(P, D \cup {c}, Q, C2, n) /\ Before(D, {c})
<1>1. P \cup D \cup Q \cup C \subseteq 1..n
  BY DEF InLine
<1> QED
  BY <1>1 DEF InLine, Before

\* The head of the queue goes to the driver.
LEMMA LineHandsOver ==
  ASSUME NEW n \in Nat, NEW P, NEW D, NEW Q, NEW C, InLine(P, D, Q, C, n),
         NEW q \in Q, NEW Q2 \in SUBSET Q, Before({q}, Q2)
  PROVE  InLine(P, D \cup {q}, Q2, C, n) /\ Before(D, {q})
<1>1. P \cup D \cup Q \cup C \subseteq 1..n
  BY DEF InLine
<1> QED
  BY <1>1 DEF InLine, Before

\* The driver takes the head of its channel.
LEMMA LinePasses ==
  ASSUME NEW n \in Nat, NEW P, NEW D, NEW Q, NEW C, InLine(P, D, Q, C, n),
         NEW d \in D, NEW D2 \in SUBSET D, Before({d}, D2)
  PROVE  InLine(P \cup {d}, D2, Q, C, n) /\ Before(P, {d})
<1>1. P \cup D \cup Q \cup C \subseteq 1..n
  BY DEF InLine
<1> QED
  BY <1>1 DEF InLine, Before

\* What the caller sends joins the end.
LEMMA LineCaller ==
  ASSUME NEW K, NEW P, LineOf(K, P, driverCommands, queue, commands, sent), CallerStep
  PROVE  LineOf(K, P, driverCommands', queue', commands', sent')
<1> DEFINE T == Numbered({"Prompt"} \cup AwaitedCalls)
<1>1. UNCHANGED <<driverCommands, queue>>
  BY DEF CallerStep, Prompt, Await, Shutdown, portVars, sessionVars
<1>2. commands \in Seq(T) /\ sent \in Nat /\ RisingPrompts(commands)
  BY DEF LineOf
<1>3. CASE Prompt
  <2> DEFINE m == [kind |-> "Prompt", turn |-> sent + 1]
  <2>1. m \in T /\ m.kind = "Prompt" /\ m.turn = sent + 1
    BY <1>2 DEF Numbered
  <2>2. sent' = sent + 1 /\ commands' = Append(commands, m)
    BY <1>3 DEF Prompt
  <2> HIDE DEF m, T
  <2>3. /\ InLine(P, PromptNumbers(driverCommands), Elements(queue),
                  PromptNumbers(commands) \cup {sent + 1}, sent + 1)
        /\ Before(PromptNumbers(commands), {sent + 1})
    BY <1>2, LineGrows DEF LineOf
  <2>4. /\ commands' \in Seq(T) /\ PromptNumbers(commands') = PromptNumbers(commands) \cup {sent + 1}
        /\ RisingPrompts(commands')
    BY <1>2, <2>1, <2>2, <2>3, MessagesAppend
  <2> QED
    BY <1>1, <1>2, <2>2, <2>3, <2>4 DEF LineOf, T
<1>4. ASSUME NEW k \in Calls, Await(k)
      PROVE  LineOf(K, P, driverCommands', queue', commands', sent')
  <2> DEFINE m == [kind |-> k, turn |-> NoTurn]
  <2>1. m \in T /\ m.kind # "Prompt"
    BY CallsAssumption DEF Numbered, AwaitedCalls, NoTurn
  <2>2. commands' = Append(commands, m) /\ sent' = sent
    BY <1>4 DEF Await
  <2> HIDE DEF m, T
  <2>3. /\ commands' \in Seq(T) /\ PromptNumbers(commands') = PromptNumbers(commands)
        /\ RisingPrompts(commands')
    BY <1>2, <2>1, <2>2, MessagesAppend
  <2> QED
    BY <1>1, <2>2, <2>3 DEF LineOf, T
<1>5. CASE Shutdown
  BY <1>1, <1>5 DEF Shutdown, LineOf
<1> QED
  BY <1>3, <1>4, <1>5 DEF CallerStep

\* A prompt handed to the driver is behind all it has, and ahead of all that still wait.
LEMMA LineHandOver ==
  ASSUME NEW K, "Prompt" \in K, driverCommands \in Seq(Numbered(K)), NEW p \in Nat, HandOver(p),
         RisingPrompts(driverCommands), Before(PromptNumbers(driverCommands), {p})
  PROVE  /\ driverCommands' \in Seq(Numbered(K)) /\ RisingPrompts(driverCommands')
         /\ \/ driverCommands' = driverCommands
            \/ PromptNumbers(driverCommands') = PromptNumbers(driverCommands) \cup {p}
<1> DEFINE m == PromptCommand(p)
<1>1. m \in Numbered(K) /\ m.kind = "Prompt" /\ m.turn = p
  BY DEF PromptCommand, Numbered
<1>2. driverCommands' = Append(driverCommands, m) \/ driverCommands' = driverCommands
  BY DEF HandOver
<1> HIDE DEF m
<1>3. CASE driverCommands' = Append(driverCommands, m)
  BY <1>1, <1>3, MessagesAppend
<1> QED
  BY <1>2, <1>3

\* The end of a turn moves the line by one prompt at most.
LEMMA LineTurnOver ==
  ASSUME NEW K, NEW P, "Prompt" \in K, LineOf(K, P, driverCommands, queue, commands, sent),
         TurnOver, UNCHANGED <<commands, sent>>
  PROVE  LineOf(K, P, driverCommands', queue', commands', sent')
<1>1. CASE UNCHANGED <<queue, driverCommands>>
  BY <1>1
<1>2. CASE queue # <<>> /\ queue' = Tail(queue) /\ HandOver(Head(queue))
  <2> DEFINE p == Head(queue)
  <2>1. queue \in Seq(Nat) /\ Rising(queue) /\ sent \in Nat
    BY DEF LineOf
  <2>2. /\ queue' \in Seq(Nat) /\ p \in Nat /\ p \in Elements(queue) /\ Rising(queue')
        /\ Elements(queue') \subseteq Elements(queue) /\ Before({p}, Elements(queue'))
    BY <1>2, <2>1, NumbersTail
  <2>3. HandOver(p)
    BY <1>2
  <2> HIDE DEF p
  <2>4. /\ InLine(P, PromptNumbers(driverCommands) \cup {p}, Elements(queue'),
                  PromptNumbers(commands), sent)
        /\ Before(PromptNumbers(driverCommands), {p})
    BY <2>1, <2>2, LineHandsOver DEF LineOf
  <2>5. InLine(P, PromptNumbers(driverCommands), Elements(queue'), PromptNumbers(commands), sent)
    BY <2>1, <2>4, LineShrinks
  <2>6. /\ driverCommands' \in Seq(Numbered(K)) /\ RisingPrompts(driverCommands')
        /\ \/ driverCommands' = driverCommands
           \/ PromptNumbers(driverCommands') = PromptNumbers(driverCommands) \cup {p}
    BY <2>2, <2>3, <2>4, LineHandOver DEF LineOf
  <2> QED
    BY <2>2, <2>4, <2>5, <2>6 DEF LineOf
<1> QED
  BY <1>1, <1>2 DEF TurnOver

\* What a command received leaves of the channel.
LEMMA LineReceive ==
  ASSUME NEW K, NEW P, LineOf(K, P, driverCommands, queue, commands, sent), NEW k, Receive(k)
  PROVE  /\ commands' \in Seq(Numbered({"Prompt"} \cup AwaitedCalls)) /\ RisingPrompts(commands')
         /\ PromptNumbers(commands') \subseteq PromptNumbers(commands)
         /\ k = "Prompt" => /\ Head(commands).turn \in PromptNumbers(commands) \cap Nat
                            /\ Before({Head(commands).turn}, PromptNumbers(commands'))
<1> DEFINE T == Numbered({"Prompt"} \cup AwaitedCalls)
<1>1. /\ commands' = Tail(commands) /\ commands # <<>> /\ commands \in Seq(T)
      /\ Head(commands).kind = k /\ RisingPrompts(commands)
  BY DEF LineOf, Receive
<1>2. Head(commands) \in T => Head(commands).turn \in Nat
  BY DEF Numbered
<1> HIDE DEF T
<1>3. /\ commands' \in Seq(T) /\ Head(commands) \in T
      /\ PromptNumbers(commands') \subseteq PromptNumbers(commands) /\ RisingPrompts(commands')
      /\ k = "Prompt" => /\ Head(commands).turn \in PromptNumbers(commands)
                         /\ Before({Head(commands).turn}, PromptNumbers(commands'))
  BY <1>1, MessagesTail
<1> QED
  BY <1>2, <1>3 DEF T

\* A command received that is not handed on.
LEMMA LineDrops ==
  ASSUME NEW K, NEW P, LineOf(K, P, driverCommands, queue, commands, sent),
         NEW k, Receive(k), UNCHANGED <<queue, driverCommands, sent>>
  PROVE  LineOf(K, P, driverCommands', queue', commands', sent')
<1>1. InLine(P, PromptNumbers(driverCommands), Elements(queue), PromptNumbers(commands'), sent)
  BY LineReceive, LineShrinks DEF LineOf
<1> QED
  BY <1>1, LineReceive DEF LineOf

\* Every arm of run_session keeps the line, as long as it hands a prompt over at once
\* only when none waits in its queue.
LEMMA LineCommon ==
  ASSUME NEW K, NEW P, "Prompt" \in K, LineOf(K, P, driverCommands, queue, commands, sent),
         driverAlive /\ queue # <<>> => busy,
         CommonStep
  PROVE  LineOf(K, P, driverCommands', queue', commands', sent')
<1> DEFINE T == Numbered({"Prompt"} \cup AwaitedCalls)
<1>1. UNCHANGED sent
  BY DEF CommonStep, CommonReceive, StartPrompt, QueuePrompt, DropPrompt, InterruptIdle, TellFlag,
         StopManager, TakeEvent, DriverGone, StallTimeout, ManagerStopped, callerVars
<1>2. sent \in Nat /\ queue \in Seq(Nat) /\ Rising(queue)
  BY DEF LineOf
<1>3. CASE StartPrompt
  <2> DEFINE p == Head(commands).turn
  <2>1. /\ commands' \in Seq(T) /\ RisingPrompts(commands')
        /\ PromptNumbers(commands') \subseteq PromptNumbers(commands)
        /\ p \in PromptNumbers(commands) \cap Nat /\ Before({p}, PromptNumbers(commands'))
    BY <1>3, LineReceive DEF StartPrompt
  <2>2. HandOver(p) /\ UNCHANGED queue /\ queue = <<>>
    BY <1>3 DEF StartPrompt
  <2> HIDE DEF p, T
  <2>3. Elements(queue) = {}
    BY <2>2 DEF Elements
  <2>4. /\ InLine(P, PromptNumbers(driverCommands) \cup {p}, Elements(queue),
                  PromptNumbers(commands'), sent)
        /\ Before(PromptNumbers(driverCommands), {p})
    BY <1>2, <2>1, <2>3, LineStarts DEF LineOf
  <2>5. InLine(P, PromptNumbers(driverCommands), Elements(queue), PromptNumbers(commands'), sent)
    BY <1>2, <2>4, LineShrinks
  <2>6. /\ driverCommands' \in Seq(Numbered(K)) /\ RisingPrompts(driverCommands')
        /\ \/ driverCommands' = driverCommands
           \/ PromptNumbers(driverCommands') = PromptNumbers(driverCommands) \cup {p}
    BY <2>1, <2>2, <2>4, LineHandOver DEF LineOf
  <2> QED
    BY <1>1, <1>2, <2>1, <2>2, <2>4, <2>5, <2>6 DEF LineOf, T
<1>4. CASE QueuePrompt
  <2> DEFINE p == Head(commands).turn
  <2>1. /\ commands' \in Seq(T) /\ RisingPrompts(commands')
        /\ PromptNumbers(commands') \subseteq PromptNumbers(commands)
        /\ p \in PromptNumbers(commands) \cap Nat /\ Before({p}, PromptNumbers(commands'))
    BY <1>4, LineReceive DEF QueuePrompt
  <2>2. queue' = Append(queue, p) /\ UNCHANGED driverCommands
    BY <1>4 DEF QueuePrompt, Queued, portVars
  <2> HIDE DEF p, T
  <2>3. /\ InLine(P, PromptNumbers(driverCommands), Elements(queue) \cup {p},
                  PromptNumbers(commands'), sent)
        /\ Before(Elements(queue), {p})
    BY <1>2, <2>1, LineQueues DEF LineOf
  <2>4. queue' \in Seq(Nat) /\ Elements(queue') = Elements(queue) \cup {p} /\ Rising(queue')
    BY <1>2, <2>1, <2>2, <2>3, NumbersAppend
  <2> QED
    BY <1>1, <2>1, <2>2, <2>3, <2>4 DEF LineOf, T
<1>5. CASE DropPrompt \/ InterruptIdle \/ TellFlag
  <2>1. UNCHANGED <<queue, driverCommands>> /\ \E k : Receive(k)
    BY <1>5 DEF DropPrompt, InterruptIdle, TellFlag, sessionVars, portVars
  <2> QED
    BY <1>1, <2>1, LineDrops
<1>6. CASE TakeEvent \/ StallTimeout
  <2>1. UNCHANGED commands /\ (TurnOver \/ UNCHANGED <<queue, driverCommands>>)
    BY <1>6 DEF TakeEvent, StallTimeout
  <2> QED
    BY <1>1, <2>1, LineTurnOver
<1>7. CASE DriverGone \/ ManagerStopped \/ StopManager
  <2>1. UNCHANGED <<commands, queue, driverCommands>>
    BY <1>7 DEF DriverGone, ManagerStopped, StopManager, portVars
  <2> QED
    BY <1>1, <2>1
<1> QED
  BY <1>3, <1>4, <1>5, <1>6, <1>7 DEF CommonStep, CommonReceive

\* At the start nobody waits.
LEMMA LineInit ==
  ASSUME NEW K, PortInit, ManagerInit
  PROVE  LineOf(K, {}, driverCommands, queue, commands, sent)
<1>1. /\ commands = <<>> /\ driverCommands = <<>> /\ queue = <<>> /\ sent = 0
  BY DEF PortInit, ManagerInit
<1>2. /\ Elements(queue) = {} /\ PromptNumbers(commands) = {} /\ PromptNumbers(driverCommands) = {}
  BY <1>1 DEF Elements, PromptNumbers, PromptsIn, Positions
<1>3. Rising(queue) /\ RisingPrompts(commands) /\ RisingPrompts(driverCommands)
  BY <1>1 DEF Rising, RisingPrompts, PromptsIn, Positions
<1> QED
  BY <1>1, <1>2, <1>3 DEF LineOf, InLine, Before
===============================================================================
