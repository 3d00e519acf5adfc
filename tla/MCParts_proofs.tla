----------------------------- MODULE MCParts_proofs -----------------------------
(***************************************************************************)
(* Theorems about the parts that share no state with the sessions' turns,   *)
(* as MCParts runs them: the heartbeat, the frames of a connection, what    *)
(* startup hosts and says of it, and what an operator types. Each part      *)
(* keeps an invariant of its own, and no step of another part moves its     *)
(* variables.                                                               *)
(***************************************************************************)
EXTENDS MCParts, SequenceTheorems, FiniteSetTheorems, TLAPS

-------------------------------------------------------------------------------
\* What several parts need.

\* Some number is the least of any: of the intervals up to them one has no other inside.
LEMMA LeastOf ==
  ASSUME NEW S, S \subseteq Nat, NEW n \in S
  PROVE  \E m \in S : \A k \in S : m <= k
<1> DEFINE F == {0..i : i \in S \cap 0..n}
<1>1. IsWellFoundedOn(StrictSubsetOrdering(0..n), SUBSET (0..n))
  <2>1. IsFiniteSet(0..n)
    BY FS_Interval
  <2> QED
    BY <2>1, FS_FiniteSubsetsOfFinite, FS_StrictSubsetOrderingWellFounded
<1>2. F \subseteq SUBSET (0..n) /\ 0..n \in F
  OBVIOUS
<1>3. PICK I \in F : \A J \in F : ~(<<J, I>> \in StrictSubsetOrdering(0..n))
  <2> HIDE DEF F
  <2> QED
    BY <1>1, <1>2, WFMin
<1>4. PICK m \in S \cap 0..n : I = 0..m
  BY <1>3
<1>5. ASSUME NEW k \in S, k < m PROVE FALSE
  <2>1. 0..k \in F /\ 0..k \subseteq 0..m /\ 0..k # 0..m /\ 0..m \subseteq 0..n
    <3>1. m \in 0..m /\ m \notin 0..k
      BY <1>5
    <3> QED
      BY <1>5, <3>1
  <2>2. <<0..k, 0..m>> \in StrictSubsetOrdering(0..n)
    BY <2>1 DEF StrictSubsetOrdering
  <2> QED
    BY <1>3, <1>4, <2>1, <2>2
<1> QED
  BY <1>5

-------------------------------------------------------------------------------
\* The heartbeat.

FrameKinds == {"pong", "ping", "call"}

HeartbeatTypes ==
  /\ pc \in {"select", "busy", "closed", "timedOut"}
  /\ awaitingPong \in BOOLEAN /\ answered \in BOOLEAN /\ busySince \in BOOLEAN /\ serverUp \in BOOLEAN
  /\ elapsed \in 0..Interval
  /\ inbox \in Seq(FrameKinds)
  /\ pinged \in -1..Latency /\ frames \in Nat /\ silence \in Nat

\* Where pongs are waiting to be read.
PongsIn(fs) == {i \in 1..Len(fs) : fs[i] = "pong"}

\* A ping has one pong, with the server, on its way, or read.
OnePong ==
  /\ pinged >= 0 => awaitingPong /\ PongsIn(inbox) = {}
  /\ ~awaitingPong => PongsIn(inbox) = {}
  /\ awaitingPong /\ answered => PongsIn(inbox) # {}
  /\ \A i, j \in PongsIn(inbox) : i = j

\* While no arm has awaited anything since the ping, its pong is as old as it, and is not
\* left in the inbox for a tick.
PongInTime ==
  /\ pc = "busy" => busySince
  /\ pc = "timedOut" /\ pinged >= 0 => busySince
  /\ pinged >= 0 /\ ~busySince => elapsed <= pinged
  /\ PongsIn(inbox) # {} /\ ~busySince => elapsed <= Latency

\* What the silence can amount to.
SilenceSoFar ==
  pc \in {"select", "busy"} =>
    /\ silence <= Interval + elapsed
    /\ ~awaitingPong \/ PongsIn(inbox) # {} => silence <= elapsed

HeartbeatInv == HeartbeatTypes /\ OnePong /\ PongInTime /\ SilenceSoFar /\ TimedOutIsSilence

\* A frame arrives behind the others.
LEMMA PongsAppend ==
  ASSUME NEW fs \in Seq(FrameKinds), NEW f \in FrameKinds
  PROVE  /\ Append(fs, f) \in Seq(FrameKinds)
         /\ f = "pong" => PongsIn(Append(fs, f)) = PongsIn(fs) \cup {Len(fs) + 1}
         /\ f # "pong" => PongsIn(Append(fs, f)) = PongsIn(fs)
<1>1. Len(Append(fs, f)) = Len(fs) + 1 /\ Len(fs) \in Nat
  OBVIOUS
<1>2. \A i \in 1..(Len(fs) + 1) : Append(fs, f)[i] = IF i = Len(fs) + 1 THEN f ELSE fs[i]
  OBVIOUS
<1> QED
  BY <1>1, <1>2 DEF PongsIn

\* Reading a frame moves the others down by one.
LEMMA PongsTail ==
  ASSUME NEW fs \in Seq(FrameKinds), fs # <<>>
  PROVE  /\ Tail(fs) \in Seq(FrameKinds) /\ Head(fs) \in FrameKinds
         /\ Head(fs) = "pong" <=> 1 \in PongsIn(fs)
         /\ \A i : i \in PongsIn(Tail(fs)) <=> i \in Nat \ {0} /\ i + 1 \in PongsIn(fs)
<1>1. Len(Tail(fs)) = Len(fs) - 1 /\ Len(fs) \in Nat \ {0}
  OBVIOUS
<1>2. \A i \in 1..(Len(fs) - 1) : Tail(fs)[i] = fs[i + 1]
  OBVIOUS
<1> QED
  BY <1>1, <1>2 DEF PongsIn

\* Reading a pong leaves none; reading anything else leaves as many as there were.
LEMMA PongsRead ==
  ASSUME NEW fs \in Seq(FrameKinds), fs # <<>>, \A i, j \in PongsIn(fs) : i = j
  PROVE  /\ Head(fs) = "pong" => PongsIn(Tail(fs)) = {}
         /\ Head(fs) # "pong" => (PongsIn(Tail(fs)) = {} <=> PongsIn(fs) = {})
         /\ \A i, j \in PongsIn(Tail(fs)) : i = j
<1>1. PongsIn(fs) \subseteq Nat \ {0}
  BY DEF PongsIn
<1>2. \A i : i \in PongsIn(Tail(fs)) <=> i \in Nat \ {0} /\ i + 1 \in PongsIn(fs)
  BY PongsTail
<1>3. Head(fs) = "pong" <=> 1 \in PongsIn(fs)
  BY PongsTail
<1>4. ASSUME Head(fs) # "pong", NEW k \in PongsIn(fs) PROVE k - 1 \in PongsIn(Tail(fs))
  BY <1>1, <1>2, <1>3, <1>4
<1>5. Head(fs) = "pong" => PongsIn(Tail(fs)) = {}
  BY <1>1, <1>2, <1>3
<1>6. \A i, j \in PongsIn(Tail(fs)) : i = j
  BY <1>2
<1>7. PongsIn(fs) = {} => PongsIn(Tail(fs)) = {}
  BY <1>2
<1> QED
  BY <1>4, <1>5, <1>6, <1>7

\* A connection starts at a beat with no ping out.
LEMMA HeartbeatInit == Init => HeartbeatInv
<1> SUFFICES ASSUME Init PROVE HeartbeatInv
  OBVIOUS
<1>1. <<>> \in Seq(FrameKinds) /\ Len(<<>>) = 0
  OBVIOUS
<1>2. PongsIn(inbox) = {} /\ inbox \in Seq(FrameKinds)
  BY <1>1 DEF Init, PongsIn
<1>3. HeartbeatTypes
  <2>1. /\ awaitingPong \in BOOLEAN /\ answered \in BOOLEAN
        /\ busySince \in BOOLEAN /\ serverUp \in BOOLEAN
    BY DEF Init
  <2>2. elapsed \in 0..Interval /\ pinged \in -1..Latency /\ frames \in Nat /\ silence \in Nat
    BY HeartbeatAssumption DEF Init
  <2> QED
    BY <1>2, <2>1, <2>2 DEF Init, HeartbeatTypes
<1>4. ~awaitingPong /\ pc = "select" /\ ~(pinged >= 0) /\ silence = 0 /\ elapsed = 0
  BY DEF Init
<1> QED
  BY <1>2, <1>3, <1>4, HeartbeatAssumption
     DEF HeartbeatInv, OnePong, PongInTime, SilenceSoFar, TimedOutIsSilence

\* Each arm of the loop, the server's steps and the tick keep the invariant.
LEMMA HeartbeatNext == HeartbeatInv /\ [Next]_vars => HeartbeatInv'
<1> SUFFICES ASSUME HeartbeatInv, [Next]_vars PROVE HeartbeatInv'
  OBVIOUS
<1> USE HeartbeatAssumption
    DEF HeartbeatInv, HeartbeatTypes, OnePong, PongInTime, SilenceSoFar, TimedOutIsSilence,
        externalVars, historyVars
<1>1. CASE Beat
  <2>1. CASE awaitingPong
    BY <1>1, <2>1 DEF Beat
  <2>2. CASE ~awaitingPong
    <3>1. /\ awaitingPong' \in BOOLEAN /\ awaitingPong'
          /\ answered' \in BOOLEAN /\ ~answered' /\ busySince' \in BOOLEAN /\ ~busySince'
      BY <1>1, <2>2 DEF Beat
    <3>2. /\ elapsed' = 0 /\ pc' = "select" /\ pinged' \in {0, pinged}
          /\ UNCHANGED <<inbox, serverUp, frames, silence>>
      BY <1>1, <2>2 DEF Beat
    <3>3. PongsIn(inbox) = {} /\ ~(pinged >= 0) /\ silence <= Interval
      BY <1>1, <2>2 DEF Beat
    <3>4. HeartbeatTypes'
      BY <3>1, <3>2
    <3> QED
      BY <3>1, <3>2, <3>3, <3>4
  <2> QED
    BY <2>1, <2>2
<1>2. CASE ReadFrame
  <2>1. /\ inbox' \in Seq(FrameKinds) /\ Head(inbox) \in FrameKinds
        /\ Head(inbox) = "pong" => PongsIn(inbox') = {} /\ PongsIn(inbox) # {}
        /\ Head(inbox) # "pong" => (PongsIn(inbox') = {} <=> PongsIn(inbox) = {})
        /\ \A i, j \in PongsIn(inbox') : i = j
    BY <1>2, PongsTail, PongsRead DEF ReadFrame
  <2>2. CASE Head(inbox) = "pong"
    BY <1>2, <2>1, <2>2 DEF ReadFrame, IsPong
  <2>3. CASE Head(inbox) # "pong"
    BY <1>2, <2>1, <2>3 DEF ReadFrame, IsPong
  <2> QED
    BY <2>2, <2>3
<1>3. CASE CallReturns
  BY <1>3 DEF CallReturns
<1>4. CASE ConnectionGone
  BY <1>4 DEF ConnectionGone
<1>5. CASE ServerPongs
  <2>1. inbox' \in Seq(FrameKinds) /\ PongsIn(inbox') = {Len(inbox) + 1}
    BY <1>5, PongsAppend DEF ServerPongs, FrameKinds
  <2>2. answered' \in BOOLEAN /\ answered'
    BY <1>5 DEF ServerPongs
  <2>3. /\ silence' = 0 /\ pinged' = -1
        /\ UNCHANGED <<pc, awaitingPong, elapsed, serverUp, frames, busySince>>
    BY <1>5 DEF ServerPongs
  <2>4. awaitingPong /\ (~busySince => elapsed <= Latency) /\ (pc = "timedOut" => busySince)
    BY <1>5 DEF ServerPongs
  <2> QED
    BY <2>1, <2>2, <2>3, <2>4
<1>6. CASE ServerSends
  <2>1. inbox' \in Seq(FrameKinds) /\ PongsIn(inbox') = PongsIn(inbox)
    BY <1>6, PongsAppend DEF ServerSends, FrameKinds
  <2> QED
    BY <1>6, <2>1 DEF ServerSends
<1>7. CASE ServerGoesSilent
  <2>1. serverUp' \in BOOLEAN
    BY <1>7 DEF ServerGoesSilent
  <2>2. /\ pinged' = -1
        /\ UNCHANGED <<pc, awaitingPong, elapsed, inbox, frames, silence, answered, busySince>>
    BY <1>7 DEF ServerGoesSilent
  <2> QED
    BY <2>1, <2>2
<1>8. CASE Tick
  <2>1. pc = "select" => PongsIn(inbox) = {}
    BY <1>8 DEF Tick, PongsIn
  <2> QED
    BY <1>8, <2>1 DEF Tick
<1>9. CASE UNCHANGED vars
  BY <1>9 DEF vars
<1> QED
  BY <1>1, <1>2, <1>3, <1>4, <1>5, <1>6, <1>7, <1>8, <1>9 DEF Next, LoopStep

\* The strengthened invariant of every connection.
LEMMA HeartbeatAlways == Spec => []HeartbeatInv
BY HeartbeatInit, HeartbeatNext, PTL DEF Spec

\* A connection that is timed out although its pong had come is one whose loop awaited
\* something else since the ping.
THEOREM TimeOutsAreSilence == Spec => []TimedOutIsSilence
<1>1. HeartbeatInv => TimedOutIsSilence
  BY DEF HeartbeatInv
<1> QED
  BY <1>1, HeartbeatAlways, PTL

\* Whatever arrives in between, a loop that keeps turning notices a silence before it has
\* lasted two intervals.
THEOREM SilenceIsNoticed == Spec => []SilenceIsBounded
<1>1. HeartbeatInv => SilenceIsBounded
  BY HeartbeatAssumption DEF HeartbeatInv, HeartbeatTypes, SilenceSoFar, SilenceIsBounded
<1> QED
  BY <1>1, HeartbeatAlways, PTL

\* For every interval and every latency within it: a loop that kept nothing waiting times out
\* a server only if it did not answer, and no silence escapes it (connection.rs:919-949).
THEOREM HeartbeatIsRight == Spec => []HeartbeatTellsSilence
<1>1. TimedOutIsSilence /\ SilenceIsBounded => HeartbeatTellsSilence
  BY DEF HeartbeatTellsSilence
<1> QED
  BY <1>1, TimeOutsAreSilence, SilenceIsNoticed, PTL

-------------------------------------------------------------------------------
\* Frames: what is asked is answered.

Codes == {"none", "unknown_session", "no_pending_answer", "session_unavailable", "unknown_cmd",
          "unknown_feature"}
ReplyFrame == [type : {"pong", "error", "ack", "query_ok"}, code : Codes, id : 1..MaxIncoming]
Types      == Dispatch!TypedBodies \cup Dispatch!RawBodies \cup {"Unknown", "none"}
Request    == [type : Types, id : 1..MaxIncoming]

\* The frames rs received, the replies ss and the prompts accepted of the first n frames: ids
\* rise, and only what was received is answered.
InTurn(rs, ss, accepts, n) ==
  /\ rs \in Seq(Request) /\ ss \in Seq(ReplyFrame) /\ accepts \subseteq 1..n
  /\ \A i \in 1..Len(rs) : rs[i].id <= n
  /\ \A i, j \in 1..Len(rs) : i < j => rs[i].id < rs[j].id
  /\ \A i, j \in 1..Len(ss) : i < j => ss[i].id < ss[j].id
  /\ \A j \in 1..Len(ss) : \E i \in 1..Len(rs) : rs[i].id = ss[j].id

Answers(ss, id) == \E j \in 1..Len(ss) : ss[j].id = id

Owes(accepts, q) ==
  \/ q.type \in {"ping", "query", "interrupt", "answer"}
  \/ q.type = "prompt" /\ q.id \notin accepts

\* Of the first m frames received, what is owed an answer has it, and nothing else.
Settled(rs, ss, accepts, m) == \A i \in 1..m : Answers(ss, rs[i].id) <=> Owes(accepts, rs[i])

\* None of the first m frames received is an error.
NoErrors(rs, m) == \A i \in 1..m : rs[i].type # "error"

DispatchInv ==
  /\ framesPc \in {"hello", "select", "awaiting", "refused", "dropped"}
  /\ incoming \in 0..MaxIncoming
  /\ awaited.type \in {"none", "query", "interrupt", "answer"} /\ awaited.id \in 0..MaxIncoming
  /\ InTurn(received, replies, accepted, incoming)
  /\ framesPc \in {"hello", "refused"} => received = <<>> /\ replies = <<>>
  /\ framesPc = "select" => Settled(received, replies, accepted, Len(received))
  /\ framesPc = "awaiting" =>
       /\ received # <<>> /\ awaited = received[Len(received)]
       /\ awaited.type \in {"query", "interrupt", "answer"}
       /\ ~Answers(replies, awaited.id)
       /\ Settled(received, replies, accepted, Len(received) - 1)
  /\ Dispatch!EndsHaveACause

\* The ids of requests are numbers, up to the bound on frames.
LEMMA RequestIds == \A q \in Request : q.id \in Nat /\ q.id \in 1..MaxIncoming
BY BoundsAssumption DEF Request

\* What Reply makes is a frame that may be sent.
LEMMA RepliesAreFrames ==
  ASSUME NEW t \in {"pong", "error", "ack", "query_ok"}, NEW c \in Codes, NEW id \in 1..MaxIncoming
  PROVE  Dispatch!Reply(t, c, id) \in ReplyFrame /\ Dispatch!Reply(t, c, id).id = id
BY DEF Dispatch!Reply, ReplyFrame

\* The code of an error frame is one of a few.
LEMMA CodesOfErrors == \A x : Dispatch!ErrorCode(x) \in Codes
BY DEF Dispatch!ErrorCode, Codes

\* What one more element does to a sequence.
LEMMA AppendedTo ==
  ASSUME NEW T, NEW s \in Seq(T), NEW e \in T
  PROVE  /\ Append(s, e) \in Seq(T) /\ Len(s) \in Nat
         /\ Len(Append(s, e)) = Len(s) + 1 /\ Append(s, e)[Len(s) + 1] = e
         /\ \A i \in 1..Len(s) : Append(s, e)[i] = s[i]
OBVIOUS

\* A frame received takes the next id.
LEMMA Receives ==
  ASSUME NEW rs, NEW ss, NEW accepts, NEW n \in Nat, InTurn(rs, ss, accepts, n),
         NEW q \in Request, q.id = n + 1
  PROVE  /\ InTurn(Append(rs, q), ss, accepts, n + 1)
         /\ Append(rs, q) # <<>> /\ Len(Append(rs, q)) = Len(rs) + 1 /\ Len(rs) \in Nat
         /\ Append(rs, q)[Len(rs) + 1] = q
         /\ ~Answers(ss, q.id) /\ q.id \notin accepts
         /\ Settled(rs, ss, accepts, Len(rs)) => Settled(Append(rs, q), ss, accepts, Len(rs))
         /\ NoErrors(rs, Len(rs)) => NoErrors(Append(rs, q), Len(rs))
<1> DEFINE a == Append(rs, q)
<1>1. /\ a \in Seq(Request) /\ Len(rs) \in Nat /\ Len(a) = Len(rs) + 1 /\ a[Len(rs) + 1] = q
      /\ \A i \in 1..Len(rs) : a[i] = rs[i] /\ rs[i] \in Request
      /\ ss \in Seq(ReplyFrame) /\ Len(ss) \in Nat /\ accepts \subseteq 1..n
  BY AppendedTo DEF InTurn
<1>0. a # <<>>
  BY <1>1
<1> HIDE DEF a
<1>2. \A i \in 1..Len(rs) : rs[i].id \in Nat /\ rs[i].id <= n
  BY <1>1 DEF InTurn, Request
<1>3. \A i, j \in 1..Len(a) : i < j => a[i].id < a[j].id
  <2> SUFFICES ASSUME NEW i \in 1..Len(a), NEW j \in 1..Len(a), i < j PROVE a[i].id < a[j].id
    OBVIOUS
  <2>1. CASE j = Len(rs) + 1
    <3>1. i \in 1..Len(rs) /\ a[i] = rs[i] /\ a[j] = q
      BY <1>1, <2>1
    <3> QED
      BY <1>2, <3>1
  <2>2. CASE j \in 1..Len(rs)
    <3>1. i \in 1..Len(rs) /\ a[i] = rs[i] /\ a[j] = rs[j]
      BY <1>1, <2>2
    <3> QED
      BY <2>2, <3>1 DEF InTurn
  <2>3. j \in 1..Len(rs) \/ j = Len(rs) + 1
    BY <1>1
  <2> QED
    BY <2>1, <2>2, <2>3
<1>4. \A i \in 1..Len(a) : a[i].id <= n + 1
  BY <1>1, <1>2
<1>5. \A j \in 1..Len(ss) : \E i \in 1..Len(a) : a[i].id = ss[j].id
  <2> TAKE j \in 1..Len(ss)
  <2>1. PICK i \in 1..Len(rs) : rs[i].id = ss[j].id
    BY DEF InTurn
  <2> QED
    BY <1>1, <2>1
<1>6. ~Answers(ss, q.id)
  BY <1>2 DEF Answers, InTurn
<1>7. InTurn(a, ss, accepts, n + 1)
  BY <1>1, <1>3, <1>4, <1>5 DEF InTurn
<1>8. q.id \notin accepts
  BY <1>1
<1>9. Settled(rs, ss, accepts, Len(rs)) => Settled(a, ss, accepts, Len(rs))
  BY <1>1 DEF Settled
<1>10. NoErrors(rs, Len(rs)) => NoErrors(a, Len(rs))
  BY <1>1 DEF NoErrors
<1> QED
  BY <1>0, <1>1, <1>6, <1>7, <1>8, <1>9, <1>10 DEF a

\* An answer to the last frame received, which had none.
LEMMA Replies ==
  ASSUME NEW rs, NEW ss, NEW accepts, NEW n \in Nat, InTurn(rs, ss, accepts, n), rs # <<>>,
         NEW r \in ReplyFrame, r.id = rs[Len(rs)].id, ~Answers(ss, r.id)
  PROVE  /\ InTurn(rs, Append(ss, r), accepts, n)
         /\ \A id : Answers(Append(ss, r), id) <=> Answers(ss, id) \/ id = r.id
<1> DEFINE a == Append(ss, r)
<1>1. /\ a \in Seq(ReplyFrame) /\ Len(ss) \in Nat /\ Len(a) = Len(ss) + 1 /\ a[Len(ss) + 1] = r
      /\ \A j \in 1..Len(ss) : a[j] = ss[j] /\ ss[j] \in ReplyFrame
      /\ rs \in Seq(Request) /\ Len(rs) \in Nat \ {0} /\ \A i \in 1..Len(rs) : rs[i] \in Request
  BY AppendedTo DEF InTurn
<1> HIDE DEF a
<1>2. \A id : Answers(a, id) <=> Answers(ss, id) \/ id = r.id
  BY <1>1 DEF Answers
<1>3. ASSUME NEW j \in 1..Len(ss) PROVE ss[j].id < r.id
  <2>1. PICK i \in 1..Len(rs) : rs[i].id = ss[j].id
    BY DEF InTurn
  <2>2. ss[j].id # r.id
    BY DEF Answers
  <2>3. i # Len(rs)
    BY <2>1, <2>2
  <2>4. i < Len(rs) /\ Len(rs) \in 1..Len(rs)
    BY <1>1, <2>3
  <2> QED
    BY <2>1, <2>4 DEF InTurn
<1>4. \A i, j \in 1..Len(a) : i < j => a[i].id < a[j].id
  <2> SUFFICES ASSUME NEW i \in 1..Len(a), NEW j \in 1..Len(a), i < j PROVE a[i].id < a[j].id
    OBVIOUS
  <2>1. CASE j = Len(ss) + 1
    BY <1>1, <1>3, <2>1
  <2>2. CASE j \in 1..Len(ss)
    <3>1. i \in 1..Len(ss) /\ a[i] = ss[i] /\ a[j] = ss[j]
      BY <1>1, <2>2
    <3> QED
      BY <2>2, <3>1 DEF InTurn
  <2>3. j \in 1..Len(ss) \/ j = Len(ss) + 1
    <3>1. Len(ss) \in Nat /\ Len(a) = Len(ss) + 1
      BY <1>1
    <3> QED
      BY <3>1
  <2> QED
    BY <2>1, <2>2, <2>3
<1>5. \A j \in 1..Len(a) : \E i \in 1..Len(rs) : rs[i].id = a[j].id
  <2> TAKE j \in 1..Len(a)
  <2>1. CASE j = Len(ss) + 1
    BY <1>1, <2>1
  <2>2. CASE j \in 1..Len(ss)
    BY <1>1, <2>2 DEF InTurn
  <2> QED
    BY <1>1, <2>1, <2>2
<1>6. InTurn(rs, a, accepts, n)
  BY <1>1, <1>4, <1>5 DEF InTurn
<1> QED
  BY <1>2, <1>6 DEF a

\* No frame received before the last has its id.
LEMMA OtherIds ==
  ASSUME NEW rs, NEW ss, NEW accepts, NEW n \in Nat, InTurn(rs, ss, accepts, n),
         NEW i \in 1..(Len(rs) - 1)
  PROVE  rs[i].id # rs[Len(rs)].id
<1>1. rs \in Seq(Request) /\ Len(rs) \in Nat
  BY DEF InTurn
<1>2. i \in 1..Len(rs) /\ Len(rs) \in 1..Len(rs) /\ i < Len(rs)
  BY <1>1
<1>3. rs[i].id < rs[Len(rs)].id /\ rs[i].id \in Nat
  BY <1>1, <1>2, RequestIds DEF InTurn
<1> QED
  BY <1>3

\* A frame that is not taken only uses up an id.
LEMMA IdsGoOn ==
  ASSUME NEW rs, NEW ss, NEW accepts, NEW n \in Nat, InTurn(rs, ss, accepts, n)
  PROVE  InTurn(rs, ss, accepts, n + 1)
<1>1. \A i \in 1..Len(rs) : rs[i].id \in Nat /\ rs[i].id <= n
  BY RequestIds DEF InTurn
<1>2. \A i \in 1..Len(rs) : rs[i].id <= n + 1
  BY <1>1
<1>3. accepts \subseteq 1..(n + 1)
  BY DEF InTurn
<1> QED
  BY <1>2, <1>3 DEF InTurn

\* Every shape has an id to be replaced.
LEMMA ShapesHaveIds == \A f \in Good \cup Broken : \A n : [f EXCEPT !.id = n].id = n
<1>1. \A t, n : [Encode(t, 1) EXCEPT !.id = n].id = n /\ "id" \in DOMAIN Encode(t, 1)
  BY DEF Encode
<1> QED
  BY DEF Good, Broken, Encode, Absent, PROTOCOL_VERSION

\* A frame that arrives is the next, and so is its id if it decodes.
LEMMA ArrivedIds ==
  ASSUME incoming \in Nat, NEW f, Dispatch!Arrives(f)
  PROVE  /\ incoming' = incoming + 1 /\ incoming + 1 \in 1..MaxIncoming
         /\ Dispatch!Decode(f).type \in Types
         /\ Dispatch!Decode(f).ok => f.id = incoming + 1
<1>1. PICK s \in Good \cup Broken : f = IF s.id = 0 THEN s ELSE [s EXCEPT !.id = incoming + 1]
  BY DEF Dispatch!Arrives
<1>2. Dispatch!Decode(f).ok => f.id # 0
  BY DEF Dispatch!Decode, Dispatch!Malformed, Dispatch!Unsupported
<1>3. Dispatch!Decode(f).ok => f.id = incoming + 1
  BY <1>1, <1>2, ShapesHaveIds
<1>4. Dispatch!Decode(f).type \in Types
  BY DEF Dispatch!Decode, Dispatch!Malformed, Dispatch!Unsupported, Dispatch!FromWire, Types
<1> QED
  BY <1>3, <1>4, BoundsAssumption DEF Dispatch!Arrives

\* A frame that session_loop reads is the last received, and unanswered.
LEMMA Reads ==
  ASSUME DispatchInv, NEW f, Dispatch!Read(f)
  PROVE  /\ InTurn(received', replies, accepted, incoming') /\ incoming' \in 0..MaxIncoming
         /\ received' # <<>> /\ Len(received') = Len(received) + 1 /\ Len(received) \in Nat
         /\ received'[Len(received')] = [type |-> Dispatch!Decode(f).type, id |-> incoming']
         /\ received'[Len(received')] \in Request
         /\ received'[Len(received')].type = Dispatch!Decode(f).type
         /\ received'[Len(received')].id = incoming'
         /\ framesPc = "select" /\ reason = "none"
         /\ ~Answers(replies, received'[Len(received')].id) /\ received'[Len(received')].id \notin accepted
         /\ Settled(received', replies, accepted, Len(received') - 1)
         /\ NoErrors(received', Len(received') - 1)
         /\ Dispatch!Decode(f).ok => f.id = incoming'
<1> DEFINE q == [type |-> Dispatch!Decode(f).type, id |-> incoming + 1]
<1>1. framesPc = "select" /\ Dispatch!Arrives(f) /\ received' = Append(received, q)
  BY DEF Dispatch!Read
<1>2. incoming \in Nat /\ InTurn(received, replies, accepted, incoming)
  BY DEF DispatchInv
<1>3. /\ incoming' = incoming + 1 /\ incoming + 1 \in 1..MaxIncoming /\ q \in Request
      /\ Dispatch!Decode(f).ok => f.id = incoming'
  BY <1>1, <1>2, ArrivedIds DEF Request
<1>4. Settled(received, replies, accepted, Len(received)) /\ reason = "none"
      /\ NoErrors(received, Len(received))
  BY <1>1 DEF DispatchInv, Dispatch!EndsHaveACause, NoErrors
<1>5. /\ q = [type |-> Dispatch!Decode(f).type, id |-> incoming'] /\ q.id = incoming + 1
      /\ q.type = Dispatch!Decode(f).type
  BY <1>3
<1> HIDE DEF q
<1>6. /\ InTurn(received', replies, accepted, incoming')
      /\ received' # <<>> /\ Len(received') = Len(received) + 1 /\ Len(received) \in Nat
      /\ received'[Len(received')] = q
      /\ ~Answers(replies, q.id) /\ q.id \notin accepted
      /\ Settled(received', replies, accepted, Len(received))
      /\ NoErrors(received', Len(received))
  BY <1>1, <1>2, <1>3, <1>4, <1>5, Receives
<1>7. Len(received) = Len(received') - 1 /\ incoming' \in 0..MaxIncoming
  BY <1>3, <1>6
<1> QED
  BY <1>1, <1>3, <1>4, <1>5, <1>6, <1>7

\* One that it takes, because it decodes to one of some types, has the id of the frame.
LEMMA Taken ==
  ASSUME DispatchInv, NEW f, NEW types, Dispatch!Takes(f, types)
  PROVE  /\ Dispatch!Read(f)
         /\ received'[Len(received')] = [type |-> Dispatch!Decode(f).type, id |-> f.id]
         /\ received'[Len(received')].type \in types
         /\ received'[Len(received')].id = f.id
<1>1. Dispatch!Read(f) /\ Dispatch!Decode(f).ok /\ Dispatch!Decode(f).type \in types
  BY DEF Dispatch!Takes
<1> QED
  BY <1>1, Reads

\* session_loop's sends: one frame, and on to the next, or the end of the connection.
LEMMA Sent ==
  ASSUME DispatchInv, NEW r \in ReplyFrame, Dispatch!Send(r), incoming' \in 0..MaxIncoming,
         InTurn(received', replies, accepted, incoming'), received' # <<>>, accepted' = accepted,
         r.id = received'[Len(received')].id, ~Answers(replies, r.id),
         Owes(accepted, received'[Len(received')]), received'[Len(received')].type # "error",
         Settled(received', replies, accepted, Len(received') - 1),
         NoErrors(received', Len(received') - 1),
         awaited' \in {awaited, Dispatch!NoRequest}, reason = "none"
  PROVE  DispatchInv'
<1>1. incoming' \in Nat /\ received' \in Seq(Request) /\ Len(received') \in Nat \ {0}
  BY DEF InTurn
<1>2. \/ framesPc' = "select" /\ reason' = "none"
      \/ framesPc' = "dropped" /\ reason' = "send"
  BY DEF Dispatch!Send
<1>3. awaited'.type \in {"none", "query", "interrupt", "answer"} /\ awaited'.id \in 0..MaxIncoming
  BY BoundsAssumption DEF DispatchInv, Dispatch!NoRequest
<1>4. Dispatch!EndsHaveACause'
  <2>1. \A i \in 1..Len(received') : ~(received'[i].type = "error")
    BY <1>1 DEF NoErrors
  <2>2. Owes(accepted', received'[Len(received')]) /\ Len(received') > 0
    BY <1>1
  <2>3. Dispatch!Owed(received[Len(received)])'
    BY <2>2 DEF Dispatch!Owed, Owes
  <2>4. reason' # "server error"
    BY <1>2
  <2> QED
    BY <1>2, <2>1, <2>2, <2>3, <2>4 DEF Dispatch!EndsHaveACause
<1>5. CASE replies' = Append(replies, r)
  <2>1. /\ InTurn(received', replies', accepted', incoming')
        /\ \A id : Answers(replies', id) <=> Answers(replies, id) \/ id = r.id
    BY <1>1, <1>5, Replies
  <2>2. Settled(received', replies', accepted', Len(received'))
    <3> SUFFICES ASSUME NEW i \in 1..Len(received')
                 PROVE  Answers(replies', received'[i].id) <=> Owes(accepted', received'[i])
      BY DEF Settled
    <3>1. CASE i = Len(received')
      BY <2>1, <3>1
    <3>2. CASE i \in 1..(Len(received') - 1)
      <4>1. Answers(replies, received'[i].id) <=> Owes(accepted, received'[i])
        BY <3>2 DEF Settled
      <4>2. received'[i].id # r.id
        BY <1>1, <3>2, OtherIds
      <4> QED
        BY <2>1, <4>1, <4>2
    <3> QED
      BY <1>1, <3>1, <3>2
  <2> QED
    BY <1>2, <1>3, <1>4, <2>1, <2>2 DEF DispatchInv
<1>6. CASE framesPc' = "dropped" /\ UNCHANGED replies
  BY <1>2, <1>3, <1>4, <1>6 DEF DispatchInv
<1> QED
  BY <1>5, <1>6 DEF Dispatch!Send

\* Before the hello nothing was received and nothing is owed.
LEMMA DispatchStarts == Dispatch!Init => DispatchInv
<1> SUFFICES ASSUME Dispatch!Init PROVE DispatchInv
  OBVIOUS
<1>1. /\ framesPc = "hello" /\ received = <<>> /\ replies = <<>> /\ accepted = {} /\ incoming = 0
      /\ awaited.type = "none" /\ awaited.id = 0 /\ reason = "none"
  BY DEF Dispatch!Init, Dispatch!NoRequest
<1>2. received \in Seq(Request) /\ replies \in Seq(ReplyFrame) /\ Len(received) = 0 /\ Len(replies) = 0
  BY <1>1
<1>3. InTurn(received, replies, accepted, incoming) /\ Dispatch!EndsHaveACause
  BY <1>1, <1>2 DEF InTurn, Dispatch!EndsHaveACause
<1> QED
  BY <1>1, <1>3, BoundsAssumption DEF DispatchInv

\* A frame that is skipped or ignored is not one of the types that are handled.
LEMMA OddFramesAre ==
  ASSUME DispatchInv, NEW f, Dispatch!Skip(f) \/ Dispatch!Ignore(f)
  PROVE  /\ Dispatch!Read(f) /\ received'[Len(received')].type \notin Dispatch!Handled
         /\ UNCHANGED <<framesPc, awaited, accepted, replies, reason>>
<1>1. CASE Dispatch!Skip(f)
  <2>1. /\ Dispatch!Read(f) /\ ~Dispatch!Decode(f).ok
        /\ UNCHANGED <<framesPc, awaited, accepted, replies, reason>>
    BY <1>1 DEF Dispatch!Skip
  <2>2. Dispatch!Decode(f).type = "none"
    BY <2>1 DEF Dispatch!Decode, Dispatch!Malformed, Dispatch!Unsupported
  <2>3. received'[Len(received')].type = "none"
    BY <2>1, <2>2, Reads
  <2> QED
    BY <2>1, <2>3 DEF Dispatch!Handled
<1>2. CASE Dispatch!Ignore(f)
  <2> DEFINE K == (Dispatch!TypedBodies \cup Dispatch!RawBodies \cup {"Unknown"}) \ Dispatch!Handled
  <2>1. Dispatch!Takes(f, K) /\ UNCHANGED <<framesPc, awaited, accepted, replies, reason>>
    BY <1>2 DEF Dispatch!Ignore
  <2>2. Dispatch!Read(f) /\ received'[Len(received')].type \in K
    BY <2>1, Taken
  <2> QED
    BY <2>1, <2>2
<1> QED
  BY <1>1, <1>2

\* Every arm answers what it owes, or leaves it awaited.
LEMMA DispatchSteps == DispatchInv /\ [Dispatch!Next]_frameVars => DispatchInv'
<1> SUFFICES ASSUME DispatchInv, [Dispatch!Next]_frameVars PROVE DispatchInv'
  OBVIOUS
<1>1. ASSUME NEW f, Dispatch!Hello(f) PROVE DispatchInv'
  <2>1. /\ incoming \in Nat /\ incoming' \in 0..MaxIncoming /\ incoming' = incoming + 1
        /\ UNCHANGED <<awaited, received, accepted, replies>> /\ received = <<>> /\ replies = <<>>
        /\ \/ framesPc' = "select" /\ reason' = "none"
           \/ framesPc' = "refused" /\ reason' = "unauthenticated"
           \/ framesPc' = "dropped" /\ reason' = "transport"
    BY <1>1, BoundsAssumption DEF Dispatch!Hello, Dispatch!Arrives, DispatchInv, Dispatch!EndsHaveACause
  <2>2. Len(received) = 0 /\ Len(replies) = 0
    BY <2>1
  <2>3. InTurn(received', replies', accepted', incoming') /\ Settled(received', replies', accepted', 0)
    BY <2>1, <2>2, IdsGoOn DEF DispatchInv, Settled
  <2>4. Dispatch!EndsHaveACause'
    BY <2>1, <2>2 DEF Dispatch!EndsHaveACause
  <2> QED
    BY <2>1, <2>2, <2>3, <2>4 DEF DispatchInv
<1>2. ASSUME NEW f, Dispatch!Read(f), UNCHANGED <<framesPc, awaited, accepted, replies, reason>>,
             received'[Len(received')].type \notin Dispatch!Handled
      PROVE  DispatchInv'
  <2> DEFINE q == received'[Len(received')]
  <2>1. /\ InTurn(received', replies, accepted, incoming') /\ incoming' \in 0..MaxIncoming
        /\ Len(received') = Len(received) + 1 /\ Len(received) \in Nat
        /\ framesPc = "select" /\ reason = "none" /\ ~Answers(replies, q.id)
        /\ Settled(received', replies, accepted, Len(received') - 1)
        /\ NoErrors(received', Len(received') - 1)
    BY <1>2, Reads
  <2>2. q.type \notin {"ping", "error", "query", "prompt", "interrupt", "answer"}
    BY <1>2 DEF Dispatch!Handled
  <2>3. Settled(received', replies', accepted', Len(received'))
    BY <1>2, <2>1, <2>2 DEF Settled, Owes
  <2>4. framesPc' = "select" /\ reason' = "none" /\ UNCHANGED <<awaited, accepted, replies>>
    BY <1>2, <2>1
  <2>5. Dispatch!EndsHaveACause'
    BY <2>1, <2>2, <2>4 DEF Dispatch!EndsHaveACause, NoErrors
  <2> QED
    BY <2>1, <2>3, <2>4, <2>5 DEF DispatchInv
<1>3. ASSUME NEW f, Dispatch!ServerPing(f) PROVE DispatchInv'
  <2> DEFINE r == Dispatch!Reply("pong", "none", f.id)
             q == received'[Len(received')]
  <2>1. Dispatch!Takes(f, {"ping"}) /\ Dispatch!Send(r) /\ UNCHANGED <<awaited, accepted>>
    BY <1>3 DEF Dispatch!ServerPing
  <2>2. r \in ReplyFrame /\ r.id = f.id
    <3>1. q \in Request /\ q.id = f.id
      BY <2>1, Taken, Reads
    <3>2. f.id \in 1..MaxIncoming
      BY <3>1, RequestIds
    <3> QED
      BY <3>2, RepliesAreFrames DEF Codes
  <2> HIDE DEF r
  <2>3. /\ InTurn(received', replies, accepted, incoming') /\ incoming' \in 0..MaxIncoming
        /\ received' # <<>> /\ q.type \in {"ping"} /\ q.id = f.id /\ ~Answers(replies, q.id)
        /\ Settled(received', replies, accepted, Len(received') - 1) /\ reason = "none"
        /\ NoErrors(received', Len(received') - 1)
    BY <2>1, Taken, Reads
  <2>4. Owes(accepted, q) /\ q.type # "error"
    BY <2>3 DEF Owes
  <2> QED
    BY <2>1, <2>2, <2>3, <2>4, Sent
<1>4. ASSUME NEW f, Dispatch!ServerError(f) PROVE DispatchInv'
  <2> DEFINE q == received'[Len(received')]
  <2>1. /\ Dispatch!Takes(f, {"error"}) /\ framesPc' = "dropped" /\ reason' = "server error"
        /\ UNCHANGED <<awaited, accepted, replies>>
    BY <1>4 DEF Dispatch!ServerError
  <2>2. /\ InTurn(received', replies, accepted, incoming') /\ incoming' \in 0..MaxIncoming
        /\ received' # <<>> /\ q.type \in {"error"}
        /\ NoErrors(received', Len(received') - 1)
        /\ Len(received') = Len(received) + 1 /\ Len(received) \in Nat
    BY <2>1, Taken, Reads
  <2>3. Dispatch!EndsHaveACause'
    <3>1. \A i \in 1..Len(received') : received'[i].type = "error" <=> i = Len(received')
      BY <2>2 DEF NoErrors
    <3>2. Len(received') > 0
      BY <2>2
    <3> QED
      BY <2>1, <3>1, <3>2 DEF Dispatch!EndsHaveACause
  <2> QED
    BY <2>1, <2>2, <2>3 DEF DispatchInv
<1>5. ASSUME NEW f, Dispatch!Skip(f) \/ Dispatch!Ignore(f) PROVE DispatchInv'
  BY <1>2, <1>5, OddFramesAre
<1>6. ASSUME NEW f, Dispatch!Prompt(f) PROVE DispatchInv'
  <2> DEFINE q == received'[Len(received')]
  <2>1. Dispatch!Takes(f, {"prompt"}) /\ UNCHANGED awaited
    BY <1>6 DEF Dispatch!Prompt
  <2>2. /\ InTurn(received', replies, accepted, incoming') /\ incoming' \in 0..MaxIncoming
        /\ received' # <<>> /\ Len(received') = Len(received) + 1 /\ Len(received) \in Nat
        /\ q \in Request /\ q.type \in {"prompt"} /\ q.id = f.id /\ q.id = incoming'
        /\ framesPc = "select" /\ ~Answers(replies, q.id) /\ q.id \notin accepted
        /\ Settled(received', replies, accepted, Len(received') - 1) /\ reason = "none"
        /\ NoErrors(received', Len(received') - 1)
    BY <2>1, Taken, Reads
  <2>3. q.type # "error"
    BY <2>2
  <2>4. CASE accepted' = accepted \cup {f.id} /\ UNCHANGED <<framesPc, replies, reason>>
    <3>1. incoming' \in Nat /\ InTurn(received', replies', accepted', incoming')
      <4>1. incoming' \in Nat /\ f.id \in 1..incoming'
        BY <2>2, RequestIds
      <4>2. accepted' \subseteq 1..incoming'
        BY <2>2, <2>4, <4>1 DEF InTurn
      <4> QED
        BY <2>2, <2>4, <4>1, <4>2 DEF InTurn
    <3>2. Settled(received', replies', accepted', Len(received'))
      <4> SUFFICES ASSUME NEW i \in 1..Len(received')
                   PROVE  Answers(replies', received'[i].id) <=> Owes(accepted', received'[i])
        BY DEF Settled
      <4>1. CASE i = Len(received')
        BY <2>2, <2>4, <4>1 DEF Owes
      <4>2. CASE i \in 1..(Len(received') - 1)
        <5>1. Answers(replies, received'[i].id) <=> Owes(accepted, received'[i])
          BY <4>2, <2>2 DEF Settled
        <5>2. received'[i].id # f.id
          BY <2>2, <4>2, OtherIds
        <5> QED
          BY <2>4, <5>1, <5>2 DEF Owes
      <4> QED
        BY <2>2, <4>1, <4>2
    <3>3. Dispatch!EndsHaveACause'
      BY <2>2, <2>3, <2>4 DEF Dispatch!EndsHaveACause, NoErrors
    <3> QED
      BY <2>1, <2>2, <2>4, <3>1, <3>2, <3>3 DEF DispatchInv
  <2>5. ASSUME NEW x \in {"UnknownSession", "Disconnected"}, UNCHANGED accepted,
               Dispatch!Send(Dispatch!Reply("error", Dispatch!ErrorCode(x), f.id))
        PROVE  DispatchInv'
    <3> DEFINE r == Dispatch!Reply("error", Dispatch!ErrorCode(x), f.id)
    <3>1. r \in ReplyFrame /\ r.id = f.id
      <4>1. f.id \in 1..MaxIncoming
        BY <2>2, RequestIds
      <4> QED
        BY <4>1, RepliesAreFrames, CodesOfErrors
    <3>2. Dispatch!Send(r)
      BY <2>5
    <3> HIDE DEF r
    <3>3. Owes(accepted, q)
      BY <2>2 DEF Owes
    <3> QED
      BY <2>1, <2>2, <2>3, <2>5, <3>1, <3>2, <3>3, Sent
  <2> QED
    BY <1>6, <2>4, <2>5 DEF Dispatch!Prompt
<1>7. ASSUME NEW f, Dispatch!Request(f) PROVE DispatchInv'
  <2> DEFINE q == received'[Len(received')]
             K == {"query", "interrupt", "answer"}
  <2>1. /\ Dispatch!Takes(f, K) /\ framesPc' = "awaiting" /\ UNCHANGED <<accepted, replies, reason>>
        /\ awaited' = [type |-> Dispatch!Decode(f).type, id |-> f.id]
    BY <1>7 DEF Dispatch!Request
  <2>2. /\ InTurn(received', replies, accepted, incoming') /\ incoming' \in 0..MaxIncoming
        /\ received' # <<>> /\ q \in Request /\ q.type \in K
        /\ q = [type |-> Dispatch!Decode(f).type, id |-> f.id]
        /\ ~Answers(replies, q.id) /\ reason = "none"
        /\ Settled(received', replies, accepted, Len(received') - 1)
        /\ NoErrors(received', Len(received') - 1)
    BY <2>1, Taken, Reads
  <2>3. Dispatch!EndsHaveACause'
    BY <2>1, <2>2 DEF Dispatch!EndsHaveACause, NoErrors
  <2>4. awaited' = q /\ awaited'.id \in 0..MaxIncoming
    BY <2>1, <2>2 DEF Request
  <2> QED
    BY <2>1, <2>2, <2>3, <2>4 DEF DispatchInv
<1>8. CASE Dispatch!Respond
  <2>1. PICK r \in Dispatch!Outcomes(awaited) : Dispatch!Send(r)
    BY <1>8 DEF Dispatch!Respond
  <2>2. /\ framesPc = "awaiting" /\ awaited' = Dispatch!NoRequest
        /\ UNCHANGED <<received, accepted, incoming>>
    BY <1>8 DEF Dispatch!Respond
  <2>3. /\ InTurn(received, replies, accepted, incoming) /\ incoming \in 0..MaxIncoming
        /\ received # <<>> /\ awaited = received[Len(received)]
        /\ awaited.type \in {"query", "interrupt", "answer"}
        /\ ~Answers(replies, awaited.id)
        /\ Settled(received, replies, accepted, Len(received) - 1)
        /\ NoErrors(received, Len(received) - 1) /\ reason = "none"
    BY <2>2 DEF DispatchInv, Dispatch!EndsHaveACause, NoErrors
  <2>4. awaited.id \in 1..MaxIncoming
    <3>1. Len(received) \in 1..Len(received) /\ received \in Seq(Request)
      BY <2>3 DEF InTurn
    <3> QED
      BY <2>3, <3>1, RequestIds
  <2>5. r \in ReplyFrame /\ r.id = awaited.id
    <3>1. \E t \in {"error", "ack", "query_ok"}, c \in Codes : r = Dispatch!Reply(t, c, awaited.id)
      <4> DEFINE id == awaited.id
      <4>1. CASE awaited.type = "query"
        <5>1. r \in {Dispatch!Reply("query_ok", "none", id), Dispatch!Reply("error", "unknown_cmd", id),
                     Dispatch!Reply("error", "unknown_feature", id)}
          BY <2>1, <4>1 DEF Dispatch!Outcomes
        <5> QED
          BY <5>1 DEF Codes
      <4>2. CASE awaited.type # "query"
        <5>1. \/ r = Dispatch!Reply("ack", "none", id)
              \/ \E x : r = Dispatch!Reply("error", Dispatch!ErrorCode(x), id)
          BY <2>1, <4>2 DEF Dispatch!Outcomes
        <5> QED
          BY <5>1, CodesOfErrors DEF Codes
      <4> QED
        BY <4>1, <4>2
    <3> QED
      BY <2>4, <3>1, RepliesAreFrames
  <2>6. Owes(accepted, awaited) /\ awaited.type # "error"
    BY <2>3 DEF Owes
  <2> QED
    BY <2>1, <2>2, <2>3, <2>5, <2>6, Sent
<1>9. CASE Dispatch!ClosedByPeer \/ UNCHANGED frameVars
  <2>1. /\ UNCHANGED <<awaited, received, accepted, replies, incoming>>
        /\ \/ framesPc' = framesPc /\ reason' = reason
           \/ framesPc \in {"hello", "select"} /\ framesPc' = "dropped" /\ reason' = "closed"
    BY <1>9 DEF Dispatch!ClosedByPeer, frameVars
  <2>2. InTurn(received', replies', accepted', incoming') /\ incoming' \in 0..MaxIncoming
    BY <2>1 DEF DispatchInv
  <2>3. Dispatch!EndsHaveACause'
    BY <2>1 DEF DispatchInv, Dispatch!EndsHaveACause, Dispatch!Owed
  <2> QED
    BY <2>1, <2>2, <2>3 DEF DispatchInv
<1> QED
  BY <1>1, <1>3, <1>4, <1>5, <1>6, <1>7, <1>8, <1>9 DEF Dispatch!Next, Dispatch!Incoming

\* What the run checks follows from the invariant.
LEMMA DispatchIsHandled == DispatchInv => FramesAreHandled
<1> SUFFICES ASSUME DispatchInv PROVE FramesAreHandled
  OBVIOUS
<1>1. Dispatch!TypeOK
  <2>1. /\ incoming \in 0..MaxIncoming /\ received \in Seq(Request) /\ replies \in Seq(ReplyFrame)
        /\ accepted \subseteq 1..incoming
    BY DEF DispatchInv, InTurn
  <2>2. accepted \subseteq 1..MaxIncoming
    BY <2>1, BoundsAssumption
  <2>3. \A i \in 1..Len(received) : received[i].id \in 1..MaxIncoming
    <3> TAKE i \in 1..Len(received)
    <3>1. received[i] \in Request
      BY <2>1
    <3> QED
      BY <3>1, RequestIds
  <2>4. \A i \in 1..Len(replies) : replies[i].type \in {"pong", "error", "ack", "query_ok"}
    <3> TAKE i \in 1..Len(replies)
    <3>1. replies[i] \in ReplyFrame
      BY <2>1
    <3> QED
      BY <3>1 DEF ReplyFrame
  <2> QED
    BY <2>1, <2>2, <2>3, <2>4 DEF DispatchInv, Dispatch!TypeOK
<1>2. Dispatch!RequestsAnswered
  BY DEF DispatchInv, InTurn, Settled, Answers, Owes, Dispatch!Owed, Dispatch!RequestsAnswered
<1> QED
  BY <1>1, <1>2 DEF DispatchInv, FramesAreHandled

\* The other parts leave the frames alone.
LEMMA OnlyFramesStep == [MCNext]_allVars => [Dispatch!Next]_frameVars
BY DEF MCNext, allVars

LEMMA DispatchHolds == MCSpec => []DispatchInv
<1>1. MCInit => DispatchInv
  BY DispatchStarts DEF MCInit
<1>2. DispatchInv /\ [MCNext]_allVars => DispatchInv'
  BY OnlyFramesStep, DispatchSteps
<1> QED
  BY <1>1, <1>2, PTL DEF MCSpec

\* What the server asks for is answered once, under its own id, and a connection ends for
\* its four causes only: from the first state of the composed parts on, for any frames.
THEOREM FramesAreAnswered == MCSpec => []FramesAreHandled
BY DispatchHolds, DispatchIsHandled, PTL

\* A step that reads a frame not understood, or of no use here, leaves the connection up,
\* and what it owes and sent as they were: such frames are skipped or ignored, and the
\* arms that do more are reached by the six types that are handled.
THEOREM OddFramesDoNoHarm == MCSpec => OddFramesAreHarmless
<1> DEFINE A == \/ UNCHANGED received
                \/ received'[Len(received')].type \in Dispatch!Handled
                \/ UNCHANGED <<framesPc, awaited, accepted, replies>>
<1>1. DispatchInv /\ [MCNext]_allVars => [A]_frameVars
  <2> SUFFICES ASSUME DispatchInv, [Dispatch!Next]_frameVars PROVE [A]_frameVars
    BY OnlyFramesStep
  <2>1. ASSUME NEW f, Dispatch!Hello(f) PROVE A
    BY <2>1 DEF Dispatch!Hello
  <2>2. ASSUME NEW f, Dispatch!Skip(f) \/ Dispatch!Ignore(f) PROVE A
    BY <2>2, OddFramesAre
  <2>3. ASSUME NEW f, NEW types \in SUBSET Dispatch!Handled, Dispatch!Takes(f, types) PROVE A
    <3>1. received'[Len(received')].type \in types
      BY <2>3, Taken
    <3> QED
      BY <3>1
  <2>4. ASSUME NEW f, Dispatch!ServerPing(f) \/ Dispatch!ServerError(f) \/ Dispatch!Prompt(f)
                        \/ Dispatch!Request(f)
        PROVE  A
    <3>1. \E types \in SUBSET Dispatch!Handled : Dispatch!Takes(f, types)
      <4>1. /\ {"ping"} \subseteq Dispatch!Handled /\ {"error"} \subseteq Dispatch!Handled
            /\ {"prompt"} \subseteq Dispatch!Handled
            /\ {"query", "interrupt", "answer"} \subseteq Dispatch!Handled
        BY DEF Dispatch!Handled
      <4> QED
        BY <2>4, <4>1 DEF Dispatch!ServerPing, Dispatch!ServerError, Dispatch!Prompt, Dispatch!Request
    <3> HIDE DEF A
    <3> QED
      BY <2>3, <3>1
  <2>5. CASE Dispatch!Respond \/ Dispatch!ClosedByPeer
    BY <2>5 DEF Dispatch!Respond, Dispatch!ClosedByPeer
  <2> HIDE DEF A
  <2> QED
    BY <2>1, <2>2, <2>4, <2>5 DEF Dispatch!Next, Dispatch!Incoming
<1>2. DispatchInv /\ [MCNext]_allVars
        => [\/ UNCHANGED received
            \/ received'[Len(received')].type \in Dispatch!Handled
            \/ UNCHANGED <<framesPc, awaited, accepted, replies>>]_(Dispatch!vars)
  BY <1>1 DEF frameVars, Dispatch!vars
<1> HIDE DEF A
<1> QED
  BY <1>2, DispatchHolds, PTL DEF MCSpec, OddFramesAreHarmless, Dispatch!OddFramesAreHarmless

-------------------------------------------------------------------------------
\* Startup: what a filter leaves of a sequence.

\* r is what a filter by S leaves of the first m of s.
Filters(r, s, S, m) ==
  /\ Len(r) \in 0..m
  /\ \A i \in 1..Len(r) : \E k \in 1..m : r[i] = s[k] /\ s[k] \in S
  /\ \A k \in 1..m : s[k] \in S => \E i \in 1..Len(r) : r[i] = s[k]
  /\ \A i, j \in 1..Len(r) : i < j => \E k, l \in 1..m : k < l /\ r[i] = s[k] /\ r[j] = s[l]

\* One more element of s, that is let through or not.
LEMMA FiltersOne ==
  ASSUME NEW T, NEW s \in Seq(T), NEW S, NEW m \in Nat, m + 1 \in 1..Len(s),
         NEW r \in Seq(T), Filters(r, s, S, m)
  PROVE  LET q == IF s[m + 1] \in S THEN Append(r, s[m + 1]) ELSE r IN
           q \in Seq(T) /\ Filters(q, s, S, m + 1)
<1>1. s[m + 1] \in T /\ Len(r) \in Nat /\ m + 1 \in 1..(m + 1) /\ \A k \in 1..m : k \in 1..(m + 1)
  OBVIOUS
<1>2. CASE s[m + 1] \notin S
  <2>1. Len(r) \in 0..(m + 1)
    BY DEF Filters
  <2>2. \A i \in 1..Len(r) : \E k \in 1..(m + 1) : r[i] = s[k] /\ s[k] \in S
    BY <1>1 DEF Filters
  <2>3. \A k \in 1..(m + 1) : s[k] \in S => \E i \in 1..Len(r) : r[i] = s[k]
    BY <1>1, <1>2 DEF Filters
  <2>4. \A i, j \in 1..Len(r) : i < j =>
          \E k, l \in 1..(m + 1) : k < l /\ r[i] = s[k] /\ r[j] = s[l]
    BY <1>1 DEF Filters
  <2> QED
    BY <1>2, <2>1, <2>2, <2>3, <2>4 DEF Filters
<1>3. CASE s[m + 1] \in S
  <2> DEFINE q == Append(r, s[m + 1])
             n == Len(r) + 1
  <2>1. /\ q \in Seq(T) /\ Len(q) = n /\ q[n] = s[m + 1] /\ n \in 1..n
        /\ \A i \in 1..Len(r) : q[i] = r[i] /\ i \in 1..n
        /\ \A i \in 1..n : i \in 1..Len(r) \/ i = n
    BY <1>1
  <2> HIDE DEF q, n
  <2>2. Len(q) \in 0..(m + 1)
    BY <2>1 DEF Filters, n
  <2>3. \A i \in 1..Len(q) : \E k \in 1..(m + 1) : q[i] = s[k] /\ s[k] \in S
    <3> TAKE i \in 1..Len(q)
    <3>1. CASE i = n
      BY <1>1, <1>3, <2>1, <3>1
    <3>2. CASE i \in 1..Len(r)
      <4>1. PICK k \in 1..m : r[i] = s[k] /\ s[k] \in S
        BY <3>2 DEF Filters
      <4> QED
        BY <1>1, <2>1, <3>2, <4>1
    <3> QED
      BY <2>1, <3>1, <3>2
  <2>4. \A k \in 1..(m + 1) : s[k] \in S => \E i \in 1..Len(q) : q[i] = s[k]
    <3> TAKE k \in 1..(m + 1)
    <3>1. CASE k = m + 1
      BY <2>1, <3>1
    <3>2. CASE k \in 1..m
      BY <2>1, <3>2 DEF Filters
    <3> QED
      BY <3>1, <3>2
  <2>5. ASSUME NEW i \in 1..Len(q), NEW j \in 1..Len(q), i < j
        PROVE  \E k, l \in 1..(m + 1) : k < l /\ q[i] = s[k] /\ q[j] = s[l]
    <3>1. i \in 1..Len(r)
      BY <1>1, <2>1, <2>5 DEF n
    <3>2. CASE j \in 1..Len(r)
      <4>1. PICK k \in 1..m, l \in 1..m : k < l /\ r[i] = s[k] /\ r[j] = s[l]
        BY <2>5, <3>1, <3>2 DEF Filters
      <4> QED
        BY <1>1, <2>1, <3>1, <3>2, <4>1
    <3>3. CASE j = n
      <4>1. PICK k \in 1..m : r[i] = s[k]
        BY <3>1 DEF Filters
      <4>2. k < m + 1 /\ q[i] = s[k] /\ q[j] = s[m + 1]
        BY <2>1, <3>1, <3>3, <4>1
      <4> QED
        BY <1>1, <4>2
    <3> QED
      BY <2>1, <3>2, <3>3
  <2>6. Filters(q, s, S, m + 1)
    BY <2>2, <2>3, <2>4, <2>5 DEF Filters
  <2> QED
    BY <1>3, <2>1, <2>6 DEF q
<1> QED
  BY <1>2, <1>3

\* f holds what is left of each first part of s, up to the first m.
IsUpTo(f, s, S, m) ==
  f = [i \in 0..m |-> IF i = 0 THEN <<>>
                      ELSE IF s[i] \in S THEN Append(f[i - 1], s[i]) ELSE f[i - 1]]

\* A recursion that is defined up to m is defined up to m + 1.
LEMMA UpToGrows ==
  ASSUME NEW s, NEW S, NEW m \in Nat, NEW f, IsUpTo(f, s, S, m)
  PROVE  \E g : IsUpTo(g, s, S, m + 1)
<1> DEFINE new == IF s[m + 1] \in S THEN Append(f[m], s[m + 1]) ELSE f[m]
           g == [i \in 0..(m + 1) |-> IF i = m + 1 THEN new ELSE f[i]]
<1>1. \A i \in 0..m : /\ f[i] = IF i = 0 THEN <<>>
                                ELSE IF s[i] \in S THEN Append(f[i - 1], s[i]) ELSE f[i - 1]
                      /\ g[i] = f[i] /\ (i # 0 => g[i - 1] = f[i - 1])
  <2> TAKE i \in 0..m
  <2>1. f[i] = IF i = 0 THEN <<>> ELSE IF s[i] \in S THEN Append(f[i - 1], s[i]) ELSE f[i - 1]
    BY DEF IsUpTo
  <2>2. g[i] = f[i]
    OBVIOUS
  <2>3. i # 0 => i - 1 \in 0..m
    OBVIOUS
  <2>4. i # 0 => g[i - 1] = f[i - 1]
    BY <2>3
  <2> QED
    BY <2>1, <2>2, <2>4
<1>2. g[m + 1] = new /\ g[m] = f[m] /\ m + 1 # 0 /\ m + 1 - 1 = m
  OBVIOUS
<1>3. \A i \in 0..(m + 1) : g[i] = IF i = 0 THEN <<>>
                                  ELSE IF s[i] \in S THEN Append(g[i - 1], s[i]) ELSE g[i - 1]
  <2> TAKE i \in 0..(m + 1)
  <2> HIDE DEF g
  <2>1. CASE i = m + 1
    BY <1>2, <2>1
  <2>2. CASE i \in 0..m
    BY <1>1, <2>2
  <2> QED
    BY <2>1, <2>2
<1>4. g = [i \in 0..(m + 1) |-> g[i]]
  OBVIOUS
<1> HIDE DEF g
<1>5. IsUpTo(g, s, S, m + 1)
  BY <1>3, <1>4 DEF IsUpTo
<1> QED
  BY <1>5

\* The recursion of a filter is defined for every length.
LEMMA UpToExists ==
  ASSUME NEW s, NEW S, NEW n \in Nat
  PROVE  \E f : IsUpTo(f, s, S, n)
<1> DEFINE Missing == {m \in Nat : ~\E f : IsUpTo(f, s, S, m)}
<1> SUFFICES ASSUME n \in Missing PROVE FALSE
  OBVIOUS
<1>1. PICK m \in Missing : \A k \in Missing : m <= k
  <2>1. Missing \subseteq Nat
    OBVIOUS
  <2> HIDE DEF Missing
  <2> QED
    BY <2>1, LeastOf
<1>2. CASE m = 0
  <2>1. IsUpTo([i \in 0..0 |-> <<>>], s, S, 0)
    BY DEF IsUpTo
  <2> QED
    BY <1>2, <2>1
<1>3. CASE m # 0
  <2>1. m - 1 \in Nat /\ m - 1 \notin Missing
    BY <1>1, <1>3
  <2>2. PICK f : IsUpTo(f, s, S, m - 1)
    BY <2>1
  <2>3. \E g : IsUpTo(g, s, S, m - 1 + 1)
    BY <2>1, <2>2, UpToGrows
  <2> QED
    BY <2>1, <2>3
<1> QED
  BY <1>2, <1>3

\* What a filter leaves is what passes it, in its order.
LEMMA OnlyFilters ==
  ASSUME NEW T, NEW s \in Seq(T), NEW S
  PROVE  Startup!Only(s, S) \in Seq(T) /\ Filters(Startup!Only(s, S), s, S, Len(s))
<1> DEFINE f == CHOOSE f : IsUpTo(f, s, S, Len(s))
<1>1. Startup!Only(s, S) = f[Len(s)]
  BY DEF Startup!Only, IsUpTo
<1>2. Len(s) \in Nat /\ IsUpTo(f, s, S, Len(s))
  BY UpToExists
<1> HIDE DEF f
<1> DEFINE Bad == {m \in 0..Len(s) : ~(f[m] \in Seq(T) /\ Filters(f[m], s, S, m))}
<1>3. Bad = {}
  <2> SUFFICES ASSUME NEW x \in Bad PROVE FALSE
    OBVIOUS
  <2>1. PICK m \in Bad : \A k \in Bad : m <= k
    <3>1. Bad \subseteq Nat
      BY <1>2
    <3> HIDE DEF Bad
    <3> QED
      BY <3>1, LeastOf
  <2>2. m # 0
    <3>1. f[0] = <<>>
      BY <1>2 DEF IsUpTo
    <3>2. Len(<<>>) = 0 /\ <<>> \in Seq(T)
      OBVIOUS
    <3>3. Filters(<<>>, s, S, 0)
      BY <3>2 DEF Filters
    <3> QED
      BY <1>2, <3>1, <3>2, <3>3
  <2>3. m - 1 \in 0..Len(s) /\ m - 1 \notin Bad /\ m - 1 \in Nat /\ m \in 1..Len(s) /\ m - 1 + 1 = m
    BY <1>2, <2>1, <2>2
  <2>4. f[m - 1] \in Seq(T) /\ Filters(f[m - 1], s, S, m - 1)
    BY <2>3
  <2>5. f[m] = IF s[m] \in S THEN Append(f[m - 1], s[m]) ELSE f[m - 1]
    <3>1. /\ m \in 0..Len(s) /\ m # 0
          /\ f = [i \in 0..Len(s) |-> IF i = 0 THEN <<>> ELSE IF s[i] \in S THEN Append(f[i - 1], s[i])
                                                           ELSE f[i - 1]]
      BY <1>2, <2>2, <2>3 DEF IsUpTo
    <3>2. \A i \in 0..Len(s) : i # 0 => f[i] = IF s[i] \in S THEN Append(f[i - 1], s[i]) ELSE f[i - 1]
      BY <3>1
    <3> QED
      BY <3>1, <3>2
  <2>6. f[m] \in Seq(T) /\ Filters(f[m], s, S, m)
    BY <2>3, <2>4, <2>5, FiltersOne
  <2> QED
    BY <2>6
<1> QED
  BY <1>1, <1>2, <1>3

-------------------------------------------------------------------------------
\* Startup: what is hosted and what is said of it.

Confirmed(hs, as) ==
  {s \in Startup!Range(registry) : IF Startup!IsAttach(s) THEN s.name \in as ELSE s.harness \in hs}

AttachNames ==
  {s.name : s \in {registry[i] : i \in {j \in 1..Len(registry) : Startup!IsAttach(registry[j])}}}

\* No manager has been started yet.
Starting ==
  \/ startPc \in {"load", "refused"}
  \/ startPc = "probe" /\ purpose[1] = "manager"

StartupTypes ==
  /\ startPc \in {"load", "probe", "spawn", "connect", "serve", "refused"}
  /\ registry \in Seq(Startup!SessionConfig)
  /\ runnable \subseteq Commands /\ endpoint \in [Names -> EndpointStates]
  /\ harnesses \subseteq Harnesses /\ attached \subseteq AttachNames
  /\ next \in 1..(Len(registry) + 1) /\ told \subseteq Names
  /\ live \in Seq(Startup!SessionConfig) /\ Len(live) <= Len(registry)

Hosting ==
  /\ Startup!FromConfigs(live) = "ok"
  /\ startPc \notin {"load", "refused"} => Startup!FromConfigs(registry) = "ok"
  /\ Starting => handles = {} /\ manager = {}
  /\ startPc = "spawn" =>
       handles = {live[i].name : i \in 1..(next - 1)} /\ next <= Len(live) + 1 /\ manager = {}
  /\ handles \subseteq Names /\ manager \subseteq Names
  /\ Startup!HostedWhole

StartupInv == StartupTypes /\ Hosting /\ Startup!PresenceIsStatus /\ Startup!CapsAgree

\* A configuration loads when no name is twice in it and every session has its fields.
LEMMA LoadedConfigs ==
  ASSUME NEW T, NEW c \in Seq(T)
  PROVE  Startup!FromConfigs(c) = "ok" <=>
           /\ \A i, j \in 1..Len(c) : j < i => c[j].name # c[i].name
           /\ \A i \in 1..Len(c) : Startup!ValidateModeFields(c[i]) = "ok"
<1> DEFINE bad == {i \in 1..Len(c) : Startup!ErrorAt(c, i) # "ok"}
<1>1. Startup!FromConfigs(c) =
        IF bad = {} THEN "ok"
        ELSE Startup!ErrorAt(c, CHOOSE i \in bad : \A j \in bad : i <= j)
  BY DEF Startup!FromConfigs
<1>2. bad # {} => Startup!ErrorAt(c, CHOOSE i \in bad : \A j \in bad : i <= j) # "ok"
  <2> SUFFICES ASSUME bad # {} PROVE Startup!ErrorAt(c, CHOOSE i \in bad : \A j \in bad : i <= j) # "ok"
    OBVIOUS
  <2>1. \E i \in bad : \A j \in bad : i <= j
    <3>1. bad \subseteq Nat
      OBVIOUS
    <3> HIDE DEF bad
    <3> QED
      BY <3>1, LeastOf
  <2>2. (CHOOSE i \in bad : \A j \in bad : i <= j) \in bad
    <3> HIDE DEF bad
    <3> QED
      BY <2>1
  <2> QED
    BY <2>2
<1>3. \A i \in 1..Len(c) :
        Startup!ErrorAt(c, i) = "ok" <=>
          /\ \A j \in 1..Len(c) : j < i => c[j].name # c[i].name
          /\ Startup!ValidateModeFields(c[i]) = "ok"
  <2> TAKE i \in 1..Len(c)
  <2>1. Len(c) \in Nat /\ \A j : j \in 1..(i - 1) <=> j \in 1..Len(c) /\ j < i
    OBVIOUS
  <2> QED
    BY <2>1 DEF Startup!ErrorAt
<1>4. bad = {} <=> \A i \in 1..Len(c) : Startup!ErrorAt(c, i) = "ok"
  OBVIOUS
<1> HIDE DEF bad
<1> QED
  BY <1>1, <1>2, <1>3, <1>4

\* What a filter leaves of a configuration that loads does so too, and is no longer.
LEMMA FilteredLoads ==
  ASSUME NEW c \in Seq(Startup!SessionConfig), NEW S, Startup!FromConfigs(c) = "ok"
  PROVE  LET r == Startup!Only(c, S) IN
           /\ r \in Seq(Startup!SessionConfig) /\ Len(r) \in 0..Len(c)
           /\ Startup!FromConfigs(r) = "ok"
<1> DEFINE r == Startup!Only(c, S)
<1>1. r \in Seq(Startup!SessionConfig) /\ Filters(r, c, S, Len(c))
  BY OnlyFilters
<1> HIDE DEF r
<1>2. /\ \A i, j \in 1..Len(c) : j < i => c[j].name # c[i].name
      /\ \A i \in 1..Len(c) : Startup!ValidateModeFields(c[i]) = "ok"
  BY LoadedConfigs
<1>3. \A i, j \in 1..Len(r) : j < i => r[j].name # r[i].name
  <2> SUFFICES ASSUME NEW i \in 1..Len(r), NEW j \in 1..Len(r), j < i PROVE r[j].name # r[i].name
    OBVIOUS
  <2>1. PICK k, l \in 1..Len(c) : k < l /\ r[j] = c[k] /\ r[i] = c[l]
    BY <1>1 DEF Filters
  <2> QED
    BY <1>2, <2>1
<1>4. \A i \in 1..Len(r) : Startup!ValidateModeFields(r[i]) = "ok"
  BY <1>1, <1>2 DEF Filters
<1>5. Startup!FromConfigs(r) = "ok"
  BY <1>1, <1>3, <1>4, LoadedConfigs
<1> QED
  BY <1>1, <1>5 DEF r, Filters

\* The sessions of a registry, by their positions.
LEMMA RegistryRange ==
  ASSUME NEW c \in Seq(Startup!SessionConfig)
  PROVE  /\ Len(c) \in Nat
         /\ \A i \in 1..Len(c) : c[i] \in Startup!Range(c) /\ c[i] \in Startup!SessionConfig
         /\ \A s \in Startup!Range(c) : \E i \in 1..Len(c) : s = c[i]
BY DEF Startup!Range

\* Nothing is hosted or said before the configuration is loaded.
LEMMA StartupStarts == Startup!Init => StartupInv
<1> SUFFICES ASSUME Startup!Init PROVE StartupInv
  OBVIOUS
<1>1. /\ startPc = "load" /\ registry \in Seq(Startup!SessionConfig) /\ purpose = <<"manager">>
      /\ harnesses = {} /\ attached = {} /\ next = 1 /\ live = <<>> /\ handles = {}
      /\ manager = {} /\ told = {} /\ answer.cmd = "error"
      /\ runnable \subseteq Commands /\ endpoint \in [Names -> EndpointStates]
  BY StartupAssumption DEF Startup!Init, Startup!Failed, Startup!NoManager
<1>2. /\ Len(registry) \in Nat /\ live \in Seq(Startup!SessionConfig) /\ Len(live) = 0
      /\ Startup!FromConfigs(live) = "ok"
  <2>1. live \in Seq(Startup!SessionConfig) /\ Len(live) = 0
    BY <1>1
  <2> QED
    <3>1. \A i \in 1..Len(live) : FALSE
      BY <2>1
    <3>2. Startup!FromConfigs(live) = "ok"
      BY <2>1, <3>1, LoadedConfigs
    <3> QED
      BY <1>1, <2>1, <3>2
<1>3. StartupTypes
  BY <1>1, <1>2 DEF StartupTypes
<1>4. Hosting
  BY <1>1, <1>2 DEF Hosting, Startup!HostedWhole, Startup!NoManager
<1>5. Startup!PresenceIsStatus /\ Startup!CapsAgree
  BY <1>1 DEF Startup!PresenceIsStatus, Startup!CapsAgree
<1> QED
  BY <1>3, <1>4, <1>5 DEF StartupInv

\* What the steps that neither host nor say anything leave of the invariant.
LEMMA NothingHosted ==
  ASSUME Hosting, UNCHANGED <<registry, live, handles, manager>>,
         startPc' \notin {"load", "refused"} => Startup!FromConfigs(registry) = "ok",
         Starting' => Starting, startPc' # "spawn"
  PROVE  Hosting'
BY DEF Hosting, Startup!HostedWhole, Startup!NamesOf, Startup!NoManager

\* What the steps that say nothing leave of what was said.
LEMMA NothingSaid ==
  ASSUME Startup!PresenceIsStatus, Startup!CapsAgree, UNCHANGED <<registry, told, answer>>,
         startPc' = "serve" /\ purpose' = <<"hello">> =>
           startPc = "serve" /\ purpose = <<"hello">> /\ UNCHANGED <<harnesses, attached>>
  PROVE  Startup!PresenceIsStatus' /\ Startup!CapsAgree'
<1>1. Startup!CapsAgree'
  BY DEF Startup!CapsAgree
<1>2. Startup!PresenceIsStatus'
  BY DEF Startup!PresenceIsStatus
<1> QED
  BY <1>1, <1>2

\* A confirmed harness is one of the registry's.
LEMMA ConfirmedInRegistry ==
  ASSUME registry \in Seq(Startup!SessionConfig)
  PROVE  Startup!ConfirmedHarnesses(registry, runnable) \subseteq Harnesses
<1>1. \A i \in 1..Len(registry) : registry[i].harness \in Harnesses
  <2> TAKE i \in 1..Len(registry)
  <2>1. registry[i] \in Startup!SessionConfig
    OBVIOUS
  <2> QED
    BY <2>1 DEF Startup!SessionConfig
<1> QED
  BY <1>1 DEF Startup!ConfirmedHarnesses

\* The types kept by a step that starts to probe.
LEMMA ProbeTypes ==
  ASSUME StartupTypes, NEW for, Startup!Probe(for), UNCHANGED <<registry, runnable, endpoint, told, live>>,
         harnesses' \subseteq Harnesses
  PROVE  StartupTypes'
BY DEF StartupTypes, Startup!Probe, AttachNames

\* The names of what a filter leaves are names.
LEMMA NamesOfFiltered ==
  ASSUME registry \in Seq(Startup!SessionConfig), NEW S
  PROVE  Startup!NamesOf(Startup!Only(registry, S)) \subseteq Names
<1> DEFINE r == Startup!Only(registry, S)
<1>1. r \in Seq(Startup!SessionConfig)
  BY OnlyFilters
<1> HIDE DEF r
<1>2. \A i \in 1..Len(r) : r[i].name \in Names
  <2> TAKE i \in 1..Len(r)
  <2>1. r[i] \in Startup!SessionConfig
    BY <1>1
  <2> QED
    BY <2>1 DEF Startup!SessionConfig
<1> QED
  BY <1>2 DEF r, Startup!NamesOf

\* The names of sessions, as a sequence and as a set.
LEMMA NamesListed ==
  ASSUME NEW T, NEW r \in Seq(T), NEW names, names = [i \in 1..Len(r) |-> r[i].name]
  PROVE  {names[i] : i \in 1..Len(names)} = {r[i].name : i \in 1..Len(r)}
<1>1. Len(r) \in Nat
  OBVIOUS
<1>2. Len(names) = Len(r)
  BY <1>1
<1> QED
  BY <1>2

\* The names in a status document.
ListedNames(hs, as) ==
  LET names == Startup!Build(registry, hs, as, "connected").sessions
  IN  {names[i] : i \in 1..Len(names)}

\* What a status document lists: the names of the sessions that are confirmed.
LEMMA StatusLists ==
  ASSUME registry \in Seq(Startup!SessionConfig), NEW hs, NEW as
  PROVE  ListedNames(hs, as) = Startup!NamesOf(Startup!Only(registry, Confirmed(hs, as)))
<1> DEFINE names == Startup!Build(registry, hs, as, "connected").sessions
           r     == Startup!Only(registry, Confirmed(hs, as))
<1>1. names = [i \in 1..Len(r) |-> r[i].name]
  BY DEF Startup!Build, Startup!Document, Confirmed
<1>2. r \in Seq(Startup!SessionConfig)
  BY OnlyFilters
<1> HIDE DEF names, r
<1>3. {names[i] : i \in 1..Len(names)} = {r[i].name : i \in 1..Len(r)}
  BY <1>1, <1>2, NamesListed
<1> QED
  BY <1>3 DEF names, r, ListedNames, Startup!NamesOf

\* Only caps is answered with the capabilities.
LEMMA DispatchedCaps ==
  ASSUME NEW c, NEW a
  PROVE  LET d == Startup!Dispatch(c, a, registry, runnable, attached, "connected") IN
           d.cmd = "caps" => d.body = Startup!CapsValue(registry, runnable, attached, "connected")
BY DEF Startup!Dispatch, Startup!Failed

\* Whether the answer for a capability is yes.
LEMMA OkOf ==
  ASSUME NEW r, NEW b \in BOOLEAN, r = [ok |-> b, kind |-> "capability", how |-> ""]
  PROVE  r.ok <=> b
BY Zenon

\* CapsAgree of one answer.
CapsOf(body) ==
  LET status == body.status
      caps   == body.capabilities
      listed(mode) == {s \in {registry[i] : i \in 1..Len(registry)} :
                         /\ s.mode = mode
                         /\ \E i \in 1..Len(status.sessions) : status.sessions[i] = s.name}
  IN /\ status.harnesses = {h \in Harnesses : caps[h].ok}
     /\ \A s \in listed("spawn") : caps[s.harness].ok
     /\ caps["opencode-http"].ok <=> listed("attach") # {}

\* A harness is supported when a session's program confirms it.
LEMMA HarnessIsSupported ==
  ASSUME StartupTypes, NEW h \in Harnesses
  PROVE  Startup!AnswerSupport(h, registry, runnable, attached).ok <=>
           h \in Startup!ConfirmedHarnesses(registry, runnable)
<1> DEFINE S == {s \in Startup!Range(registry) : s.harness = h /\ s.command \in runnable}
           r == Startup!Only(registry, S)
<1>1. registry \in Seq(Startup!SessionConfig) /\ "" \notin runnable
  BY StartupAssumption DEF StartupTypes
<1>2. r \in Seq(Startup!SessionConfig) /\ Filters(r, registry, S, Len(registry))
  BY <1>1, OnlyFilters
<1>3. Startup!AnswerSupport(h, registry, runnable, attached).ok <=> r # <<>> /\ r[1].command # ""
  <2>1. h \notin Startup!Vocabulary
    BY StartupAssumption
  <2>2. /\ h \notin Startup!KNOWN_PROTOCOL_FEATURES /\ h # "attach" /\ h # "opencode-http"
    BY <2>1 DEF Startup!Vocabulary, Startup!KNOWN_CAPABILITY_IDS
  <2>3. Startup!ConfirmedCommandForHarness(registry, runnable, h) = IF r = <<>> THEN "" ELSE r[1].command
    BY DEF Startup!ConfirmedCommandForHarness
  <2> HIDE DEF r
  <2> QED
    BY <2>2, <2>3 DEF Startup!AnswerSupport
<1>4. h \in Startup!ConfirmedHarnesses(registry, runnable) <=>
        \E k \in 1..Len(registry) : registry[k] \in S
  BY <1>1, RegistryRange DEF Startup!ConfirmedHarnesses
<1>5. r # <<>> <=> 1 \in 1..Len(r)
  <2> HIDE DEF r
  <2> QED
    BY <1>2
<1>6. 1 \in 1..Len(r) => r[1].command # ""
  <2>1. \A s \in S : s.command # ""
    BY <1>1
  <2> HIDE DEF r, S
  <2> QED
    BY <1>2, <2>1 DEF Filters
<1>7. 1 \in 1..Len(r) <=> \E k \in 1..Len(registry) : registry[k] \in S
  <2> HIDE DEF r, S
  <2>1. Len(r) \in Nat
    BY <1>2
  <2> QED
    BY <1>2, <2>1 DEF Filters
<1> HIDE DEF r, S
<1> QED
  BY <1>3, <1>4, <1>5, <1>6, <1>7

\* As no name is twice in the registry, a session's name is listed when it is confirmed.
LEMMA ListedIsConfirmed ==
  ASSUME registry \in Seq(Startup!SessionConfig), Startup!FromConfigs(registry) = "ok",
         NEW hs, NEW as, NEW k \in 1..Len(registry)
  PROVE  LET r == Startup!Only(registry, Confirmed(hs, as))
         IN  (\E i \in 1..Len(r) : r[i].name = registry[k].name) <=> registry[k] \in Confirmed(hs, as)
<1> DEFINE S == Confirmed(hs, as)
           r == Startup!Only(registry, S)
<1>1. Filters(r, registry, S, Len(registry))
  BY OnlyFilters
<1>2. \A i, j \in 1..Len(registry) : j < i => registry[j].name # registry[i].name
  BY LoadedConfigs
<1> HIDE DEF r, S
<1>3. ASSUME NEW i \in 1..Len(r), r[i].name = registry[k].name PROVE registry[k] \in S
  <2>1. PICK l \in 1..Len(registry) : r[i] = registry[l] /\ registry[l] \in S
    BY <1>1 DEF Filters
  <2>2. k = l
    BY <1>2, <1>3, <2>1
  <2> QED
    BY <2>1, <2>2
<1>4. registry[k] \in S => \E i \in 1..Len(r) : r[i].name = registry[k].name
  BY <1>1 DEF Filters
<1> QED
  BY <1>3, <1>4 DEF r, S

\* The capabilities of an answer agree with the status in it.
LEMMA CapsAgreeWithStatus ==
  ASSUME StartupTypes, Startup!FromConfigs(registry) = "ok"
  PROVE  CapsOf(Startup!CapsValue(registry, runnable, attached, "connected"))
<1> DEFINE hs     == Startup!ConfirmedHarnesses(registry, runnable)
           body   == Startup!CapsValue(registry, runnable, attached, "connected")
           names  == body.status.sessions
           caps   == body.capabilities
           listed(mode) == {s \in {registry[i] : i \in 1..Len(registry)} :
                              s.mode = mode /\ \E i \in 1..Len(names) : names[i] = s.name}
<1>1. registry \in Seq(Startup!SessionConfig) /\ attached \subseteq AttachNames
  BY DEF StartupTypes
<1>2. body.status = Startup!Build(registry, hs, attached, "connected")
  BY DEF Startup!CapsValue, Startup!StatusValue
<1>3. /\ \A h \in Harnesses : caps[h] = Startup!AnswerSupport(h, registry, runnable, attached)
      /\ caps["opencode-http"] = Startup!AnswerSupport("opencode-http", registry, runnable, attached)
  BY DEF Startup!CapsValue, Startup!KNOWN_HARNESS_IDS, Startup!Vocabulary, Startup!KNOWN_CAPABILITY_IDS
<1> HIDE DEF body
<1>4. \A h \in Harnesses : caps[h].ok <=> h \in hs
  BY <1>3, HarnessIsSupported
<1>5. caps["opencode-http"].ok <=> attached # {}
  <2>1. "opencode-http" \notin Startup!KNOWN_PROTOCOL_FEATURES
    BY DEF Startup!KNOWN_PROTOCOL_FEATURES, Startup!CLIENT_FEATURES
  <2>2. Startup!AnswerSupport("opencode-http", registry, runnable, attached) =
          [ok |-> attached # {}, kind |-> "capability", how |-> ""]
    BY <2>1 DEF Startup!AnswerSupport
  <2> DEFINE r == caps["opencode-http"]
             b == attached # {}
  <2>3. r = [ok |-> b, kind |-> "capability", how |-> ""] /\ b \in BOOLEAN
    <3> HIDE DEF caps
    <3> QED
      BY <1>3, <2>2
  <2> HIDE DEF r, b
  <2>4. r.ok <=> b
    BY <2>3, OkOf
  <2> QED
    BY <2>4 DEF r, b
<1>6. hs \subseteq Harnesses
  BY <1>1, ConfirmedInRegistry
<1>7. body.status.harnesses = hs
  BY <1>2 DEF Startup!Build, Startup!Document
<1>8. \A k \in 1..Len(registry) :
        (\E i \in 1..Len(names) : names[i] = registry[k].name) <=> registry[k] \in Confirmed(hs, attached)
  <2> TAKE k \in 1..Len(registry)
  <2> DEFINE r == Startup!Only(registry, Confirmed(hs, attached))
  <2>1. {names[i] : i \in 1..Len(names)} = {r[i].name : i \in 1..Len(r)}
    <3>1. names = Startup!Build(registry, hs, attached, "connected").sessions
      BY <1>2
    <3>2. {names[i] : i \in 1..Len(names)} = ListedNames(hs, attached)
      <4> HIDE DEF names, hs
      <4> QED
        BY <3>1 DEF ListedNames
    <3> HIDE DEF hs, names
    <3>3. ListedNames(hs, attached) = Startup!NamesOf(r)
      BY <1>1, StatusLists
    <3> QED
      BY <3>2, <3>3 DEF Startup!NamesOf
  <2>2. (\E i \in 1..Len(r) : r[i].name = registry[k].name) <=> registry[k] \in Confirmed(hs, attached)
    BY <1>1, ListedIsConfirmed
  <2> HIDE DEF r, names
  <2>3. (\E i \in 1..Len(names) : names[i] = registry[k].name)
          <=> registry[k].name \in {names[i] : i \in 1..Len(names)}
    OBVIOUS
  <2>4. (\E i \in 1..Len(r) : r[i].name = registry[k].name)
          <=> registry[k].name \in {r[i].name : i \in 1..Len(r)}
    OBVIOUS
  <2> QED
    BY <2>1, <2>2, <2>3, <2>4
<1> HIDE DEF hs, names, caps
<1>9. \A k \in 1..Len(registry) :
        /\ registry[k].harness \in Harnesses
        /\ registry[k] \in Confirmed(hs, attached) <=>
             IF Startup!IsAttach(registry[k]) THEN registry[k].name \in attached
             ELSE registry[k].harness \in hs
  <2> TAKE k \in 1..Len(registry)
  <2>1. registry[k] \in Startup!SessionConfig /\ registry[k] \in Startup!Range(registry)
    BY <1>1, RegistryRange
  <2>2. registry[k].harness \in Harnesses
    BY <2>1 DEF Startup!SessionConfig
  <2> QED
    BY <2>1, <2>2 DEF Confirmed
<1>10. body.status.harnesses = {h \in Harnesses : caps[h].ok}
  BY <1>4, <1>6, <1>7
<1>11. \A s \in listed("spawn") : caps[s.harness].ok
  <2> TAKE s \in listed("spawn")
  <2>1. PICK k \in 1..Len(registry) : s = registry[k]
    OBVIOUS
  <2>2. ~Startup!IsAttach(registry[k]) /\ registry[k] \in Confirmed(hs, attached)
    BY <1>8, <2>1 DEF Startup!IsAttach
  <2> QED
    BY <1>4, <1>9, <2>1, <2>2
<1>12. listed("attach") # {} <=> attached # {}
  <2>1. ASSUME NEW s \in listed("attach") PROVE attached # {}
    <3>1. PICK k \in 1..Len(registry) : s = registry[k]
      OBVIOUS
    <3>2. Startup!IsAttach(registry[k]) /\ registry[k] \in Confirmed(hs, attached)
      BY <1>8, <3>1 DEF Startup!IsAttach
    <3> QED
      BY <1>9, <3>2
  <2>2. ASSUME NEW a \in attached PROVE listed("attach") # {}
    <3>1. PICK k \in 1..Len(registry) : Startup!IsAttach(registry[k]) /\ a = registry[k].name
      BY <1>1 DEF AttachNames
    <3>2. registry[k] \in Confirmed(hs, attached)
      BY <1>9, <3>1
    <3>3. registry[k] \in listed("attach")
      BY <1>8, <3>1, <3>2 DEF Startup!IsAttach
    <3> QED
      BY <3>3
  <2> QED
    BY <2>1, <2>2
<1>13. /\ body.status.harnesses = {h \in Harnesses : caps[h].ok}
       /\ \A s \in listed("spawn") : caps[s.harness].ok
       /\ caps["opencode-http"].ok <=> listed("attach") # {}
  BY <1>5, <1>10, <1>11, <1>12
<1> HIDE DEF listed
<1>14. CapsOf(body)
  BY <1>13 DEF CapsOf, caps, names, listed
<1> QED
  BY <1>14 DEF body

\* No step of the startup or of a connection breaks the invariant.
LEMMA StartupSteps == StartupInv /\ [Startup!Next]_startVars => StartupInv'
<1> SUFFICES ASSUME StartupInv, [Startup!Next]_startVars PROVE StartupInv'
  OBVIOUS
<1> USE DEF Startup!hosting, Startup!said, Startup!envVars
<1>0. StartupTypes /\ Hosting /\ Startup!PresenceIsStatus /\ Startup!CapsAgree
  BY DEF StartupInv
<1>1. CASE Startup!Load
  <2>1. /\ startPc = "load" /\ UNCHANGED <<live, handles, manager, told, answer, registry, runnable, endpoint>>
    BY <1>1 DEF Startup!Load
  <2>2. CASE Startup!FromConfigs(registry) = "ok"
    <3>1. Startup!Probe(<<"manager">>) /\ harnesses' = Startup!ConfirmedHarnesses(registry, runnable)
      BY <1>1, <2>2 DEF Startup!Load
    <3>2. startPc' = "probe" /\ purpose' = <<"manager">>
      BY <3>1 DEF Startup!Probe
    <3>3. StartupTypes'
      BY <1>0, <2>1, <3>1, ProbeTypes, ConfirmedInRegistry DEF StartupTypes
    <3>4. Hosting'
      <4>1. startPc' = "probe" /\ Starting
        <5>1. startPc' = "probe"
          BY <3>2
        <5>2. startPc = "load"
          BY <2>1
        <5>3. Starting
          BY <5>2 DEF Starting
        <5> QED
          BY <5>1, <5>3
      <4> QED
        BY <1>0, <2>1, <2>2, <4>1, NothingHosted
    <3> QED
      BY <1>0, <2>1, <3>2, <3>3, <3>4, NothingSaid DEF StartupInv
  <2>3. CASE Startup!FromConfigs(registry) # "ok"
    <3>1. startPc' = "refused" /\ UNCHANGED <<purpose, attached, next, harnesses>>
      BY <1>1, <2>3 DEF Startup!Load
    <3>2. StartupTypes'
      BY <1>0, <2>1, <3>1 DEF StartupTypes, AttachNames
    <3>3. Hosting'
      BY <1>0, <2>1, <3>1, NothingHosted DEF Starting
    <3> QED
      BY <1>0, <2>1, <3>1, <3>2, <3>3, NothingSaid DEF StartupInv
  <2> QED
    BY <2>2, <2>3
<1>2. CASE Startup!ProbeNext
  <2> DEFINE ps == Startup!Probed(registry)
  <2>1. /\ startPc = "probe" /\ next <= Len(ps) /\ next' = next + 1
        /\ attached' \in {attached, attached \cup {ps[next].name}}
        /\ UNCHANGED <<startPc, purpose, harnesses, live, handles, manager, told, answer, registry,
                       runnable, endpoint>>
    BY <1>2 DEF Startup!ProbeNext
  <2>2. registry \in Seq(Startup!SessionConfig) /\ next \in 1..(Len(registry) + 1)
    BY <1>0 DEF StartupTypes
  <2>3. Len(ps) \in 0..Len(registry) /\ \A i \in 1..Len(ps) : ps[i].name \in AttachNames
    <3> DEFINE S == {s \in Startup!Range(registry) :
                       Startup!IsAttach(s) /\ s.endpoint # "" /\ s.session_id # ""}
    <3>1. ps = Startup!Only(registry, S) /\ \A s \in S : Startup!IsAttach(s)
      BY DEF Startup!Probed
    <3> HIDE DEF S
    <3>2. Filters(ps, registry, S, Len(registry))
      BY <2>2, <3>1, OnlyFilters
    <3> HIDE DEF ps
    <3>3. ASSUME NEW i \in 1..Len(ps) PROVE ps[i].name \in AttachNames
      <4>1. PICK k \in 1..Len(registry) : ps[i] = registry[k] /\ registry[k] \in S
        BY <3>2 DEF Filters
      <4> QED
        BY <3>1, <4>1 DEF AttachNames
    <3> QED
      BY <3>2, <3>3 DEF Filters
  <2> HIDE DEF ps
  <2>4. attached' \subseteq AttachNames /\ next' \in 1..(Len(registry) + 1)
    BY <1>0, <2>1, <2>2, <2>3 DEF StartupTypes
  <2>5. StartupTypes'
    BY <1>0, <2>1, <2>4 DEF StartupTypes, AttachNames
  <2>6. Hosting'
    BY <1>0, <2>1, NothingHosted DEF Starting, Hosting
  <2> QED
    BY <1>0, <2>1, <2>5, <2>6, NothingSaid DEF StartupInv
<1>3. CASE Startup!StartManager
  <2>1. /\ startPc = "probe" /\ purpose[1] = "manager" /\ startPc' \in {"connect", "spawn"} /\ next' = 1
        /\ live' = Startup!Only(registry, Confirmed(harnesses, attached))
        /\ UNCHANGED <<purpose, harnesses, attached, handles, manager, told, answer, registry, runnable,
                       endpoint>>
    BY <1>3 DEF Startup!StartManager, Startup!ProbesDone, Startup!ConfirmedSessions, Confirmed
  <2>2. /\ registry \in Seq(Startup!SessionConfig) /\ Startup!FromConfigs(registry) = "ok"
        /\ handles = {} /\ manager = {}
    BY <1>0, <2>1 DEF StartupTypes, Hosting, Starting
  <2>3. /\ live' \in Seq(Startup!SessionConfig) /\ Len(live') \in 0..Len(registry)
        /\ Startup!FromConfigs(live') = "ok"
    BY <2>1, <2>2, FilteredLoads
  <2>4. StartupTypes'
    BY <1>0, <2>1, <2>2, <2>3 DEF StartupTypes, AttachNames
  <2>5. Hosting'
    BY <1>0, <2>1, <2>2, <2>3 DEF Hosting, Starting, Startup!HostedWhole, Startup!NoManager
  <2> QED
    BY <1>0, <2>1, <2>4, <2>5, NothingSaid DEF StartupInv
<1>4. CASE Startup!SpawnNext
  <2>1. /\ startPc = "spawn" /\ next <= Len(live) /\ next' = next + 1
        /\ handles' = handles \cup {live[next].name}
        /\ UNCHANGED <<startPc, purpose, harnesses, attached, live, manager, told, answer, registry,
                       runnable, endpoint>>
    BY <1>4 DEF Startup!SpawnNext
  <2>2. /\ live \in Seq(Startup!SessionConfig) /\ next \in Nat \ {0} /\ Len(live) \in Nat
        /\ Len(live) <= Len(registry) /\ Len(registry) \in Nat /\ next \in 1..Len(live)
    BY <1>0, <2>1 DEF StartupTypes
  <2>3. live[next].name \in Names
    <3>1. live[next] \in Startup!SessionConfig
      BY <2>2
    <3> QED
      BY <3>1 DEF Startup!SessionConfig
  <2>4. handles' = {live[i].name : i \in 1..(next' - 1)}
    <3>1. handles = {live[i].name : i \in 1..(next - 1)}
      BY <1>0, <2>1 DEF Hosting
    <3>2. \A i : i \in 1..(next' - 1) <=> i \in 1..(next - 1) \/ i = next
      BY <2>1, <2>2
    <3> QED
      BY <2>1, <3>1, <3>2
  <2>5. StartupTypes'
    BY <1>0, <2>1, <2>2 DEF StartupTypes, AttachNames
  <2>6. Hosting'
    BY <1>0, <2>1, <2>2, <2>3, <2>4 DEF Hosting, Starting, Startup!HostedWhole, Startup!NoManager
  <2> QED
    BY <1>0, <2>1, <2>5, <2>6, NothingSaid DEF StartupInv
<1>5. CASE Startup!SpawnFails \/ Startup!BudgetExceeded
  <2>1. /\ startPc = "spawn" /\ startPc' = "connect"
        /\ UNCHANGED <<purpose, harnesses, attached, next, live, handles, manager, told, answer, registry,
                       runnable, endpoint>>
    BY <1>5 DEF Startup!SpawnFails, Startup!BudgetExceeded
  <2>2. StartupTypes'
    BY <1>0, <2>1 DEF StartupTypes, AttachNames
  <2>3. Hosting'
    BY <1>0, <2>1, NothingHosted DEF Starting, Hosting
  <2> QED
    BY <1>0, <2>1, <2>2, <2>3, NothingSaid DEF StartupInv
<1>6. CASE Startup!Spawned
  <2>1. /\ startPc = "spawn" /\ next > Len(live) /\ startPc' = "connect" /\ manager' = handles
        /\ UNCHANGED <<purpose, harnesses, attached, next, live, handles, told, answer, registry,
                       runnable, endpoint>>
    BY <1>6 DEF Startup!Spawned
  <2>2. handles = Startup!NamesOf(live)
    <3>1. handles = {live[i].name : i \in 1..(next - 1)} /\ next <= Len(live) + 1
      BY <1>0, <2>1 DEF Hosting
    <3>2. next \in Nat /\ Len(live) \in Nat
      BY <1>0 DEF StartupTypes
    <3>3. next - 1 = Len(live)
      BY <2>1, <3>1, <3>2
    <3> QED
      BY <3>1, <3>3 DEF Startup!NamesOf
  <2>3. StartupTypes'
    BY <1>0, <2>1 DEF StartupTypes, AttachNames
  <2>4. Hosting'
    BY <1>0, <2>1, <2>2 DEF Hosting, Starting, Startup!HostedWhole, Startup!NamesOf
  <2> QED
    BY <1>0, <2>1, <2>3, <2>4, NothingSaid DEF StartupInv
<1>7. CASE Startup!Accepted \/ \E q \in Queries : Startup!QueryArrives(q)
  <2>1. PICK for \in {<<"hello">>} \cup {<<"query", q>> : q \in Queries} :
          /\ Startup!Probe(for) /\ startPc \in {"connect", "serve"} /\ for[1] # "manager"
          /\ harnesses' \in {harnesses, Startup!ConfirmedHarnesses(registry, runnable)}
          /\ UNCHANGED <<live, handles, manager, told, answer, registry, runnable, endpoint>>
    <3>1. CASE Startup!Accepted
      BY <3>1 DEF Startup!Accepted
    <3>2. CASE \E q \in Queries : Startup!QueryArrives(q)
      BY <3>2 DEF Startup!QueryArrives
    <3> QED
      BY <1>7, <3>1, <3>2
  <2>2. startPc' = "probe" /\ purpose' = for
    BY <2>1 DEF Startup!Probe
  <2>3. StartupTypes'
    BY <1>0, <2>1, ProbeTypes, ConfirmedInRegistry DEF StartupTypes
  <2>4. Hosting'
    BY <1>0, <2>1, <2>2, NothingHosted DEF Starting, Hosting
  <2> QED
    BY <1>0, <2>1, <2>2, <2>3, <2>4, NothingSaid DEF StartupInv
<1>8. CASE Startup!Drop \/ Startup!BoxChanges \/ UNCHANGED startVars
  <2>1. /\ startPc' \in {startPc, "connect"} /\ (startPc' # startPc => startPc = "serve")
        /\ UNCHANGED <<purpose, harnesses, attached, next, live, handles, manager, told, answer, registry>>
    BY <1>8 DEF Startup!Drop, Startup!BoxChanges, Startup!ownVars, startVars
  <2>2. runnable' \subseteq Commands /\ endpoint' \in [Names -> EndpointStates]
    BY <1>0, <1>8 DEF Startup!Drop, Startup!BoxChanges, startVars, StartupTypes
  <2>3. StartupTypes'
    BY <1>0, <2>1, <2>2 DEF StartupTypes, AttachNames
  <2>4. Hosting'
    BY <1>0, <2>1 DEF Hosting, Starting, Startup!HostedWhole, Startup!NamesOf
  <2> QED
    BY <1>0, <2>1, <2>3, <2>4, NothingSaid DEF StartupInv
<1>9. CASE Startup!Hello
  <2>1. /\ startPc = "probe" /\ purpose[1] = "hello" /\ startPc' = "serve"
        /\ told' = Startup!NamesOf(Startup!Only(registry, Confirmed(harnesses, attached)))
        /\ UNCHANGED <<purpose, harnesses, attached, next, live, handles, manager, answer, registry,
                       runnable, endpoint>>
    BY <1>9 DEF Startup!Hello, Startup!ProbesDone, Startup!ConfirmedSessions, Confirmed
  <2>2. told' \subseteq Names
    BY <1>0, <2>1, NamesOfFiltered DEF StartupTypes
  <2>3. StartupTypes'
    BY <1>0, <2>1, <2>2 DEF StartupTypes, AttachNames
  <2>4. Hosting'
    BY <1>0, <2>1, NothingHosted DEF Starting, Hosting
  <2>5. Startup!CapsAgree'
    <3>1. UNCHANGED <<registry, answer>>
      BY <2>1
    <3> QED
      BY <1>0, <3>1, SMTT(30) DEF Startup!CapsAgree
  <2>6. Startup!PresenceIsStatus'
    <3>1. told' = ListedNames(harnesses, attached) /\ UNCHANGED <<registry, harnesses, attached>>
      BY <1>0, <2>1, StatusLists DEF StartupTypes
    <3> QED
      BY <3>1 DEF Startup!PresenceIsStatus, ListedNames
  <2> QED
    BY <2>3, <2>4, <2>5, <2>6 DEF StartupInv
<1>10. CASE Startup!Answer
  <2>1. /\ startPc = "probe" /\ purpose[1] = "query" /\ startPc' = "serve"
        /\ UNCHANGED <<purpose, harnesses, attached, next, live, handles, manager, told, registry,
                       runnable, endpoint>>
    BY <1>10 DEF Startup!Answer, Startup!ProbesDone
  <2>2. answer'.cmd = "caps" => answer'.body = Startup!CapsValue(registry, runnable, attached, "connected")
    <3>1. PICK c, a : answer' = Startup!Dispatch(c, a, registry, runnable, attached, "connected")
      BY <1>10 DEF Startup!Answer
    <3> QED
      BY <3>1, DispatchedCaps
  <2>3. Startup!FromConfigs(registry) = "ok"
    BY <1>0, <2>1 DEF Hosting
  <2>4. StartupTypes'
    BY <1>0, <2>1 DEF StartupTypes, AttachNames
  <2>5. Hosting'
    BY <1>0, <2>1, NothingHosted DEF Starting, Hosting
  <2>6. Startup!CapsAgree'
    <3>1. CapsOf(Startup!CapsValue(registry, runnable, attached, "connected"))
      BY <1>0, <2>3, CapsAgreeWithStatus
    <3>2. UNCHANGED registry /\ (answer'.cmd = "caps" => CapsOf(answer'.body))
      BY <2>1, <2>2, <3>1
    <3> QED
      BY <3>2, SMTT(30) DEF Startup!CapsAgree, CapsOf
  <2>7. Startup!PresenceIsStatus'
    BY <2>1 DEF Startup!PresenceIsStatus
  <2> QED
    BY <2>4, <2>5, <2>6, <2>7 DEF StartupInv
<1> QED
  BY <1>1, <1>2, <1>3, <1>4, <1>5, <1>6, <1>7, <1>8, <1>9, <1>10 DEF Startup!Next

\* What the run checks follows from the invariant.
LEMMA StartupIsWhole == StartupInv => HostedWhole /\ QueriesAgree
<1> SUFFICES ASSUME StartupInv PROVE HostedWhole /\ QueriesAgree
  OBVIOUS
<1>1. StartupTypes /\ Hosting /\ QueriesAgree
  BY DEF StartupInv, QueriesAgree
<1>2. \A i \in 1..Len(registry) : registry[i] \in Startup!SessionConfig
  BY <1>1, RegistryRange DEF StartupTypes
<1>3. Startup!TypeOK
  BY <1>1, <1>2 DEF StartupTypes, Hosting, AttachNames, Startup!TypeOK
<1>4. Startup!LiveRegistryLoads /\ Startup!HostedWhole
  BY <1>1 DEF Hosting, Startup!LiveRegistryLoads
<1> QED
  BY <1>1, <1>3, <1>4 DEF HostedWhole

\* The invariant above is kept by the parts as they are run, whichever of them moves.
LEMMA StartupHolds == MCSpec => []StartupInv
<1>1. MCInit => StartupInv
  BY StartupStarts DEF MCInit
<1>2. StartupInv /\ [MCNext]_allVars => StartupInv'
  <2>1. [MCNext]_allVars => [Startup!Next]_startVars
    BY DEF MCNext, allVars
  <2> QED
    BY <2>1, StartupSteps
<1> QED
  BY <1>1, <1>2, PTL DEF MCSpec

\* Startup: for every set of names, harnesses and programs, a manager hosts every session that
\* was confirmed or there is none, and the registry of the confirmed ones loads as main.rs
\* expects it to.
THEOREM ManagersHostAll == MCSpec => []HostedWhole
BY StartupHolds, StartupIsWhole, PTL

\* Startup: hello and presence name what a status document lists, and caps supports what
\* the status in it lists, whatever programs and endpoints do between them.
THEOREM ReportsAgree == MCSpec => []QueriesAgree
BY StartupHolds, StartupIsWhole, PTL

-------------------------------------------------------------------------------
\* Answers: what is typed is one label of each question's own.

Labels == Seq(Choice!Symbols) \ {<<>>}

\* What the choice and the request make of it, once it is answered.
Resolved ==
  LET labels == Choice!ResolveQuestionChoices(choice, options) IN
    posted = [state |-> IF labels = <<>> THEN "refused" ELSE "posted", labels |-> labels]

ChoiceInv ==
  /\ options \in SomeRequests
  /\ choice \in Seq(Choice!Symbols) /\ Len(choice) <= MaxChoice
  /\ posted = [state |-> "none", labels |-> <<>>] \/ Resolved

\* Every question of a request has labels to choose from, none of them empty.
LEMMA RequestsHaveLabels == \A o \in SomeRequests : o \in Seq(Seq(Labels))
<1>1. Yes \in Labels /\ No \in Labels /\ <<"1">> \in Labels /\ <<"0">> \in Labels /\ <<"a", "1">> \in Labels
      /\ <<"a", "b">> \in Labels
  <2>1. \A x, y \in Choice!Symbols : <<x>> \in Labels /\ <<x, y>> \in Labels
    BY DEF Labels
  <2> QED
    BY <2>1 DEF Yes, No, Choice!Symbols, Choice!Digits, Choice!Letters
<1>2. \A a, b, c \in Labels :
        <<a>> \in Seq(Labels) /\ <<a, b>> \in Seq(Labels) /\ <<a, b, c>> \in Seq(Labels)
  OBVIOUS
<1>3. \A p, q \in Seq(Labels) : <<p>> \in Seq(Seq(Labels)) /\ <<p, q>> \in Seq(Seq(Labels))
  OBVIOUS
<1>4. /\ <<Yes, No>> \in Seq(Labels) /\ <<Yes>> \in Seq(Labels)
      /\ <<<<"1">>, <<"0">>, <<"a", "1">>>> \in Seq(Labels)
      /\ <<No, Yes, <<"a", "b">>>> \in Seq(Labels)
  BY <1>1, <1>2
<1> QED
  BY <1>3, <1>4 DEF SomeRequests

\* The labels are one of each question's own.
OneOfEach(labels, questions) ==
  /\ Len(labels) = Len(questions)
  /\ \A i \in 1..Len(questions) : \E j \in 1..Len(questions[i]) : labels[i] = questions[i][j]

\* Choices that resolve are one label of each question's own.
LEMMA ChoicesAreWhole ==
  ASSUME NEW text, NEW questions, Len(questions) \in Nat,
         NEW labels, labels = Choice!ResolveQuestionChoices(text, questions), labels # <<>>
  PROVE  OneOfEach(labels, questions)
<1> DEFINE segments == Choice!Split(text)
<1>1. /\ labels = [i \in 1..Len(questions) |-> Choice!ResolveQuestionChoice(segments[i], questions[i])]
      /\ \A i \in 1..Len(questions) : Choice!ResolveQuestionChoice(segments[i], questions[i]) # <<>>
  BY DEF Choice!ResolveQuestionChoices, Choice!None
<1>2. \A s, q : Choice!ResolveQuestionChoice(s, q) # <<>> =>
                  \E j \in 1..Len(q) : Choice!ResolveQuestionChoice(s, q) = q[j]
  BY DEF Choice!ResolveQuestionChoice, Choice!None
<1> HIDE DEF segments
<1>3. Len(labels) = Len(questions)
  BY <1>1
<1>4. \A i \in 1..Len(questions) : \E j \in 1..Len(questions[i]) : labels[i] = questions[i][j]
  <2> TAKE i \in 1..Len(questions)
  <2>1. labels[i] = Choice!ResolveQuestionChoice(segments[i], questions[i])
    BY <1>1
  <2>2. Choice!ResolveQuestionChoice(segments[i], questions[i]) # <<>>
    BY <1>1
  <2>3. \E j \in 1..Len(questions[i]) :
          Choice!ResolveQuestionChoice(segments[i], questions[i]) = questions[i][j]
    BY <1>2, <2>2
  <2> QED
    BY <2>1, <2>3
<1> QED
  BY <1>3, <1>4 DEF OneOfEach

\* AnswerChoice's Cardinality is that of FiniteSets.
LEMMA SameCardinality == \A S : Choice!Cardinality(S) = Cardinality(S)
BY Zenon DEF Choice!Cardinality, Cardinality, Choice!IsFiniteSet, IsFiniteSet

\* The one of S that k others are below.
Nth(S, k) == CHOOSE i \in S : Choice!Cardinality({j \in S : j < i}) = k

\* Of two numbers, the least is the first and the other the second.
LEMMA TwoInOrder ==
  ASSUME NEW n \in Nat
  PROVE  /\ Choice!Cardinality({0, n + 1}) = 2
         /\ Nth({0, n + 1}, 0) = 0 /\ Nth({0, n + 1}, 1) = n + 1
<1>1. {0, n + 1} = {0} \cup {n + 1} /\ n + 1 \notin {0}
  OBVIOUS
<1>2. Choice!Cardinality({0, n + 1}) = 2
  <2>1. IsFiniteSet({0}) /\ Choice!Cardinality({0}) = 1
    BY FS_Singleton, SameCardinality
  <2>2. Choice!Cardinality({0} \cup {n + 1}) = 1 + 1
    BY <1>1, <2>1, FS_AddElement, SameCardinality
  <2> QED
    BY <1>1, <2>2
<1>3. {j \in {0, n + 1} : j < 0} = {} /\ {j \in {0, n + 1} : j < n + 1} = {0}
  OBVIOUS
<1>4. Choice!Cardinality({j \in {0, n + 1} : j < 0}) = 0 /\ Choice!Cardinality({j \in {0, n + 1} : j < n + 1}) = 1
  BY <1>3, FS_EmptySet, FS_Singleton, SameCardinality
<1>5. 0 \in {0, n + 1} /\ n + 1 \in {0, n + 1} /\ \A i \in {0, n + 1} : i = 0 \/ i = n + 1
  OBVIOUS
<1>6. Nth({0, n + 1}, 0) = 0
  BY <1>4, <1>5 DEF Nth
<1>7. Nth({0, n + 1}, 1) = n + 1
  BY <1>4, <1>5 DEF Nth
<1> QED
  BY <1>2, <1>6, <1>7

\* Without a comma there is one segment.
LEMMA SplitWhole ==
  ASSUME NEW T, NEW text \in Seq(T), \A i \in 1..Len(text) : text[i] # Choice!Comma
  PROVE  Choice!Split(text) = <<text>>
<1> DEFINE C == {0, Len(text) + 1} \cup {i \in 1..Len(text) : text[i] = Choice!Comma}
<1>1. Choice!Split(text) =
        [k \in 1..(Choice!Cardinality(C) - 1) |-> SubSeq(text, Nth(C, k - 1) + 1, Nth(C, k) - 1)]
  BY DEF Choice!Split, Nth
<1>2. Len(text) \in Nat /\ C = {0, Len(text) + 1}
  OBVIOUS
<1> HIDE DEF C
<1>3. Choice!Cardinality(C) - 1 = 1 /\ Nth(C, 0) + 1 = 1 /\ Nth(C, 1) - 1 = Len(text)
  <2>1. Choice!Cardinality(C) = 2 /\ Nth(C, 0) = 0 /\ Nth(C, 1) = Len(text) + 1
    BY <1>2, TwoInOrder
  <2> QED
    BY <1>2, <2>1
<1>4. SubSeq(text, 1, Len(text)) = text
  OBVIOUS
<1>5. Choice!Split(text) = [k \in 1..1 |-> text]
  BY <1>1, <1>3, <1>4
<1> QED
  BY <1>5

\* Nothing is chosen before anything is typed.
LEMMA ChoiceStarts == Choice!Init /\ options \in SomeRequests => ChoiceInv
BY BoundsAssumption DEF Choice!Init, ChoiceInv, Choice!None

\* A choice is typed symbol by symbol and resolved as it then reads.
LEMMA ChoiceSteps == ChoiceInv /\ [Choice!Next]_<<options, choice, posted>> => ChoiceInv'
<1> SUFFICES ASSUME ChoiceInv, [Choice!Next]_<<options, choice, posted>> PROVE ChoiceInv'
  OBVIOUS
<1>1. ASSUME NEW s \in Choice!Symbols, Choice!Type(s) PROVE ChoiceInv'
  <2>1. /\ posted' = posted /\ options' = options /\ choice' = Append(choice, s)
        /\ posted.state = "none" /\ Len(choice) < MaxChoice
    BY <1>1 DEF Choice!Type
  <2>2. posted = [state |-> "none", labels |-> <<>>]
    BY <2>1 DEF ChoiceInv, Resolved
  <2>3. choice' \in Seq(Choice!Symbols) /\ Len(choice') <= MaxChoice
    BY <2>1, BoundsAssumption DEF ChoiceInv
  <2> QED
    BY <2>1, <2>2, <2>3 DEF ChoiceInv
<1>2. ASSUME Choice!Answer PROVE ChoiceInv'
  BY <1>2 DEF Choice!Answer, ChoiceInv, Resolved, Choice!None
<1>3. ASSUME UNCHANGED <<options, choice, posted>> PROVE ChoiceInv'
  BY <1>3 DEF ChoiceInv, Resolved
<1> QED
  BY <1>1, <1>2, <1>3 DEF Choice!Next

\* What the run checks of answers follows from the invariant.
LEMMA ChoiceIsUnderstood ==
  ChoiceInv => Choice!TypeOK /\ Choice!WholeAnswers /\ Choice!IndexAnswers
<1> SUFFICES ASSUME ChoiceInv PROVE Choice!TypeOK /\ Choice!WholeAnswers /\ Choice!IndexAnswers
  OBVIOUS
<1> DEFINE labels == Choice!ResolveQuestionChoices(choice, options)
<1>1. options \in Seq(Seq(Labels)) /\ Len(options) \in Nat
  BY RequestsHaveLabels DEF ChoiceInv
<1>2. Choice!TypeOK
  BY DEF ChoiceInv, Resolved, Choice!TypeOK, Choice!None
<1>3. Choice!WholeAnswers
  <2> SUFFICES ASSUME posted.state = "posted" PROVE Choice!WholeAnswers
    BY DEF Choice!WholeAnswers
  <2>1. posted.labels = labels /\ labels # <<>>
    BY DEF ChoiceInv, Resolved
  <2>2. labels = Choice!ResolveQuestionChoices(choice, options)
    OBVIOUS
  <2> HIDE DEF labels
  <2>3. OneOfEach(labels, options)
    BY <1>1, <2>1, <2>2, ChoicesAreWhole
  <2>4. OneOfEach(posted.labels, options)
    BY <2>1, <2>3
  <2> QED
    BY <2>4 DEF Choice!WholeAnswers, OneOfEach
<1>4. Choice!IndexAnswers
  <2> DEFINE n == Choice!Number(choice)
  <2> SUFFICES ASSUME Len(options) = 1, Choice!IsNumber(choice), posted.state # "none",
                      n + 1 \in 1..Len(options[1])
               PROVE  posted = [state |-> "posted", labels |-> <<options[1][n + 1]>>]
    BY DEF Choice!IndexAnswers
  <2>1. Choice!Split(choice) = <<choice>>
    <3>1. \A i \in 1..Len(choice) : choice[i] # Choice!Comma
      <4>1. Choice!Comma \notin Choice!Digits
        BY Zenon DEF Choice!Comma, Choice!Digits
      <4> QED
        BY <4>1 DEF Choice!IsNumber
    <3>2. choice \in Seq(Choice!Symbols)
      BY DEF ChoiceInv
    <3> QED
      BY <3>1, <3>2, SplitWhole
  <2>2. Choice!ResolveQuestionChoice(choice, options[1]) = options[1][n + 1]
    BY DEF Choice!ResolveQuestionChoice
  <2>3. options[1][n + 1] # <<>>
    <3>1. options[1] \in Seq(Labels)
      BY <1>1
    <3>2. options[1][n + 1] \in Labels
      BY <3>1
    <3> QED
      BY <3>2 DEF Labels
  <2> HIDE DEF n
  <2>4. labels = <<options[1][n + 1]>>
    <3>1. [i \in 1..1 |-> Choice!ResolveQuestionChoice(<<choice>>[i], options[i])] = <<options[1][n + 1]>>
      BY <2>2
    <3>2. Len(<<choice>>) = 1 /\ \A i \in 1..1 : <<options[1][n + 1]>>[i] # <<>>
      BY <2>3
    <3> QED
      BY <2>1, <3>1, <3>2 DEF Choice!ResolveQuestionChoices, Choice!None
  <2> HIDE DEF labels
  <2>5. posted = [state |-> IF labels = <<>> THEN "refused" ELSE "posted", labels |-> labels]
    BY DEF ChoiceInv, Resolved, labels
  <2> QED
    BY <2>4, <2>5
<1> QED
  BY <1>2, <1>3, <1>4

-------------------------------------------------------------------------------
\* Addresses: what is kept of one that is typed.

\* ServerAddress counts with the library's Cardinality.
LEMMA CountsAreCardinalities == \A S : Address!Cardinality(S) = Cardinality(S)
BY Zenon DEF Address!Cardinality, Cardinality, Address!IsFiniteSet, IsFiniteSet

\* What is before the first x in s has none.
LEMMA FirstOf ==
  ASSUME NEW T, NEW s \in Seq(T), NEW x, Address!Has(s, x)
  PROVE  /\ Address!First(s, x) \in 1..Len(s) /\ s[Address!First(s, x)] = x
         /\ \A j \in 1..(Address!First(s, x) - 1) : s[j] # x
<1> DEFINE S == {i \in 1..Len(s) : s[i] = x}
<1>1. \E m \in S : \A k \in S : m <= k
  <2>1. S \subseteq Nat /\ S # {}
    BY DEF Address!Has
  <2> HIDE DEF S
  <2> QED
    BY <2>1, LeastOf
<1>2. \E m \in 1..Len(s) : s[m] = x /\ \A j \in 1..(m - 1) : s[j] # x
  <2>1. PICK m \in S : \A k \in S : m <= k
    BY <1>1
  <2>2. \A j \in 1..(m - 1) : s[j] # x
    BY <2>1
  <2> QED
    BY <2>1, <2>2
<1> QED
  BY <1>2 DEF Address!First

\* A position with x and none before it is where the first x is.
LEMMA FirstIs ==
  ASSUME NEW T, NEW s \in Seq(T), NEW x, NEW n \in 1..Len(s), s[n] = x,
         \A j \in 1..(n - 1) : s[j] # x
  PROVE  Address!Has(s, x) /\ Address!First(s, x) = n
<1>1. Address!Has(s, x)
  BY DEF Address!Has
<1> DEFINE m == Address!First(s, x)
<1>2. m \in 1..Len(s) /\ s[m] = x /\ \A j \in 1..(m - 1) : s[j] # x
  BY <1>1, FirstOf
<1> HIDE DEF m
<1>3. ~(m < n) /\ ~(n < m)
  BY <1>2
<1> QED
  BY <1>1, <1>2, <1>3 DEF m

\* The two halves of a split, and the x between them.
LEMMA SplitAt ==
  ASSUME NEW T, NEW s \in Seq(T), NEW x, Address!Has(s, x)
  PROVE  LET b == Address!Before(s, x)
             a == Address!After(s, x)
         IN  /\ b \in Seq(T) /\ a \in Seq(T) /\ Len(b) \in Nat /\ Len(a) \in Nat
             /\ Len(s) = Len(b) + 1 + Len(a) /\ s[Len(b) + 1] = x
             /\ \A i \in 1..Len(b) : b[i] = s[i] /\ b[i] # x
             /\ \A i \in 1..Len(a) : a[i] = s[Len(b) + 1 + i]
<1> DEFINE n == Address!First(s, x)
<1>1. n \in 1..Len(s) /\ s[n] = x /\ Len(s) \in Nat /\ \A j \in 1..(n - 1) : s[j] # x
  BY FirstOf
<1> HIDE DEF n
<1>2. /\ SubSeq(s, 1, n - 1) \in Seq(T) /\ Len(SubSeq(s, 1, n - 1)) = n - 1
      /\ \A i \in 1..(n - 1) : SubSeq(s, 1, n - 1)[i] = s[i]
  BY <1>1, SubSeqProperties
<1>3. /\ SubSeq(s, n + 1, Len(s)) \in Seq(T) /\ Len(SubSeq(s, n + 1, Len(s))) = Len(s) - n
      /\ \A i \in 1..(Len(s) - n) : SubSeq(s, n + 1, Len(s))[i] = s[n + i]
  BY <1>1, SubSeqProperties
<1>4. Address!Before(s, x) = SubSeq(s, 1, n - 1) /\ Address!After(s, x) = SubSeq(s, n + 1, Len(s))
  BY DEF Address!Before, Address!After, n
<1> DEFINE b == SubSeq(s, 1, n - 1)
           a == SubSeq(s, n + 1, Len(s))
<1>5. /\ b \in Seq(T) /\ a \in Seq(T) /\ Len(b) = n - 1 /\ Len(a) = Len(s) - n
      /\ \A i \in 1..(n - 1) : b[i] = s[i]
      /\ \A i \in 1..(Len(s) - n) : a[i] = s[n + i]
  BY <1>2, <1>3
<1> HIDE DEF a, b
<1>6. /\ b \in Seq(T) /\ a \in Seq(T) /\ Len(b) \in Nat /\ Len(a) \in Nat
      /\ Len(s) = Len(b) + 1 + Len(a) /\ s[Len(b) + 1] = x
      /\ \A i \in 1..Len(b) : b[i] = s[i] /\ b[i] # x
      /\ \A i \in 1..Len(a) : a[i] = s[Len(b) + 1 + i]
  BY <1>1, <1>5
<1> QED
  BY <1>4, <1>6 DEF a, b

UrlSymbols == Address!Symbols \cup {Address!DEFAULT_PORT}

\* s is b, an x that b has none of, and a.
IsJoined(s, b, x, a) ==
  /\ s \in Seq(UrlSymbols) /\ b \in Seq(UrlSymbols) /\ a \in Seq(UrlSymbols)
  /\ ~Address!Has(b, x) /\ Len(s) = Len(b) + 1 + Len(a) /\ s[Len(b) + 1] = x
  /\ \A i \in 1..Len(b) : s[i] = b[i]
  /\ \A i \in 1..Len(a) : s[Len(b) + 1 + i] = a[i]

\* A text put together of two around an x is split again where x is first.
LEMMA JoinedAt ==
  ASSUME NEW s, NEW b, NEW x, NEW a, IsJoined(s, b, x, a)
  PROVE  Address!Has(s, x) /\ Address!Before(s, x) = b /\ Address!After(s, x) = a
<1> USE DEF IsJoined
<1> DEFINE n == Len(b) + 1
<1>1. n \in 1..Len(s) /\ s[n] = x /\ Len(b) \in Nat /\ Len(a) \in Nat
  OBVIOUS
<1>2. \A j \in 1..(n - 1) : s[j] # x
  BY <1>1 DEF Address!Has
<1> HIDE DEF n
<1>3. Address!Has(s, x) /\ Address!First(s, x) = n
  BY <1>1, <1>2, FirstIs
<1>4. /\ Address!Before(s, x) \in Seq(UrlSymbols) /\ Address!After(s, x) \in Seq(UrlSymbols)
      /\ Len(Address!Before(s, x)) = n - 1 /\ Len(Address!After(s, x)) = Len(s) - n
      /\ \A i \in 1..(n - 1) : Address!Before(s, x)[i] = s[i]
      /\ \A i \in 1..(Len(s) - n) : Address!After(s, x)[i] = s[n + i]
  BY <1>1, <1>3, SubSeqProperties DEF Address!Before, Address!After
<1>5. Address!Before(s, x) = b
  BY <1>1, <1>4, SeqEqual DEF n
<1>6. Address!After(s, x) = a
  BY <1>1, <1>4, SeqEqual DEF n
<1> QED
  BY <1>3, <1>5, <1>6

\* How often a symbol is in a text is told by where it is.
LEMMA CountOf ==
  ASSUME NEW T, NEW s \in Seq(T), NEW x
  PROVE  /\ Address!Count(s, x) \in Nat
         /\ Address!Count(s, x) = 0 <=> ~Address!Has(s, x)
         /\ Address!Count(s, x) = 1 <=>
              \E i \in 1..Len(s) : s[i] = x /\ \A j \in 1..Len(s) : s[j] = x => j = i
<1> DEFINE S == {i \in 1..Len(s) : s[i] = x}
<1>1. Address!Count(s, x) = Cardinality(S)
  BY CountsAreCardinalities DEF Address!Count
<1>2. IsFiniteSet(S)
  <2>1. S \in SUBSET (1..Len(s)) /\ Len(s) \in Nat
    OBVIOUS
  <2>2. IsFiniteSet(1..Len(s))
    BY <2>1, FS_Interval
  <2> HIDE DEF S
  <2> QED
    BY <2>1, <2>2, FS_Subset
<1>3. S = {} <=> ~Address!Has(s, x)
  BY DEF Address!Has
<1>4. (\E i : S = {i}) <=> \E i \in 1..Len(s) : s[i] = x /\ \A j \in 1..Len(s) : s[j] = x => j = i
  <2>1. ASSUME NEW i, S = {i} PROVE i \in 1..Len(s) /\ s[i] = x /\ \A j \in 1..Len(s) : s[j] = x => j = i
    BY <2>1
  <2>2. ASSUME NEW i \in 1..Len(s), s[i] = x, \A j \in 1..Len(s) : s[j] = x => j = i PROVE S = {i}
    BY <2>2
  <2> QED
    BY <2>1, <2>2
<1> HIDE DEF S
<1> QED
  <2>1. Cardinality(S) \in Nat /\ (Cardinality(S) = 0 <=> S = {}) /\ (Cardinality(S) = 1 <=> \E i : S = {i})
    BY <1>2, FS_CardinalityType, FS_EmptySet, FS_Singleton
  <2> QED
    BY <1>1, <1>3, <1>4, <2>1

\* No colon in it, of either kind, or only one, which is a mark.
LEMMA NoColons ==
  ASSUME NEW T, NEW s \in Seq(T)
  PROVE  /\ Address!Colons(s) \in Nat
         /\ Address!Colons(s) = 0 <=> ~Address!Has(s, ":") /\ ~Address!Has(s, "://")
<1> DEFINE m == Address!Count(s, ":")
           n == Address!Count(s, "://")
<1>1. m \in Nat /\ n \in Nat /\ (m = 0 <=> ~Address!Has(s, ":")) /\ (n = 0 <=> ~Address!Has(s, "://"))
  BY CountOf
<1>2. Address!Colons(s) = m + n
  BY DEF Address!Colons
<1> HIDE DEF m, n
<1> QED
  BY <1>1, <1>2

\* One colon is counted when there is one alone and no separator of a scheme.
LEMMA OneColon ==
  ASSUME NEW T, NEW s \in Seq(T), Address!Has(s, ":")
  PROVE  Address!Colons(s) = 1 <=>
           /\ ~Address!Has(s, "://")
           /\ \A i, j \in 1..Len(s) : s[i] = ":" /\ s[j] = ":" => i = j
<1> DEFINE m == Address!Count(s, ":")
           n == Address!Count(s, "://")
<1>1. /\ m \in Nat \ {0} /\ n \in Nat /\ (n = 0 <=> ~Address!Has(s, "://"))
      /\ m = 1 <=> \E i \in 1..Len(s) : s[i] = ":" /\ \A j \in 1..Len(s) : s[j] = ":" => j = i
  BY CountOf
<1>2. Address!Colons(s) = m + n
  BY DEF Address!Colons
<1>3. m = 1 <=> \A i, j \in 1..Len(s) : s[i] = ":" /\ s[j] = ":" => i = j
  BY <1>1 DEF Address!Has
<1> HIDE DEF m, n
<1> QED
  BY <1>1, <1>2, <1>3

Ports      == {"41000", Address!DEFAULT_PORT}

\* An address that a text may stand for; brackets are the only way to a colon in its host.
IsAddress(a) ==
  \E host \in Seq(UrlSymbols) \ {<<>>}, port \in Ports :
    /\ a = Address!Address("ws", host, port)
    /\ Address!Colons(host) > 0 => ~Address!Has(host, "]")

\* What parses as a port is one symbol that is a port.
LEMMA PortsAreParsed ==
  \A s : Address!ParsePort(s) <=> \E port \in Ports : s = <<port>>
BY DEF Address!ParsePort, Ports

\* What is parsed without brackets is an address.
LEMMA PlainIsAddress ==
  ASSUME NEW s \in Seq(UrlSymbols), s # <<>>, Address!ParsePlain("ws", s).ok
  PROVE  \E host \in Seq(UrlSymbols) \ {<<>>}, port \in Ports :
           /\ Address!ParsePlain("ws", s) = Address!Address("ws", host, port)
           /\ Address!Colons(host) = 0
<1>1. CASE Address!Colons(s) = 0
  <2>1. Address!ParsePlain("ws", s) = Address!Address("ws", s, Address!DEFAULT_PORT)
    BY <1>1 DEF Address!ParsePlain
  <2> QED
    BY <1>1, <2>1 DEF Ports
<1>2. CASE Address!Colons(s) = 1 /\ Address!Has(s, ":")
  <2> DEFINE b == Address!Before(s, ":")
             a == Address!After(s, ":")
  <2>1. /\ b \in Seq(UrlSymbols) /\ a \in Seq(UrlSymbols) /\ Len(b) \in Nat /\ Len(a) \in Nat
        /\ Len(s) = Len(b) + 1 + Len(a) /\ \A i \in 1..Len(b) : b[i] = s[i] /\ b[i] # ":"
    BY <1>2, SplitAt
  <2>6. Address!Colons(s) # 0 /\ ~Address!Has(s, "://")
    BY <1>2, OneColon
  <2>2. Address!ParsePlain("ws", s) =
          IF b = <<>> THEN Address!Failed("EmptyHost")
          ELSE IF Address!ParsePort(a) THEN Address!Address("ws", b, a[1])
               ELSE Address!Failed("InvalidPort")
    BY <1>2, <2>6 DEF Address!ParsePlain
  <2> HIDE DEF a, b
  <2>3. b # <<>> /\ Address!ParsePort(a) /\ Address!ParsePlain("ws", s) = Address!Address("ws", b, a[1])
    BY <2>2 DEF Address!Failed
  <2>4. PICK port \in Ports : a = <<port>>
    BY <2>3, PortsAreParsed
  <2>5. Address!Colons(b) = 0
    <3>1. ~Address!Has(s, "://")
      BY <1>2, OneColon
    <3>2. ~Address!Has(b, ":") /\ ~Address!Has(b, "://")
      BY <2>1, <3>1 DEF Address!Has
    <3> QED
      BY <2>1, <3>2, NoColons
  <2> QED
    BY <2>1, <2>3, <2>4, <2>5
<1>3. CASE Address!Colons(s) # 0 /\ ~(Address!Colons(s) = 1 /\ Address!Has(s, ":"))
  BY <1>3 DEF Address!ParsePlain, Address!Failed
<1> QED
  BY <1>1, <1>2, <1>3

\* What is parsed in brackets is an address.
LEMMA BracketedIsAddress ==
  ASSUME NEW s \in Seq(UrlSymbols), s # <<>>, Address!ParseBracketed("ws", s).ok
  PROVE  IsAddress(Address!ParseBracketed("ws", s))
<1> DEFINE inside == Tail(s)
           host   == Address!Before(inside, "]")
           rest   == Address!After(inside, "]")
<1>1. inside \in Seq(UrlSymbols)
  OBVIOUS
<1>2. Address!Has(inside, "]")
  BY DEF Address!ParseBracketed, Address!Failed
<1>3. /\ host \in Seq(UrlSymbols) /\ rest \in Seq(UrlSymbols)
      /\ \A i \in 1..Len(host) : host[i] # "]"
  <2> HIDE DEF inside
  <2> QED
    BY <1>1, <1>2, SplitAt
<1>4. Address!ParseBracketed("ws", s) =
        CASE host = <<>> -> Address!Failed("EmptyHost")
          [] host # <<>> /\ rest = <<>> -> Address!Address("ws", host, Address!DEFAULT_PORT)
          [] host # <<>> /\ rest # <<>> /\ rest[1] = ":" ->
               IF Address!ParsePort(Tail(rest)) THEN Address!Address("ws", host, rest[2])
                                                ELSE Address!Failed("InvalidPort")
          [] OTHER -> Address!Failed("TrailingContent")
  BY <1>2 DEF Address!ParseBracketed
<1> HIDE DEF inside, host, rest
<1>5. host # <<>>
  BY <1>4 DEF Address!Failed
<1>6. ~Address!Has(host, "]")
  BY <1>3 DEF Address!Has
<1>7. CASE rest = <<>>
  <2>1. Address!ParseBracketed("ws", s) = Address!Address("ws", host, Address!DEFAULT_PORT)
    BY <1>4, <1>5, <1>7
  <2> QED
    BY <1>3, <1>5, <1>6, <2>1 DEF IsAddress, Ports
<1>8. CASE rest # <<>>
  <2>1. Address!ParsePort(Tail(rest)) /\ Address!ParseBracketed("ws", s) = Address!Address("ws", host, rest[2])
    BY <1>4, <1>5, <1>8 DEF Address!Failed
  <2>2. PICK port \in Ports : Tail(rest) = <<port>>
    BY <2>1, PortsAreParsed
  <2>3. rest[2] = port
    <3>1. Len(Tail(rest)) = 1 /\ Tail(rest)[1] = port
      <4>1. Len(<<port>>) = 1 /\ <<port>>[1] = port
        OBVIOUS
      <4> QED
        BY Zenon, <2>2, <4>1
    <3>2. \A i \in 1..Len(Tail(rest)) : Tail(rest)[i] = rest[i + 1]
      BY <1>3, <1>8
    <3> QED
      BY <3>1, <3>2
  <2> QED
    BY <1>3, <1>5, <1>6, <2>1, <2>3 DEF IsAddress
<1> QED
  BY <1>7, <1>8

\* A text that parses stands for an address; one with a colon in its host has a bracket.
LEMMA ParsedIsAddress ==
  ASSUME NEW text \in Seq(UrlSymbols), Address!Parse(text).ok
  PROVE  /\ IsAddress(Address!Parse(text))
         /\ Address!Colons(Address!Parse(text).host) > 0 => text[3] = "["
<1> DEFINE authority == Address!After(text, "://")
           scheme    == Address!Before(text, "://")
<1>1. Address!Has(text, "://")
  BY DEF Address!Parse, Address!Failed
<1>2. /\ authority \in Seq(UrlSymbols) /\ Len(authority) \in Nat /\ Len(scheme) \in Nat
      /\ \A i \in 1..Len(authority) : authority[i] = text[Len(scheme) + 1 + i]
  BY <1>1, SplitAt
<1>3. Address!Parse(text) =
        CASE scheme # <<"ws">> -> Address!Failed("UnsupportedScheme")
          [] scheme = <<"ws">> /\ authority = <<>> -> Address!Failed("EmptyHost")
          [] scheme = <<"ws">> /\ authority # <<>> /\ authority[1] = "[" ->
               Address!ParseBracketed("ws", authority)
          [] OTHER -> Address!ParsePlain("ws", authority)
  BY <1>1 DEF Address!Parse
<1> HIDE DEF authority, scheme
<1>4. scheme = <<"ws">> /\ authority # <<>>
  BY <1>3 DEF Address!Failed
<1>5. CASE authority[1] = "["
  <2>1. Address!Parse(text) = Address!ParseBracketed("ws", authority)
    BY <1>3, <1>4, <1>5
  <2>2. text[3] = "["
    <3>1. Len(<<"ws">>) = 1 /\ 1 \in 1..Len(authority)
      BY <1>2, <1>4
    <3> QED
      BY <1>2, <1>4, <1>5, <3>1
  <2> QED
    BY <1>2, <1>4, <2>1, <2>2, BracketedIsAddress
<1>6. CASE authority[1] # "["
  <2>1. Address!Parse(text) = Address!ParsePlain("ws", authority)
    BY <1>3, <1>4, <1>6
  <2>2. PICK host \in Seq(UrlSymbols) \ {<<>>}, port \in Ports :
           /\ Address!Parse(text) = Address!Address("ws", host, port)
           /\ Address!Colons(host) = 0
    BY <1>2, <1>4, <2>1, PlainIsAddress
  <2>3. Address!Parse(text).host = host
    BY <2>2 DEF Address!Address
  <2> QED
    BY <2>2, <2>3 DEF IsAddress
<1> QED
  BY <1>5, <1>6

\* Where the symbols of two texts are in the two joined.
LEMMA Joined ==
  ASSUME NEW T, NEW s \in Seq(T), NEW t \in Seq(T)
  PROVE  /\ s \o t \in Seq(T) /\ Len(s) \in Nat /\ Len(t) \in Nat /\ Len(s \o t) = Len(s) + Len(t)
         /\ \A i \in 1..Len(s) : (s \o t)[i] = s[i]
         /\ \A i \in 1..Len(t) : (s \o t)[Len(s) + i] = t[i]
OBVIOUS

\* The texts that addresses are rendered to.
LEMMA Rendered ==
  ASSUME NEW h \in Seq(UrlSymbols), NEW port \in Ports
  PROVE  LET u == <<"ws", "://">> \o h \o <<":", port>>
             a == h \o <<":", port>>
         IN  /\ u \in Seq(UrlSymbols) /\ a \in Seq(UrlSymbols) /\ <<"ws">> \in Seq(UrlSymbols)
             /\ Address!Has(u, "://") /\ Address!Before(u, "://") = <<"ws">>
             /\ Address!After(u, "://") = a
             /\ a # <<>> /\ Len(h) \in Nat /\ Len(a) = Len(h) + 2
             /\ \A i \in 1..Len(h) : a[i] = h[i]
             /\ a[Len(h) + 1] = ":" /\ a[Len(h) + 2] = port
<1> DEFINE w == <<"ws", "://">>
           p == <<":", port>>
           u == w \o h \o p
           a == h \o p
           b == <<"ws">>
<1>1. /\ "ws" \in UrlSymbols /\ "://" \in UrlSymbols /\ ":" \in UrlSymbols /\ port \in UrlSymbols
      /\ "ws" # "://"
  BY DEF UrlSymbols, Ports, Address!Symbols
<1>2. /\ w \in Seq(UrlSymbols) /\ Len(w) = 2 /\ w[1] = "ws" /\ w[2] = "://"
      /\ p \in Seq(UrlSymbols) /\ Len(p) = 2 /\ p[1] = ":" /\ p[2] = port
      /\ b \in Seq(UrlSymbols) /\ Len(b) = 1 /\ b[1] = "ws"
  BY <1>1
<1>8. w \in Seq(UrlSymbols) /\ p \in Seq(UrlSymbols) /\ b \in Seq(UrlSymbols)
  BY <1>2
<1> HIDE DEF w, p, b
<1>3. /\ a \in Seq(UrlSymbols) /\ Len(h) \in Nat /\ Len(a) = Len(h) + 2
      /\ \A i \in 1..Len(h) : a[i] = h[i]
      /\ a[Len(h) + 1] = ":" /\ a[Len(h) + 2] = port
  <2>1. /\ a \in Seq(UrlSymbols) /\ Len(h) \in Nat /\ Len(a) = Len(h) + Len(p)
        /\ \A i \in 1..Len(h) : a[i] = h[i]
        /\ \A i \in 1..Len(p) : a[Len(h) + i] = p[i]
    BY <1>8, Joined
  <2>2. 1 \in 1..Len(p) /\ 2 \in 1..Len(p)
    BY <1>2
  <2> HIDE DEF a
  <2>3. a[Len(h) + 1] = p[1] /\ a[Len(h) + 2] = p[2]
    BY <2>1, <2>2
  <2> QED
    BY <1>2, <2>1, <2>3
<1>4. /\ u \in Seq(UrlSymbols) /\ Len(u) = 2 + Len(a) /\ u[1] = "ws" /\ u[2] = "://"
      /\ \A i \in 1..Len(a) : u[2 + i] = a[i]
  <2>1. u = w \o a
    <3>1. h \in Seq(UrlSymbols)
      OBVIOUS
    <3> QED
      BY <1>8, <3>1, ConcatAssociative, SMTT(30)
  <2>2. /\ w \o a \in Seq(UrlSymbols) /\ Len(w \o a) = Len(w) + Len(a)
        /\ \A i \in 1..Len(w) : (w \o a)[i] = w[i]
        /\ \A i \in 1..Len(a) : (w \o a)[Len(w) + i] = a[i]
    <3>1. a \in Seq(UrlSymbols)
      BY <1>3
    <3> QED
      BY <1>8, <3>1, Joined
  <2>3. 1 \in 1..Len(w) /\ 2 \in 1..Len(w)
    BY <1>2
  <2> HIDE DEF u, a
  <2> QED
    BY <1>2, <2>1, <2>2, <2>3
<1>5. a # <<>>
  BY <1>3
<1> HIDE DEF u, a
<1>6. ~Address!Has(b, "://")
  BY <1>1, <1>2 DEF Address!Has
<1>7. Address!Has(u, "://") /\ Address!Before(u, "://") = b /\ Address!After(u, "://") = a
  <2>1. /\ Len(u) = Len(b) + 1 + Len(a) /\ u[Len(b) + 1] = "://"
        /\ \A i \in 1..Len(b) : u[i] = b[i]
        /\ \A i \in 1..Len(a) : u[Len(b) + 1 + i] = a[i]
    BY <1>2, <1>3, <1>4
  <2>2. a \in Seq(UrlSymbols) /\ u \in Seq(UrlSymbols) /\ "://" \in UrlSymbols
    BY <1>1, <1>3, <1>4
  <2>3. IsJoined(u, b, "://", a)
    BY <1>6, <1>8, <2>1, <2>2 DEF IsJoined
  <2> QED
    BY <2>3, JoinedAt
<1> QED
  BY <1>2, <1>3, <1>4, <1>5, <1>7 DEF u, a, b, w, p

\* A host without a colon is rendered as it is.
LEMMA PlainRoundTrip ==
  ASSUME NEW host \in Seq(UrlSymbols) \ {<<>>}, NEW port \in Ports,
         Address!Colons(host) = 0, host[1] # "["
  PROVE  Address!Parse(<<"ws", "://">> \o host \o <<":", port>>) = Address!Address("ws", host, port)
<1> DEFINE u == <<"ws", "://">> \o host \o <<":", port>>
           a == host \o <<":", port>>
<1>1. /\ a \in Seq(UrlSymbols) /\ Address!Has(u, "://") /\ Address!Before(u, "://") = <<"ws">>
      /\ Address!After(u, "://") = a
      /\ a # <<>> /\ Len(host) \in Nat /\ Len(a) = Len(host) + 2
      /\ \A i \in 1..Len(host) : a[i] = host[i]
      /\ a[Len(host) + 1] = ":" /\ a[Len(host) + 2] = port
  BY Rendered
<1> HIDE DEF u, a
<1>2. ~Address!Has(host, ":") /\ ~Address!Has(host, "://")
  BY NoColons
<1>3. port # ":" /\ port # "://" /\ ":" # "://"
  BY DEF Ports, Address!DEFAULT_PORT
<1>4. \A i \in 1..Len(a) : i \in 1..Len(host) \/ i = Len(host) + 1 \/ i = Len(host) + 2
  BY <1>1
<1>5. Address!Has(a, ":") /\ ~Address!Has(a, "://")
  <2>1. Len(host) + 1 \in 1..Len(a)
    BY <1>1
  <2>2. Address!Has(a, ":")
    BY <1>1, <2>1 DEF Address!Has
  <2>3. ASSUME NEW i \in 1..Len(a) PROVE a[i] # "://"
    <3>1. CASE i \in 1..Len(host)
      BY <1>1, <1>2, <3>1 DEF Address!Has
    <3>2. CASE i = Len(host) + 1 \/ i = Len(host) + 2
      BY <1>1, <1>3, <3>2
    <3> QED
      BY <1>4, <3>1, <3>2
  <2> QED
    BY <2>2, <2>3 DEF Address!Has
<1>6. \A i \in 1..Len(a) : a[i] = ":" => i = Len(host) + 1
  BY <1>1, <1>2, <1>3, <1>4 DEF Address!Has
<1>7. Address!Colons(a) = 1
  BY <1>1, <1>5, <1>6, OneColon
<1>8. Address!Before(a, ":") = host /\ Address!After(a, ":") = <<port>>
  <2>1. <<port>> \in Seq(UrlSymbols) /\ Len(<<port>>) = 1 /\ <<port>>[1] = port
    <3>1. port \in UrlSymbols
      BY DEF Ports, UrlSymbols, Address!Symbols
    <3> QED
      BY <3>1
  <2> DEFINE t == <<port>>
  <2> HIDE DEF t
  <2>2. t \in Seq(UrlSymbols) /\ Len(t) = 1 /\ t[1] = port
    BY <2>1 DEF t
  <2>3. IsJoined(a, host, ":", t)
    BY <1>1, <1>2, <2>2 DEF IsJoined
  <2> QED
    BY <2>3, JoinedAt DEF t
<1>9. Address!ParsePlain("ws", a) = Address!Address("ws", host, port)
  <2>1. Address!ParsePort(<<port>>) /\ <<port>>[1] = port
    BY PortsAreParsed
  <2>2. Address!ParsePlain("ws", a) =
          IF host = <<>> THEN Address!Failed("EmptyHost")
          ELSE IF Address!ParsePort(<<port>>) THEN Address!Address("ws", host, <<port>>[1])
               ELSE Address!Failed("InvalidPort")
    BY <1>5, <1>7, <1>8 DEF Address!ParsePlain
  <2> QED
    BY <2>1, <2>2
<1>10. a[1] # "["
  BY <1>1
<1>11. Address!Parse(u) = Address!ParsePlain("ws", a)
  BY <1>1, <1>10 DEF Address!Parse
<1> QED
  BY <1>9, <1>11 DEF u

\* One with a colon is rendered in brackets.
LEMMA BracketedRoundTrip ==
  ASSUME NEW host \in Seq(UrlSymbols) \ {<<>>}, NEW port \in Ports, ~Address!Has(host, "]")
  PROVE  Address!Parse(<<"ws", "://">> \o (<<"[">> \o host \o <<"]">>) \o <<":", port>>)
           = Address!Address("ws", host, port)
<1> DEFINE h == <<"[">> \o host \o <<"]">>
           u == <<"ws", "://">> \o h \o <<":", port>>
           a == h \o <<":", port>>
           inside == Tail(a)
           rest == <<":", port>>
<1>1. "[" \in UrlSymbols /\ "]" \in UrlSymbols /\ ":" \in UrlSymbols /\ port \in UrlSymbols
  BY DEF UrlSymbols, Ports, Address!Symbols
<1>2. /\ h \in Seq(UrlSymbols) /\ Len(host) \in Nat \ {0} /\ Len(h) = Len(host) + 2 /\ h[1] = "["
      /\ \A i \in 1..Len(host) : h[1 + i] = host[i]
      /\ h[Len(host) + 2] = "]"
  <2> DEFINE l == <<"[">>
             r == <<"]">>
  <2>1. /\ l \in Seq(UrlSymbols) /\ r \in Seq(UrlSymbols)
    BY <1>1
  <2>2. Len(l) = 1 /\ l[1] = "[" /\ Len(r) = 1 /\ r[1] = "]" /\ 1 \in 1..1
    OBVIOUS
  <2> HIDE DEF l, r
  <2> DEFINE v == l \o host
  <2>3. /\ v \in Seq(UrlSymbols) /\ Len(host) \in Nat /\ Len(v) = Len(l) + Len(host)
        /\ \A i \in 1..Len(l) : v[i] = l[i]
        /\ \A i \in 1..Len(host) : v[Len(l) + i] = host[i]
    BY <2>1, Joined
  <2>4. Len(host) # 0
    OBVIOUS
  <2> HIDE DEF v
  <2> DEFINE w == v \o r
  <2>5. /\ w \in Seq(UrlSymbols) /\ Len(w) = Len(v) + Len(r)
        /\ \A i \in 1..Len(v) : w[i] = v[i]
        /\ \A i \in 1..Len(r) : w[Len(v) + i] = r[i]
    <3>1. v \in Seq(UrlSymbols) /\ r \in Seq(UrlSymbols)
      BY <2>1, <2>3
    <3> QED
      BY <3>1, Joined
  <2>6. h = w
    BY DEF w, v, l, r
  <2> HIDE DEF w, h
  <2>7. /\ w[1] = "[" /\ w[Len(host) + 2] = "]" /\ Len(w) = Len(host) + 2
        /\ \A i \in 1..Len(host) : w[1 + i] = host[i]
    BY <2>2, <2>3, <2>5
  <2> QED
    BY <2>3, <2>4, <2>5, <2>6, <2>7
<1> HIDE DEF h
<1>3. /\ a \in Seq(UrlSymbols) /\ Address!Has(u, "://") /\ Address!Before(u, "://") = <<"ws">>
      /\ Address!After(u, "://") = a
      /\ a # <<>> /\ Len(h) \in Nat /\ Len(a) = Len(h) + 2
      /\ \A i \in 1..Len(h) : a[i] = h[i]
      /\ a[Len(h) + 1] = ":" /\ a[Len(h) + 2] = port
  <2>1. h \in Seq(UrlSymbols)
    BY <1>2
  <2> QED
    BY <2>1, Rendered
<1> HIDE DEF u, a
<1>4. /\ rest \in Seq(UrlSymbols) /\ Len(rest) = 2 /\ rest[1] = ":" /\ rest[2] = port
      /\ rest # <<>> /\ Tail(rest) = <<port>>
  BY <1>1
<1>5. /\ inside \in Seq(UrlSymbols) /\ Len(inside) = Len(host) + 3
      /\ \A i \in 1..(Len(host) + 3) : inside[i] = a[i + 1]
  BY <1>2, <1>3
<1> HIDE DEF inside, rest
<1>6. IsJoined(inside, host, "]", rest)
  <2>1. \A i \in 1..Len(host) : inside[i] = host[i]
    <3> TAKE i \in 1..Len(host)
    <3>1. i \in 1..(Len(host) + 3) /\ i + 1 \in 1..Len(h)
      BY <1>2
    <3>2. inside[i] = a[i + 1] /\ a[i + 1] = h[i + 1]
      BY <1>3, <1>5, <3>1
    <3>3. h[i + 1] = host[i]
      <4>1. h[1 + i] = host[i] /\ 1 + i = i + 1
        BY <1>2
      <4> QED
        BY <4>1
    <3> QED
      BY <3>2, <3>3
  <2>2. inside[Len(host) + 1] = "]" /\ inside[Len(host) + 2] = ":" /\ inside[Len(host) + 3] = port
    <3> DEFINE n == Len(host)
    <3>1. n \in Nat /\ Len(h) = n + 2
      BY <1>2
    <3>2. /\ n + 1 \in 1..(n + 3) /\ n + 2 \in 1..(n + 3) /\ n + 3 \in 1..(n + 3)
          /\ n + 1 + 1 = n + 2 /\ n + 2 + 1 = n + 3 /\ n + 3 + 1 = n + 4 /\ n + 2 \in 1..Len(h)
          /\ Len(h) + 1 = n + 3 /\ Len(h) + 2 = n + 4
      BY <3>1
    <3>3. inside[n + 1] = a[n + 2] /\ inside[n + 2] = a[n + 3] /\ inside[n + 3] = a[n + 4]
      BY <1>5, <3>2
    <3>4. a[n + 2] = h[n + 2] /\ a[n + 3] = ":" /\ a[n + 4] = port
      BY <1>3, <3>2
    <3> QED
      BY <1>2, <3>3, <3>4
  <2>3. \A i \in 1..2 : inside[Len(host) + 1 + i] = rest[i]
    BY <1>2, <1>4, <2>2
  <2> QED
    BY <1>2, <1>4, <1>5, <2>1, <2>2, <2>3 DEF IsJoined
<1>7. Address!Has(inside, "]") /\ Address!Before(inside, "]") = host /\ Address!After(inside, "]") = rest
  BY <1>6, JoinedAt
<1>8. Address!ParseBracketed("ws", a) = Address!Address("ws", host, port)
  <2>1. Address!ParsePort(Tail(rest))
    BY <1>4, PortsAreParsed
  <2>2. Address!ParseBracketed("ws", a) =
          CASE host = <<>> -> Address!Failed("EmptyHost")
            [] host # <<>> /\ rest = <<>> -> Address!Address("ws", host, Address!DEFAULT_PORT)
            [] host # <<>> /\ rest # <<>> /\ rest[1] = ":" ->
                 IF Address!ParsePort(Tail(rest)) THEN Address!Address("ws", host, rest[2])
                                                  ELSE Address!Failed("InvalidPort")
            [] OTHER -> Address!Failed("TrailingContent")
    BY <1>7 DEF Address!ParseBracketed, inside
  <2> QED
    BY <1>4, <2>1, <2>2
<1>9. a[1] = "["
  BY <1>2, <1>3
<1>10. Address!Parse(u) = Address!ParseBracketed("ws", a)
  BY <1>3, <1>9 DEF Address!Parse
<1> QED
  BY <1>8, <1>10 DEF u, h

\* The URL of an address is its own.
LEMMA AddressRoundTrip ==
  ASSUME NEW a, IsAddress(a), a.host[1] # "["
  PROVE  Address!Parse(Address!ToCanonicalUrl(a)) = a
<1>1. PICK host \in Seq(UrlSymbols) \ {<<>>}, port \in Ports :
        /\ a = Address!Address("ws", host, port)
        /\ Address!Colons(host) > 0 => ~Address!Has(host, "]")
  BY DEF IsAddress
<1>2. a.scheme = "ws" /\ a.host = host /\ a.port = port
  BY <1>1 DEF Address!Address
<1>3. Address!Colons(host) \in Nat
  BY NoColons
<1>4. CASE Address!Colons(host) > 0
  <2>1. Address!ToCanonicalUrl(a) = <<"ws", "://">> \o (<<"[">> \o host \o <<"]">>) \o <<":", port>>
    BY <1>2, <1>4 DEF Address!ToCanonicalUrl
  <2> QED
    BY <1>1, <1>4, <2>1, BracketedRoundTrip
<1>5. CASE Address!Colons(host) = 0
  <2>1. Address!ToCanonicalUrl(a) = <<"ws", "://">> \o host \o <<":", port>>
    BY <1>2, <1>5 DEF Address!ToCanonicalUrl
  <2> QED
    BY <1>1, <1>2, <1>5, <2>1, PlainRoundTrip
<1> QED
  BY <1>3, <1>4, <1>5

AddressInv ==
  /\ input \in Seq(Address!Symbols)
  /\ \/ parsed = Address!NotYet
     \/ /\ parsed = Address!Parse(input)
        /\ parsed.ok => server = Address!ToCanonicalUrl(parsed)

\* Nothing is parsed before anything is typed.
LEMMA AddressStarts == Address!Init => AddressInv
BY DEF Address!Init, AddressInv

\* An address is typed symbol by symbol and parsed as it then reads.
LEMMA AddressSteps == AddressInv /\ [Address!Next]_<<input, parsed, server>> => AddressInv'
<1> SUFFICES ASSUME AddressInv, [Address!Next]_<<input, parsed, server>> PROVE AddressInv'
  OBVIOUS
<1>1. ASSUME NEW x \in Address!Symbols, Address!Type(x) PROVE AddressInv'
  <2>1. input' = Append(input, x) /\ parsed' = Address!NotYet /\ input \in Seq(Address!Symbols)
    BY <1>1 DEF Address!Type, AddressInv
  <2>2. input' \in Seq(Address!Symbols)
    BY <2>1
  <2> QED
    BY <2>1, <2>2 DEF AddressInv
<1>2. ASSUME Address!Join PROVE AddressInv'
  BY <1>2 DEF Address!Join, AddressInv
<1>3. ASSUME UNCHANGED <<input, parsed, server>> PROVE AddressInv'
  BY <1>3 DEF AddressInv
<1> QED
  BY <1>1, <1>2, <1>3 DEF Address!Next

\* What the run checks of addresses follows from the invariant.
LEMMA AddressIsUnderstood == AddressInv => Address!TypeOK /\ Address!RoundTrip
<1> SUFFICES ASSUME AddressInv PROVE Address!TypeOK /\ Address!RoundTrip
  OBVIOUS
<1>1. CASE parsed.ok
  <2>1. parsed = Address!Parse(input) /\ server = Address!ToCanonicalUrl(parsed)
    <3>1. ~Address!NotYet.ok
      BY DEF Address!NotYet, Address!Failed
    <3> QED
      BY <1>1, <3>1 DEF AddressInv
  <2>2. input \in Seq(UrlSymbols)
    BY DEF AddressInv, UrlSymbols
  <2>3. IsAddress(parsed) /\ (Address!Colons(parsed.host) > 0 => input[3] = "[")
    BY <1>1, <2>1, <2>2, ParsedIsAddress
  <2>4. parsed.host # <<>> /\ parsed.port \in {"41000", Address!DEFAULT_PORT}
    BY <2>3 DEF IsAddress, Address!Address, Ports
  <2>5. Address!TypeOK
    BY <2>3, <2>4 DEF AddressInv, Address!TypeOK
  <2>6. Address!RoundTrip
    BY <2>1, <2>3, AddressRoundTrip DEF Address!RoundTrip
  <2> QED
    BY <2>5, <2>6
<1>2. CASE ~parsed.ok
  BY <1>2 DEF AddressInv, Address!TypeOK, Address!RoundTrip
<1> QED
  BY <1>1, <1>2

-------------------------------------------------------------------------------
\* What is typed: both of the above, however much is typed.

\* An answer that is posted is a label of each question's own, an index means what the list
\* shows, and the URL that join keeps parses back to the address it was given.
THEOREM WhatIsTypedIsMeant == MCSpec => []TypedIsUnderstood
<1>1. MCInit => ChoiceInv /\ AddressInv
  <2>1. Choice!Init => options \in SomeRequests
    BY DEF Choice!Init
  <2> QED
    BY <2>1, ChoiceStarts, AddressStarts DEF MCInit
<1>2. ChoiceInv /\ AddressInv /\ [MCNext]_allVars => (ChoiceInv /\ AddressInv)'
  <2>1. [MCNext]_allVars => [Choice!Next]_<<options, choice, posted>>
    BY DEF MCNext, allVars, typedVars
  <2>2. [MCNext]_allVars => [Address!Next]_<<input, parsed, server>>
    BY DEF MCNext, allVars, typedVars
  <2> QED
    BY <2>1, <2>2, ChoiceSteps, AddressSteps
<1>3. ChoiceInv /\ AddressInv => TypedIsUnderstood
  BY ChoiceIsUnderstood, AddressIsUnderstood DEF TypedIsUnderstood
<1> QED
  BY <1>1, <1>2, <1>3, PTL DEF MCSpec
=================================================================================
