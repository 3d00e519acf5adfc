------------------------ MODULE ReplyCoalescer_proofs ------------------------
(***************************************************************************)
(* Theorems about ReplyCoalescer: whatever the window, the cap, the sizes   *)
(* and the sessions, batching keeps the stream and bounds the batches.      *)
(***************************************************************************)
EXTENDS ReplyCoalescer, SequenceTheorems, TLAPS

-------------------------------------------------------------------------------
(* Streams. *)

\* The first n chunks of a session, in order.
Stream(n) == [i \in 1..n |-> i]

\* Concatenation is associative, on sequences of chunks.
LEMMA Regroup ==
  \A a \in Seq(Nat), b \in Seq(Nat), c \in Seq(Nat) : (a \o b) \o c = a \o (b \o c)
BY ConcatAssociative, SMTT(30)

\* What is sent with a batch that is not empty is more than was sent before.
LEMMA Longer ==
  \A a \in Seq(Nat), b \in Seq(Nat) : b # <<>> => a \o b # a
BY ConcatEqualIffEmpty

\* The next chunk, appended to the batch, continues the stream.
LEMMA StreamGrows ==
  ASSUME NEW a \in Seq(Nat), NEW b \in Seq(Nat), NEW n \in Nat, a \o b = Stream(n)
  PROVE  /\ a \o Append(b, n + 1) = Stream(n + 1)
         /\ Append(b, n + 1) \in Seq(Nat)
         /\ Append(b, n + 1) # <<>>
         /\ Len(a \o Append(b, n + 1)) = n + 1
<1>1. n + 1 \in Nat /\ <<n + 1>> \in Seq(Nat)
  OBVIOUS
<1>2. Append(b, n + 1) = b \o <<n + 1>>
  BY <1>1, AppendIsConcat
<1>3. (a \o b) \o <<n + 1>> = a \o (b \o <<n + 1>>)
  BY <1>1, Regroup
<1>4. Stream(n) \in Seq(Nat) /\ Len(Stream(n)) = n
  BY DEF Stream
<1>5. Stream(n) \o <<n + 1>> = Append(Stream(n), n + 1)
  BY <1>1, <1>4, AppendIsConcat
<1>6. Append(Stream(n), n + 1) = Stream(n + 1) /\ Len(Stream(n + 1)) = n + 1
  BY DEF Stream
<1>7. Append(b, n + 1) \in Seq(Nat) /\ Append(b, n + 1) # <<>>
  BY <1>1, AppendProperties, ZenonT(40)
<1> QED
  BY <1>1, <1>2, <1>3, <1>5, <1>6, <1>7

\* A stream is as long as what it counts.
LEMMA StreamLength == ASSUME NEW n \in Nat PROVE Stream(n) \in Seq(Nat) /\ Len(Stream(n)) = n
BY DEF Stream

-------------------------------------------------------------------------------
(* The batches. *)

\* What is buffered is a sequence of chunks, whether or not a batch is open.
LEMMA BufferedType ==
  ASSUME TypeOK, NEW s \in Sessions
  PROVE  Buffered(s) \in Seq(Nat)
<1>1. <<>> \in Seq(Nat)
  OBVIOUS
<1> QED
  BY <1>1 DEF TypeOK, Buffered, Pending

\* What push leaves in the batch of s, and what is streamed then.
LEMMA JoinedStream ==
  ASSUME TypeOK, NothingLost, CoalescerAssumption,
         NEW s \in Sessions, NEW size \in Sizes
  PROVE  /\ Joined(s, size) \in Pending
         /\ Joined(s, size).chunks # <<>>
         /\ delivered[s] \o Joined(s, size).chunks = Stream(pushed[s] + 1)
<1>1. delivered[s] \in Seq(Nat) /\ pushed[s] \in Nat /\ Buffered(s) \in Seq(Nat)
  BY BufferedType DEF TypeOK
<1>2. delivered[s] \o Buffered(s) = Stream(pushed[s])
  BY DEF NothingLost, Stream
<1>3. /\ delivered[s] \o Append(Buffered(s), pushed[s] + 1) = Stream(pushed[s] + 1)
      /\ Append(Buffered(s), pushed[s] + 1) \in Seq(Nat)
      /\ Append(Buffered(s), pushed[s] + 1) # <<>>
  BY <1>1, <1>2, StreamGrows
<1>4. OpenedAt(s) \in Nat /\ now \in Nat
  BY DEF OpenedAt, TypeOK, Pending
<1>5. (IF s \in Open THEN pending[s].bytes ELSE 0) + size \in Nat
  BY DEF TypeOK, Pending, CoalescerAssumption
<1> QED
  BY <1>3, <1>4, <1>5 DEF Joined, Pending

\* Sending a batch makes the wire's part of the stream the whole of it.
LEMMA SentStream ==
  ASSUME TypeOK, NothingLost, NEW s \in Sessions
  PROVE  /\ delivered[s] \o Buffered(s) \in Seq(Nat)
         /\ (delivered[s] \o Buffered(s)) \o <<>> = Stream(pushed[s])
<1>1. delivered[s] \in Seq(Nat) /\ Buffered(s) \in Seq(Nat)
  BY BufferedType DEF TypeOK
<1>2. delivered[s] \o Buffered(s) \in Seq(Nat)
  BY <1>1, ConcatProperties
<1>3. (delivered[s] \o Buffered(s)) \o <<>> = delivered[s] \o Buffered(s)
  BY <1>2, ConcatEmptySeq
<1> QED
  BY <1>2, <1>3 DEF NothingLost, Stream

\* The three ways a step changes what a session has buffered and delivered, for
\* the steps below: nothing, a send of the batch, or a chunk that joins it.
Kept(s) ==
  /\ s \in Open' <=> s \in Open
  /\ s \in Open => pending'[s] = pending[s]
  /\ pushed'[s] = pushed[s] /\ delivered'[s] = delivered[s] /\ arrived'[s] = arrived[s]

Sent(s) ==
  /\ s \notin Open'
  /\ pushed'[s] = pushed[s] /\ delivered'[s] = delivered[s] \o Buffered(s)
  /\ arrived'[s] = arrived[s]

Grown(s, size) ==
  /\ pushed'[s] = pushed[s] + 1
  /\ arrived'[s] = IF Len(delivered[s]) = pushed[s] THEN now ELSE arrived[s]
  /\ \/ /\ CapReached(Joined(s, size).bytes)
        /\ s \notin Open' /\ delivered'[s] = delivered[s] \o Joined(s, size).chunks
     \/ /\ ~CapReached(Joined(s, size).bytes)
        /\ s \in Open' /\ pending'[s] = Joined(s, size) /\ delivered'[s] = delivered[s]

\* Every step of the coalescer does one of the three to every session.
StepsOnSessions ==
  \A s \in Sessions : Kept(s) \/ Sent(s) \/ \E size \in Sizes : Grown(s, size)

\* What a step keeps of the variables as wholes.
StepShape ==
  /\ now' \in Nat /\ Open' \subseteq Sessions
  /\ pushed' = [s \in Sessions |-> pushed'[s]]
  /\ arrived' = [s \in Sessions |-> arrived'[s]]
  /\ delivered' = [s \in Sessions |-> delivered'[s]]

\* So the invariants below are argued one session and three cases at a time.
LEMMA StepCases ==
  ASSUME TypeOK, [Next]_vars
  PROVE  StepShape /\ StepsOnSessions
<1> USE DEF TypeOK
<1>1. ASSUME NEW s \in Sessions, NEW size \in Sizes, Push(s, size)
      PROVE  StepShape /\ StepsOnSessions
  <2> DEFINE batch == Joined(s, size)
  <2>1. /\ pushed' = [pushed EXCEPT ![s] = @ + 1]
        /\ arrived' = IF Len(delivered[s]) = pushed[s] THEN [arrived EXCEPT ![s] = now]
                                                       ELSE arrived
        /\ now' = now
    BY <1>1 DEF Push
  <2>2. \/ /\ CapReached(batch.bytes) /\ pending' = Closing({s})
           /\ delivered' = [delivered EXCEPT ![s] = @ \o batch.chunks]
        \/ /\ ~CapReached(batch.bytes)
           /\ pending' = [r \in Open \cup {s} |-> IF r = s THEN batch ELSE pending[r]]
           /\ delivered' = delivered
    BY <1>1 DEF Push
  <2> HIDE DEF batch
  <2>3. StepShape
    BY <2>1, <2>2 DEF StepShape, Open, Closing
  <2>4. \A r \in Sessions \ {s} : Kept(r)
    BY <2>1, <2>2 DEF Kept, Open, Closing
  <2>5. Grown(s, size)
    BY <2>1, <2>2 DEF Grown, Open, Closing, batch
  <2> QED
    BY <2>3, <2>4, <2>5 DEF StepsOnSessions
<1>2. ASSUME NEW s \in Sessions, Take(s)
      PROVE  StepShape /\ StepsOnSessions
  <2>1. StepShape
    BY <1>2 DEF Take, StepShape, Open, Closing
  <2>2. Sent(s) /\ \A r \in Sessions \ {s} : Kept(r)
    BY <1>2 DEF Take, Sent, Kept, Open, Closing
  <2> QED
    BY <2>1, <2>2 DEF StepsOnSessions
<1>3. ASSUME Due PROVE StepShape /\ StepsOnSessions
  <2>1. StepShape
    BY <1>3 DEF Due, StepShape, Open, Closing
  <2>2. \A s \in Expired : s \in Open
    BY DEF Expired
  <2>3. \A s \in Expired : Sent(s)
    BY <1>3, <2>2 DEF Due, Sent, Buffered, Open, Closing
  <2>4. \A s \in Sessions \ Expired : Kept(s)
    BY <1>3 DEF Due, Kept, Open, Closing
  <2> QED
    BY <2>1, <2>3, <2>4 DEF StepsOnSessions
<1>4. ASSUME Tick \/ UNCHANGED vars PROVE StepShape /\ StepsOnSessions
  <2>1. /\ now' \in Nat
        /\ UNCHANGED <<pending, pushed, arrived, delivered>>
    BY <1>4 DEF Tick, vars
  <2> QED
    BY <2>1 DEF StepShape, StepsOnSessions, Kept, Open
<1> QED
  BY <1>1, <1>2, <1>3, <1>4 DEF Next

-------------------------------------------------------------------------------
(* The stream. *)

\* What a session has buffered and delivered keeps its type, and its stream.
LEMMA SessionStep ==
  ASSUME CoalescerAssumption, TypeOK, NothingLost, NEW s \in Sessions,
         Kept(s) \/ Sent(s) \/ \E size \in Sizes : Grown(s, size)
  PROVE  /\ s \in Open' => pending'[s] \in Pending
         /\ pushed'[s] \in Nat /\ arrived'[s] \in Nat /\ delivered'[s] \in Seq(Nat)
         /\ delivered'[s] \o Buffered(s)' = Stream(pushed'[s])
<1>1. CASE Kept(s)
  <2>1. Buffered(s)' = Buffered(s)
    BY <1>1 DEF Kept, Buffered
  <2> QED
    BY <1>1, <2>1 DEF Kept, TypeOK, NothingLost, Stream
<1>2. CASE Sent(s)
  <2>1. Buffered(s)' = <<>>
    BY <1>2 DEF Sent, Buffered
  <2> QED
    BY <1>2, <2>1, SentStream DEF Sent, TypeOK
<1>3. ASSUME NEW size \in Sizes, Grown(s, size)
      PROVE  /\ s \in Open' => pending'[s] \in Pending
             /\ pushed'[s] \in Nat /\ arrived'[s] \in Nat /\ delivered'[s] \in Seq(Nat)
             /\ delivered'[s] \o Buffered(s)' = Stream(pushed'[s])
  <2> DEFINE batch == Joined(s, size)
  <2>1. batch \in Pending /\ delivered[s] \o batch.chunks = Stream(pushed[s] + 1)
    BY JoinedStream
  <2>2. pushed[s] \in Nat /\ arrived[s] \in Nat /\ now \in Nat /\ delivered[s] \in Seq(Nat)
    BY DEF TypeOK
  <2>3. Stream(pushed[s] + 1) \in Seq(Nat) /\ Stream(pushed[s] + 1) \o <<>> = Stream(pushed[s] + 1)
    BY <2>2, StreamLength, ConcatEmptySeq
  <2>4. pushed'[s] = pushed[s] + 1 /\ arrived'[s] \in Nat
    BY <1>3, <2>2 DEF Grown
  <2> HIDE DEF batch
  <2>5. CASE s \notin Open' /\ delivered'[s] = delivered[s] \o batch.chunks
    <3>1. Buffered(s)' = <<>>
      BY <2>5 DEF Buffered
    <3> QED
      BY <2>1, <2>2, <2>3, <2>4, <2>5, <3>1
  <2>6. CASE s \in Open' /\ pending'[s] = batch /\ delivered'[s] = delivered[s]
    <3>1. Buffered(s)' = batch.chunks
      BY <2>6 DEF Buffered
    <3>2. delivered'[s] \o Buffered(s)' = delivered[s] \o batch.chunks
      BY <2>6, <3>1, Zenon
    <3>3. delivered'[s] \o Buffered(s)' = Stream(pushed'[s])
      BY <2>1, <2>4, <3>2
    <3>4. pushed[s] + 1 \in Nat
      BY <2>2
    <3> QED
      BY <2>1, <2>2, <2>4, <2>6, <3>3, <3>4
  <2> QED
    BY <1>3, <2>5, <2>6 DEF Grown, batch
<1> QED
  BY <1>1, <1>2, <1>3

\* Nothing is streamed yet, and nothing is buffered.
LEMMA StreamInit ==
  ASSUME Init PROVE TypeOK /\ NothingLost
<1>1. <<>> \in Seq(Nat) /\ <<>> \o <<>> = Stream(0)
  BY DEF Stream
<1>2. Open = {}
  BY DEF Init, Open
<1> QED
  BY <1>1, <1>2 DEF Init, TypeOK, NothingLost, Buffered, Stream

\* The types and the streams survive every step.
LEMMA StreamStep ==
  ASSUME CoalescerAssumption, TypeOK, NothingLost, [Next]_vars
  PROVE  TypeOK' /\ NothingLost'
<1>1. StepShape /\ StepsOnSessions
  BY StepCases
<1>2. \A s \in Sessions :
        /\ s \in Open' => pending'[s] \in Pending
        /\ pushed'[s] \in Nat /\ arrived'[s] \in Nat /\ delivered'[s] \in Seq(Nat)
        /\ delivered'[s] \o Buffered(s)' = Stream(pushed'[s])
  BY <1>1, SessionStep DEF StepsOnSessions
<1>3. TypeOK'
  BY <1>1, <1>2 DEF StepShape, TypeOK
<1>4. NothingLost'
  BY <1>2 DEF NothingLost, Stream
<1> QED
  BY <1>3, <1>4

\* Both invariants together, for the theorems that rest on them.
LEMMA StreamInvariant == Spec => [](TypeOK /\ NothingLost)
<1>1. TypeOK /\ NothingLost /\ [Next]_vars => (TypeOK /\ NothingLost)'
  BY CoalescerAssumption, StreamStep
<1> QED
  BY <1>1, StreamInit, PTL DEF Spec

\* Type correctness of the coalescer.
THEOREM CoalescerTypes == Spec => []TypeOK
BY StreamInvariant, PTL

\* For any cap, window, sizes and number of sessions, what is on the wire followed by
\* what is buffered is what the session streamed (reply_coalescer.rs:97-148).
THEOREM CoalescingLosesNothing == Spec => []NothingLost
BY StreamInvariant, PTL

-------------------------------------------------------------------------------
(* The batches and their windows. *)

\* What is claimed of open batches.
BatchesInv == OpenBatchesBounded /\ WindowFromFirstChunk

\* A batch that is open holds the chunks that are streamed and not on the wire, so
\* the first of them opened it; without one, everything streamed is on the wire.
LEMMA OpenMeansBehind ==
  ASSUME TypeOK, NothingLost, OpenBatchesBounded, NEW s \in Sessions
  PROVE  s \in Open <=> Len(delivered[s]) # pushed[s]
<1>1. delivered[s] \in Seq(Nat) /\ pushed[s] \in Nat /\ Buffered(s) \in Seq(Nat)
  BY BufferedType DEF TypeOK
<1>2. Len(delivered[s] \o Buffered(s)) = pushed[s]
  BY <1>1, StreamLength DEF NothingLost, Stream
<1>3. Len(delivered[s]) + Len(Buffered(s)) = pushed[s]
  BY <1>1, <1>2, ConcatProperties
<1>4. s \in Open <=> Len(Buffered(s)) # 0
  BY <1>1 DEF OpenBatchesBounded, Buffered
<1>5. Len(delivered[s]) \in Nat /\ Len(Buffered(s)) \in Nat
  BY <1>1
<1> QED
  BY <1>1, <1>3, <1>4, <1>5

\* Bounds and windows survive every step.
LEMMA BatchesStep ==
  ASSUME CoalescerAssumption, TypeOK, NothingLost, BatchesInv, [Next]_vars
  PROVE  BatchesInv'
<1> SUFFICES ASSUME NEW s \in Sessions, s \in Open'
             PROVE  /\ pending'[s].chunks # <<>> /\ pending'[s].bytes < MaxBytes
                    /\ pending'[s].openedAt = arrived'[s]
  <2>1. Open' \subseteq Sessions
    BY StepCases DEF StepShape
  <2> QED
    BY <2>1 DEF BatchesInv, OpenBatchesBounded, WindowFromFirstChunk
<1>1. Kept(s) \/ \E size \in Sizes : Grown(s, size)
  BY StepCases DEF StepsOnSessions, Sent
<1>2. CASE Kept(s)
  BY <1>2 DEF Kept, BatchesInv, OpenBatchesBounded, WindowFromFirstChunk
<1>3. ASSUME NEW size \in Sizes, Grown(s, size)
      PROVE  /\ pending'[s].chunks # <<>> /\ pending'[s].bytes < MaxBytes
             /\ pending'[s].openedAt = arrived'[s]
  <2>1. pending'[s] = Joined(s, size) /\ ~CapReached(Joined(s, size).bytes)
    BY <1>3 DEF Grown
  <2>2. Joined(s, size) \in Pending /\ Joined(s, size).chunks # <<>>
    BY JoinedStream
  <2>3. Joined(s, size).bytes < MaxBytes
    BY <2>1, <2>2, CoalescerAssumption DEF CapReached, Pending
  <2>4. Joined(s, size).openedAt = OpenedAt(s)
    BY DEF Joined
  <2>5. s \in Open <=> Len(delivered[s]) # pushed[s]
    BY OpenMeansBehind DEF BatchesInv
  <2>6. arrived'[s] = OpenedAt(s)
    BY <1>3, <2>5 DEF Grown, OpenedAt, BatchesInv, WindowFromFirstChunk
  <2> QED
    BY <2>1, <2>2, <2>3, <2>4, <2>6
<1> QED
  BY <1>1, <1>2, <1>3

\* The batches with what they rest on.
LEMMA BatchesInvariant == Spec => [](TypeOK /\ NothingLost /\ BatchesInv)
<1>1. Init => TypeOK /\ NothingLost /\ BatchesInv
  BY StreamInit DEF Init, BatchesInv, OpenBatchesBounded, WindowFromFirstChunk, Open
<1>2. TypeOK /\ NothingLost /\ BatchesInv /\ [Next]_vars
        => (TypeOK /\ NothingLost /\ BatchesInv)'
  BY CoalescerAssumption, StreamStep, BatchesStep
<1> QED
  BY <1>1, <1>2, PTL DEF Spec

\* No batch is open and empty, none grows to the cap, and its window runs from its oldest
\* chunk, for any cap, window and sizes (reply_coalescer.rs:98-118).
THEOREM BatchesAreBounded == Spec => []BatchesKeepTheirBounds
<1>1. BatchesInv => BatchesKeepTheirBounds
  BY DEF BatchesInv, BatchesKeepTheirBounds
<1> QED
  BY <1>1, BatchesInvariant, PTL

\* Whenever the flush arm wakes it sends something, and what stays is not due yet
\* (reply_coalescer.rs:132-159).
THEOREM FlushNeverSpins == Spec => FlushDoesItsWork
<1>1. ASSUME TypeOK, NothingLost, BatchesInv, Due
      PROVE  /\ \E s \in Sessions : delivered'[s] # delivered[s]
             /\ \A t \in {pending'[s].openedAt + Window : s \in DOMAIN pending'} : now < t
  <2>1. PICK s \in Open : now >= pending[s].openedAt + Window
    BY <1>1 DEF Due, Deadlines, NextDeadline
  <2>2. s \in Sessions /\ \A r \in Open : pending[r] \in Pending /\ pending[r].openedAt \in Nat
    BY <1>1, <2>1 DEF TypeOK, Pending
  <2>3. now \in Nat /\ Window \in Nat
    BY <1>1, CoalescerAssumption DEF TypeOK
  <2>4. s \in Expired
    BY <2>1, <2>2, <2>3 DEF Expired
  <2>5. delivered'[s] = delivered[s] \o pending[s].chunks
    BY <1>1, <2>2, <2>4 DEF Due
  <2>6. /\ delivered[s] \in Seq(Nat) /\ pending[s].chunks \in Seq(Nat)
        /\ pending[s].chunks # <<>>
    BY <1>1, <2>1, <2>2 DEF TypeOK, Pending, BatchesInv, OpenBatchesBounded
  <2>7. delivered'[s] # delivered[s]
    BY <2>5, <2>6, Longer
  <2>8. ASSUME NEW r \in DOMAIN pending' PROVE now < pending'[r].openedAt + Window
    <3>1. r \in Open /\ r \notin Expired /\ pending'[r] = pending[r]
      BY <1>1, <2>8 DEF Due, Closing
    <3> QED
      BY <2>2, <2>3, <3>1 DEF Expired
  <2> QED
    BY <2>2, <2>7, <2>8
<1>2. TypeOK /\ NothingLost /\ BatchesInv /\ [Next]_vars
        => [ Due => /\ \E s \in Sessions : delivered'[s] # delivered[s]
                    /\ \A t \in {pending'[s].openedAt + Window : s \in DOMAIN pending'} : now < t ]_vars
  BY <1>1
<1> QED
  BY <1>2, BatchesInvariant, PTL DEF Spec, FlushDoesItsWork
===============================================================================
