---------------------------- MODULE ReplyCoalescer ----------------------------
(***************************************************************************)
(* src/src/reply_coalescer.rs, as connection::session_loop drives it: the   *)
(* per-session batches of streamed reply chunks, their byte cap and their   *)
(* time window.  A session's n-th chunk is the number n, of a size picked   *)
(* from Sizes; time is a counter of clock ticks.                            *)
(***************************************************************************)
EXTENDS Integers, Sequences, FiniteSets

CONSTANTS
  Sessions,   \* the sessions of one connection
  Window,     \* DEFAULT_WINDOW, in ticks
  MaxBytes,   \* DEFAULT_MAX_BYTES
  Sizes,      \* the sizes of a chunk's text
  MaxChunks,  \* bound: chunks pushed for one session
  MaxTime     \* bound: how far the clock runs

ASSUME CoalescerAssumption ==
  /\ Window \in Nat /\ MaxBytes \in Nat
  /\ Sizes \subseteq Nat
  /\ MaxChunks \in Nat /\ MaxTime \in Nat

VARIABLES
  now,        \* Instant::now()
  pending,    \* ReplyCoalescer.pending: the open batches
  pushed,     \* how many chunks each session has streamed
  arrived,    \* history: when the oldest chunk not yet on the wire was pushed
  delivered   \* the chunks of each session on the wire, in order

vars == <<now, pending, pushed, arrived, delivered>>

Pending == [chunks : Seq(Nat), bytes : Nat, openedAt : Nat]

Init ==
  /\ now = 0
  /\ pending = [s \in {} |-> 0]
  /\ pushed = [s \in Sessions |-> 0]
  /\ arrived = [s \in Sessions |-> 0]
  /\ delivered = [s \in Sessions |-> <<>>]

-------------------------------------------------------------------------------
Open == DOMAIN pending

\* The chunks buffered for s, what take returns.
Buffered(s) == IF s \in Open THEN pending[s].chunks ELSE <<>>

\* Mutant: the batch is copied, not removed.
ClosingNone(S) == pending

\* pending without the batches of S.
Closing(S) == [s \in Open \ S |-> pending[s]]

\* Mutant: > for >=.
ExpiredLate == {s \in Open : now - pending[s].openedAt > Window}

Expired == {s \in Open : now - pending[s].openedAt >= Window}

Deadlines == {pending[s].openedAt + Window : s \in Open}

\* Mutant: max for min.
LastDeadline(t) == t \in Deadlines /\ \A d \in Deadlines : d <= t

\* next_deadline() is Some(t).
NextDeadline(t) == t \in Deadlines /\ \A d \in Deadlines : t <= d

\* Mutant: every chunk reopens the window.
OpenedAtNow(s) == now

\* opened_at of the batch a chunk of s joins: it opens one if there is none.
OpenedAt(s) == IF s \in Open THEN pending[s].openedAt ELSE now

\* The batch of s once a chunk of the given size has joined it, opened now if new.
Joined(s, size) ==
  [chunks   |-> Append(Buffered(s), pushed[s] + 1),
   bytes    |-> (IF s \in Open THEN pending[s].bytes ELSE 0) + size,
   openedAt |-> OpenedAt(s)]

CapReached(bytes) == bytes >= MaxBytes

\* A DriverEvent::Update: push, and send at once the batch the byte cap returns.
Push(s, size) ==
  /\ pushed[s] < MaxChunks
  /\ pushed' = [pushed EXCEPT ![s] = @ + 1]
  /\ arrived' = IF Len(delivered[s]) = pushed[s] THEN [arrived EXCEPT ![s] = now] ELSE arrived
  /\ LET batch == Joined(s, size) IN
       \/ /\ CapReached(batch.bytes)
          /\ pending' = Closing({s})
          /\ delivered' = [delivered EXCEPT ![s] = @ \o batch.chunks]
       \/ /\ ~CapReached(batch.bytes)
          /\ pending' = [r \in Open \cup {s} |-> IF r = s THEN batch ELSE pending[r]]
          /\ UNCHANGED delivered
  /\ UNCHANGED now

\* A DriverEvent::StopReason: take, and send with the frame that says done.
Take(s) ==
  /\ pending' = Closing({s})
  /\ delivered' = [delivered EXCEPT ![s] = @ \o Buffered(s)]
  /\ UNCHANGED <<now, pushed, arrived>>

\* The flush arm, which sleeps until next_deadline: due, and send what it returns.
Due ==
  /\ \E t \in Deadlines : NextDeadline(t) /\ now >= t
  /\ pending' = Closing(Expired)
  /\ delivered' = [s \in Sessions |->
                     IF s \in Expired THEN delivered[s] \o pending[s].chunks ELSE delivered[s]]
  /\ UNCHANGED <<now, pushed, arrived>>

Tick ==
  /\ now < MaxTime
  /\ now' = now + 1
  /\ UNCHANGED <<pending, pushed, arrived, delivered>>

Next ==
  \/ \E s \in Sessions : (\E size \in Sizes : Push(s, size)) \/ Take(s)
  \/ Due
  \/ Tick

Spec == Init /\ [][Next]_vars

\* Time passes, and the flush arm, once ready, is taken.
FairSpec == Spec /\ WF_vars(Tick) /\ WF_vars(Due)

TypeOK ==
  /\ now \in Nat
  /\ Open \subseteq Sessions
  /\ \A s \in Open : pending[s] \in Pending
  /\ pushed \in [Sessions -> Nat]
  /\ arrived \in [Sessions -> Nat]
  /\ delivered \in [Sessions -> Seq(Nat)]

-------------------------------------------------------------------------------
\* Batching loses, repeats and reorders nothing: what is on the wire followed by
\* what is buffered is what the session streamed (reply_coalescer.rs:97-148).
NothingLost ==
  \A s \in Sessions : delivered[s] \o Buffered(s) = [n \in 1..pushed[s] |-> n]

\* A batch that is open holds something, and less than the cap: the flush arm is
\* never woken for nothing, and no batch grows past a frame's limit.
OpenBatchesBounded ==
  \A s \in Open : pending[s].chunks # <<>> /\ pending[s].bytes < MaxBytes

\* The window runs from the oldest buffered chunk, so later chunks never extend
\* it and an old window is never inherited by a new batch (reply_coalescer.rs:98-111).
WindowFromFirstChunk ==
  \A s \in Open : pending[s].openedAt = arrived[s]

\* An open batch is worth waiting for and no longer than its window.
BatchesKeepTheirBounds == OpenBatchesBounded /\ WindowFromFirstChunk

\* Whenever the flush arm wakes it has something to send, and what stays behind
\* is not due yet: no spinning, no missed session (reply_coalescer.rs:132-159).
FlushDoesItsWork ==
  [][ Due => /\ \E s \in Sessions : delivered'[s] # delivered[s]
             /\ \A t \in {pending'[s].openedAt + Window : s \in DOMAIN pending'} : now < t ]_vars

\* Every streamed chunk reaches the wire, without waiting for more chunks or for
\* the end of the turn.
EveryChunkDelivered ==
  \A s \in Sessions : \A n \in 1..MaxChunks :
    (pushed[s] >= n /\ now + Window < MaxTime) ~> (Len(delivered[s]) >= n)
===============================================================================
