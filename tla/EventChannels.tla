----------------------------- MODULE EventChannels -----------------------------
(***************************************************************************)
(* recv_any_event (src/src/connection.rs): one arm of session_loop takes    *)
(* the events of every session, here on one connection that stays up. It    *)
(* polls the sessions' channels in the order of the map, which does not     *)
(* change while the program runs, and takes the first event there is. Which *)
(* event it is does not matter here: a channel counts those it holds, and   *)
(* sessions may go on sending for ever.                                     *)
(***************************************************************************)
EXTENDS Integers

CONSTANTS
  Channels,  \* how many there are, one for each session, polled from 1 up
  MaxQueued  \* bound: events a channel holds, which in the code have none

ASSUME ChannelsAssumption == Channels \in Nat /\ MaxQueued \in Nat

VARIABLES
  queue,   \* how many events each channel holds
  closed,  \* external: the channels whose run_session has ended
  arm      \* session_loop: InSelect, Elsewhere, or handling an event of session arm

channelVars == <<queue, closed, arm>>

Index == 1..Channels

\* At its select!; in another arm, whichever it is.
InSelect  == 0
Elsewhere == -1

ChannelsInit ==
  /\ queue = [i \in Index |-> 0] /\ closed = {} /\ arm = InSelect

\* external: run_session sends an event, or ends and leaves what it sent.
Send(i) ==
  /\ i \notin closed /\ queue[i] < MaxQueued
  /\ queue' = [queue EXCEPT ![i] = @ + 1]
  /\ UNCHANGED <<closed, arm>>

Close(i) ==
  /\ closed' = closed \cup {i}
  /\ UNCHANGED <<queue, arm>>

TakeFrom(i) ==
  /\ queue' = [queue EXCEPT ![i] = @ - 1]
  /\ arm' = i
  /\ UNCHANGED closed

\* Mutant: a channel that closed and is empty is ready too, with no event.
RecvFirstReady ==
  /\ arm = InSelect
  /\ \E i \in Index :
       /\ queue[i] > 0 \/ i \in closed
       /\ \A j \in 1..(i - 1) : queue[j] = 0 /\ j \notin closed
       /\ IF queue[i] > 0 THEN TakeFrom(i) ELSE UNCHANGED channelVars

\* The first channel that has an event; one that is empty, closed or not, is passed over.
Recv ==
  /\ arm = InSelect
  /\ \E i \in Index :
       /\ queue[i] > 0 /\ \A j \in 1..(i - 1) : queue[j] = 0
       /\ TakeFrom(i)

\* Another arm is taken.
Turn ==
  /\ arm = InSelect /\ arm' = Elsewhere
  /\ UNCHANGED <<queue, closed>>

\* Back to the select!.
Return ==
  /\ arm # InSelect /\ arm' = InSelect
  /\ UNCHANGED <<queue, closed>>

ChannelsNext == Recv \/ Turn \/ Return \/ \E i \in Index : Send(i) \/ Close(i)

\* Arms end, and the select!, which has no order of its arms (no `biased`), takes one that
\* is ready again and again.  Nothing is assumed of the sessions.
ChannelsFairness == SF_channelVars(Recv) /\ WF_channelVars(Return)

ChannelsSpec == ChannelsInit /\ [][ChannelsNext]_channelVars /\ ChannelsFairness

-------------------------------------------------------------------------------
\* Events of a session are handled while those polled before it have none, whether they
\* fell silent, never spoke or ended (connection.rs:515-538): no channel that is empty or
\* closed for good keeps another's events from session_loop, and what a session left
\* behind when it ended is handled too.
EventsAreTaken ==
  \A i \in Index :
    (\A j \in 1..(i - 1) : <>[](queue[j] = 0)) => (queue[i] > 0 ~> arm = i)
===============================================================================
