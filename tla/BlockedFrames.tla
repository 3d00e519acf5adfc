----------------------------- MODULE BlockedFrames -----------------------------
(***************************************************************************)
(* What session_loop (src/src/connection.rs) tells the server of a session's *)
(* blocked status, on top of the frames SessionRelay has: one session_blocked *)
(* frame after the resync's is_blocked if it says yes, and one on every       *)
(* status event that changes what this connection said last.                *)
(***************************************************************************)
EXTENDS SessionRelay

VARIABLE toldBlocked  \* session_loop: the session is in blocked_sessions

blockedVars == <<relayVars, toldBlocked>>

BlockedInit == RelayInit /\ toldBlocked = FALSE

\* Mutant: a new connection waits for the next transition.
ResyncedNot == FALSE

\* The resync's answer, told if it is yes (a send that fails is a Drop).
Resynced == reply = "yes"

GoLiveResynced == GoLive /\ toldBlocked' = Resynced

\* blocked_sessions ends with the connection; what it held says nothing to the next.
DropBlocked == Drop /\ toldBlocked' = FALSE

\* What the server has been told once e is handled.
ToldAfter(e) == IF e.kind \in StatusKinds THEN e.kind = "Blocked" ELSE toldBlocked

TakeEventBlocked ==
  /\ TakeReplyEvent
  /\ toldBlocked' = (phase' = "live" /\ ToldAfter(events[read + 1]))

\* The session_blocked frame of a transition cannot be sent.
TellFails ==
  /\ Live
  /\ read < Len(events)
  /\ ToldAfter(events[read + 1]) # toldBlocked
  /\ read' = read + 1
  /\ Forget /\ toldBlocked' = FALSE
  /\ UNCHANGED <<connections, historyVars, managerVars, portVars>>

FlushBlocked == Flush /\ toldBlocked' = (phase' = "live" /\ toldBlocked)

AnswerFrame ==
  /\ Live
  /\ "Answer" \in Calls
  /\ Await("Answer")
  /\ UNCHANGED relayVars

BlockedStep ==
  \/ (Connect \/ Resync \/ PromptFrame \/ InterruptFrame \/ AnswerFrame) /\ UNCHANGED toldBlocked
  \/ GoLiveResynced \/ DropBlocked \/ TakeEventBlocked \/ TellFails \/ FlushBlocked
===============================================================================
