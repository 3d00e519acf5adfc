------------------------------ MODULE AttachRelay ------------------------------
(***************************************************************************)
(* One attach-mode session seen from the server: AttachSession with           *)
(* session_loop (BlockedFrames) as its caller, over several connections.    *)
(***************************************************************************)
EXTENDS AttachSession, BlockedFrames

ownVars     == <<attachVars, postVars>>
relayedVars == <<vars, blockedVars>>

RelayedInit == Init /\ BlockedInit

RelayedNext ==
  \/ BlockedStep /\ UNCHANGED ownVars
  \/ Shutdown /\ UNCHANGED <<ownVars, blockedVars>>
  \/ AttachManagerStep /\ UNCHANGED blockedVars
  \/ LoopStep /\ UNCHANGED <<managerVars, postVars, blockedVars>>
  \/ OpenCodeStep /\ UNCHANGED <<managerVars, postVars, blockedVars>>
  \/ ServeStep /\ UNCHANGED blockedVars

RelayedSpec == RelayedInit /\ [][RelayedNext]_relayedVars

\* No status is left among the events the connection has yet to take.
StatusesTaken == \A i \in read + 1 .. Len(events) : events[i].kind \notin StatusKinds

\* A connection that has handled the statuses run_session forwarded has told the
\* server what run_session believes: also a connection that came up in the middle of
\* a block, between the event and its reading, or with statuses of its predecessor
\* still in the channel (connection.rs:626-646, 1004-1042).
ServerKnowsBlocked ==
  phase = "live" /\ StatusesTaken => (toldBlocked <=> blocked)

\* While the resync waits to be sent, the answer it got is out of date only if a newer
\* status is still to be read (connection.rs:628-630).
ResyncNotStale ==
  phase = "resync" /\ call = "none" /\ ~closed /\ StatusesTaken => (reply = "yes" <=> blocked)

\* The server's picture of the session, between connections and once it is live.
BlockedReachesServer == ServerKnowsBlocked /\ ResyncNotStale
===============================================================================
