------------------------------- MODULE MCEventArm -------------------------------
(***************************************************************************)
(* The event arm of session_loop for TLC, in two parts that share nothing:   *)
(* which session's event it takes (EventChannels), and what becomes of the   *)
(* chunks it takes (ReplyCoalescer).  A behaviour is one part.               *)
(***************************************************************************)
EXTENDS ReplyCoalescer, EventChannels

VARIABLE part

MCSizes == {0, 1, 2}

MCInit == Init /\ ChannelsInit /\ part \in {"channels", "chunks"}

MCNext ==
  \/ part = "channels" /\ ChannelsNext /\ UNCHANGED <<vars, part>>
  \/ part = "chunks" /\ Next /\ UNCHANGED <<channelVars, part>>

\* The fairness of each part's specification; ChannelsFairness asks nothing of the other.
MCSpec ==
  /\ MCInit /\ [][MCNext]_<<vars, channelVars, part>>
  /\ ChannelsFairness
  /\ WF_vars(part = "chunks" /\ Tick) /\ WF_vars(part = "chunks" /\ Due)
===============================================================================
