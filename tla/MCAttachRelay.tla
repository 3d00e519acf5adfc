----------------------------- MODULE MCAttachRelay -----------------------------
(***************************************************************************)
(* AttachRelay for TLC, by scenarios as in MCSpawnSession.  Without a        *)
(* connection the session's caller is any caller, as in AttachSession; with  *)
(* connections it is session_loop.                                           *)
(***************************************************************************)
EXTENDS AttachRelay

VARIABLE scenario

ConnectCalls == {"IsBusy", "IsBlocked"}

Scenario(prompts, awaited, kinds) ==
  [prompts |-> prompts, calls |-> awaited, kinds |-> kinds, foreign |-> 0, texts |-> 0,
   requests |-> 0, misses |-> 0, connections |-> 0]

\* Two prompts and two interrupts that may fail or come late; texts of a prompt and of
\* a turn of the operator's; two requests of either kind, or one and an answer to it,
\* with a list that cannot be had; two connections over a turn that is blocked once.
Scenarios ==
  {Scenario(2, 2, {"Interrupt"}),
   [Scenario(1, 0, {}) EXCEPT !.foreign = 1, !.texts = 2],
   [Scenario(0, 0, {}) EXCEPT !.foreign = 1, !.requests = 2, !.misses = 1],
   [Scenario(0, 1, {"Answer"}) EXCEPT !.foreign = 1, !.requests = 1, !.misses = 1],
   [Scenario(0, 4, ConnectCalls) EXCEPT !.foreign = 1, !.requests = 1, !.connections = 2]}

\* A poll that can find no request leaves no trace, and is left out.
InScenario ==
  /\ sent <= scenario.prompts /\ calls <= scenario.calls
  /\ call \in scenario.kinds \cup {"none"}
  /\ foreign <= scenario.foreign /\ texts <= scenario.texts
  /\ requests <= scenario.requests /\ misses <= scenario.misses
  /\ httpPc = "questions" => scenario.requests > 0

MCInit == RelayedInit /\ scenario \in Scenarios /\ InScenario

MCNext ==
  /\ \/ scenario.connections = 0 /\ Next /\ UNCHANGED blockedVars
     \/ scenario.connections > 0 /\ RelayedNext
  /\ UNCHANGED scenario
  /\ InScenario'

MCSpec == MCInit /\ [][MCNext]_<<relayedVars, scenario>>
===============================================================================
