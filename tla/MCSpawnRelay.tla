----------------------------- MODULE MCSpawnRelay -----------------------------
(***************************************************************************)
(* SpawnRelay for TLC, by scenarios as in MCSpawnSession: a dropped          *)
(* connection and a second one; an interrupt whose turn may outlive the     *)
(* stall timeout; and, with fairness, what must be answered.                *)
(***************************************************************************)
EXTENDS SpawnRelay

VARIABLE scenario

ConnectCalls == {"IsBusy", "IsBlocked"}
RelayCalls == ConnectCalls \cup {"Interrupt"}

Scenario(name, awaited, streamed, ups, kinds) ==
  [name |-> name, calls |-> awaited, updates |-> streamed, connections |-> ups, kinds |-> kinds]

Scenarios ==
  {Scenario("reconnect", 4, 2, 2, ConnectCalls),
   Scenario("interrupt", 3, 2, 1, RelayCalls),
   Scenario("live", 3, 1, 1, RelayCalls)}

InScenario ==
  /\ calls <= scenario.calls /\ updates <= scenario.updates
  /\ connections <= scenario.connections /\ call \in scenario.kinds \cup {"none"}

scenarioVars == <<relayedVars, scenario>>

Fair == scenario.name = "live"

MCInit == RelayedInit /\ scenario \in Scenarios
MCNext == RelayedNext /\ UNCHANGED scenario /\ InScenario'

\* The fairness of SpawnRelay, where it is asked for; its steps stay in the scenario.
MCSpec ==
  /\ MCInit /\ [][MCNext]_scenarioVars
  /\ \A a \in RelayedArms : WF_relayedVars(Fair /\ RelayedArm(a))
  /\ \A p \in Prompts : WF_relayedVars(Fair /\ Ends(p) /\ UNCHANGED relayVars)

\* EveryPromptAnswered, where the fairness holds it is about: a prompt gets its
\* done frame (session_loop's TurnComplete arm).
LiveServerIsAnswered == Fair => EveryPromptAnswered
===============================================================================
