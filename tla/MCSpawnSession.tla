---------------------------- MODULE MCSpawnSession ----------------------------
(***************************************************************************)
(* SpawnSession for TLC.  A behaviour keeps to one scenario: tighter bounds *)
(* than the module's, on other things, so that one run asks about several   *)
(* small instances.  In a "responsive" one the agent ends its turns.        *)
(***************************************************************************)
EXTENDS SpawnSession

VARIABLE scenario

Scenario(name, prompts, awaited, streamed, kinds) ==
  [name |-> name, prompts |-> prompts, calls |-> awaited, updates |-> streamed, kinds |-> kinds]

\* Three prompts: one in flight, one handed over and one queued; two interrupts:
\* the second meets a deadline already armed or fired.
Scenarios ==
  {Scenario("interrupts", 3, 2, 1, {"Interrupt"}),
   Scenario("any call", 2, 1, 0, AwaitedCalls),
   Scenario("responsive", 3, 1, 0, {"Interrupt"})}

InScenario ==
  /\ sent <= scenario.prompts /\ calls <= scenario.calls /\ updates <= scenario.updates
  /\ call \in scenario.kinds \cup {"none"}

scenarioVars == <<vars, scenario>>

Fair == scenario.name # "interrupts"
Responsive == scenario.name = "responsive"

MCInit == Init /\ scenario \in Scenarios
MCNext == Next /\ UNCHANGED scenario /\ InScenario'

\* SpawnSession's fairness, in the scenarios that ask what must happen: InScenario
\* holds none of its steps back, as none sends a prompt, makes a call or streams.
MCSpec ==
  /\ MCInit /\ [][MCNext]_scenarioVars
  /\ \A a \in FairArms : WF_vars(Fair /\ Arm(a))
  /\ \A p \in Prompts : WF_vars(Responsive /\ Ends(p))

\* CallsReturn and ShutdownCompletes (session_loop is never left waiting for
\* run_session, and shutdown ends), in the scenarios with fairness.
NobodyWaitsForEver == Fair => CallsReturn /\ ShutdownCompletes

\* PromptsReachAgent, of the agents it is about: a prompt accepted from a
\* responsive agent's session reaches it (run_session's queue drains).
ResponsiveAgentIsReached == Responsive => PromptsReachAgent
===============================================================================
