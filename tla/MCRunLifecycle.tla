--------------------------- MODULE MCRunLifecycle ---------------------------
(***************************************************************************)
(* RunLifecycle for TLC, by scenarios as in MCSpawnSession: two runs one     *)
(* after the other beside a detach, any of them killed at any step; and a    *)
(* run, a detach and a join with a clock that may be set back.               *)
(***************************************************************************)
EXTENDS RunLifecycle, TLC

VARIABLE scenario

Scenarios == {[runs |-> 2, joins |-> 0, clockSteps |-> 0], [runs |-> 1, joins |-> 1, clockSteps |-> 1]}

InScenario ==
  /\ Cardinality({r \in Runs : pc[r] # "off"}) <= scenario.runs
  /\ Cardinality({j \in Joins : joinPc[j] # "idle"}) <= scenario.joins
  /\ clockSteps <= scenario.clockSteps

MCInit == Init /\ scenario \in Scenarios
MCNext == Next /\ UNCHANGED scenario /\ InScenario'
MCSpec == MCInit /\ [][MCNext]_<<vars, scenario>>

Symmetry == Permutations(Runs) \cup Permutations(Detaches)
=============================================================================
