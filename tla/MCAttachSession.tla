---------------------------- MODULE MCAttachSession ----------------------------
(***************************************************************************)
(* AttachSession for TLC, what must happen: scenarios as in MCSpawnSession. *)
(* In the "hanging" ones OpenCode may leave the loop's requests unanswered.   *)
(***************************************************************************)
EXTENDS AttachSession

VARIABLE scenario

Scenario(name, prompts, kinds, asked, missed, fair) ==
  [name |-> name, prompts |-> prompts, kinds |-> kinds, requests |-> asked, misses |-> missed,
   fair |-> fair]

\* The fairness a scenario needs, and no more of what AttachSession justifies.
QueueGoesOn == {"command", "returns", "served", "event", "stall", "post", "read", "stream",
                "prompt", "down"}
PollsGoOn   == {"poll", "lists", "post", "read", "stream", "prompt", "down"}

\* A prompt and an interrupt, or an answer, OpenCode hanging or gone at any point; a
\* prompt queued behind a turn that is interrupted; a second request in place of the first;
\* a list that cannot be had, before a request is found or after.
\* A shutdown, which excuses the last three from what they must do, is left to the others.
Scenarios ==
  {Scenario("hanging", 1, {"Interrupt"}, 0, 0, FairArms),
   Scenario("hanging", 1, {"Answer"}, 1, 0, FairArms),
   Scenario("queue", 2, {"Interrupt"}, 0, 0, QueueGoesOn),
   Scenario("polls", 1, {}, 2, 0, PollsGoOn),
   Scenario("polls", 1, {}, 1, 1, PollsGoOn)}

InScenario ==
  /\ sent <= scenario.prompts /\ requests <= scenario.requests
  /\ misses <= scenario.misses
  /\ call \in scenario.kinds \cup {"none"}
  /\ httpPc = "questions" => scenario.requests > 0
  /\ closed => scenario.name = "hanging"

MCInit == Init /\ scenario \in Scenarios
MCNext == Next /\ UNCHANGED scenario /\ InScenario'

\* InScenario holds no fair step back: none of them sends a prompt, makes a call or
\* raises a request, a poll is fair where there is one, and a list may always be had.
Fair(a) == a \in scenario.fair
MCSpec ==
  /\ MCInit /\ [][MCNext]_<<vars, scenario>>
  /\ \A a \in FairArms : WF_vars(Fair(a) /\ ManagerArm(a))
  /\ \A a \in LoopArms : SF_vars(Fair(a) /\ LoopArm(a))
  /\ \A a \in ServedArms : WF_vars(Fair(a) /\ ServedArm(a))

\* CallsReturn and ShutdownCompletes together: nobody waits for run_session for ever,
\* also when OpenCode leaves the loop's requests hanging (session_manager.rs:292-413).
NobodyWaitsForEver == scenario.name = "hanging" => CallsReturn /\ ShutdownCompletes

\* InterruptFreesQueue and RequestNoticed, of an OpenCode that serves its requests:
\* the queue goes on after an interrupt, and the poll finds what is pending
\* (session_manager.rs:59-70, http_attach_driver.rs:767-808).
ServedSessionGoesOn ==
  /\ scenario.name = "queue" => InterruptFreesQueue
  /\ scenario.name = "polls" => RequestNoticed
===============================================================================
