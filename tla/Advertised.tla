------------------------------ MODULE Advertised ------------------------------
(***************************************************************************)
(* What a run starts and what it says of it: the configuration is loaded,     *)
(* spawn_session_manager starts a driver for every confirmed session           *)
(* (src/src/main.rs), and each connection's hello and presence, and each       *)
(* query, list the sessions confirmed at that moment (src/src/connection.rs).  *)
(* Programs and endpoints come and go meanwhile.                              *)
(***************************************************************************)
EXTENDS QueryDispatch

CONSTANTS
  Configs,        \* external: the configuration files there may be
  EndpointStates, \* external: of "up", "down", "hung" (accepts, never answers)
  Queries         \* external: what is asked, as <<cmd, args>>

VARIABLES
  pc,         \* load, probe, spawn, connect, serve; refused: run has ended
  registry,   \* the configuration, once it has loaded
  purpose,    \* what the probes are for: manager, hello, or a query
  harnesses,  \* confirmed_harnesses, read before the probes of a manager or a hello
  attached,   \* the names whose probe has succeeded
  next,       \* the next session to probe, or to spawn
  live,       \* the sessions to host
  handles,    \* the names whose driver has started
  manager,    \* none, or the names the session manager hosts
  told,       \* the names of the last hello and presence
  answer,     \* the last query's answer
  runnable,   \* external: the commands whose program is executable now
  endpoint    \* external: how the endpoint of each name answers now

hosting == <<live, handles, manager>>
said    == <<told, answer>>
envVars == <<registry, runnable, endpoint>>
ownVars == <<pc, purpose, harnesses, attached, next, hosting, said>>
vars == <<ownVars, envVars>>

\* A manager hosts a session or more.
NoManager == {}

Init ==
  /\ pc = "load" /\ registry \in Configs /\ purpose = <<"manager">>
  /\ harnesses = {} /\ attached = {} /\ next = 1 /\ live = <<>> /\ handles = {}
  /\ manager = NoManager /\ told = {} /\ answer = Failed("none")
  /\ runnable \in SUBSET Commands /\ endpoint \in [Names -> EndpointStates]

TypeOK ==
  /\ pc \in {"load", "probe", "spawn", "connect", "serve", "refused"}
  /\ \A i \in 1..Len(registry) : registry[i] \in SessionConfig
  /\ harnesses \subseteq Harnesses
  /\ attached \subseteq {s.name : s \in {registry[i] : i \in {j \in 1..Len(registry) :
                                                                IsAttach(registry[j])}}}
  /\ next \in 1..(Len(registry) + 1)
  /\ handles \cup manager \subseteq Names /\ told \subseteq Names
  /\ runnable \subseteq Commands /\ endpoint \in [Names -> EndpointStates]

NamesOf(sessions) == {sessions[i].name : i \in 1..Len(sessions)}

-------------------------------------------------------------------------------
\* Begin the probes of confirmed_attach_sessions.
Probe(for) ==
  /\ pc' = "probe" /\ purpose' = for
  /\ attached' = {} /\ next' = 1

\* config::load, and then spawn_session_manager reads what is executable.
Load ==
  /\ pc = "load"
  /\ IF FromConfigs(registry) = "ok"
     THEN Probe(<<"manager">>) /\ harnesses' = ConfirmedHarnesses(registry, runnable)
     ELSE pc' = "refused" /\ UNCHANGED <<purpose, attached, next, harnesses>>
  /\ UNCHANGED <<hosting, said, envVars>>

\* probe_session_exists: one GET, without a timeout.
ProbeNext ==
  /\ pc = "probe" /\ next <= Len(Probed(registry))
  /\ LET name == Probed(registry)[next].name IN
       /\ endpoint[name] # "hung"
       /\ attached' = IF endpoint[name] = "up" THEN attached \cup {name} ELSE attached
  /\ next' = next + 1
  /\ UNCHANGED <<pc, purpose, harnesses, hosting, said, envVars>>

ProbesDone(for) ==
  /\ pc = "probe" /\ next > Len(Probed(registry))
  /\ purpose[1] = for

\* spawn_session_manager, once it knows what is confirmed.
StartManager ==
  /\ ProbesDone("manager")
  /\ live' = ConfirmedSessions(registry, harnesses, attached)
  /\ pc' = IF live' = <<>> THEN "connect" ELSE "spawn"
  /\ next' = 1
  /\ UNCHANGED <<purpose, harnesses, attached, handles, manager, said, envVars>>

\* SessionDriver::for_config, of the next session: attach GETs the session once more, an
\* agent is started and greeted (external: it may fail or never answer).
DriverStarts ==
  LET s == live[next] IN
    IF IsAttach(s) THEN endpoint[s.name] = "up" ELSE s.command \in runnable
DriverFails ==
  LET s == live[next] IN IF IsAttach(s) THEN endpoint[s.name] = "down" ELSE TRUE

SpawnNext ==
  /\ pc = "spawn" /\ next <= Len(live)
  /\ DriverStarts
  /\ next' = next + 1 /\ handles' = handles \cup {live[next].name}
  /\ UNCHANGED <<pc, purpose, harnesses, attached, live, manager, said, envVars>>

\* Mutant: a session whose driver does not start is left out.
SpawnFailsSkips ==
  /\ pc = "spawn" /\ next <= Len(live)
  /\ DriverFails
  /\ next' = next + 1
  /\ UNCHANGED <<pc, purpose, harnesses, attached, hosting, said, envVars>>

\* One driver that does not start, and there is no manager.
SpawnFails ==
  /\ pc = "spawn" /\ next <= Len(live)
  /\ DriverFails
  /\ pc' = "connect"
  /\ UNCHANGED <<purpose, harnesses, attached, next, hosting, said, envVars>>

Spawned ==
  /\ pc = "spawn" /\ next > Len(live)
  /\ pc' = "connect" /\ manager' = handles
  /\ UNCHANGED <<purpose, harnesses, attached, next, live, handles, said, envVars>>

\* Mutant: the budget is not enforced.
BudgetIgnored == FALSE /\ UNCHANGED vars

\* SESSION_MANAGER_SPAWN_BUDGET.
BudgetExceeded ==
  /\ pc = "spawn" /\ next <= Len(live)
  /\ pc' = "connect"
  /\ UNCHANGED <<purpose, harnesses, attached, next, hosting, said, envVars>>

-------------------------------------------------------------------------------
\* The server accepts auth; connect_and_auth then gathers what it advertises.
Accepted ==
  /\ pc = "connect"
  /\ harnesses' = ConfirmedHarnesses(registry, runnable)
  /\ Probe(<<"hello">>)
  /\ UNCHANGED <<hosting, said, envVars>>

\* hello and presence list the same sessions.
Hello ==
  /\ ProbesDone("hello")
  /\ told' = NamesOf(ConfirmedSessions(registry, harnesses, attached))
  /\ pc' = "serve"
  /\ UNCHANGED <<purpose, harnesses, attached, next, hosting, answer, envVars>>

QueryArrives(q) ==
  /\ pc = "serve"
  /\ Probe(<<"query", q>>)
  /\ UNCHANGED <<harnesses, hosting, said, envVars>>

Answer ==
  /\ ProbesDone("query")
  /\ LET q == purpose[2] IN
       answer' = Dispatch(q[1], q[2], registry, runnable, attached, "connected")
  /\ pc' = "serve"
  /\ UNCHANGED <<purpose, harnesses, attached, next, hosting, told, envVars>>

\* The connection goes; the manager stays.
Drop ==
  /\ pc = "serve"
  /\ pc' = "connect"
  /\ UNCHANGED <<purpose, harnesses, attached, next, hosting, said, envVars>>

\* external: a program is installed or removed, a server starts, stops or hangs.
BoxChanges ==
  /\ \/ \E c \in Commands :
          runnable' = (runnable \cup {c}) \ (runnable \cap {c}) /\ UNCHANGED endpoint
     \/ \E n \in Names :
          /\ \E e \in EndpointStates \ {endpoint[n]} : endpoint' = [endpoint EXCEPT ![n] = e]
          /\ UNCHANGED runnable
  /\ UNCHANGED <<registry, ownVars>>

Next ==
  \/ Load \/ ProbeNext
  \/ StartManager \/ SpawnNext \/ SpawnFails \/ Spawned \/ BudgetExceeded
  \/ Accepted \/ Hello \/ Answer \/ Drop
  \/ \E q \in Queries : QueryArrives(q)
  \/ BoxChanges

Spec == Init /\ [][Next]_vars

\* The run's own steps; agents and endpoints owe it nothing.
FairSteps == {"load", "probe", "manager", "spawned", "budget"}
FairStep(s) ==
  \/ s = "load" /\ Load
  \/ s = "probe" /\ ProbeNext
  \/ s = "manager" /\ StartManager
  \/ s = "spawned" /\ Spawned
  \/ s = "budget" /\ BudgetExceeded

-------------------------------------------------------------------------------
\* The registry built from the confirmed sessions loads, as the expect of
\* spawn_session_manager has it (main.rs:342-343), and they are in a registry that did.
LiveRegistryLoads ==
  pc \in {"spawn", "connect", "serve"} =>
    FromConfigs(registry) = "ok" /\ FromConfigs(live) = "ok"

\* A manager hosts every session that was confirmed, or there is none: a session is not
\* left out of one because its driver did not start (session_manager.rs:251-272).
HostedWhole == manager # NoManager => manager = NamesOf(live)

\* The connection's hello and presence name the sessions a status document built from
\* the same confirmations lists: the two filters say the same (status.rs:103-120,
\* connection.rs:314-330).
PresenceIsStatus ==
  (pc = "serve" /\ purpose = <<"hello">>) =>
    told = LET listed == Build(registry, harnesses, attached, "connected").sessions
           IN  {listed[i] : i \in 1..Len(listed)}

\* An answer to caps agrees with the status in it: the harnesses listed are those its map
\* calls supported, a spawn session listed is of one of them, and opencode-http is
\* supported exactly when an attach session is listed (query.rs:120-237).
CapsAgree ==
  answer.cmd = "caps" =>
    LET status == answer.body.status
        caps   == answer.body.capabilities
        listed(mode) == {s \in {registry[i] : i \in 1..Len(registry)} :
                           /\ s.mode = mode
                           /\ \E i \in 1..Len(status.sessions) : status.sessions[i] = s.name}
    IN /\ status.harnesses = {h \in Harnesses : caps[h].ok}
       /\ \A s \in listed("spawn") : caps[s.harness].ok
       /\ caps["opencode-http"].ok <=> listed("attach") # {}

\* Whatever the agents do, the run gets to its connection or is refused for its
\* configuration (main.rs:323-326).
StartupEnds == <>(pc \in {"connect", "refused"})
===============================================================================
