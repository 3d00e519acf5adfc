------------------------------- MODULE Registry -------------------------------
(***************************************************************************)
(* The session registry (src/src/config.rs): which configurations load, and  *)
(* which of the sessions in one are confirmed real on this box right now.     *)
(* A session is a record of what the checks read; "" is a field left out,     *)
(* and the TOML of a field that is there but empty reads the same.            *)
(***************************************************************************)
EXTENDS Integers, Sequences, Functions

CONSTANTS
  Names, Harnesses, Commands  \* session names, harness ids, argvs

SessionConfig ==
  [name : Names, harness : Harnesses, mode : {"spawn", "attach"}, command : Commands \cup {""},
   endpoint : {"", "url"}, session_id : {"", "ses"}]

IsAttach(s) == s.mode = "attach"

\* What a filter leaves of s: its elements that are in S, in their order.
Only(s, S) ==
  LET upTo[i \in 0..Len(s)] ==
        IF i = 0 THEN <<>>
        ELSE IF s[i] \in S THEN Append(upTo[i - 1], s[i]) ELSE upTo[i - 1]
  IN  upTo[Len(s)]

\* The error the fields of a session's mode call for, or "ok".
ValidateModeFields(s) ==
  CASE ~IsAttach(s) /\ s.command = ""                      -> "SpawnMissingCommand"
    [] IsAttach(s) /\ s.endpoint = ""                      -> "AttachMissingEndpoint"
    [] IsAttach(s) /\ s.endpoint # "" /\ s.session_id = "" -> "AttachMissingSessionId"
    [] OTHER                                               -> "ok"

\* The error of the session at position i, were it the first with one.
ErrorAt(configs, i) ==
  IF \E j \in 1..(i - 1) : configs[j].name = configs[i].name
  THEN "DuplicateSessionName"
  ELSE ValidateModeFields(configs[i])

\* SessionRegistry::from_configs: the error of the first session that has one.
FromConfigs(configs) ==
  LET bad == {i \in 1..Len(configs) : ErrorAt(configs, i) # "ok"}
  IN  IF bad = {} THEN "ok" ELSE ErrorAt(configs, CHOOSE i \in bad : \A j \in bad : i <= j)

\* The harnesses of the sessions, of either mode, whose program is executable.
ConfirmedHarnesses(registry, runnable) ==
  {registry[i].harness : i \in {j \in 1..Len(registry) : registry[j].command \in runnable}}

\* The command of the first such session of harness h, or "".
ConfirmedCommandForHarness(registry, runnable, h) ==
  LET of == Only(registry, {s \in Range(registry) : s.harness = h /\ s.command \in runnable})
  IN  IF of = <<>> THEN "" ELSE of[1].command

\* What confirmed_attach_sessions probes, one after the other.
Probed(registry) ==
  Only(registry, {s \in Range(registry) : IsAttach(s) /\ s.endpoint # "" /\ s.session_id # ""})

\* connection::confirmed_sessions, in configured order.
ConfirmedSessions(registry, harnesses, attached) ==
  Only(registry, {s \in Range(registry) : IF IsAttach(s) THEN s.name \in attached
                                                         ELSE s.harness \in harnesses})
===============================================================================
