----------------------------- MODULE QueryDispatch -----------------------------
(***************************************************************************)
(* What query::dispatch answers (src/src/query.rs, src/src/status.rs), for   *)
(* the server and for `holler status`, `support`, `caps` and `protocol`: a    *)
(* function of the registry, of what the box confirms and of the live state.  *)
(***************************************************************************)
EXTENDS Registry

CLIENT_FEATURES         == {"ping", "query", "interrupt", "answer", "presence"}
KNOWN_PROTOCOL_FEATURES == CLIENT_FEATURES \cup {"roster", "token", "wait"}
KNOWN_CAPABILITY_IDS    == {"attach", "opencode-http"}
\* Stands for the thirteen harness ids of the vocabulary.
KNOWN_HARNESS_IDS       == Harnesses

Vocabulary == KNOWN_PROTOCOL_FEATURES \cup KNOWN_CAPABILITY_IDS

\* One id's answer; how is "" where there is none.
AnswerSupport(id, registry, runnable, attached) ==
  CASE id \in KNOWN_PROTOCOL_FEATURES ->
         [ok |-> id \in CLIENT_FEATURES, kind |-> "feature", how |-> ""]
    [] id = "attach" -> [ok |-> TRUE, kind |-> "capability", how |-> ""]
    [] id = "opencode-http" -> [ok |-> attached # {}, kind |-> "capability", how |-> ""]
    [] OTHER ->
         LET how == ConfirmedCommandForHarness(registry, runnable, id)
         IN  [ok |-> how # "", kind |-> "harness", how |-> how]

Document(harnesses, listed, live) ==
  [connected    |-> live = "connected",
   reconnecting |-> live \in {"connecting", "reconnecting"},
   harnesses    |-> harnesses,
   sessions     |-> [i \in 1..Len(listed) |-> listed[i].name]]

\* Mutant: a session is listed by its harness, whatever its mode.
BuildByHarness(registry, harnesses, attached, live) ==
  Document(harnesses, Only(registry, {s \in Range(registry) : s.harness \in harnesses}), live)

\* status::build; its filter on sessions repeats that of confirmed_sessions.
Build(registry, harnesses, attached, live) ==
  Document(harnesses,
           Only(registry, {s \in Range(registry) : IF IsAttach(s) THEN s.name \in attached
                                                                  ELSE s.harness \in harnesses}),
           live)

StatusValue(registry, runnable, attached, live) ==
  Build(registry, ConfirmedHarnesses(registry, runnable), attached, live)

CapsValue(registry, runnable, attached, live) ==
  [status       |-> StatusValue(registry, runnable, attached, live),
   capabilities |-> [id \in Vocabulary \cup KNOWN_HARNESS_IDS |->
                       AnswerSupport(id, registry, runnable, attached)]]

\* The argument as a number, -1 when it is none that fits u32; only version 1 is spoken.
ProtocolValue(args) ==
  CASE args = <<>>      -> [ok |-> TRUE, why |-> "range"]
    [] args # <<>> /\ args[1] \in {-1, 0} -> [ok |-> FALSE, why |-> "unknown_feature"]
    [] OTHER            -> [ok |-> TRUE, why |-> IF args[1] = 1 THEN "spoken" ELSE "not spoken"]

Failed(code) == [cmd |-> "error", code |-> code]

Dispatch(cmd, args, registry, runnable, attached, live) ==
  CASE cmd = "status" ->
         [cmd |-> cmd, body |-> StatusValue(registry, runnable, attached, live)]
    [] cmd = "caps" ->
         [cmd |-> cmd, body |-> CapsValue(registry, runnable, attached, live)]
    [] cmd = "support" /\ args # <<>> ->
         [cmd |-> cmd, body |-> AnswerSupport(args[1], registry, runnable, attached)]
    [] cmd = "support" /\ args = <<>> -> Failed("unknown_feature")
    [] cmd = "protocol" ->
         LET p == ProtocolValue(args)
         IN  IF p.ok THEN [cmd |-> cmd, body |-> [version |-> p.why]] ELSE Failed(p.why)
    [] OTHER -> Failed("unknown_cmd")
===============================================================================
