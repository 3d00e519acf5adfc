-------------------------------- MODULE MCParts --------------------------------
(***************************************************************************)
(* The parts that share no state with the turns of the sessions, for TLC in  *)
(* one run: what startup hosts and hello and queries say (Advertised), two   *)
(* arms of session_loop's select!, which only share the connection that each *)
(* lets end at any time (Heartbeat, FrameDispatch), and what an operator     *)
(* types (AnswerChoice, ServerAddress).  A behaviour is one part.            *)
(***************************************************************************)
EXTENDS Heartbeat, WireFrames

CONSTANTS
  MaxIncoming, MaxChoice, MaxAddress,  \* bounds: frames of FrameDispatch, symbols typed
  Names, Harnesses, Commands, EndpointStates, Queries  \* of Advertised

VARIABLES
  part,
  framesPc, awaited, received, accepted, replies, incoming, reason,         \* FrameDispatch
  startPc, registry, purpose, harnesses, attached, next, live, handles,     \* Advertised
  manager, told, answer, runnable, endpoint,
  options, choice, posted,                                                  \* AnswerChoice
  input, parsed, server                                                     \* ServerAddress

\* Well-formed frames of every type session_loop tells apart, and broken ones.
Good == {Encode(t, 1) : t \in {"hello", "ping", "pong", "error", "query", "prompt", "interrupt",
                               "answer", "query_ok", "wait"}}
Broken ==
  LET e == Encode("interrupt", 1) IN
    {[e EXCEPT !.json = "invalid"], [e EXCEPT !.json = "scalar"], [e EXCEPT !.type = Absent],
     [e EXCEPT !.v = -1], [e EXCEPT !.v = 2], [e EXCEPT !.id = 0], [e EXCEPT !.ts = FALSE],
     [e EXCEPT !.from = FALSE], [e EXCEPT !.body = Absent], [e EXCEPT !.body = "misfits"],
     [Encode("query_ok", 1) EXCEPT !.body = "misfits"]}

\* One session of each mode, two of one harness, fields that are missing or do not belong.
Spawn(n, h, c) ==
  [name |-> n, harness |-> h, mode |-> "spawn", command |-> c, endpoint |-> "", session_id |-> ""]
Attach(n, h) ==
  [Spawn(n, h, "") EXCEPT !.mode = "attach", !.endpoint = "url", !.session_id = "ses"]
SomeConfigs ==
  {<<>>,
   <<Spawn("a", "opencode", "opencode"), Attach("b", "opencode")>>,
   <<Attach("b", "claude"), Spawn("a", "opencode", "opencode")>>,
   <<Spawn("a", "opencode", "opencode"), Spawn("b", "opencode", "other")>>,
   <<Spawn("a", "opencode", "other"), Spawn("b", "claude", "opencode")>>,
   <<Attach("a", "opencode"), Attach("b", "opencode")>>,
   <<[Attach("a", "claude") EXCEPT !.command = "other"], Spawn("b", "claude", "opencode")>>,
   <<[Spawn("a", "opencode", "opencode") EXCEPT !.endpoint = "url", !.session_id = "ses"]>>,
   <<Spawn("a", "opencode", "")>>,
   <<Spawn("a", "opencode", "other"), [Attach("b", "opencode") EXCEPT !.endpoint = ""]>>,
   <<[Attach("a", "opencode") EXCEPT !.session_id = ""]>>,
   <<Spawn("a", "opencode", "opencode"), Attach("a", "claude")>>}
SomeQueries ==
  {<<"caps", <<>>>>, <<"status", <<>>>>, <<"support", <<"opencode">>>>, <<"protocol", <<2>>>>,
   <<"reboot", <<>>>>}

\* One question and two, of one label or more; a label may be a number.
Yes == <<"a">>
No  == <<"b">>
SomeRequests ==
  {<<<<Yes, No>>>>, <<<<Yes>>>>, <<<<<<"1">>, <<"0">>, <<"a", "1">>>>>>,
   <<<<Yes, No>>, <<No, Yes, <<"a", "b">>>>>>, <<<<Yes>>, <<Yes, No>>>>}

Dispatch ==
  INSTANCE FrameDispatch WITH
    MaxFrames <- MaxIncoming, Shapes <- Good \cup Broken,
    pc <- framesPc, sent <- replies, frames <- incoming
Startup ==
  INSTANCE Advertised WITH
    Configs <- SomeConfigs, pc <- startPc
Choice == INSTANCE AnswerChoice WITH Requests <- SomeRequests, MaxTyped <- MaxChoice, sent <- posted
Address == INSTANCE ServerAddress WITH MaxTyped <- MaxAddress

ASSUME BoundsAssumption == MaxIncoming \in Nat /\ MaxChoice \in Nat /\ MaxAddress \in Nat

\* The configurations are of the names, harnesses and commands there are, "" among them only
\* as a command left out; no harness has the id of a feature or of a capability
\* (query.rs:43-71).
ASSUME StartupAssumption ==
  /\ \A c \in SomeConfigs : c \in Seq(Startup!SessionConfig)
  /\ "" \notin Commands
  /\ Harnesses \cap Startup!Vocabulary = {}

-------------------------------------------------------------------------------
frameVars == <<framesPc, awaited, received, accepted, replies, incoming, reason>>
startVars == <<startPc, registry, purpose, harnesses, attached, next, live, handles, manager, told,
               answer, runnable, endpoint>>
typedVars == <<options, choice, posted, input, parsed, server>>
allVars   == <<vars, frameVars, startVars, typedVars, part>>

\* Only the part that is looked at may begin in several ways.
MCInit ==
  /\ part \in {"startup", "heartbeat", "incoming", "choice", "address"}
  /\ Init /\ Dispatch!Init /\ Startup!Init /\ Choice!Init /\ Address!Init
  /\ part # "startup" =>
       registry = <<>> /\ runnable = {} /\ endpoint = [n \in Names |-> "down"]
  /\ part # "choice" => options = <<<<Yes>>>>

MCNext ==
  \/ /\ part = "startup" /\ Startup!Next
     /\ UNCHANGED <<vars, frameVars, typedVars, part>>
  \/ /\ part = "heartbeat" /\ Next
     /\ UNCHANGED <<frameVars, startVars, typedVars, part>>
  \/ /\ part = "incoming" /\ Dispatch!Next
     /\ UNCHANGED <<vars, startVars, typedVars, part>>
  \/ /\ part = "choice" /\ Choice!Next
     /\ UNCHANGED <<vars, frameVars, startVars, input, parsed, server, part>>
  \/ /\ part = "address" /\ Address!Next
     /\ UNCHANGED <<vars, frameVars, startVars, options, choice, posted, part>>

\* The steps of its own that startup takes if it can, as in Advertised.
MCSpec ==
  /\ MCInit /\ [][MCNext]_allVars
  /\ \A step \in Startup!FairSteps : WF_startVars(part = "startup" /\ Startup!FairStep(step))

-------------------------------------------------------------------------------
\* FrameDispatch's: what the server asks for is answered once, under its own id, and a
\* connection ends for one of four causes (connection.rs:678-917).
FramesAreHandled == Dispatch!TypeOK /\ Dispatch!RequestsAnswered /\ Dispatch!EndsHaveACause

\* FrameDispatch's: a frame this client does not understand or has no use for changes
\* nothing of its connection (proto.rs:14-17, connection.rs:679-685).
OddFramesAreHarmless == Dispatch!OddFramesAreHarmless

\* Advertised's: a manager hosts every session that was confirmed, or there is none
\* (session_manager.rs:251-272, main.rs:342-343).
HostedWhole == Startup!TypeOK /\ Startup!LiveRegistryLoads /\ Startup!HostedWhole

\* Advertised's: hello, presence, status and caps agree on what is there (query.rs:120-237,
\* status.rs:103-120).
QueriesAgree == Startup!PresenceIsStatus /\ Startup!CapsAgree

\* Advertised's: with endpoints that answer or refuse, whatever the agents do, the run gets
\* to its connection or is refused for its configuration (main.rs:323-326).
StartupEnds == part = "startup" => Startup!StartupEnds

\* What is typed is understood as it was meant: an answer that is posted is one label of
\* each question's own, and an index means what the list shows (AnswerChoice,
\* http_attach_driver.rs:615-648); the URL that join keeps parses back to the address it
\* was given (ServerAddress, server_address.rs:148-156).
TypedIsUnderstood ==
  /\ Choice!TypeOK /\ Choice!WholeAnswers /\ Choice!IndexAnswers
  /\ Address!TypeOK /\ Address!RoundTrip
===============================================================================
