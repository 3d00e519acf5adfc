# Verification of holler-client

TLA+ models of the holler client (`src/`, Rust, tokio), checked with TLC and, where noted,
proved with TLAPS. The client keeps one WebSocket connection to a holler server and, behind
it, one *session* per configured coding agent: a subprocess it speaks ACP to (spawn mode) or
an already running OpenCode instance it drives over HTTP (attach mode). The server sends
prompts and interrupts; the client runs turns and streams replies.

Line numbers refer to `src/src/` unless a path is given.

## 1. Inventory

| Component | State | Operations | Talks to |
|---|---|---|---|
| Session runtime, `session_manager.rs` | per session: `busy`, `queue`, `blocked`, `driver_alive`, `interrupt_deadline` | `prompt`, `interrupt`, `answer`, `is_busy`, `is_blocked`, `shutdown`; the select! loop `run_session` | commands from the session loop by an unbounded channel and oneshot replies; commands and events with the driver by two unbounded channels; events to the session loop |
| ACP driver, `acp_driver.rs` | `prompt_in_flight` | `prompt`, `cancel`, `shutdown`; `run_command_loop` | the agent's stdio |
| HTTP attach driver, `http_attach_driver.rs` | `pending_block`, `interrupt_requested`, roles of messages | `prompt`, `interrupt`, `answer`, `shutdown`; `run_http_loop` with an SSE stream and a 750 ms poll | an OpenCode process it does not own |
| Session loop, `connection.rs:604-1071` | `last_prompt_id`, coalescer, `blocked_sessions`, `awaiting_pong` | one arm each for frames, heartbeat, detach poll, session events, flush | server; session runtime |
| Reply coalescer, `reply_coalescer.rs` | open batch per session | `push`, `take`, `due`, `next_deadline` | called by the session loop |
| Connect and reconnect, `connection.rs:371-500, 1073-1210` | attempt counter | handshake, backoff, retry | server, state store |
| State store, `connection.rs:162-273` | a state file, a detach marker file | mark, clear, request, poll | shared by the `run`, `status` and `detach` processes |
| CLI, `main.rs`; instance lock; credential store; join | files | `run_run`, `run_detach`, ... | each other through files |
| Configuration, `config.rs`; query dispatch, `query.rs`; status document, `status.rs` | the registry, fixed once loaded | validation, harness confirmation, `dispatch`, `build` | read by startup, by each hello and by each query |
| Wire protocol, `proto.rs`; server address, `server_address.rs` | none | `encode`, `decode`; `parse`, `to_canonical_url` | the session loop; join |
| Debug logging, `debug.rs` | none | formatting, redaction | |

What is hard here, and the properties that make each component correct:

- *Two copies of "a turn is in flight"*, `busy` in `run_session` and `prompt_in_flight` in the
  driver, kept equal by messages. If they part, a prompt is dropped without a trace. Correct
  means: at most one turn, `busy` exactly during it, prompts in order, none lost.
- *The stall timeout*, which ends a turn on one side only.
- *Deaths*: of the agent, of the driver's task, with a turn in flight and prompts queued.
- *Calls that wait*: the session loop serves all sessions and waits for `run_session`.
- *Replies*: chunks leave by three exits (byte cap, window, end of turn), under an id kept per
  session, over connections that come and go while turns go on.
- *Attach mode*: state that is polled, and that the operator and OpenCode change meanwhile. What
  the server is told of a block must lead it to a request it can answer; a stop must be of the turn
  it is taken for.
- *Processes that share files*: `run`, `detach`, `join`, each possibly killed between two system
  calls. One run at a time; no run obeys or leaves a marker of another time; a reader is not
  told of a connection that is gone, or denied one that lives.
- *Timers against work*: a heartbeat that shares a loop with everything else.
- *Facts derived twice*: the sessions that are hosted, advertised, and reported.
- *Text at its edges*: answers typed as index or label, addresses with colons, odd frames.

`PROJECT.json` lists these hazards one by one at their lines.

## 2. Modules

    DriverPort ── SessionManager ──┬── SpawnSession ──┬── SpawnRelay ── SessionRelay
              ├── AcpDriver ───────┘     │            │                      │
              │                     PromptLedger      │                 BlockedFrames
              └── HttpAttachDriver ──── AttachSession ┴── AttachRelay ───────┘
    RunLifecycle        EventChannels   ReplyCoalescer ── MCEventArm
    Heartbeat         WireFrames ── FrameDispatch                          ┐
    Registry ── QueryDispatch ── Advertised   AnswerChoice   ServerAddress ┴─ MCParts

`MC...` modules give TLC its instances, `..._proofs` modules hold theorems.

### Sessions

**DriverPort** is the seam both sides share: the two channels and whether the driver's task
runs. A prompt's text is its number. An event carries the turn it belongs to as a ghost field,
which no guard of the code's translation reads.

**SessionManager** is `session_manager.rs` for one session, but for the arms that differ by mode. The caller's operations
are `Prompt`, `Await(k)` (the four calls that wait) and `Shutdown`; each arm of `run_session`'s
two loops is an action. The second loop, which runs once `driver_alive` is false, shares the
actions of the first where the code is the same (`InterruptTurn`, `AnswerAcp`, `TellFlag`) and
differs in `DropPrompt`. `StallTimeout` may fire at any time while the deadline is armed: the
model has no clock there, so everything is checked for every length of the timeout.

**AcpDriver** is `run_command_loop`, plus the agent process as an environment that may take as
long as it likes over a turn, ignore a cancel, send an update that does not parse, or die. Pipes
are FIFO. The ACP handshake is over before the first state.

**SpawnSession** composes the two as four interleaving processes; **PromptLedger** is the
abstract specification it implements: prompts accepted, waiting, one in progress. The ledger's
promise weakens after a failure (`Lose`), because the code's does: after a stall timeout or a
death prompts may vanish, but none may be repeated, reordered or run beside another.

**HttpAttachDriver** is `run_http_loop`: the event stream it opens, the arms of its select!
(a prompt to POST, a chunk of the stream, the poll), and `handle_event`'s cases. Each await is a
step: a prompt is being posted while OpenCode already works on it, and a poll is two GETs with
time in between. OpenCode is an environment that queues prompts, runs one turn at a time, may
hang, refuse or die, loses the stream, raises questions and permissions and drops them, and has
an operator of its own. Only this session's events are kept; the loop skips others by id.

**AttachSession** composes it with SessionManager. Here interrupt and answer are POSTs that
`run_session` itself awaits (`InterruptAttached` ... `InterruptReturns`), past the driver's loop:
the flag `interrupt_requested` and `pending_block` are shared by both without further order.

**SessionRelay** is what `session_loop` does for one session, over several connections: the
presence and resync questions, prompt and interrupt frames, the event arm, the flush arm, and a
drop, which may come at any await or with any send. A reply frame is a record of the positions
of its chunks in the session's event stream, so that order and loss can be stated. The
coalescer appears as its buffer only. **SpawnRelay** puts it in the place of SpawnSession's
caller.

**BlockedFrames** adds to it `blocked_sessions`: the frame after a resync that said yes, one on
each transition, and answer frames. **AttachRelay** puts that in the place of AttachSession's
caller, so that what OpenCode raises is followed up to what the server was told.

**ReplyCoalescer** has the detail SessionRelay leaves out: several sessions, a clock, the byte
cap, the window, and the flush arm that sleeps until `next_deadline`.

**EventChannels** is `recv_any_event` over the sessions' channels, polled in a fixed order, with
channels that close, on a connection that stays up. `session_loop` is its select! there and what
is not; a channel is the number of events it holds. MCEventArm runs it beside ReplyCoalescer, since
one arm of the select! is what both are about.

### Processes and files

**RunLifecycle** models `holler run` (`run_run` and `connection::run`), `holler detach` and
`holler join` as processes over four files: the lock, the credential, the state file and the
detach marker. Each system call is a step and `fs::write` is two (truncate, write), so that a
process can be killed, or another can read, in between. Time passes in ticks of the poll interval;
the state file carries its age, which a clock set back makes negative. `session_loop` is reduced to
what it does to these files: it beats, polls the marker, sticks in an arm that awaits something
(when it does neither), and drops.

**Heartbeat** is the timer arm of `session_loop` beside its reads: a pong waits in the socket while
an arm awaits something.

### Frames, queries, configuration

**WireFrames** is `decode`, which checks the shape, the version (cast to a narrower width), and
the body by type. **FrameDispatch** puts it in front of the incoming arm: what each type leads to,
what is sent back under which id, and what a failed call is reported as.

**Registry**, **QueryDispatch** are the pure functions of `config.rs`, `query.rs` and `status.rs`.
**Advertised** uses them for one run: the probes and spawns of startup under their budget, the
hello of each connection, and queries, with probes one by one while programs and endpoints
change.

**AnswerChoice** and **ServerAddress** are the two parsers whose results matter elsewhere. Their
input is typed one symbol at a time, so TLC checks every word up to a length; symbols are those
the parsers tell apart.

The operators marked *Mutant* are faulty versions of the definition that follows them. No
specification uses them; each shows that a property would notice that fault.

## 3. Runs

A run asks its module about several small instances at once. The `MC...` module adds a variable,
`scenario`, that never changes: each scenario has bounds of its own on prompts, calls, updates,
requests or connections, below the constants of the configuration, so that one of these is
explored in depth while the others are few. `MCParts` does the same with parts that share no state:
a behaviour is of one part, and the others stay at their start.

| Run | Shows | Scenarios |
|---|---|---|
| `spawn` | one turn at the agent; `busy` exact; nothing stranded in the queue; events in turn order; PromptLedger implemented; `NoTurnInFlight` true when said; no caller waits for ever and shutdown completes; the queue is drained if the agent ends its turns | 3 prompts (in flight, handed over, queued), 2 interrupts (the second meets a deadline armed or fired), 1 update; 2 prompts and one call of any kind; 3 prompts, 1 interrupt and an agent that ends its turns |
| `relay` | no chunk lost while live; nothing sent to an id after its done; a server that waits for done gets exact ids; frames never mix turns; SpawnRelay implements SpawnSession; every prompt gets its done frame | 2 prompts with 2 connections and 2 updates; with an interrupt and 2 updates; with both fair and live |
| `event_arm` | an event is handled once the sessions polled before it fall silent, whether they ended or not; nothing lost, repeated or reordered; batches bounded; window from the first chunk; no idle wake-up; delivery without further input | 3 sessions with up to 2 events queued, each sending without end, silent or closed; 2 sessions, 3 chunks each of size 0 to 2, cap 3, window 2, 6 ticks |
| `attach` | nothing queued without a turn; at most one Cancelled per interrupt; prompts posted once, in order; every assistant text relayed and none of the operator's; Blocked only with a request the driver holds; what the server is told of a block catches up over reconnects and is not older than the last answer | 2 prompts and 2 interrupts; a prompt, a turn of the operator's and 2 texts; 2 requests and a failed list; a request, a failed list and an answer; 2 connections over a turn that is blocked once |
| `attach_live` | awaited calls return and shutdown completes with the loop's requests left hanging; after an interrupt the queue goes on, even if the turn's end is never reported; a request that stays is noticed, also one that replaced another, or one a failed list made the loop forget | a prompt with an interrupt; with a request and an answer; 2 prompts and an interrupt; a prompt and 2 requests; a prompt, a request and a failed list |
| `lifecycle` | one run at a time; state file and marker have owners; old markers stop nobody; a run that listens hears; connected is not said of a connection that is gone, nor denied to one that beats | 2 runs that may be killed, 1 detach; 1 run, 1 detach, 1 join, a clock set back once |
| `parts` | a timeout is silence or a busy loop, and silence is noticed in two intervals; each request answered once, every end with its cause, odd frames change nothing; hosted whole or not at all; presence is status, caps agree; an answer is one label per question, and a canonical URL parses back; startup ends | interval 3, latency 2, 2 frames; 4 frames of every type and malformation; 12 configurations of up to 2 sessions, 5 queries, every change of programs and endpoints; every word of 4 symbols for 5 requests; every word of 5 symbols |

Why the bounds are enough: a turn has three places to be out of step with `busy` (handed over,
in flight, ended but not told), and three prompts fill them; the connection's state about a turn
is one id and one buffer, which a second prompt, a second chunk and a second connection each
disturb. In attach mode one prompt can be with the driver while the operator's turn or a forced
clear puts another beside it; a second request is what a poll can mistake for the first. For the
files, what matters is who wrote last: a run, one before it, and one other process; runs and
detaches are interchangeable (symmetry). Version widths are scaled down with the limit
they are compared to. Of three channels, the last can be held up by one before it that closed, or
by two. Deadlock is checked where the system never stops on its own (the event arm, the
lifecycle, whose clock always ticks); elsewhere it legitimately
stops (bounds used up, or shut down), and the liveness properties say where it must not.

The types of the sessions and files are proved, for all values of the constants, and so in no run;
those of the frames, of startup and of the parsers are conjuncts of invariants of `parts` too.

Each property has a mutant: an operator marked *Mutant*, which in the place of the
definition below it makes TLC find the property violated.

Five runs check a sentence of the code's own documentation and find it not to hold:

- `doc_stall_timeout`: after an interrupt the agent does not honour in time,
  the timeout clears `busy` and hands the driver the next prompt. The ACP driver still has the
  old turn in flight and drops it (`acp_driver.rs:351`). `busy` now stands for a turn that does
  not exist; the prompt is lost, although `prompt` reported it delivered or queued; if the old turn
  never ends, the rest of the queue waits for
  ever, which is what the timeout was for (`session_manager.rs:64-70`).
- `doc_session_unavailable`: prompts for a session whose driver has ended are accepted and dropped
  (`session_manager.rs:549`), where `proto.rs:39-45` promises an error.
- `doc_reply_id`: a prompt that arrives during a turn takes over the id of the rest of that
  turn's replies (`connection.rs:767`), its done frame included; its own turn gets a fresh id.
  `PatientServerCorrelates` shows that a server that waits for done is not affected.
- `doc_blocked`: a busy event of the same turn that follows a Blocked status clears `run_session`'s
  flag while the request is still pending, and the poll is silent about a request it knows.
- `doc_detach`: detach reads the state file just truncated, takes the run for disconnected, and
  deletes the credential without stopping it. `RunHearsDetach` holds: once a marker is
  dropped, a run that listens hears it.

The translation shows more places where code and documentation part, which no run is spent on.
The properties named are stated so that they hold of the code as it is:

- An interrupt that fails, or crosses the end of its turn, leaves `interrupt_requested` set, and
  the next turn's end reads Cancelled (`http_attach_driver.rs:267`); `CancelsCounted` bounds this to
  one stop per interrupt.
- The `session.idle` of a turn of the operator's ends a prompt of Holler's that OpenCode has
  queued (`http_attach_driver.rs:902`); the prompts still go out once and in order.
- A prompt that OpenCode refuses is lost (`http_attach_driver.rs:713`), and a list that cannot be had
  makes a session read as unblocked (`http_attach_driver.rs:775`). `ServedSessionGoesOn` shows
  how the session goes on: an interrupt's timeout frees the queue, a later poll finds the request.
- A session whose channel is never found empty holds up those behind it in the map
  (`connection.rs:528`); `EventsAreTaken` shows that they are heard once those
  before them fall silent.
- A pong may be in the socket when the heartbeat arm is taken (`connection.rs:919`); `TimedOutIsSilence`,
  in `HeartbeatTellsSilence`, shows that a loop that was never kept busy does not time out a server that answers.
- `v as u32` accepts a version that is 1 after the cast (`proto.rs:444`), and so does `Decode`.
- `confirmed_attach_sessions` probes without a timeout, before the budget (`main.rs:333`): an
  endpoint that accepts and never answers holds startup. `StartupEnds` is about endpoints that
  answer or refuse, and shows that agents that hang alone do no harm.
- hello probes anew and advertises what it finds, also with no manager behind it
  (`connection.rs:455`); `PresenceIsStatus` compares it with the status only.
- A label that is a number, or has a comma in it, cannot be typed (`http_attach_driver.rs:620`);
  `IndexAnswers` states what holds instead: a number is an index, also where a label reads the same.
- A path is taken as part of a host that has no brackets (`server_address.rs:133`); it round-trips.

### Fairness

`tokio::select!` polls its arms in random order, so an arm that stays ready is taken in the end;
each arm, and the stall timer, is weakly fair. The agent reads its stdin but need not end a turn:
`CallsReturn` and `ShutdownCompletes` hold under that alone. Draining the queue and answering
prompts need an agent that ends its turns (`Ends`), assumed in the scenarios that ask for it. Nothing is
assumed of the caller, the server or the network: the properties excuse a closed session or a
dropped connection instead. For the coalescer, time passes and the flush arm, once ready, is taken.
For the channels, an arm that was taken ends, and the event arm is strongly fair, since it is ready
only while `session_loop` is at its select!, which has no `biased` and so tries its arms from a
random one on. Sessions may send without end, or stop.

In attach mode a run_session's own POST is assumed to be answered or to fail: the code sets no
timeout on it, so `CallsReturn` stands on the HTTP client and the peer's kernel there. The
requests of the driver's loop may hang: `ShutdownCompletes` holds since shutdown aborts the task.
Where OpenCode must serve the loop (`ServedArms`), the loop's arms (`LoopArms`) are strongly fair, because
each is disabled while another awaits, and the poll comes round again. OpenCode still need not
ever end a turn or answer a question.

`StartupEnds` needs the run's own steps and probes that return; the agents may hang. The files and the heartbeat are checked for safety only.

Fairness is stated arm by arm, over a set of names (`FairArms`, `Arm(a)`), so that a scenario
can ask for it or not; a scenario's bounds never hold a fair step back.

## 4. Proofs

Every safety property of the passing runs is a theorem, for every value of the constants. Each
rests on an inductive invariant, named below.

`SessionManager_proofs` has the lemmas both modes share. Channels: where messages of a kind are
after a send or a receive (`PositionsAppend`, `PositionsTail`, `ReceiveOnly`, `ReceiveKeeps`,
`PromptNumbersTail`), and `Told`, the events forwarded followed by those in the driver's channel, to
which a send appends and which a receive leaves as it is (`EventJoins`, `EventMoves`). The line:
a prompt moves from the command channel to the queue, to the driver's channel, and on; `LineOf` says
that all in one place go before all in the places behind it and each place is rising, and the
`Line...` lemmas say how such a line may move. Types: what each arm of `run_session` keeps.

### Spawn mode

`SpawnSession_proofs` proves, for any number of prompts, calls and updates:

- `TypeCorrect`: `Spec => []TypeOK`, one step per process and action.
- `QueueNeverStranded`: `QueueOnlyBehindATurn` is inductive given the types.
- `AgentHasOneTurn`: from `InFlightMeansATurn`, which is inductive: `OneTurnAtATime` alone is
  not, since a prompt in the pipe would become a second turn. The prompt, the turn and the stop
  are one token that moves from pipe to agent to pipe, and `prompt_in_flight` covers all three.
- `BusyIsExact`: the same argument one level up. The token now also passes through the two
  channels between driver and `run_session`; the invariant needs both `InFlightMeansATurn` and
  `DownMeansGone` (a live `driver_alive` flag cannot be FALSE while the driver's task runs).
- `NoTurnAnswerIsTrue`: an action property, by `BusyIsExact` and `InFlightMeansATurn` in the
  state in which the answer is given.
- `EventsComeInOrder`: the events taken are in turn order if all events told are, and those are
  because of `OrderInv`: at most one turn is between the loop and the agent, either way; it has
  begun and its stop was not told; a stop is the last thing in the agent's pipe; and every prompt
  still on the line is above all turns told of. A forced clear hands over the next prompt while
  the old turn is in that pipe; the driver then drops it (`acp_driver.rs:351`), so that it never
  enters the pipe beside the other, which is what keeps the order through a stall timeout.
- `LedgerKept`: the session implements PromptLedger. Under the refinement mapping each action is
  one of the ledger's, or a stutter: `Prompt` accepts, `SendPrompt` starts, the agent's stop
  finishes, and what a forced clear, a death or a dead driver drops is `Lose`. That the prompt the
  driver takes is the oldest that waits is `OrderInv`'s line again; that a prompt is dropped
  only after a failure needs `BusyMeansATurn`.

`SpawnRelay_proofs` proves `RelayedSession`, that the relay takes no step SpawnSession does not
allow, so that the theorems above hold behind a connection. Its only assumption beyond the bounds'
types is that the calls a connection makes on coming up are among `Calls`. On top of it:

- `RelayTypeCorrect`: `RelayInv`, the types with `ConnectionCounted` (a connection that is up has
  a number), is inductive given the session's types. The batch holds positions in the list of
  events, so the session's own steps must be shown never to shorten that list (`EventsGrow`).
- `NothingFollowsDone`: `NothingAfterDone` is not inductive alone, since the id of a finished reply
  might still be held. `DoneIdsRetired` adds that a done id is not the one held, and that every
  reply's id is at most the number of prompts sent, so that no new prompt brings an old id back.
- `FramesStayApart`: by `FramesInv`, the batch holds events already read, of one turn, whose stop
  was not read, and every frame sent is of an earlier turn, or of that one and not done. A read keeps
  it because the session's events are in order and, between events of two turns, the stop of the
  first was told. The latter is `StopBetween`, a consequence of `StopsInv`: `prompt_in_flight` is
  reset by a stop or with the driver's task.
- `PatientServersCorrelate`: by `CorrelateInv`, a patient server leaves at most its last prompt
  unanswered, and `session_loop` holds that prompt's id or, if it came on an earlier connection, none.
  It needs `FramesInv`: a done frame is of the turn of the stop just read, which is then the last.
- `LiveConnectionsKeepChunks`: by `ChunksInv`, chunks of the frames of this connection and the batch
  are together the updates read since it went live; it went live with an empty batch, and under a
  number that no frame bears yet.

### Attach mode

`AttachSession_proofs`, for any number of prompts, calls, requests and turns of the operator's:

- `AttachTypeCorrect`: `AttachInv`, the types with `CallsInv` (one call at a time; the flag of an
  interrupt is counted before it is set) and `LoopInv` (only prompts are sent to this driver).
- `AttachedQueueNeverStranded`: as in spawn mode, with `run_session` awaiting a POST only for a
  turn (`QueueInv`).
- `PromptsArePostedInOrder`: the line (`LineInv`) is longer here, and ends in the loop's hands and at
  OpenCode. That a prompt handed over at once does not overtake the queue is `QueueOnlyBehindATurn`.
- `BlockedIsAnswerable`: inductive as it stands. The loop is the only one to change
  `pendingBlock`, and tells it in the same step; an event of the stream that says Working,
  whatever it is about, only makes the session read as unblocked.
- `CancelsAreCounted`: inductive with the types: each interrupt sets the flag at most once, and each
  Cancelled consumes it.
- `UpdatesAreOfTheAgent`: per turn (`Balanced`), what its agent said is what was told and what the
  stream still holds of it behind the announcement of its message. A read moves one text from the
  stream to the events or, if it is not the agent's, changes neither count.

`AttachRelay_proofs`: `RelayedAttachedSession`, as in spawn mode, and `BlockedReachesTheServer`. The
property is inductive with `ResyncAsks`: while a connection resyncs, no other call is under way,
so that `run_session` is in its select! and what it answers is what it believes. Status events forwarded
after that are still to be read, and each read brings the server up to date. That a status read
last agrees with `blocked` is `BlockedHasARequest`.

### The rest

`ReplyCoalescer_proofs` proves all of that module's safety, for every window, cap, chunk size and
set of sessions. `StepCases` shows that each step leaves a session alone, sends its batch or adds a
chunk, so each invariant is argued for one session in three cases. `CoalescingLosesNothing` is
inductive with the types; `BatchesAreBounded` (size and window) is inductive with it and
needs it: a batch is open exactly when something streamed is not on the wire (`OpenMeansBehind`).
`FlushNeverSpins` is the action property, from these in the state in which the arm wakes.

`RunLifecycle_proofs`, for any number of runs, detaches and joins, each killed anywhere:

- `LifecycleTypeCorrect` with the waits' budget, and `OneRunHoldsTheLock`: whoever is past the lock
  holds it.
- `MarkersHaveDetaches`: inductive with the types and `AfterMark`, what follows a write of the
  state file.
- `OldMarkersAreIgnored`: that no run leaves for an old marker is not inductive. `MarkerIsNew` says
  that while some run is past its start, a marker was dropped by a detach that overlaps with
  that run; it needs the lock, so that no other run starts meanwhile.
- `StateFilesHaveOwners`, `ConnectedFilesAreLive`: together inductive as `FileInv`, as what a
  run may write next is fixed by where it is (`AfterMark`).
- `LiveConnectionsReadConnected`: by `FreshInv`, the file of a connection is as old as its last
  heartbeat, as long as no detach is at work and the clock was not set back (`Quiet`). It needs
  the lock: no other run comes between truncating the file and writing it.
- `RunsHearDetaches`: by `HearInv`, a run that listens to a detach is gone, or faces the marker in a
  wait that polls before the detach has waited for two ticks (`Hears`). The budget must be at
  least 2: `LifecycleAssumption` says so, the code waits for 3 s and polls every 500 ms
  (`main.rs:38`, `connection.rs:134`).

`MCParts_proofs`, for any number of frames, sessions and symbols typed; each part keeps an
invariant of its own, whichever part moves:

- `TimeOutsAreSilence` and `SilenceIsNoticed`, from `HeartbeatInv`: at most one pong is due or unread
  (`OnePong`), it is due within the latency (`PongInTime`), and the silence so far is the time
  since the last beat, plus an interval if that beat's ping is unanswered (`SilenceSoFar`);
  `HeartbeatIsRight` is the two together.
- `FramesAreAnswered`: by `DispatchInv`, frames are read under rising ids, at most the last of
  them is still awaited, and the frames sent are those the others are owed, in that order
  (`InTurn`). That every end has its cause (`EndsHaveACause`) is inductive with it: an end by a
  failed send needs that the last frame read was owed one.
- `OddFramesDoNoHarm`: an action property. The step that reads a frame `session_loop` has no arm
  for, or that does not decode, is `Skip` or `Ignore`, which leave the rest as it was.
- `ManagersHostAll`: by `Hosting`, what has been spawned so far is what precedes `next` in a list
  that loads, since a filter of a registry without duplicates has none (`FilteredLoads`).
- `ReportsAgree`: the two filters of `confirmed_sessions` and `status::build` leave the same sessions;
  a session listed is one confirmed because names do not repeat (`ListedIsConfirmed`), and
  `confirmed_command_for_harness` finds a command exactly for a confirmed harness
  (`HarnessIsSupported`). `StartupAssumption` says what the encoding takes for granted: `""` is a
  command left out, and the ids of harnesses, features and capabilities are apart, as in `query.rs`.
- `WhatIsTypedIsMeant`: a choice that resolves is one label of each question's own
  (`ChoicesAreWhole`); with one question and an index, splitting at commas leaves the choice whole
  (`SplitWhole`). A URL rendered from an address has its separators where the parser looks for
  them: the last colon is the port's unless the host has colons, and then it is in brackets,
  which no host that parses contains (`AddressRoundTrip`).

Where these need an induction, over the positions of a sequence, they take it from `LeastOf`: a set
of numbers that is not empty has a least one. The library's theorem that a finite set's subsets are
well-founded gives that without a parameter. Filters are therefore the recursive function `Only` in
Registry, and not `SelectSeq`, whose parameter is an operator that the provers cannot instantiate.

Only model-checked: all liveness (outside the prover's reach, as is ENABLED), and the runs that
are expected to fail.

## 5. Not modelled, and what could follow

- `debug.rs`: formatting and redaction of log lines; nothing reads what it writes.
- `attach sessions` and `attach init`: a listing fetched from OpenCode, and an edit of the
  configuration file that no running process rereads.
- The waits between attempts: exponent, cap and jitter of the delay. In RunLifecycle a delay is any
  number of ticks.
- Argument parsing, printing, file permissions and the resolution of paths; the text of TOML
  and JSON (models start from the record read); the rendering of the status document.
- The content of the ACP handshake: `AcpDriver::spawn` either starts, fails or hangs.
- The HTTP fallback of `attempt_cancel`, which `main.rs` never configures.
- `StubJoinTransport`, the test agent, the test suites, and the scripts.

Several sessions share only the session loop, so session models have one session; the exceptions
are the coalescer, EventChannels and Advertised.

What could follow: a composition of RunLifecycle with Heartbeat, so that the state file's age is tied to
the beats of a loop that awaits its sessions; that the composed session and coalescer
implement the coalescer's own specification.
