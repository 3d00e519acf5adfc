------------------------------ MODULE RunLifecycle ------------------------------
(***************************************************************************)
(* The processes that share one state directory: `holler run`                *)
(* (src/src/main.rs run_run, src/src/connection.rs run), `holler detach`      *)
(* (run_detach) and `holler join` (run_join), and the four files they meet    *)
(* in: run.lock, credential.json, connection_state.json and the detach        *)
(* marker.  Every system call on a file is a step of its own; fs::write       *)
(* truncates the file and then fills it.  Time passes in ticks of            *)
(* DETACH_POLL_INTERVAL.                                                     *)
(***************************************************************************)
EXTENDS Integers, FiniteSets

CONSTANTS
  Runs,            \* the `holler run` processes
  Detaches,        \* the `holler detach` processes
  Joins,           \* the `holler join` processes
  HeartbeatEvery,  \* heartbeat_interval, in ticks
  WaitBudget,      \* DETACH_WAIT_BUDGET, in ticks
  MaxClockSteps    \* bound: how often the wall clock is set back

ASSUME LifecycleAssumption ==
  /\ HeartbeatEvery \in Nat \ {0} /\ MaxClockSteps \in Nat
  /\ WaitBudget \in Nat \ {0, 1}  \* 3 s of 500 ms (main.rs:38, connection.rs:134)
  /\ Runs \cap {"nobody", "earlier"} = {}

VARIABLES
  runLock,      \* the holder of the flock on run.lock
  credential,   \* credential.json
  stateFile,    \* connection_state.json: what it says, its age, and (history) whose it is
  marker,       \* the detach marker is there
  pc,           \* per run: what it does next
  after,        \* per run: what it does after the state file is written
  retry,        \* per run: attempt > 0
  polled,       \* per run: the marker was looked at in this tick
  sinceBeat,    \* per run: ticks since the last heartbeat
  detachPc,     \* per detach: what it does next
  waited,       \* per detach: ticks spent waiting
  joinPc,       \* per join: what it does next
  clockSteps,   \* how often the clock was set back
  killed,       \* history: the runs that were killed, an earlier one among them
  detached,     \* history: the runs that stopped because of a marker
  called,       \* history: the runs that overlapped with a detach
  found,        \* history, per detach: the runs with a connection when it started
  listening     \* history, per detach: the runs that were in their loop all the time it waited

fileVars    == <<runLock, credential, stateFile, marker>>
runVars     == <<pc, after, retry, polled, sinceBeat>>
detachVars  == <<detachPc, waited>>
historyVars == <<killed, detached, called, found, listening>>
vars        == <<fileVars, runVars, detachVars, joinPc, clockSteps, historyVars>>

StaleAfter == 3 * HeartbeatEvery

RunPcs == {"off", "loading", "clearing", "clean", "spawning", "top", "marking", "writing", "dialing",
           "session", "stuck", "backoff", "leaving", "left", "stopping", "stopped", "exiting", "ended"}
DetachPcs == {"idle", "loading", "looking", "asking", "waiting", "sleeping", "unmarking",
              "clearing", "deleting", "done", "failed"}
Marks == {"connecting", "connected", "reconnecting"}
NoFile == [says |-> "none", age |-> 0, by |-> "nobody"]

\* What an earlier run that was killed while it was connected left behind.
LeftOver == [says |-> "connected", age |-> 0, by |-> "earlier"]

Init ==
  /\ runLock = "nobody" /\ credential \in {"none", "saved"}
  /\ stateFile \in {NoFile, LeftOver} /\ marker = FALSE
  /\ pc = [r \in Runs |-> "off"] /\ after = [r \in Runs |-> "off"]
  /\ retry = [r \in Runs |-> FALSE] /\ polled = [r \in Runs |-> FALSE]
  /\ sinceBeat = [r \in Runs |-> 0]
  /\ detachPc = [d \in Detaches |-> "idle"] /\ waited = [d \in Detaches |-> 0]
  /\ joinPc = [j \in Joins |-> "idle"]
  /\ clockSteps = 0
  /\ killed = {"earlier"} /\ detached = {} /\ called = {}
  /\ found = [d \in Detaches |-> {}] /\ listening = [d \in Detaches |-> {}]

TypeOK ==
  /\ runLock \in Runs \cup {"nobody"}
  /\ credential \in {"none", "saved", "empty"}
  /\ stateFile \in [says : Marks \cup {"none", "empty"}, age : -1..StaleAfter,
                    by : Runs \cup {"nobody", "earlier"}]
  /\ marker \in BOOLEAN
  /\ pc \in [Runs -> RunPcs] /\ after \in [Runs -> RunPcs]
  /\ retry \in [Runs -> BOOLEAN] /\ polled \in [Runs -> BOOLEAN]
  /\ sinceBeat \in [Runs -> 0..HeartbeatEvery]
  /\ detachPc \in [Detaches -> DetachPcs] /\ waited \in [Detaches -> 0..WaitBudget]
  /\ joinPc \in [Joins -> {"idle", "redeeming", "saving", "done"}]
  /\ clockSteps \in 0..MaxClockSteps
  /\ killed \subseteq Runs \cup {"earlier"} /\ detached \subseteq Runs /\ called \subseteq Runs
  /\ found \in [Detaches -> SUBSET Runs] /\ listening \in [Detaches -> SUBSET Runs]

-------------------------------------------------------------------------------
(* ConnectionStateStore.                                                     *)

\* current_state(stale_after()).
CurrentState ==
  IF stateFile.says \in Marks /\ stateFile.age \in 0..(StaleAfter - 1) THEN stateFile.says
                                                                      ELSE "disconnected"

ClearState == stateFile' = NoFile
ClearMarker == marker' = FALSE

-------------------------------------------------------------------------------
(* holler run.                                                               *)

Goto(r, there) == pc' = [pc EXCEPT ![r] = there]

Detaching(d) == detachPc[d] \notin {"idle", "done", "failed"}

\* Mutant: the lock is taken whoever holds it.
AcquireAnyway(r) ==
  /\ pc[r] = "off"
  /\ runLock' = r
  /\ Goto(r, "loading")
  /\ called' = called \cup {q \in {r} : \E d \in Detaches : Detaching(d)}
  /\ UNCHANGED <<credential, stateFile, marker, after, retry, polled, sinceBeat, detachVars, joinPc,
                 clockSteps, killed, detached, found, listening>>

\* InstanceLock::acquire; a run that finds the lock taken ends without a trace.
Acquire(r) ==
  /\ pc[r] = "off"
  /\ runLock = "nobody"
  /\ runLock' = r
  /\ Goto(r, "loading")
  /\ called' = called \cup {q \in {r} : \E d \in Detaches : Detaching(d)}
  /\ UNCHANGED <<credential, stateFile, marker, after, retry, polled, sinceBeat, detachVars, joinPc,
                 clockSteps, killed, detached, found, listening>>

\* Not joined, a credential or a configuration that does not load: the run ends.
LoadCredential(r) ==
  /\ pc[r] = "loading"
  /\ \/ credential = "saved" /\ Goto(r, "clearing")
     \/ Goto(r, "exiting")
  /\ UNCHANGED <<fileVars, after, retry, polled, sinceBeat, detachVars, joinPc, clockSteps, historyVars>>

\* Mutant: a marker left behind is kept.
StartKeepsMarker(r) ==
  /\ pc[r] = "clearing"
  /\ Goto(r, "clean")
  /\ UNCHANGED <<fileVars, after, retry, polled, sinceBeat, detachVars,
                 joinPc, clockSteps, historyVars>>

StartClearsMarker(r) ==
  /\ pc[r] = "clearing"
  /\ ClearMarker
  /\ Goto(r, "clean")
  /\ UNCHANGED <<runLock, credential, stateFile, after, retry, polled, sinceBeat, detachVars,
                 joinPc, clockSteps, historyVars>>

StartClearsState(r) ==
  /\ pc[r] = "clean"
  /\ ClearState
  /\ Goto(r, "spawning")
  /\ UNCHANGED <<runLock, credential, marker, after, retry, polled, sinceBeat, detachVars, joinPc,
                 clockSteps, historyVars>>

\* spawn_session_manager returned, with sessions or without.
Spawned(r) ==
  /\ pc[r] = "spawning"
  /\ Goto(r, "top")
  /\ UNCHANGED <<fileVars, after, retry, polled, sinceBeat, detachVars, joinPc, clockSteps, historyVars>>

\* The marker was seen at one of the places run looks for it.
Leave(r) == Goto(r, "leaving") /\ detached' = detached \cup {r}

\* The top of run's loop.
TopOfLoop(r) ==
  /\ pc[r] = "top"
  /\ IF marker
     THEN Leave(r) /\ UNCHANGED after
     ELSE Goto(r, "marking") /\ after' = [after EXCEPT ![r] = "dialing"] /\ UNCHANGED detached
  /\ UNCHANGED <<fileVars, retry, polled, sinceBeat, detachVars, joinPc, clockSteps, killed, called,
                 found, listening>>

\* write_state: fs::write truncates ...
TruncateState(r) ==
  /\ pc[r] = "marking"
  /\ stateFile' = [says |-> "empty", age |-> 0, by |-> r]
  /\ Goto(r, "writing")
  /\ UNCHANGED <<runLock, credential, marker, after, retry, polled, sinceBeat, detachVars, joinPc,
                 clockSteps, historyVars>>

\* What mark_connecting and mark_connected record.
Mark(r) == CASE after[r] = "session" -> "connected"
             [] after[r] = "dialing" -> IF retry[r] THEN "reconnecting" ELSE "connecting"
             [] OTHER -> "reconnecting"

\* ... and then writes.  A file removed in between is written all the same, but has no name
\* any more.
WriteState(r) ==
  /\ pc[r] = "writing"
  /\ stateFile' = IF stateFile = NoFile THEN NoFile
                  ELSE [says |-> Mark(r), age |-> 0, by |-> r]
  /\ Goto(r, after[r])
  /\ polled' = [polled EXCEPT ![r] = FALSE]
  /\ sinceBeat' = [sinceBeat EXCEPT ![r] = 0]
  /\ UNCHANGED <<runLock, credential, marker, after, retry, detachVars, joinPc, clockSteps, historyVars>>

MarkThen(r, there) ==
  /\ Goto(r, "marking")
  /\ after' = [after EXCEPT ![r] = there]
  /\ listening' = [d \in Detaches |-> IF there = "session" /\ pc[r] = "session" THEN listening[d]
                                      ELSE listening[d] \ {r}]

\* connect_and_auth went through: attempt starts again from 0.
HandshakeDone(r) ==
  /\ pc[r] = "dialing"
  /\ MarkThen(r, "session")
  /\ retry' = [retry EXCEPT ![r] = FALSE]
  /\ UNCHANGED <<fileVars, polled, sinceBeat, detachVars, joinPc, clockSteps, killed, detached, called, found>>

HandshakeFails(r) ==
  /\ pc[r] = "dialing"
  /\ MarkThen(r, "backoff")
  /\ retry' = [retry EXCEPT ![r] = TRUE]
  /\ UNCHANGED <<fileVars, polled, sinceBeat, detachVars, joinPc, clockSteps, killed, detached, called, found>>

\* The server refuses the credential: terminal, and the marker is not looked at.
Unauthenticated(r) ==
  /\ pc[r] = "dialing"
  /\ Goto(r, "left")
  /\ UNCHANGED <<fileVars, after, retry, polled, sinceBeat, detachVars, joinPc, clockSteps, historyVars>>

\* session_loop's detach_poll arm.
PollDetach(r) ==
  /\ pc[r] = "session"
  /\ IF marker THEN Leave(r) /\ UNCHANGED polled
               ELSE polled' = [polled EXCEPT ![r] = TRUE] /\ UNCHANGED <<pc, detached>>
  /\ UNCHANGED <<fileVars, after, retry, sinceBeat, detachVars, joinPc, clockSteps, killed, called,
                 found, listening>>

\* Mutant: the heartbeat leaves the state file alone.
HeartbeatMarksNot(r) ==
  /\ pc[r] = "session"
  /\ sinceBeat[r] = HeartbeatEvery
  /\ sinceBeat' = [sinceBeat EXCEPT ![r] = 0]
  /\ UNCHANGED <<fileVars, pc, after, retry, polled, detachVars, joinPc, clockSteps, historyVars>>

\* session_loop's heartbeat arm, the ping sent.
HeartbeatMarks(r) ==
  /\ pc[r] = "session"
  /\ sinceBeat[r] = HeartbeatEvery
  /\ MarkThen(r, "session")
  /\ UNCHANGED <<fileVars, retry, polled, sinceBeat, detachVars, joinPc, clockSteps, killed, detached,
                 called, found>>

\* An arm of session_loop awaits a session's answer, a probe or the socket ...
SessionSticks(r) ==
  /\ pc[r] = "session"
  /\ Goto(r, "stuck")
  /\ listening' = [d \in Detaches |-> listening[d] \ {r}]
  /\ UNCHANGED <<fileVars, after, retry, polled, sinceBeat, detachVars, joinPc, clockSteps, killed,
                 detached, called, found>>

\* ... and has it.
SessionGoesOn(r) ==
  /\ pc[r] = "stuck"
  /\ Goto(r, "session")
  /\ UNCHANGED <<fileVars, after, retry, polled, sinceBeat, detachVars, joinPc, clockSteps, historyVars>>

\* Mutant: the drop is not recorded.
SessionDropsUnmarked(r) ==
  /\ pc[r] \in {"session", "stuck"}
  /\ Goto(r, "backoff")
  /\ retry' = [retry EXCEPT ![r] = TRUE]
  /\ listening' = [d \in Detaches |-> listening[d] \ {r}]
  /\ UNCHANGED <<fileVars, after, polled, sinceBeat, detachVars, joinPc, clockSteps, killed, detached,
                 called, found>>

\* LoopExit::Dropped.
SessionDrops(r) ==
  /\ pc[r] \in {"session", "stuck"}
  /\ MarkThen(r, "backoff")
  /\ retry' = [retry EXCEPT ![r] = TRUE]
  /\ UNCHANGED <<fileVars, polled, sinceBeat, detachVars, joinPc, clockSteps, killed, detached, called, found>>

\* Mutant: the delay is slept in one piece.
SleepWhole(r) ==
  /\ pc[r] = "backoff"
  /\ polled' = [polled EXCEPT ![r] = TRUE]
  /\ UNCHANGED <<fileVars, pc, after, retry, sinceBeat, detachVars, joinPc, clockSteps, historyVars>>

\* sleep_or_detach looks for the marker once a tick.
SleepOrDetach(r) ==
  /\ pc[r] = "backoff"
  /\ IF marker THEN Leave(r) /\ UNCHANGED polled
               ELSE polled' = [polled EXCEPT ![r] = TRUE] /\ UNCHANGED <<pc, detached>>
  /\ UNCHANGED <<fileVars, after, retry, sinceBeat, detachVars, joinPc, clockSteps, killed, called,
                 found, listening>>

BackoffOver(r) ==
  /\ pc[r] = "backoff"
  /\ Goto(r, "top")
  /\ UNCHANGED <<fileVars, after, retry, polled, sinceBeat, detachVars, joinPc, clockSteps, historyVars>>

LeaveClearsMarker(r) ==
  /\ pc[r] = "leaving"
  /\ ClearMarker
  /\ Goto(r, "left")
  /\ UNCHANGED <<runLock, credential, stateFile, after, retry, polled, sinceBeat, detachVars, joinPc,
                 clockSteps, historyVars>>

LeaveClearsState(r) ==
  /\ pc[r] = "left"
  /\ ClearState
  /\ Goto(r, "stopping")
  /\ UNCHANGED <<runLock, credential, marker, after, retry, polled, sinceBeat, detachVars, joinPc,
                 clockSteps, historyVars>>

\* Where run awaits something, Ctrl-C cancels it.
CtrlC(r) ==
  /\ pc[r] \in {"dialing", "session", "stuck", "backoff"}
  /\ Goto(r, "stopping")
  /\ UNCHANGED <<fileVars, after, retry, polled, sinceBeat, detachVars, joinPc, clockSteps, historyVars>>

\* SessionManager::shutdown returned.
ManagerDown(r) ==
  /\ pc[r] = "stopping"
  /\ Goto(r, "stopped")
  /\ UNCHANGED <<fileVars, after, retry, polled, sinceBeat, detachVars, joinPc, clockSteps, historyVars>>

\* Mutant: only the ends of run's own loop clear the state.
FinalClearNot(r) ==
  /\ pc[r] = "stopped"
  /\ Goto(r, "exiting")
  /\ UNCHANGED <<fileVars, after, retry, polled, sinceBeat, detachVars, joinPc,
                 clockSteps, historyVars>>

FinalClear(r) ==
  /\ pc[r] = "stopped"
  /\ ClearState
  /\ Goto(r, "exiting")
  /\ UNCHANGED <<runLock, credential, marker, after, retry, polled, sinceBeat, detachVars, joinPc,
                 clockSteps, historyVars>>

\* The process ends, and the kernel releases its lock.
Ends(r) ==
  /\ pc' = [pc EXCEPT ![r] = "ended"]
  /\ runLock' = "nobody"
  /\ UNCHANGED <<credential, stateFile, marker, after, retry, polled, sinceBeat, detachVars, joinPc,
                 clockSteps, detached, called, found, listening>>

Exit(r) == pc[r] = "exiting" /\ Ends(r) /\ UNCHANGED killed

\* A crash, a kill, or a Ctrl-C before run listens for one: the files stay.
Killed(r) == pc[r] \notin {"off", "ended"} /\ Ends(r) /\ killed' = killed \cup {r}

StartStep(r) == Acquire(r) \/ LoadCredential(r) \/ StartClearsMarker(r) \/ StartClearsState(r) \/ Spawned(r)
LeaveStep(r) ==
  LeaveClearsMarker(r) \/ LeaveClearsState(r) \/ ManagerDown(r) \/ FinalClear(r) \/ Exit(r)
ConnectionStep(r) ==
  \/ TopOfLoop(r) \/ TruncateState(r) \/ WriteState(r)
  \/ HandshakeDone(r) \/ HandshakeFails(r) \/ Unauthenticated(r)
  \/ PollDetach(r) \/ HeartbeatMarks(r) \/ SessionSticks(r) \/ SessionGoesOn(r) \/ SessionDrops(r)
  \/ SleepOrDetach(r) \/ BackoffOver(r)

RunStep(r) == StartStep(r) \/ ConnectionStep(r) \/ LeaveStep(r) \/ CtrlC(r) \/ Killed(r)

-------------------------------------------------------------------------------
(* holler detach and holler join.                                            *)

GotoD(d, there) == detachPc' = [detachPc EXCEPT ![d] = there]

DetachStarts(d) ==
  /\ detachPc[d] = "idle"
  /\ GotoD(d, "loading")
  /\ called' = called \cup {r \in Runs : pc[r] \notin {"off", "ended"}}
  /\ found' = [found EXCEPT ![d] = {r \in Runs : pc[r] = "session"}]
  /\ UNCHANGED <<fileVars, runVars, waited, joinPc, clockSteps, killed, detached, listening>>

\* A credential that does not parse ends the detach.
DetachLoads(d) ==
  /\ detachPc[d] = "loading"
  /\ GotoD(d, IF credential = "empty" THEN "failed" ELSE "looking")
  /\ UNCHANGED <<fileVars, runVars, waited, joinPc, clockSteps, historyVars>>

DetachLooks(d) ==
  /\ detachPc[d] = "looking"
  /\ GotoD(d, IF CurrentState = "disconnected" THEN "deleting" ELSE "asking")
  /\ UNCHANGED <<fileVars, runVars, waited, joinPc, clockSteps, historyVars>>

RequestDetach(d) ==
  /\ detachPc[d] = "asking"
  /\ marker' = TRUE
  /\ GotoD(d, "waiting")
  /\ listening' = [listening EXCEPT ![d] = {r \in Runs : pc[r] \in {"session", "backoff"}}]
  /\ UNCHANGED <<runLock, credential, stateFile, runVars, waited, joinPc, clockSteps, killed,
                 detached, called, found>>

DetachWaits(d) ==
  /\ detachPc[d] = "waiting"
  /\ GotoD(d, IF waited[d] = WaitBudget \/ CurrentState = "disconnected" THEN "unmarking"
                                                                       ELSE "sleeping")
  /\ UNCHANGED <<fileVars, runVars, waited, joinPc, clockSteps, historyVars>>

DetachClearsMarker(d) ==
  /\ detachPc[d] = "unmarking"
  /\ ClearMarker
  /\ GotoD(d, "clearing")
  /\ UNCHANGED <<runLock, credential, stateFile, runVars, waited, joinPc, clockSteps, historyVars>>

DetachClearsState(d) ==
  /\ detachPc[d] = "clearing"
  /\ ClearState
  /\ GotoD(d, "deleting")
  /\ UNCHANGED <<runLock, credential, marker, runVars, waited, joinPc, clockSteps, historyVars>>

DeleteCredential(d) ==
  /\ detachPc[d] = "deleting"
  /\ credential' = "none"
  /\ GotoD(d, "done")
  /\ UNCHANGED <<runLock, stateFile, marker, runVars, waited, joinPc, clockSteps, historyVars>>

DetachKilled(d) ==
  /\ Detaching(d)
  /\ GotoD(d, "failed")
  /\ UNCHANGED <<fileVars, runVars, waited, joinPc, clockSteps, historyVars>>

DetachGoesOn(d) ==
  \/ DetachLoads(d) \/ DetachLooks(d) \/ RequestDetach(d) \/ DetachWaits(d)
  \/ DetachClearsMarker(d) \/ DetachClearsState(d) \/ DeleteCredential(d)

GotoJ(j, there) == joinPc' = [joinPc EXCEPT ![j] = there]

\* The token is redeemed over a connection of its own, or not.
Redeem(j) ==
  /\ joinPc[j] = "idle"
  /\ GotoJ(j, "redeeming")
  /\ UNCHANGED <<fileVars, runVars, detachVars, clockSteps, historyVars>>

\* CredentialStore::save: fs::write truncates ...
TruncateCredential(j) ==
  /\ joinPc[j] = "redeeming"
  /\ credential' = "empty"
  /\ GotoJ(j, "saving")
  /\ UNCHANGED <<runLock, stateFile, marker, runVars, detachVars, clockSteps, historyVars>>

\* ... and then writes.
SaveCredential(j) ==
  /\ joinPc[j] = "saving"
  /\ credential' = IF credential = "none" THEN "none" ELSE "saved"
  /\ GotoJ(j, "done")
  /\ UNCHANGED <<runLock, stateFile, marker, runVars, detachVars, clockSteps, historyVars>>

\* Redeeming failed, or the process was killed.
JoinEnds(j) ==
  /\ joinPc[j] \in {"redeeming", "saving"}
  /\ GotoJ(j, "done")
  /\ UNCHANGED <<fileVars, runVars, detachVars, clockSteps, historyVars>>

JoinStep(j) == Redeem(j) \/ TruncateCredential(j) \/ SaveCredential(j) \/ JoinEnds(j)

-------------------------------------------------------------------------------
(* Time (external).  The timers of the run loops are due once a tick, and      *)
(* their work on the state file takes less than one.                          *)

Older(f) == IF f = NoFile \/ f.age = StaleAfter THEN f ELSE [f EXCEPT !.age = @ + 1]

Tick ==
  /\ \A r \in Runs :
       /\ pc[r] \in {"session", "backoff"} => polled[r]
       /\ pc[r] = "session" => sinceBeat[r] < HeartbeatEvery
       /\ pc[r] \notin {"top", "marking", "writing"}
  /\ stateFile' = Older(stateFile)
  /\ polled' = [r \in Runs |-> FALSE]
  /\ sinceBeat' = [r \in Runs |-> IF pc[r] \in {"session", "stuck"} /\ sinceBeat[r] < HeartbeatEvery
                                  THEN sinceBeat[r] + 1 ELSE sinceBeat[r]]
  /\ detachPc' = [d \in Detaches |-> IF detachPc[d] = "sleeping" THEN "waiting" ELSE detachPc[d]]
  /\ waited' = [d \in Detaches |-> IF detachPc[d] = "sleeping" THEN waited[d] + 1 ELSE waited[d]]
  /\ UNCHANGED <<runLock, credential, marker, pc, after, retry, joinPc, clockSteps, historyVars>>

\* The file seems to be from the future.
ClockSetBack ==
  /\ clockSteps < MaxClockSteps
  /\ stateFile # NoFile
  /\ clockSteps' = clockSteps + 1
  /\ stateFile' = [stateFile EXCEPT !.age = -1]
  /\ UNCHANGED <<runLock, credential, marker, runVars, detachVars, joinPc, historyVars>>

-------------------------------------------------------------------------------
Next ==
  \/ \E r \in Runs : RunStep(r)
  \/ \E d \in Detaches : DetachStarts(d) \/ DetachGoesOn(d) \/ DetachKilled(d)
  \/ \E j \in Joins : JoinStep(j)
  \/ Tick \/ ClockSetBack

Spec == Init /\ [][Next]_vars

-------------------------------------------------------------------------------
\* At most one `holler run` is at work in a state directory, from before it reads the
\* credential to after it has cleared the state file, whoever is killed when
\* (instance_lock.rs, main.rs:258).
OneRunAtATime ==
  \A r \in Runs : pc[r] \notin {"off", "ended"} => runLock = r

\* The places of a run at which the state file can be its own, and can say connected.
OwningPcs == {"top", "marking", "writing", "dialing", "session", "stuck", "backoff", "leaving",
              "left", "stopping", "stopped"}
ConnectedPcs == {"marking", "session", "stuck", "leaving", "left", "stopping", "stopped"}

\* A state file outlives its run only if that run was killed: every other end removes it,
\* after every race with a detach that clears it too and a next run that writes its own
\* (connection.rs:1137-1208, main.rs:268-271, 308).
StateFileHasAnOwner ==
  stateFile # NoFile =>
    \/ stateFile.by \in killed
    \/ stateFile.by \in Runs /\ pc[stateFile.by] \in OwningPcs

\* `holler status` does not go on saying connected once the connection is gone: while the
\* run lives, from its reconnect delay on the file says something else.
ConnectedIsLive ==
  CurrentState = "connected" =>
    stateFile.by \in killed \/ pc[stateFile.by] \in ConnectedPcs

\* As long as session_loop turns, its connection reads as connected: the heartbeats come
\* before the state file goes stale (connection.rs:937-948).  Only a detach's clearing and a
\* clock set back can get in between.
LiveReadsConnected ==
  \A r \in Runs :
    pc[r] = "session" /\ sinceBeat[r] < HeartbeatEvery /\ clockSteps = 0
      /\ (\A d \in Detaches : detachPc[d] = "idle")
    => CurrentState = "connected"

\* A marker is there only while the detach that dropped it is, unless that was killed.
MarkerHasADetach ==
  marker => \E d \in Detaches :
              detachPc[d] \in {"waiting", "sleeping", "unmarking", "failed"}

\* A marker left behind by a detach that was killed stops no run started later
\* (main.rs:268-271).
OldMarkerIsIgnored == detached \subseteq called

\* A detach that waited out its budget was heard by every run that was in its loop, connected
\* or between two attempts, all that time: the budget covers a whole poll of either loop
\* (connection.rs:950-955, 1099-1111, main.rs:380-387).
RunHearsDetach ==
  \A d \in Detaches :
    detachPc[d] = "unmarking" /\ waited[d] = WaitBudget
      /\ (\A e \in Detaches \ {d} : detachPc[e] = "idle")
    => \A r \in listening[d] : pc[r] \notin {"session", "backoff"}

\* What `holler detach` is for (main.rs:86-87): a detach that went through has closed the
\* connection a run held when it started.
DetachDisconnects ==
  \A d \in Detaches : detachPc[d] = "done" => \A r \in found[d] : pc[r] # "session"
===============================================================================
