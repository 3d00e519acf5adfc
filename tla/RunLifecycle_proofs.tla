-------------------------- MODULE RunLifecycle_proofs --------------------------
(***************************************************************************)
(* Theorems about RunLifecycle for any number of runs, detaches and joins,   *)
(* every heartbeat interval and every wait budget.                          *)
(***************************************************************************)
EXTENDS RunLifecycle, TLAPS

-------------------------------------------------------------------------------
(* Types.  A detach sleeps only while its budget lasts, and a run that marks   *)
(* goes on to one of three places.                                           *)

SleepsInBudget == \A d \in Detaches : detachPc[d] = "sleeping" => waited[d] < WaitBudget

AfterMark == \A r \in Runs : pc[r] \in {"marking", "writing"} => after[r] \in {"dialing", "session", "backoff"}

LifeInv == TypeOK /\ SleepsInBudget /\ AfterMark

\* A file turns stale after a positive number of ticks.
LEMMA StaleNat == StaleAfter \in Nat \ {0}
BY LifecycleAssumption DEF StaleAfter

StateFiles == [says : Marks \cup {"none", "empty"}, age : -1..StaleAfter,
               by : Runs \cup {"nobody", "earlier"}]

\* A file that is not there has the type of one.
LEMMA NoFileTyped == NoFile \in StateFiles
BY StaleNat DEF StateFiles, NoFile, Marks

\* Removing the file leaves none.
LEMMA ClearStateTyped == ClearState => stateFile' \in StateFiles
BY NoFileTyped DEF ClearState

\* No process has started; a state file may be left from earlier.
LEMMA LifeInvInit == Init => LifeInv
<1> SUFFICES ASSUME Init PROVE LifeInv
  OBVIOUS
<1> USE LifecycleAssumption, StaleNat DEF Init
<1>1. stateFile \in [says : Marks \cup {"none", "empty"}, age : -1..StaleAfter,
                     by : Runs \cup {"nobody", "earlier"}]
  BY DEF Marks, NoFile, LeftOver
<1>2. /\ pc \in [Runs -> RunPcs] /\ after \in [Runs -> RunPcs]
      /\ retry \in [Runs -> BOOLEAN] /\ polled \in [Runs -> BOOLEAN]
      /\ sinceBeat \in [Runs -> 0..HeartbeatEvery]
  BY DEF RunPcs
<1>3. /\ detachPc \in [Detaches -> DetachPcs] /\ waited \in [Detaches -> 0..WaitBudget]
      /\ joinPc \in [Joins -> {"idle", "redeeming", "saving", "done"}]
  BY DEF DetachPcs
<1>4. found \in [Detaches -> SUBSET Runs] /\ listening \in [Detaches -> SUBSET Runs]
  OBVIOUS
<1>5. SleepsInBudget /\ AfterMark
  BY DEF SleepsInBudget, AfterMark
<1>6. killed \subseteq Runs \cup {"earlier"} /\ detached \subseteq Runs /\ called \subseteq Runs
  OBVIOUS
<1>7. runLock \in Runs \cup {"nobody"} /\ credential \in {"none", "saved", "empty"} /\ marker \in BOOLEAN
  OBVIOUS
<1>8. clockSteps \in 0..MaxClockSteps
  OBVIOUS
<1> QED
  BY <1>1, <1>2, <1>3, <1>4, <1>5, <1>6, <1>7, <1>8 DEF LifeInv, TypeOK

\* Each system call of each process keeps the types.
LEMMA LifeInvNext == LifeInv /\ [Next]_vars => LifeInv'
<1> SUFFICES ASSUME LifeInv, [Next]_vars PROVE LifeInv'
  OBVIOUS
<1> USE LifecycleAssumption, StaleNat
    DEF LifeInv, TypeOK, SleepsInBudget, AfterMark, RunPcs, DetachPcs, Marks,
        fileVars, runVars, detachVars, historyVars, Goto, GotoD, GotoJ, ClearMarker, Leave
<1>1. ASSUME NEW r \in Runs, StartStep(r) PROVE LifeInv'
  <2>1. CASE Acquire(r)
    BY <2>1 DEF Acquire
  <2>2. CASE LoadCredential(r) \/ Spawned(r)
    BY <2>2 DEF LoadCredential, Spawned
  <2>3. CASE StartClearsMarker(r)
    BY <2>3 DEF StartClearsMarker
  <2>4. CASE StartClearsState(r)
    BY <2>4, ClearStateTyped DEF StartClearsState, StateFiles
  <2> QED
    BY <1>1, <2>1, <2>2, <2>3, <2>4 DEF StartStep
<1>2. ASSUME NEW r \in Runs, ConnectionStep(r) PROVE LifeInv'
  <2>1. CASE TopOfLoop(r)
    BY <2>1 DEF TopOfLoop
  <2>2. CASE TruncateState(r)
    BY <2>2 DEF TruncateState
  <2>3. CASE WriteState(r)
    BY <2>3 DEF WriteState, Mark
  <2>4. CASE HandshakeDone(r)
    <3>1. listening' \in [Detaches -> SUBSET Runs]
      BY <2>4 DEF HandshakeDone, MarkThen
    <3> QED
      BY <2>4, <3>1 DEF HandshakeDone, MarkThen
  <2>5. CASE HandshakeFails(r)
    <3>1. listening' \in [Detaches -> SUBSET Runs]
      BY <2>5 DEF HandshakeFails, MarkThen
    <3> QED
      BY <2>5, <3>1 DEF HandshakeFails, MarkThen
  <2>6. CASE Unauthenticated(r)
    BY <2>6 DEF Unauthenticated
  <2>7. CASE PollDetach(r)
    <3>1. CASE marker
      BY <2>7, <3>1 DEF PollDetach
    <3>2. CASE ~marker
      BY <2>7, <3>2, ZenonT(40) DEF PollDetach
    <3> QED
      BY <3>1, <3>2
  <2>8. CASE HeartbeatMarks(r)
    <3>1. listening' \in [Detaches -> SUBSET Runs]
      BY <2>8 DEF HeartbeatMarks, MarkThen
    <3> QED
      BY <2>8, <3>1 DEF HeartbeatMarks, MarkThen
  <2>9. CASE SessionSticks(r)
    BY <2>9 DEF SessionSticks
  <2>10. CASE SessionGoesOn(r)
    BY <2>10 DEF SessionGoesOn
  <2>11. CASE SessionDrops(r)
    <3>1. listening' \in [Detaches -> SUBSET Runs]
      BY <2>11 DEF SessionDrops, MarkThen
    <3> QED
      BY <2>11, <3>1 DEF SessionDrops, MarkThen
  <2>12. CASE SleepOrDetach(r)
    <3>1. CASE marker
      BY <2>12, <3>1 DEF SleepOrDetach
    <3>2. CASE ~marker
      BY <2>12, <3>2, ZenonT(40) DEF SleepOrDetach
    <3> QED
      BY <3>1, <3>2
  <2>13. CASE BackoffOver(r)
    BY <2>13 DEF BackoffOver
  <2> QED
    BY <1>2, <2>1, <2>2, <2>3, <2>4, <2>5, <2>6, <2>7, <2>8, <2>9, <2>10, <2>11, <2>12, <2>13
       DEF ConnectionStep
<1>3. ASSUME NEW r \in Runs, LeaveStep(r) PROVE LifeInv'
  <2>1. CASE LeaveClearsMarker(r)
    BY <2>1 DEF LeaveClearsMarker
  <2>5. CASE ManagerDown(r)
    BY <2>5 DEF ManagerDown
  <2>2. CASE LeaveClearsState(r)
    BY <2>2, ClearStateTyped DEF LeaveClearsState, StateFiles
  <2>3. CASE FinalClear(r)
    BY <2>3, ClearStateTyped DEF FinalClear, StateFiles
  <2>4. CASE Exit(r)
    BY <2>4 DEF Exit, Ends
  <2> QED
    BY <1>3, <2>1, <2>2, <2>3, <2>4, <2>5 DEF LeaveStep
<1>4. ASSUME NEW r \in Runs, CtrlC(r) PROVE LifeInv'
  BY <1>4 DEF CtrlC
<1>5. ASSUME NEW r \in Runs, Killed(r) PROVE LifeInv'
  BY <1>5 DEF Killed, Ends
<1>6. ASSUME NEW d \in Detaches, DetachStarts(d) PROVE LifeInv'
  <2>1. called' \subseteq Runs /\ found' \in [Detaches -> SUBSET Runs]
    BY <1>6 DEF DetachStarts
  <2> QED
    BY <1>6, <2>1 DEF DetachStarts
<1>7. ASSUME NEW d \in Detaches, DetachGoesOn(d) PROVE LifeInv'
  <2>1. CASE DetachLoads(d) \/ DetachLooks(d)
    BY <2>1 DEF DetachLoads, DetachLooks
  <2>4. CASE RequestDetach(d)
    <3>1. listening' \in [Detaches -> SUBSET Runs]
      BY <2>4 DEF RequestDetach
    <3> QED
      BY <2>4, <3>1 DEF RequestDetach
  <2>2. CASE DetachWaits(d)
    BY <2>2 DEF DetachWaits
  <2>3. CASE DetachClearsMarker(d)
    BY <2>3 DEF DetachClearsMarker
  <2>6. CASE DeleteCredential(d)
    BY <2>6 DEF DeleteCredential
  <2>5. CASE DetachClearsState(d)
    BY <2>5, ClearStateTyped DEF DetachClearsState, StateFiles
  <2> QED
    BY <1>7, <2>1, <2>2, <2>3, <2>4, <2>5, <2>6 DEF DetachGoesOn
<1>8. ASSUME NEW d \in Detaches, DetachKilled(d) PROVE LifeInv'
  BY <1>8 DEF DetachKilled
<1>9. ASSUME NEW j \in Joins, JoinStep(j) PROVE LifeInv'
  BY <1>9 DEF JoinStep, Redeem, TruncateCredential, SaveCredential, JoinEnds
<1>10. CASE Tick
  <2>1. stateFile' \in [says : Marks \cup {"none", "empty"}, age : -1..StaleAfter,
                        by : Runs \cup {"nobody", "earlier"}]
    BY <1>10 DEF Tick, Older
  <2>2. sinceBeat' \in [Runs -> 0..HeartbeatEvery]
    BY <1>10 DEF Tick
  <2>3. /\ detachPc' \in [Detaches -> DetachPcs] /\ waited' \in [Detaches -> 0..WaitBudget]
        /\ SleepsInBudget'
    BY <1>10 DEF Tick
  <2> QED
    BY <1>10, <2>1, <2>2, <2>3 DEF Tick
<1>11. CASE ClockSetBack
  BY <1>11 DEF ClockSetBack
<1>12. CASE UNCHANGED vars
  BY <1>12 DEF vars
<1> QED
  BY <1>1, <1>2, <1>3, <1>4, <1>5, <1>6, <1>7, <1>8, <1>9, <1>10, <1>11, <1>12 DEF Next, RunStep

\* The strengthened types hold throughout.
LEMMA LifeInvAlways == Spec => []LifeInv
BY LifeInvInit, LifeInvNext, PTL DEF Spec

\* Every variable keeps its type, and no detach waits longer than its budget.
THEOREM LifecycleTypeCorrect == Spec => []TypeOK
<1>1. LifeInv => TypeOK
  BY DEF LifeInv
<1> QED
  BY <1>1, LifeInvAlways, PTL

-------------------------------------------------------------------------------
(* The lock.                                                                 *)

\* A run moves from place to place alone, and only taking the lock and ending change who
\* holds it.
LEMMA RunMoves ==
  ASSUME LifeInv, NEW r \in Runs, RunStep(r)
  PROVE  /\ \A q \in Runs \ {r} : pc'[q] = pc[q]
         /\ \/ Acquire(r)
            \/ pc[r] \notin {"off", "ended"} /\ UNCHANGED runLock
            \/ pc[r] \notin {"off", "ended"} /\ pc'[r] = "ended" /\ runLock' = "nobody"
<1> USE DEF Goto, Leave, fileVars, LifeInv, TypeOK
<1>1. CASE StartStep(r)
  BY <1>1 DEF StartStep, Acquire, LoadCredential, StartClearsMarker, StartClearsState, Spawned
<1>2. CASE ConnectionStep(r)
  BY <1>2 DEF ConnectionStep, TopOfLoop, TruncateState, WriteState, HandshakeDone, HandshakeFails,
              Unauthenticated, PollDetach, HeartbeatMarks, SessionSticks, SessionGoesOn, SessionDrops,
              SleepOrDetach, BackoffOver, MarkThen
<1>3. CASE LeaveStep(r) \/ CtrlC(r)
  BY <1>3 DEF LeaveStep, LeaveClearsMarker, LeaveClearsState, ManagerDown, FinalClear, Exit, Ends, CtrlC
<1>4. CASE Killed(r)
  BY <1>4 DEF Killed, Ends
<1> QED
  BY <1>1, <1>2, <1>3, <1>4 DEF RunStep

\* Nothing but a run's own steps moves it or changes who holds the lock.
LEMMA OthersLeaveRuns ==
  ASSUME [Next]_vars, \A r \in Runs : ~RunStep(r)
  PROVE  UNCHANGED <<pc, runLock>>
<1> USE DEF fileVars, runVars
<1>1. ASSUME NEW d \in Detaches, DetachStarts(d) \/ DetachGoesOn(d) \/ DetachKilled(d)
      PROVE  UNCHANGED <<pc, runLock>>
  BY <1>1 DEF DetachStarts, DetachGoesOn, DetachKilled, DetachLoads, DetachLooks, RequestDetach,
              DetachWaits, DetachClearsMarker, DetachClearsState, DeleteCredential
<1>2. ASSUME NEW j \in Joins, JoinStep(j) PROVE UNCHANGED <<pc, runLock>>
  BY <1>2 DEF JoinStep, Redeem, TruncateCredential, SaveCredential, JoinEnds
<1>3. CASE Tick \/ ClockSetBack \/ UNCHANGED vars
  BY <1>3 DEF Tick, ClockSetBack, vars
<1> QED
  BY <1>1, <1>2, <1>3 DEF Next

\* A run that is at work holds the lock, whoever is killed when: the lock of a process that
\* ends goes with it, and a run at work never gives it away.
THEOREM OneRunHoldsTheLock == Spec => []OneRunAtATime
<1>1. Init => OneRunAtATime
  BY DEF Init, OneRunAtATime
<1>2. LifeInv /\ OneRunAtATime /\ [Next]_vars => OneRunAtATime'
  <2> SUFFICES ASSUME LifeInv, OneRunAtATime, [Next]_vars PROVE OneRunAtATime'
    OBVIOUS
  <2>1. ASSUME NEW r \in Runs, RunStep(r) PROVE OneRunAtATime'
    <3>1. CASE Acquire(r)
      BY <3>1, <2>1, RunMoves, LifecycleAssumption DEF Acquire, OneRunAtATime
    <3>2. CASE pc[r] \notin {"off", "ended"} /\ (runLock' = runLock \/ pc'[r] = "ended")
      BY <3>2, <2>1, RunMoves DEF OneRunAtATime
    <3> QED
      BY <2>1, <3>1, <3>2, RunMoves
  <2>2. CASE \A r \in Runs : ~RunStep(r)
    BY <2>2, OthersLeaveRuns DEF OneRunAtATime
  <2> QED
    BY <2>1, <2>2
<1> QED
  BY <1>1, <1>2, LifeInvAlways, PTL DEF Spec

-------------------------------------------------------------------------------
(* Markers.                                                                  *)

\* A marker has a detach that is still at work with it, or was killed: no end of a detach
\* leaves one behind.
THEOREM MarkersHaveDetaches == Spec => []MarkerHasADetach
<1>1. Init => MarkerHasADetach
  BY DEF Init, MarkerHasADetach
<1>2. LifeInv /\ MarkerHasADetach /\ [Next]_vars => MarkerHasADetach'
  <2> SUFFICES ASSUME LifeInv, MarkerHasADetach, [Next]_vars PROVE MarkerHasADetach'
    OBVIOUS
  <2> USE DEF LifeInv, TypeOK, MarkerHasADetach, fileVars, detachVars, GotoD, ClearMarker
  <2>1. ASSUME NEW r \in Runs, RunStep(r) PROVE MarkerHasADetach'
    <3>1. UNCHANGED detachPc /\ (marker' = marker \/ marker' = FALSE)
      BY <2>1 DEF RunStep, StartStep, ConnectionStep, LeaveStep, Acquire, LoadCredential,
           StartClearsMarker, StartClearsState, Spawned, TopOfLoop, TruncateState, WriteState,
           HandshakeDone, HandshakeFails, Unauthenticated, PollDetach, HeartbeatMarks, SessionSticks,
           SessionGoesOn, SessionDrops, SleepOrDetach, BackoffOver, LeaveClearsMarker,
           LeaveClearsState, ManagerDown, FinalClear, Exit, Ends, CtrlC, Killed
    <3> QED
      BY <3>1
  <2>2. ASSUME NEW d \in Detaches, DetachStarts(d) \/ DetachGoesOn(d) \/ DetachKilled(d)
        PROVE  MarkerHasADetach'
    <3>1. CASE DetachStarts(d) \/ DetachKilled(d)
      BY <3>1 DEF DetachStarts, DetachKilled, Detaching
    <3>2. CASE DetachLoads(d) \/ DetachLooks(d) \/ RequestDetach(d)
      BY <3>2 DEF DetachLoads, DetachLooks, RequestDetach
    <3>3. CASE DetachWaits(d) \/ DetachClearsMarker(d)
      BY <3>3 DEF DetachWaits, DetachClearsMarker
    <3>4. CASE DetachClearsState(d) \/ DeleteCredential(d)
      BY <3>4 DEF DetachClearsState, DeleteCredential
    <3> QED
      BY <2>2, <3>1, <3>2, <3>3, <3>4 DEF DetachGoesOn
  <2>3. ASSUME NEW j \in Joins, JoinStep(j) PROVE MarkerHasADetach'
    BY <2>3 DEF JoinStep, Redeem, TruncateCredential, SaveCredential, JoinEnds
  <2>4. CASE Tick
    BY <2>4 DEF Tick
  <2>5. CASE ClockSetBack \/ UNCHANGED vars
    BY <2>5 DEF ClockSetBack, vars
  <2> QED
    BY <2>1, <2>2, <2>3, <2>4, <2>5 DEF Next
<1> QED
  BY <1>1, <1>2, LifeInvAlways, PTL DEF Spec

\* A run overlaps with the detaches at work while it is, and once it has cleared the marker
\* it started with, any other is of a detach it overlaps with.
Overlaps == \A d \in Detaches, r \in Runs : Detaching(d) /\ pc[r] \notin {"off", "ended"} => r \in called

PastClearing == RunPcs \ {"off", "loading", "clearing", "exiting", "ended"}

MarkerIsNew == marker => \A r \in Runs : pc[r] \in PastClearing => r \in called

MarkerInv == OldMarkerIsIgnored /\ Overlaps /\ MarkerIsNew

\* A marker appears only by a detach, which calls every run there is, and a run passes its
\* start only having removed what was there.
LEMMA MarkerInvNext == LifeInv /\ MarkerInv /\ [Next]_vars => MarkerInv'
<1> SUFFICES ASSUME LifeInv, MarkerInv, [Next]_vars PROVE MarkerInv'
  OBVIOUS
<1> USE DEF LifeInv, TypeOK, MarkerInv, OldMarkerIsIgnored, Overlaps, MarkerIsNew, PastClearing, Detaching,
            fileVars, runVars, detachVars, historyVars, Goto, GotoD, ClearMarker, Leave
<1>1. ASSUME NEW r \in Runs, StartStep(r) PROVE MarkerInv'
  <2>1. CASE Acquire(r)
    BY <2>1 DEF Acquire
  <2>2. CASE LoadCredential(r) \/ Spawned(r)
    BY <2>2 DEF LoadCredential, Spawned
  <2>3. CASE StartClearsMarker(r) \/ StartClearsState(r)
    BY <2>3 DEF StartClearsMarker, StartClearsState
  <2> QED
    BY <1>1, <2>1, <2>2, <2>3 DEF StartStep
<1>2. ASSUME NEW r \in Runs, ConnectionStep(r) PROVE MarkerInv'
  <2>1. CASE TopOfLoop(r)
    BY <2>1 DEF TopOfLoop
  <2>2. CASE TruncateState(r) \/ WriteState(r)
    BY <2>2 DEF TruncateState, WriteState, AfterMark
  <2>3. CASE HandshakeDone(r) \/ HandshakeFails(r) \/ Unauthenticated(r)
    BY <2>3 DEF HandshakeDone, HandshakeFails, Unauthenticated, MarkThen
  <2>4. CASE PollDetach(r) \/ SleepOrDetach(r)
    BY <2>4 DEF PollDetach, SleepOrDetach
  <2>5. CASE HeartbeatMarks(r) \/ SessionDrops(r)
    BY <2>5 DEF HeartbeatMarks, SessionDrops, MarkThen
  <2>6. CASE SessionSticks(r) \/ SessionGoesOn(r) \/ BackoffOver(r)
    BY <2>6 DEF SessionSticks, SessionGoesOn, BackoffOver
  <2> QED
    BY <1>2, <2>1, <2>2, <2>3, <2>4, <2>5, <2>6 DEF ConnectionStep
<1>3. ASSUME NEW r \in Runs, LeaveStep(r) \/ CtrlC(r) \/ Killed(r) PROVE MarkerInv'
  <2>1. CASE LeaveClearsMarker(r) \/ LeaveClearsState(r)
    BY <2>1 DEF LeaveClearsMarker, LeaveClearsState
  <2>2. CASE ManagerDown(r) \/ FinalClear(r) \/ CtrlC(r)
    BY <2>2 DEF ManagerDown, FinalClear, CtrlC
  <2>3. CASE Exit(r) \/ Killed(r)
    BY <2>3 DEF Exit, Killed, Ends
  <2> QED
    BY <1>3, <2>1, <2>2, <2>3 DEF LeaveStep
<1>4. ASSUME NEW d \in Detaches, DetachStarts(d) PROVE MarkerInv'
  BY <1>4 DEF DetachStarts
<1>5. ASSUME NEW d \in Detaches, DetachGoesOn(d) PROVE MarkerInv'
  <2>1. CASE DetachLoads(d) \/ DetachLooks(d)
    BY <2>1 DEF DetachLoads, DetachLooks
  <2>2. CASE RequestDetach(d)
    BY <2>2 DEF RequestDetach
  <2>3. CASE DetachWaits(d) \/ DetachClearsMarker(d)
    BY <2>3 DEF DetachWaits, DetachClearsMarker
  <2>4. CASE DetachClearsState(d) \/ DeleteCredential(d)
    BY <2>4 DEF DetachClearsState, DeleteCredential
  <2> QED
    BY <1>5, <2>1, <2>2, <2>3, <2>4 DEF DetachGoesOn
<1>6. ASSUME NEW d \in Detaches, DetachKilled(d) PROVE MarkerInv'
  BY <1>6 DEF DetachKilled
<1>7. ASSUME NEW j \in Joins, JoinStep(j) PROVE MarkerInv'
  BY <1>7 DEF JoinStep, Redeem, TruncateCredential, SaveCredential, JoinEnds
<1>8. CASE Tick
  BY <1>8 DEF Tick
<1>9. CASE ClockSetBack \/ UNCHANGED vars
  BY <1>9 DEF ClockSetBack, vars
<1> QED
  BY <1>1, <1>2, <1>3, <1>4, <1>5, <1>6, <1>7, <1>8, <1>9 DEF Next, RunStep

\* A marker an earlier detach left behind stops no run: a run that stops for a marker was at
\* work together with a detach.
THEOREM OldMarkersAreIgnored == Spec => []OldMarkerIsIgnored
<1>1. Init => MarkerInv
  BY DEF Init, MarkerInv, OldMarkerIsIgnored, Overlaps, MarkerIsNew, Detaching
<1>2. MarkerInv => OldMarkerIsIgnored
  BY DEF MarkerInv
<1> QED
  BY <1>1, <1>2, MarkerInvNext, LifeInvAlways, PTL DEF Spec

-------------------------------------------------------------------------------
(* The state file.                                                           *)

ConnectedFile ==
  stateFile.says = "connected" =>
    \/ stateFile.by \in killed
    \/ stateFile.by \in Runs /\ pc[stateFile.by] \in ConnectedPcs

FileInv == StateFileHasAnOwner /\ ConnectedFile

\* The file is as it was, or gone, and whoever owned it still does.
LEMMA FileKept ==
  ASSUME LifeInv, FileInv, killed \subseteq killed', stateFile' \in {stateFile, NoFile},
         \A r \in Runs :
           \/ pc'[r] = pc[r] \/ r \in killed' \/ stateFile' = NoFile
           \/ /\ pc[r] \in OwningPcs => pc'[r] \in OwningPcs
              /\ pc[r] \in ConnectedPcs => pc'[r] \in ConnectedPcs
  PROVE  FileInv'
<1>1. NoFile.says # "connected"
  BY DEF NoFile
<1>2. CASE stateFile' = NoFile
  BY <1>1, <1>2 DEF FileInv, StateFileHasAnOwner, ConnectedFile
<1>3. CASE stateFile' = stateFile /\ stateFile # NoFile
  <2>1. stateFile.by \in killed => stateFile.by \in killed'
    OBVIOUS
  <2>2. stateFile.by \in Runs /\ pc[stateFile.by] \in OwningPcs
          => stateFile.by \in killed' \/ pc'[stateFile.by] \in OwningPcs
    BY <1>3
  <2>3. stateFile.by \in Runs /\ pc[stateFile.by] \in ConnectedPcs
          => stateFile.by \in killed' \/ pc'[stateFile.by] \in ConnectedPcs
    BY <1>3
  <2>4. StateFileHasAnOwner'
    BY <1>3, <2>1, <2>2 DEF FileInv, StateFileHasAnOwner, OwningPcs, NoFile
  <2>5. ConnectedFile'
    BY <1>3, <2>1, <2>3 DEF FileInv, ConnectedFile, ConnectedPcs
  <2> QED
    BY <2>4, <2>5 DEF FileInv
<1> QED
  BY <1>2, <1>3

\* The file is written, removed or left by the run that owns it, by a detach, or by one that
\* starts after a kill.
LEMMA FileInvNext == LifeInv /\ FileInv /\ [Next]_vars => FileInv'
<1> SUFFICES ASSUME LifeInv, FileInv, [Next]_vars PROVE FileInv'
  OBVIOUS
<1> USE DEF LifeInv, TypeOK, OwningPcs, ConnectedPcs, fileVars, runVars, detachVars, historyVars,
            Goto, ClearState, Leave
<1>1. ASSUME NEW r \in Runs, StartStep(r) PROVE FileInv'
  BY <1>1, FileKept DEF StartStep, Acquire, LoadCredential, StartClearsMarker, StartClearsState, Spawned
<1>2. ASSUME NEW r \in Runs, ConnectionStep(r) PROVE FileInv'
  <2>1. CASE TruncateState(r)
    BY <2>1 DEF TruncateState, FileInv, StateFileHasAnOwner, ConnectedFile
  <2>2. CASE WriteState(r)
    <3>1. CASE stateFile = NoFile
      BY <2>2, <3>1 DEF WriteState, FileInv, StateFileHasAnOwner, ConnectedFile, NoFile
    <3>2. CASE stateFile # NoFile
      <4>1. /\ stateFile'.by = r /\ stateFile'.says = Mark(r)
            /\ pc' = [pc EXCEPT ![r] = after[r]] /\ after[r] \in {"dialing", "session", "backoff"}
        BY <2>2, <3>2 DEF WriteState, AfterMark
      <4>2. Mark(r) = "connected" => after[r] = "session"
        BY <4>1 DEF Mark
      <4> QED
        BY <4>1, <4>2 DEF FileInv, StateFileHasAnOwner, ConnectedFile
    <3> QED
      BY <3>1, <3>2
  <2>3. CASE HandshakeDone(r) \/ HandshakeFails(r) \/ HeartbeatMarks(r) \/ SessionDrops(r)
    BY <2>3, FileKept DEF HandshakeDone, HandshakeFails, HeartbeatMarks, SessionDrops, MarkThen
  <2>4. CASE TopOfLoop(r) \/ Unauthenticated(r) \/ PollDetach(r) \/ SleepOrDetach(r) \/ BackoffOver(r)
    BY <2>4, FileKept DEF TopOfLoop, Unauthenticated, PollDetach, SleepOrDetach, BackoffOver
  <2>5. CASE SessionSticks(r) \/ SessionGoesOn(r)
    BY <2>5, FileKept DEF SessionSticks, SessionGoesOn
  <2> QED
    BY <1>2, <2>1, <2>2, <2>3, <2>4, <2>5 DEF ConnectionStep
<1>3. ASSUME NEW r \in Runs, LeaveStep(r) \/ CtrlC(r) PROVE FileInv'
  BY <1>3, FileKept DEF LeaveStep, LeaveClearsMarker, LeaveClearsState, ManagerDown, FinalClear, Exit,
                        Ends, CtrlC
<1>4. ASSUME NEW r \in Runs, Killed(r) PROVE FileInv'
  BY <1>4, FileKept DEF Killed, Ends
<1>5. ASSUME NEW d \in Detaches, DetachStarts(d) \/ DetachGoesOn(d) \/ DetachKilled(d) PROVE FileInv'
  BY <1>5, FileKept DEF DetachStarts, DetachGoesOn, DetachKilled, DetachLoads, DetachLooks,
       RequestDetach, DetachWaits, DetachClearsMarker, DetachClearsState, DeleteCredential
<1>6. ASSUME NEW j \in Joins, JoinStep(j) PROVE FileInv'
  BY <1>6, FileKept DEF JoinStep, Redeem, TruncateCredential, SaveCredential, JoinEnds
<1>7. CASE Tick \/ ClockSetBack
  <2>1. /\ stateFile'.by = stateFile.by /\ stateFile'.says = stateFile.says
        /\ stateFile = NoFile => stateFile' = NoFile
        /\ UNCHANGED <<pc, killed>>
    BY <1>7 DEF Tick, ClockSetBack, Older
  <2> QED
    BY <2>1 DEF FileInv, StateFileHasAnOwner, ConnectedFile
<1>8. CASE UNCHANGED vars
  BY <1>8, FileKept DEF vars
<1> QED
  BY <1>1, <1>2, <1>3, <1>4, <1>5, <1>6, <1>7, <1>8 DEF Next, RunStep

\* The owners of the file, throughout.
LEMMA FileInvAlways == Spec => []FileInv
<1>1. Init => FileInv
  <2> SUFFICES ASSUME Init PROVE FileInv
    OBVIOUS
  <2>1. "earlier" \in killed /\ (stateFile = NoFile \/ stateFile.by = "earlier")
    BY DEF Init, LeftOver
  <2>2. NoFile.says # "connected"
    BY DEF NoFile
  <2> QED
    BY <2>1, <2>2 DEF FileInv, StateFileHasAnOwner, ConnectedFile
<1> QED
  BY <1>1, FileInvNext, LifeInvAlways, PTL DEF Spec

\* A state file outlives its run only if that run was killed.
THEOREM StateFilesHaveOwners == Spec => []StateFileHasAnOwner
<1>1. FileInv => StateFileHasAnOwner
  BY DEF FileInv
<1> QED
  BY <1>1, FileInvAlways, PTL

\* A file that says connected is of a run that has a connection, that is about to say it lost
\* it, or that is on its way out; or of one that was killed.
THEOREM ConnectedFilesAreLive == Spec => []ConnectedIsLive
<1>1. FileInv => ConnectedIsLive
  BY DEF FileInv, ConnectedFile, ConnectedIsLive, CurrentState
<1> QED
  BY <1>1, FileInvAlways, PTL

-------------------------------------------------------------------------------
(* How old the file is.  Without a detach and with a clock that only advances,  *)
(* the file of a connection is exactly as old as its last heartbeat, which      *)
(* needs that no other run comes between truncating it and writing it.          *)

Quiet == clockSteps = 0 /\ \A d \in Detaches : detachPc[d] = "idle"

FileIsFresh(r) ==
  /\ pc[r] = "writing" => stateFile # NoFile
  /\ pc[r] \in {"session", "stuck"} /\ sinceBeat[r] < HeartbeatEvery =>
       stateFile.says = "connected" /\ stateFile.age = sinceBeat[r]

FreshInv == OneRunAtATime /\ (Quiet => \A r \in Runs : FileIsFresh(r))

\* What a run does leaves the file of another run that is at work as it is.
LEMMA OtherRunsFile ==
  ASSUME LifeInv, OneRunAtATime, NEW r \in Runs, RunStep(r), NEW q \in Runs \ {r},
         pc[q] \notin {"off", "ended"}
  PROVE  UNCHANGED <<stateFile, marker>> /\ pc'[q] = pc[q] /\ sinceBeat'[q] = sinceBeat[q]
<1> USE DEF fileVars, runVars, detachVars, historyVars, Goto, Leave, LifeInv, TypeOK
<1>1. pc[r] \in {"off", "ended"}
  BY DEF OneRunAtATime
<1>2. runLock # "nobody"
  BY LifecycleAssumption DEF OneRunAtATime
<1> QED
  BY <1>1, <1>2 DEF RunStep, StartStep, ConnectionStep, LeaveStep, Acquire, LoadCredential,
     StartClearsMarker, StartClearsState, Spawned, TopOfLoop, TruncateState, WriteState,
     HandshakeDone, HandshakeFails, Unauthenticated, PollDetach, HeartbeatMarks, SessionSticks,
     SessionGoesOn, SessionDrops, SleepOrDetach, BackoffOver, LeaveClearsMarker,
     LeaveClearsState, ManagerDown, FinalClear, Exit, Ends, CtrlC, Killed

\* A run keeps its own file fresh.
LEMMA OwnFile ==
  ASSUME LifeInv, NEW r \in Runs, RunStep(r), FileIsFresh(r)
  PROVE  FileIsFresh(r)'
<1> USE StaleNat, LifecycleAssumption
    DEF LifeInv, TypeOK, AfterMark, FileIsFresh, Goto, Leave, fileVars
<1>1. CASE StartStep(r)
  BY <1>1 DEF StartStep, Acquire, LoadCredential, StartClearsMarker, StartClearsState, Spawned
<1>2. CASE ConnectionStep(r)
  <2>1. CASE TruncateState(r)
    BY <2>1 DEF TruncateState, NoFile
  <2>2. CASE WriteState(r)
    BY <2>2 DEF WriteState, Mark
  <2>3. CASE HandshakeDone(r) \/ HandshakeFails(r) \/ HeartbeatMarks(r) \/ SessionDrops(r)
    BY <2>3 DEF HandshakeDone, HandshakeFails, HeartbeatMarks, SessionDrops, MarkThen
  <2>4. CASE TopOfLoop(r) \/ Unauthenticated(r) \/ PollDetach(r) \/ SleepOrDetach(r) \/ BackoffOver(r)
    BY <2>4 DEF TopOfLoop, Unauthenticated, PollDetach, SleepOrDetach, BackoffOver
  <2>5. CASE SessionSticks(r) \/ SessionGoesOn(r)
    BY <2>5 DEF SessionSticks, SessionGoesOn
  <2> QED
    BY <1>2, <2>1, <2>2, <2>3, <2>4, <2>5 DEF ConnectionStep
<1>3. CASE LeaveStep(r) \/ CtrlC(r) \/ Killed(r)
  BY <1>3 DEF LeaveStep, LeaveClearsMarker, LeaveClearsState, ManagerDown, FinalClear, Exit, Ends,
              CtrlC, Killed
<1> QED
  BY <1>1, <1>2, <1>3 DEF RunStep

\* A tick ages the file and the time since the heartbeat alike.
LEMMA TickKeepsFresh ==
  ASSUME LifeInv, Tick, NEW r \in Runs, FileIsFresh(r)
  PROVE  FileIsFresh(r)'
<1> USE DEF LifeInv, TypeOK, FileIsFresh
<1>1. pc'[r] = pc[r] /\ pc[r] # "writing"
  BY DEF Tick
<1>2. CASE pc[r] \in {"session", "stuck"} /\ sinceBeat'[r] < HeartbeatEvery
  <2>1. sinceBeat[r] \in 0..HeartbeatEvery /\ HeartbeatEvery \in Nat \ {0}
    BY LifecycleAssumption
  <2>2. sinceBeat[r] < HeartbeatEvery /\ sinceBeat'[r] = sinceBeat[r] + 1
    BY <1>2, <2>1 DEF Tick
  <2>3. stateFile.says = "connected" /\ stateFile.age = sinceBeat[r]
    BY <1>2, <2>2
  <2>4. stateFile # NoFile /\ stateFile.age # StaleAfter
    BY <2>1, <2>2, <2>3 DEF NoFile, StaleAfter
  <2> QED
    BY <1>1, <2>2, <2>3, <2>4 DEF Tick, Older
<1> QED
  BY <1>1, <1>2

\* As long as session_loop turns and nothing else meddles with the file or the clock, its
\* connection reads as connected: heartbeats come before the file goes stale.
THEOREM LiveConnectionsReadConnected == Spec => []LiveReadsConnected
<1>1. Init => FreshInv
  BY DEF Init, FreshInv, OneRunAtATime, FileIsFresh
<1>2. LifeInv /\ FreshInv /\ OneRunAtATime' /\ [Next]_vars => FreshInv'
  <2> SUFFICES ASSUME LifeInv, FreshInv, [Next]_vars, Quiet', NEW q \in Runs
               PROVE  FileIsFresh(q)'
    BY DEF FreshInv
  <2> USE DEF fileVars, runVars, detachVars, historyVars
  <2>1. ASSUME Quiet, NEW r \in Runs, RunStep(r) PROVE FileIsFresh(q)'
    <3>1. CASE q = r
      BY <2>1, <3>1, OwnFile DEF FreshInv
    <3>2. CASE q # r /\ pc[q] \notin {"off", "ended"}
      BY <2>1, <3>2, OtherRunsFile DEF FreshInv, FileIsFresh
    <3>3. CASE q # r /\ pc[q] \in {"off", "ended"}
      BY <2>1, <3>3, RunMoves DEF FileIsFresh
    <3> QED
      BY <3>1, <3>2, <3>3
  <2>2. ASSUME NEW r \in Runs, RunStep(r) PROVE UNCHANGED <<detachPc, clockSteps>>
    BY <2>2 DEF RunStep, StartStep, ConnectionStep, LeaveStep, Acquire, LoadCredential,
       StartClearsMarker, StartClearsState, Spawned, TopOfLoop, TruncateState, WriteState,
       HandshakeDone, HandshakeFails, Unauthenticated, PollDetach, HeartbeatMarks, SessionSticks,
       SessionGoesOn, SessionDrops, SleepOrDetach, BackoffOver, LeaveClearsMarker,
       LeaveClearsState, ManagerDown, FinalClear, Exit, Ends, CtrlC, Killed
  <2>3. ASSUME NEW d \in Detaches, DetachStarts(d) \/ DetachGoesOn(d) \/ DetachKilled(d)
        PROVE  ~Quiet'
    <3>1. detachPc'[d] # "idle"
      BY <2>3 DEF DetachStarts, DetachGoesOn, DetachKilled, DetachLoads, DetachLooks, RequestDetach,
         DetachWaits, DetachClearsMarker, DetachClearsState, DeleteCredential, GotoD, LifeInv, TypeOK
    <3> QED
      BY <3>1 DEF Quiet
  <2>4. ASSUME NEW j \in Joins, JoinStep(j) PROVE UNCHANGED <<pc, stateFile, sinceBeat, detachPc, clockSteps>>
    BY <2>4 DEF JoinStep, Redeem, TruncateCredential, SaveCredential, JoinEnds
  <2>5. CASE Tick
    <3>1. Quiet
      BY <2>5 DEF Quiet, Tick, LifeInv, TypeOK
    <3> QED
      BY <2>5, <3>1, TickKeepsFresh DEF FreshInv
  <2>6. ClockSetBack => ~Quiet'
    BY LifecycleAssumption DEF ClockSetBack, Quiet, LifeInv, TypeOK
  <2>7. UNCHANGED vars => UNCHANGED <<pc, stateFile, sinceBeat, detachPc, clockSteps>>
    BY DEF vars
  <2>8. UNCHANGED <<pc, stateFile, sinceBeat, detachPc, clockSteps>> => FileIsFresh(q)'
    BY DEF Quiet, FreshInv, FileIsFresh
  <2>9. UNCHANGED <<detachPc, clockSteps>> => Quiet
    BY DEF Quiet
  <2> QED
    BY <2>1, <2>2, <2>3, <2>4, <2>5, <2>6, <2>7, <2>8, <2>9 DEF Next
<1>3. LifeInv /\ FreshInv => LiveReadsConnected
  <2> SUFFICES ASSUME LifeInv, FreshInv, Quiet, NEW r \in Runs,
                      pc[r] = "session", sinceBeat[r] < HeartbeatEvery
               PROVE  CurrentState = "connected"
    BY DEF LiveReadsConnected, Quiet
  <2>1. stateFile.says = "connected" /\ stateFile.age = sinceBeat[r]
    BY DEF FreshInv, FileIsFresh
  <2>2. sinceBeat[r] \in 0..(StaleAfter - 1)
    BY LifecycleAssumption DEF LifeInv, TypeOK, StaleAfter
  <2> QED
    BY <2>1, <2>2 DEF CurrentState, Marks
<1> QED
  BY <1>1, <1>2, <1>3, LifeInvAlways, OneRunHoldsTheLock, PTL DEF Spec

-------------------------------------------------------------------------------
(* The marker is heard.  While one detach waits, every run that has been in its *)
(* loop since then either still faces the marker, with no more than one tick    *)
(* waited, or has left for good.                                               *)

NotYetWaiting == \A d \in Detaches : detachPc[d] \in {"idle", "loading", "looking", "asking"} => waited[d] = 0

OnItsOwn(d) == \A e \in Detaches \ {d} : detachPc[e] = "idle"

Waits(d) == detachPc[d] \in {"waiting", "sleeping", "unmarking"}

Gone(r) == pc[r] \in {"leaving", "left", "stopping", "stopped", "exiting", "ended"}

Faces(d, r) ==
  /\ marker
  /\ \/ pc[r] \in {"session", "backoff", "top"}
     \/ pc[r] \in {"marking", "writing"} /\ after[r] = "session"
  /\ waited[d] <= 1
  /\ pc[r] \in {"session", "backoff"} /\ polled[r] => waited[d] = 0

Hears(d) == OnItsOwn(d) /\ Waits(d) => \A r \in listening[d] : Gone(r) \/ Faces(d, r)

HearInv == NotYetWaiting /\ OneRunAtATime /\ \A d \in Detaches : Hears(d)

\* What a run that faces the marker does next: it leaves, or faces it still.
LEMMA RunHears ==
  ASSUME LifeInv, OneRunAtATime, NEW r \in Runs, RunStep(r), NEW d \in Detaches, Hears(d)
  PROVE  Hears(d)'
<1> USE DEF LifeInv, TypeOK, fileVars, runVars, detachVars, historyVars, Goto, Leave
<1>1. UNCHANGED <<detachPc, waited>> /\ listening'[d] \subseteq listening[d]
  BY DEF RunStep, StartStep, ConnectionStep, LeaveStep, Acquire, LoadCredential,
     StartClearsMarker, StartClearsState, Spawned, TopOfLoop, TruncateState, WriteState,
     HandshakeDone, HandshakeFails, Unauthenticated, PollDetach, HeartbeatMarks, SessionSticks,
     SessionGoesOn, SessionDrops, SleepOrDetach, BackoffOver, LeaveClearsMarker,
     LeaveClearsState, ManagerDown, FinalClear, Exit, Ends, CtrlC, Killed, MarkThen
<1>2. ASSUME NEW q \in listening'[d], q # r, Gone(q) \/ Faces(d, q) PROVE (Gone(q) \/ Faces(d, q))'
  <2>1. q \in Runs \ {r} /\ pc'[q] = pc[q]
    BY <1>1, <1>2, RunMoves
  <2>2. CASE Faces(d, q)
    <3>1. pc[q] \notin {"off", "ended"}
      BY <2>2 DEF Faces
    <3>2. UNCHANGED marker
      BY <2>1, <3>1, OtherRunsFile
    <3>3. after'[q] = after[q] /\ polled'[q] = polled[q]
      BY <1>2 DEF RunStep, StartStep, ConnectionStep, LeaveStep, Acquire, LoadCredential,
         StartClearsMarker, StartClearsState, Spawned, TopOfLoop, TruncateState, WriteState,
         HandshakeDone, HandshakeFails, Unauthenticated, PollDetach, HeartbeatMarks, SessionSticks,
         SessionGoesOn, SessionDrops, SleepOrDetach, BackoffOver, LeaveClearsMarker,
         LeaveClearsState, ManagerDown, FinalClear, Exit, Ends, CtrlC, Killed, MarkThen
    <3> QED
      BY <1>1, <2>1, <2>2, <3>2, <3>3 DEF Faces
  <2> QED
    BY <1>2, <2>1, <2>2 DEF Gone
<1>3. ASSUME r \in listening'[d], Gone(r) PROVE Gone(r)'
  BY <1>3 DEF Gone, RunStep, StartStep, ConnectionStep, LeaveStep, Acquire, LoadCredential,
     StartClearsMarker, StartClearsState, Spawned, TopOfLoop, TruncateState, WriteState,
     HandshakeDone, HandshakeFails, Unauthenticated, PollDetach, HeartbeatMarks, SessionSticks,
     SessionGoesOn, SessionDrops, SleepOrDetach, BackoffOver, LeaveClearsMarker,
     LeaveClearsState, ManagerDown, FinalClear, Exit, Ends, CtrlC, Killed, MarkThen
<1>4. ASSUME r \in listening'[d], Faces(d, r) PROVE (Gone(r) \/ Faces(d, r))'
  <2> USE <1>1, <1>4 DEF Faces, Gone
  <2>1. CASE StartStep(r)
    BY <2>1 DEF StartStep, Acquire, LoadCredential, StartClearsMarker, StartClearsState, Spawned
  <2>2. CASE ConnectionStep(r)
    <3>1. CASE TopOfLoop(r) \/ PollDetach(r) \/ SleepOrDetach(r)
      BY <3>1 DEF TopOfLoop, PollDetach, SleepOrDetach
    <3>2. CASE TruncateState(r)
      BY <3>2 DEF TruncateState
    <3>3. CASE WriteState(r)
      BY <3>3 DEF WriteState
    <3>4. CASE HeartbeatMarks(r)
      BY <3>4 DEF HeartbeatMarks, MarkThen
    <3>5. CASE SessionDrops(r) \/ SessionSticks(r)
      <4>1. listening'[d] = listening[d] \ {r}
        <5>1. SessionDrops(r) => listening'[d] = listening[d] \ {r}
          BY DEF SessionDrops, MarkThen
        <5>2. SessionSticks(r) => listening'[d] = listening[d] \ {r}
          BY DEF SessionSticks
        <5> QED
          BY <3>5, <5>1, <5>2
      <4> QED
        BY <1>4, <4>1
    <3>6. CASE HandshakeDone(r) \/ HandshakeFails(r) \/ Unauthenticated(r) \/ SessionGoesOn(r)
      BY <3>6 DEF HandshakeDone, HandshakeFails, Unauthenticated, SessionGoesOn
    <3>7. CASE BackoffOver(r)
      BY <3>7 DEF BackoffOver
    <3> QED
      BY <2>2, <3>1, <3>2, <3>3, <3>4, <3>5, <3>6, <3>7 DEF ConnectionStep
  <2>3. CASE LeaveStep(r) \/ CtrlC(r) \/ Killed(r)
    BY <2>3 DEF LeaveStep, LeaveClearsMarker, LeaveClearsState, ManagerDown, FinalClear, Exit, Ends,
                CtrlC, Killed
  <2> QED
    BY <2>1, <2>2, <2>3 DEF RunStep
<1> QED
  BY <1>1, <1>2, <1>3, <1>4 DEF Hears, OnItsOwn, Waits

\* A tick passes only when every run that faces the marker has looked since the last one.
LEMMA TickHears ==
  ASSUME LifeInv, Tick, NEW d \in Detaches, Hears(d)
  PROVE  Hears(d)'
<1> USE DEF LifeInv, TypeOK, historyVars
<1>1. OnItsOwn(d)' => OnItsOwn(d)
  BY DEF Tick, OnItsOwn
<1>2. Waits(d)' => Waits(d)
  BY DEF Tick, Waits
<1>3. waited[d] \in Nat /\ waited'[d] \in {waited[d], waited[d] + 1}
  BY DEF Tick
<1>4. ASSUME NEW r \in listening[d], Gone(r) \/ Faces(d, r) PROVE (Gone(r) \/ Faces(d, r))'
  <2>1. pc'[r] = pc[r] /\ polled'[r] = FALSE /\ pc[r] \notin {"top", "marking", "writing"}
        /\ UNCHANGED marker /\ (pc[r] \in {"session", "backoff"} => polled[r])
    BY DEF Tick
  <2>2. CASE Gone(r)
    BY <2>1, <2>2 DEF Gone
  <2>3. CASE Faces(d, r)
    <3>1. pc[r] \in {"session", "backoff"} /\ waited[d] = 0
      BY <2>1, <2>3 DEF Faces
    <3>2. waited'[d] <= 1
      BY <1>3, <3>1
    <3> QED
      BY <2>1, <2>3, <3>1, <3>2 DEF Faces
  <2> QED
    BY <1>4, <2>2, <2>3
<1>5. listening' = listening
  BY DEF Tick
<1> QED
  BY <1>1, <1>2, <1>4, <1>5 DEF Hears

\* A detach that asks is heard by those in their loop, and no other is at work beside it.
LEMMA DetachHears ==
  ASSUME LifeInv, NotYetWaiting, NEW e \in Detaches, DetachStarts(e) \/ DetachGoesOn(e) \/ DetachKilled(e),
         NEW d \in Detaches, Hears(d)
  PROVE  Hears(d)'
<1> USE DEF LifeInv, TypeOK, fileVars, runVars, historyVars, GotoD
<1>1. detachPc'[e] # "idle"
  BY DEF DetachStarts, DetachGoesOn, DetachKilled, DetachLoads, DetachLooks, RequestDetach,
         DetachWaits, DetachClearsMarker, DetachClearsState, DeleteCredential
<1>2. CASE d # e
  BY <1>1, <1>2 DEF Hears, OnItsOwn
<1>3. CASE d = e
  <2>1. OnItsOwn(d)' => OnItsOwn(d)
    BY <1>3 DEF OnItsOwn, DetachStarts, DetachGoesOn, DetachKilled, DetachLoads, DetachLooks,
       RequestDetach, DetachWaits, DetachClearsMarker, DetachClearsState, DeleteCredential
  <2>2. CASE RequestDetach(d)
    <3>1. waited'[d] = 0 /\ marker' = TRUE /\ UNCHANGED pc
      BY <2>2 DEF RequestDetach, NotYetWaiting
    <3>2. \A r \in listening'[d] : pc[r] \in {"session", "backoff"}
      BY <2>2 DEF RequestDetach
    <3> QED
      BY <3>1, <3>2 DEF Hears, Faces
  <2>3. CASE DetachWaits(d)
    <3>1. UNCHANGED <<marker, pc, after, polled, waited, listening>> /\ Waits(d)
      BY <2>3 DEF DetachWaits, Waits
    <3> QED
      BY <2>1, <3>1 DEF Hears, Faces, Gone
  <2>4. CASE ~(RequestDetach(d) \/ DetachWaits(d))
    <3>1. ~Waits(d)'
      BY <1>3, <2>4 DEF Waits, DetachStarts, DetachGoesOn, DetachKilled, DetachLoads, DetachLooks,
         DetachClearsMarker, DetachClearsState, DeleteCredential
    <3> QED
      BY <3>1 DEF Hears
  <2> QED
    BY <2>2, <2>3, <2>4
<1> QED
  BY <1>2, <1>3

\* Only a sleeping detach counts.
LEMMA NotYetWaitingNext == LifeInv /\ NotYetWaiting /\ [Next]_vars => NotYetWaiting'
<1> SUFFICES ASSUME LifeInv, NotYetWaiting, [Next]_vars PROVE NotYetWaiting'
  OBVIOUS
<1> USE DEF LifeInv, TypeOK, NotYetWaiting, detachVars, GotoD
<1>1. ASSUME NEW r \in Runs, RunStep(r) PROVE UNCHANGED <<detachPc, waited>>
  BY <1>1 DEF RunStep, StartStep, ConnectionStep, LeaveStep, Acquire, LoadCredential,
     StartClearsMarker, StartClearsState, Spawned, TopOfLoop, TruncateState, WriteState,
     HandshakeDone, HandshakeFails, Unauthenticated, PollDetach, HeartbeatMarks, SessionSticks,
     SessionGoesOn, SessionDrops, SleepOrDetach, BackoffOver, LeaveClearsMarker,
     LeaveClearsState, ManagerDown, FinalClear, Exit, Ends, CtrlC, Killed
<1>2. ASSUME NEW d \in Detaches, DetachStarts(d) \/ DetachGoesOn(d) \/ DetachKilled(d)
      PROVE  NotYetWaiting'
  BY <1>2 DEF DetachStarts, DetachGoesOn, DetachKilled, Detaching, DetachLoads, DetachLooks, RequestDetach,
     DetachWaits, DetachClearsMarker, DetachClearsState, DeleteCredential
<1>3. ASSUME NEW j \in Joins, JoinStep(j) PROVE UNCHANGED <<detachPc, waited>>
  BY <1>3 DEF JoinStep, Redeem, TruncateCredential, SaveCredential, JoinEnds
<1>4. CASE Tick
  BY <1>4 DEF Tick
<1>5. CASE ClockSetBack \/ UNCHANGED vars
  BY <1>5 DEF ClockSetBack, vars
<1> QED
  BY <1>1, <1>2, <1>3, <1>4, <1>5 DEF Next

\* A detach that waited out its budget was heard by every run that was in its loop all that
\* time: the budget covers a whole poll of either loop.
THEOREM RunsHearDetaches == Spec => []RunHearsDetach
<1>1. Init => HearInv
  BY DEF Init, HearInv, NotYetWaiting, OneRunAtATime, Hears, Waits
<1>2. LifeInv /\ HearInv /\ OneRunAtATime' /\ [Next]_vars => HearInv'
  <2> SUFFICES ASSUME LifeInv, HearInv, [Next]_vars, NEW d \in Detaches PROVE Hears(d)'
    BY NotYetWaitingNext DEF HearInv
  <2>1. ASSUME NEW r \in Runs, RunStep(r) PROVE Hears(d)'
    BY <2>1, RunHears DEF HearInv
  <2>2. ASSUME NEW e \in Detaches, DetachStarts(e) \/ DetachGoesOn(e) \/ DetachKilled(e)
        PROVE  Hears(d)'
    BY <2>2, DetachHears DEF HearInv
  <2>3. CASE Tick
    BY <2>3, TickHears DEF HearInv
  <2>4. ASSUME UNCHANGED <<marker, pc, after, polled, detachPc, waited, listening>> PROVE Hears(d)'
    BY <2>4 DEF HearInv, Hears, OnItsOwn, Waits, Gone, Faces
  <2>5. ASSUME NEW j \in Joins, JoinStep(j) PROVE Hears(d)'
    BY <2>5, <2>4 DEF JoinStep, Redeem, TruncateCredential, SaveCredential, JoinEnds, fileVars, runVars,
                     detachVars, historyVars
  <2>6. CASE ClockSetBack \/ UNCHANGED vars
    BY <2>6, <2>4 DEF ClockSetBack, vars, fileVars, runVars, detachVars, historyVars
  <2> QED
    BY <2>1, <2>2, <2>3, <2>5, <2>6 DEF Next
<1>3. LifeInv /\ HearInv => RunHearsDetach
  <2> SUFFICES ASSUME LifeInv, HearInv, NEW d \in Detaches, detachPc[d] = "unmarking",
                      waited[d] = WaitBudget, OnItsOwn(d), NEW r \in listening[d]
               PROVE  pc[r] \notin {"session", "backoff"}
    BY DEF RunHearsDetach, OnItsOwn
  <2>1. Gone(r) \/ Faces(d, r)
    BY DEF HearInv, Hears, Waits
  <2>2. ~(waited[d] <= 1)
    BY LifecycleAssumption
  <2> QED
    BY <2>1, <2>2 DEF Gone, Faces
<1> QED
  BY <1>1, <1>2, <1>3, LifeInvAlways, OneRunHoldsTheLock, PTL DEF Spec
===============================================================================
