------------------------------ MODULE DriverPort ------------------------------
(***************************************************************************)
(* The seam between run_session (src/src/session_manager.rs) and the driver *)
(* of one session: the two unbounded tokio channels every SessionDriver     *)
(* variant owns, and whether the driver's background task still runs.       *)
(* SessionManager is the task on one side of it, AcpDriver (spawn mode) or   *)
(* HttpAttachDriver (attach mode) the task on the other.                    *)
(*                                                                          *)
(* A prompt's text is abstracted to its number: prompt p is the p-th prompt *)
(* the session accepted.  The field "turn" says which prompt a command or   *)
(* an event belongs to; on an event it is a ghost, the code's DriverEvent   *)
(* carries no such thing.                                                   *)
(***************************************************************************)
EXTENDS Naturals, Sequences

CONSTANT MaxPrompts  \* bound: how many prompts a behaviour may send

ASSUME MaxPromptsAssumption == MaxPrompts \in Nat

Prompts == 1..MaxPrompts
NoTurn  == 0  \* no prompt of the session: a turn its operator started elsewhere
Turns   == Prompts \cup {NoTurn}

VARIABLES
  driverCommands,  \* commands run_session sent, not yet received by the driver
  driverEvents,    \* DriverEvents the driver sent, not yet received by run_session
  driverUp,        \* the driver's task runs: it holds the other channel ends
  driverClosed     \* run_session dropped its command sender (shutdown)

portVars == <<driverCommands, driverEvents, driverUp, driverClosed>>

StopKinds   == {"EndTurn", "Cancelled"}  \* DriverEvent::StopReason(..)
StatusKinds == {"Working", "Idle", "Blocked"}  \* DriverEvent::Status(..)
EventKinds  == {"Update"} \cup StatusKinds \cup StopKinds

DriverCommand == [kind : {"Prompt"}, turn : Prompts] \cup [kind : {"Cancel"}, turn : {NoTurn}]
DriverEvent   == [kind : EventKinds, turn : Turns]

PromptCommand(p)    == [kind |-> "Prompt", turn |-> p]
CancelCommand       == [kind |-> "Cancel", turn |-> NoTurn]
Event(kind, p)      == [kind |-> kind, turn |-> p]

\* Where messages of the kinds ks are in a channel.
Positions(ms, ks) == {i \in 1..Len(ms) : ms[i].kind \in ks}

PromptsIn(cs) == Positions(cs, {"Prompt"})
StopsIn(es)   == Positions(es, StopKinds)

AtMostOne(S) == \A x, y \in S : x = y

\* The turns of the prompts among the commands cs, and the numbers in a sequence.
PromptNumbers(cs) == {cs[i].turn : i \in PromptsIn(cs)}
Elements(ns)      == {ns[i] : i \in 1..Len(ns)}

Rising(ns)   == \A i, j \in 1..Len(ns) : i < j => ns[i] < ns[j]
Before(S, T) == \A s \in S, t \in T : s < t

PortInit ==
  /\ driverCommands = <<>>
  /\ driverEvents = <<>>
  /\ driverUp = TRUE
  /\ driverClosed = FALSE

PortTypeOK ==
  /\ driverCommands \in Seq(DriverCommand)
  /\ driverEvents \in Seq(DriverEvent)
  /\ driverUp \in BOOLEAN
  /\ driverClosed \in BOOLEAN
===============================================================================
