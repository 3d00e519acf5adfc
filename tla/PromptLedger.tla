------------------------------ MODULE PromptLedger ------------------------------
(***************************************************************************)
(* What a session promises about the prompts it accepts, whatever channels  *)
(* and tasks carry them (module docs of src/src/session_manager.rs): turns   *)
(* run one at a time, in the order the prompts were accepted, and no prompt *)
(* is lost or run twice.  The promise weakens, for good, when the session   *)
(* fails: from then on prompts and the turn in progress may be lost, but    *)
(* still none is run twice or out of order and no two at once.              *)
(***************************************************************************)
EXTENDS Naturals

CONSTANT MaxPrompts

VARIABLES
  accepted,  \* how many prompts were accepted: they are 1..accepted
  waiting,   \* accepted prompts whose turn has not started
  turn,      \* the prompt whose turn is in progress, 0 when none is
  failed     \* the session has failed

ledgerVars == <<accepted, waiting, turn, failed>>

Init ==
  /\ accepted = 0
  /\ waiting = {}
  /\ turn = 0
  /\ failed = FALSE

Accept ==
  /\ accepted < MaxPrompts
  /\ accepted' = accepted + 1
  /\ waiting' = waiting \cup {accepted + 1}
  /\ UNCHANGED <<turn, failed>>

\* The oldest of those waiting starts.
Start ==
  /\ turn = 0
  /\ turn' \in waiting
  /\ \A p \in waiting : turn' <= p
  /\ waiting' = waiting \ {turn'}
  /\ UNCHANGED <<accepted, failed>>

Finish ==
  /\ turn # 0
  /\ turn' = 0
  /\ UNCHANGED <<accepted, waiting, failed>>

\* A failure, or a loss it leads to.
Lose ==
  /\ failed' = TRUE
  /\ turn' \in {turn, 0}
  /\ waiting' \in SUBSET waiting
  /\ UNCHANGED accepted

Next == Accept \/ Start \/ Finish \/ Lose

Spec == Init /\ [][Next]_ledgerVars
===============================================================================
