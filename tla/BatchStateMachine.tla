------------------------- MODULE BatchStateMachine -------------------------
(***************************************************************************)
(* The batch lifecycle table of domains/batches/state_machine.py as pure   *)
(* operators: the statuses, the terminal ones, the single transitions that *)
(* transition() accepts, and the relation those transitions generate when  *)
(* several of them are flushed before one commit.                          *)
(***************************************************************************)
EXTENDS Naturals

TerminalStates == {"CLOSED", "FAILED"}

(* EXCEPTIONS_RESOLVED is declared by the code, but no code path enters it. *)
LiveStates ==
  { "CREATED", "FILES_RECEIVED", "VALIDATED", "NORMALIZED",
    "RECONCILIATION_RUNNING", "RECONCILIATION_COMPLETED",
    "EXCEPTIONS_IDENTIFIED", "EXCEPTIONS_RESOLVED", "TAX_PROCESSING",
    "SETTLEMENT_PROCESSING", "REPORTING" }

Statuses == LiveStates \cup TerminalStates

(* NoRow is the status of a batch identity whose row has not been inserted. *)
NoRow == "NO_ROW"

AllowedTransitions ==
  [ s \in Statuses |->
      CASE s = "CREATED"                  -> {"FILES_RECEIVED"}
        [] s = "FILES_RECEIVED"           -> {"VALIDATED"}
        [] s = "VALIDATED"                -> {"NORMALIZED"}
        [] s = "NORMALIZED"               -> {"RECONCILIATION_RUNNING"}
        [] s = "RECONCILIATION_RUNNING"   -> {"RECONCILIATION_COMPLETED"}
        [] s = "RECONCILIATION_COMPLETED" -> {"EXCEPTIONS_IDENTIFIED"}
        [] s = "EXCEPTIONS_IDENTIFIED"    -> {"EXCEPTIONS_RESOLVED", "TAX_PROCESSING"}
        [] s = "EXCEPTIONS_RESOLVED"      -> {"TAX_PROCESSING"}
        [] s = "TAX_PROCESSING"           -> {"SETTLEMENT_PROCESSING"}
        [] s = "SETTLEMENT_PROCESSING"    -> {"REPORTING"}
        [] s = "REPORTING"                -> {"CLOSED"}
        [] OTHER                          -> {} ]

(* The guard of transition(): a table entry, or a failure of a batch that   *)
(* is not terminal yet.                                                     *)
CanTransition(from, to) ==
  /\ from \in Statuses
  /\ \/ to \in AllowedTransitions[from]
     \/ to = "FAILED" /\ from \notin TerminalStates

(* The order in which the table lets a batch pass; FAILED stands last.        *)
Rank ==
  [ s \in Statuses |->
      CASE s = "CREATED" -> 1                  [] s = "FILES_RECEIVED" -> 2
        [] s = "VALIDATED" -> 3                [] s = "NORMALIZED" -> 4
        [] s = "RECONCILIATION_RUNNING" -> 5   [] s = "RECONCILIATION_COMPLETED" -> 6
        [] s = "EXCEPTIONS_IDENTIFIED" -> 7    [] s = "EXCEPTIONS_RESOLVED" -> 8
        [] s = "TAX_PROCESSING" -> 9           [] s = "SETTLEMENT_PROCESSING" -> 10
        [] s = "REPORTING" -> 11               [] s = "CLOSED" -> 12
        [] OTHER -> 13 ]

(* What one commit can do to a status: one or more accepted transitions in  *)
(* a row.  (MCBatchRunner checks that this is the transitive closure of     *)
(* CanTransition; it is written with Rank so that it can be proved about.) *)
Reaches(from, to) ==
  /\ from \in LiveStates
  /\ to \in Statuses
  /\ Rank[from] < Rank[to]

(* The status the runner commits next.  process_batch() commits once per    *)
(* progress call, so RECONCILIATION_RUNNING is passed inside a transaction  *)
(* and never committed by it.                                               *)
NextCommitted ==
  [ s \in { "FILES_RECEIVED", "VALIDATED", "NORMALIZED",
            "RECONCILIATION_COMPLETED", "EXCEPTIONS_IDENTIFIED",
            "TAX_PROCESSING", "SETTLEMENT_PROCESSING", "REPORTING" } |->
      CASE s = "FILES_RECEIVED"           -> "VALIDATED"
        [] s = "VALIDATED"                -> "NORMALIZED"
        [] s = "NORMALIZED"               -> "RECONCILIATION_COMPLETED"
        [] s = "RECONCILIATION_COMPLETED" -> "EXCEPTIONS_IDENTIFIED"
        [] s = "EXCEPTIONS_IDENTIFIED"    -> "TAX_PROCESSING"
        [] s = "TAX_PROCESSING"           -> "SETTLEMENT_PROCESSING"
        [] s = "SETTLEMENT_PROCESSING"    -> "REPORTING"
        [] OTHER                          -> "CLOSED" ]
=============================================================================
