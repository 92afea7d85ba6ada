-------------------------- MODULE MCReconciliation -------------------------
(* Small instances of Reconciliation and of the summary for TLC.            *)
EXTENDS ReconciliationSummary, MCRows

(* What some of the theorems assume of the rules holds of this instance.    *)
ASSUME RulesAssumption == OneRulePerPass /\ OneWayRound
=============================================================================
