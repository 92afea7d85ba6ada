------------------------------- MODULE Rerun -------------------------------
(***************************************************************************)
(* A definition run twice over the same files: the rows are the same, the  *)
(* ids of the transactions made of them are new (core/ids.py draws them at *)
(* random), so the second run breaks ties in another order.                *)
(***************************************************************************)
EXTENDS FeesAndTax, FiniteSets

CONSTANTS
  Internal, External, InternalContents, ExternalContents,
  FirstRank, SecondRank,   \* the order of the ids in either run
  Rules, Linkage, Aggregation, Similarity, SuffixLen, Digits, NoDay

VARIABLES
  txn,
  pool, at, used, matches,         \* of the first run
  pool2, at2, used2, matches2      \* of the second

firstVars == <<pool, at, used, matches>>
secondVars == <<pool2, at2, used2, matches2>>

FirstRun == INSTANCE Matching WITH Rank <- FirstRank

SecondRun == INSTANCE Matching WITH
  Rank <- SecondRank, pool <- pool2, at <- at2, used <- used2, matches <- matches2

RerunInit == FirstRun!MatchingInit /\ SecondRun!MatchingInit

RerunNext ==
  \/ FirstRun!MatchingNext /\ UNCHANGED secondVars
  \/ FirstRun!Matched /\ SecondRun!MatchingNext /\ UNCHANGED firstVars

RerunSpec == RerunInit /\ [][RerunNext]_<<txn, firstVars, secondVars>>

(* What a run says, with every transaction replaced by what its row says.   *)
Outcome(results) ==
  {[source |-> {txn[t] : t \in m.source}, target |-> {txn[t] : t \in m.target},
    pass |-> m.pass] : m \in results}

(* "Reconciliation must be reproducible given the same inputs and config    *)
(* version" (txn_view.py, load_transaction_views()): when both runs are     *)
(* through their passes, they have matched rows that say the same.          *)
Reproducible ==
  FirstRun!Matched /\ SecondRun!Matched => Outcome(matches) = Outcome(matches2)
=============================================================================
