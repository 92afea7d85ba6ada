----------------------- MODULE ReconciliationSummary -----------------------
(***************************************************************************)
(* The summary of a batch (batches/summary.py): the open exceptions are    *)
(* grouped into issues, and the amount at risk is what the largest         *)
(* exception of each issue carries.                                        *)
(***************************************************************************)
EXTENDS Reconciliation

(* ExceptionTransaction: the transactions that an exception names.          *)
Records(e) == {e.about} \cup e.related

(* Seeded fault: an exception is found by the transaction it is about only. *)
ExceptionsByTxn_About(t) == {e \in exceptions : e.about = t}

ExceptionsByTxn(t) == {e \in exceptions : t \in Records(e)}

(* union(): the sets of the exceptions that name t become one.              *)
Union(t, groups) ==
  LET meeting == {G \in groups : G \cap ExceptionsByTxn(t) # {}}
  IN  (groups \ meeting) \cup ({UNION meeting} \ {{}})

(* _group_open_exceptions()                                                 *)
IssueGroups == FoldSet(Union, {{e} : e \in exceptions}, Transactions)

AmountAtRisk ==
  MapThenSumSet(LAMBDA G : Max({e.impact : e \in G}), IssueGroups)

AffectedRecords(G) == UNION {Records(e) : e \in G}

-----------------------------------------------------------------------------
(* Properties                                                               *)

(* The issues are the classes of "shares a record with", followed through   *)
(* any number of exceptions: a record is counted in one issue only, and no  *)
(* issue falls into parts without a common record (summary.py:94-116).      *)
RecordsInOneIssue ==
  /\ UNION IssueGroups = exceptions
  /\ \A G, H \in IssueGroups :
       G # H => AffectedRecords(G) \cap AffectedRecords(H) = {}
  /\ \A G \in IssueGroups : \A H \in (SUBSET G) \ {{}, G} :
       AffectedRecords(H) \cap AffectedRecords(G \ H) # {}
=============================================================================
