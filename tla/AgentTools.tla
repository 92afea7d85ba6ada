----------------------------- MODULE AgentTools -----------------------------
(***************************************************************************)
(* The read-only tools of the agent (tools.py, analysis_tools.py): for     *)
(* each, the results it can return under a scope, whatever the model       *)
(* passes as arguments.  A result is abstracted to the clients whose rows  *)
(* it shows.  A client, a batch or a record is named by its id, which the  *)
(* model may make up: None is an id that nothing has.                      *)
(***************************************************************************)
EXTENDS Workspace

Showing(C) == [kind |-> "rows", clients |-> C \ {None}]
Error  == [kind |-> "error",  clients |-> {}]
Raises == [kind |-> "raises", clients |-> {}]   \* out of execute_tool(), too

ClientIds == Clients \cup {None}
BatchIds  == DOMAIN batches \cup {0}

(* ToolContext.check_client()                                               *)
InScope(scope, c) == scope = None \/ c = scope

(* A tool that takes a client_id: out of scope is a ToolScopeError, which   *)
(* execute_tool() turns into an error.                                      *)
ForClient(scope, Results(_)) ==
  UNION {IF InScope(scope, c) THEN Results(c) ELSE {Error} : c \in ClientIds}

(* A tool that takes the id of a record: its owner is looked up first.      *)
ForOwner(scope, Owners, Results(_)) ==
  UNION {IF c # None /\ InScope(scope, c) THEN Results(c) ELSE {Error} : c \in Owners}

OwnRows(c) == {Showing({c})}
OwnRowsOrNone(c) == {Showing({c}), Error}
OwnRowsOrRaises(c) == {Showing({c}), Error, Raises}

(* Who owns what: a record that reconciliation made names its batch, a      *)
(* match by way of its run.                                                 *)
BatchClientId(n) == IF n = 0 THEN None ELSE Owner[batches[n].definition]
TransactionClientIds == {BatchClientId(n) : n \in BatchIds}
MatchClientIds       == {BatchClientId(n) : n \in BatchIds}
ExceptionClientIds   == {BatchClientId(n) : n \in BatchIds}

DefinitionsOf(c) == {d \in Definitions : definition[d] # None /\ Owner[d] = c}

(* Where its import source reads is part of a definition's state, and so is *)
(* the account it is for.                                                   *)
SourceClient(d) == IF definition[d].source = None THEN None ELSE Owner[definition[d].source]
AccountClient(d) == IF definition[d].account = None THEN None ELSE Owner[definition[d].account]

-----------------------------------------------------------------------------
(* Clients, configuration, batches.                                         *)

GetClients(scope) == {Showing(IF scope = None THEN Clients ELSE {scope})}

(* Two ACTIVE configurations raise.                                         *)
GetClientConfiguration(scope) == ForClient(scope, OwnRowsOrRaises)

(* Without a client_id it is the scope's batches, and all if there is none. *)
GetBatches(scope) ==
  ForClient(scope, OwnRows) \cup
  {Showing({c \in {BatchClientId(n) : n \in BatchIds} : InScope(scope, c)})}

GetBatchStatus(scope) == ForOwner(scope, {BatchClientId(n) : n \in BatchIds}, OwnRows)

GetReconciliationSummary(scope) == ForOwner(scope, {BatchClientId(n) : n \in BatchIds}, OwnRows)

GetBatchLog(scope) == ForOwner(scope, {BatchClientId(n) : n \in BatchIds}, OwnRows)

GetBatchReport(scope) == ForOwner(scope, {BatchClientId(n) : n \in BatchIds}, OwnRows)

-----------------------------------------------------------------------------
(* Transactions, matches, exceptions, tax, settlements, cash.               *)

GetTransaction(scope) == ForOwner(scope, TransactionClientIds, OwnRows)

FindTransactionByReference(scope) == ForClient(scope, OwnRows)

GetMatchEvidence(scope) == ForOwner(scope, MatchClientIds, OwnRows)

GetException(scope) == ForOwner(scope, ExceptionClientIds, OwnRows)

GetExceptionSummary(scope) == ForOwner(scope, {BatchClientId(n) : n \in BatchIds}, OwnRows)

(* Statutory rules belong to nobody.  Two versions of one rule raise.       *)
GetTaxRule == {Showing({}), Error, Raises}

GetTaxCalculation(scope) == ForOwner(scope, MatchClientIds, OwnRowsOrNone)

GetSettlement(scope) == ForOwner(scope, MatchClientIds, OwnRowsOrNone)

GetCashPosition(scope) == ForClient(scope, OwnRowsOrNone)

GetForecast(scope) == ForClient(scope, OwnRowsOrNone)

-----------------------------------------------------------------------------
(* analysis_tools.py                                                        *)

ListReconciliationTypes == {Showing({})}

GetBankAccounts(scope) == ForClient(scope, OwnRows)

(* The cash of a client is broken down by the accounts of its batches.      *)
GetAccountPosition(scope) ==
  ForClient(scope, LAMBDA c :
    {Error, Showing({c} \cup {AccountClient(d) : d \in DefinitionsOf(c)})})

(* No ACTIVE configuration, or no statutory rule in force, raises.          *)
ExplainAmountDifference(scope) == ForClient(scope, OwnRowsOrRaises)

(* An amount that is no number raises.                                      *)
SearchTransactions(scope) == ForClient(scope, LAMBDA c : {Showing({c}), Raises})

AggregateExceptions(scope) == ForClient(scope, OwnRowsOrNone)

-----------------------------------------------------------------------------
(* Definitions and import sources.                                          *)

DefinitionClients(D) ==
  {Owner[d] : d \in D} \cup {SourceClient(d) : d \in D} \cup {AccountClient(d) : d \in D}

ListBatchDefinitions(scope) ==
  ForClient(scope, LAMBDA c : {Showing({c} \cup DefinitionClients(DefinitionsOf(c)))})

GetImportSources(scope) == ForClient(scope, OwnRows)

(* TOOL_REGISTRY without the tools that change something.  A name that is   *)
(* not in it, or arguments the tool does not take, are an error.            *)
ReadToolResults(scope) ==
  {Error} \cup GetClients(scope) \cup ListReconciliationTypes \cup GetBankAccounts(scope)
  \cup GetAccountPosition(scope) \cup ExplainAmountDifference(scope)
  \cup SearchTransactions(scope) \cup AggregateExceptions(scope)
  \cup ListBatchDefinitions(scope) \cup GetImportSources(scope) \cup GetBatchLog(scope)
  \cup GetBatchReport(scope) \cup GetClientConfiguration(scope) \cup GetBatches(scope)
  \cup GetBatchStatus(scope) \cup GetReconciliationSummary(scope) \cup GetTransaction(scope)
  \cup FindTransactionByReference(scope) \cup GetMatchEvidence(scope) \cup GetException(scope)
  \cup GetExceptionSummary(scope) \cup GetTaxRule \cup GetTaxCalculation(scope)
  \cup GetSettlement(scope) \cup GetCashPosition(scope) \cup GetForecast(scope)

=============================================================================
