----------------------------- MODULE Agent_proofs ---------------------------
(***************************************************************************)
(* Proofs about the agent: type correctness, that a scoped conversation    *)
(* stays with its client, and that what is started was proposed.  They     *)
(* rest on the invariant of the workspace, which the agent shares with     *)
(* operators and worker.                                                   *)
(***************************************************************************)
EXTENDS Agent, Workspace_proofs

RunCall(call) == call.tool # "update_import_source"

(* A plan still names what its call would start, but for what was created   *)
(* or edited since it was shown.                                            *)
Covers(plan) ==
  plan # None => (RunCall(plan.call) =>
    \A d \in Runnable(plan.call) : d \in plan.definitions \/ d \in plan.edited)

Proposed(x) == x.agreed \/ x.edited

(* What is to be started is there and was proposed.                         *)
TodoInv ==
  /\ chat.phase # "starting" => chat.todo = {}
  /\ \A x \in chat.todo : definition[x.definition] # None
  /\ ModelFollowsPrompt => \A x \in chat.todo : Proposed(x)

(* The agent edits and probes the import source it was called for.          *)
EditOfCall ==
  chat.phase \in {"editing", "probing"} =>
    /\ chat.call \in Calls /\ chat.call.tool = "update_import_source"
    /\ session["agent"].source = chat.call.on

AgentInv ==
  /\ WorkspaceInv
  /\ setting \in ProviderSettings
  /\ chat \in Chat
  /\ SessionOfPhase
  /\ EditOfCall
  /\ TodoInv
  /\ ScopeKept
  /\ RunsWereProposed
  /\ Covers(chat.awaiting) /\ Covers(chat.agreed)

-----------------------------------------------------------------------------
(* Calls and conversations.                                                 *)

LEMMA CallTypes ==
  ASSUME NEW call \in Calls
  PROVE  /\ call.tool \in {"run_batch", "run_all_batches", "update_import_source"}
         /\ call.tool = "run_batch" => call.on \in Definitions
         /\ call.tool = "run_all_batches" => call.on \in Clients
         /\ call.tool = "update_import_source" => call.on \in ImportSources /\ call.patch \in Patches
BY DEF Calls

LEMMA ChatTypes ==
  ASSUME NEW c \in Chat
  PROVE  /\ c.phase \in Phases /\ c.scope \in ClientIds
         /\ c.round \in 0..(MaxToolIterations - 1) /\ c.blocks \in 0..MaxBlocks
         /\ c.awaiting \in PlanType \cup {None} /\ c.agreed \in PlanType \cup {None}
         /\ c.call \in Calls \cup {None} /\ c.shown \in SUBSET Clients
         /\ c.todo \in SUBSET [definition : Definitions, agreed : BOOLEAN, edited : BOOLEAN]
BY DEF Chat

LEMMA IdleChatTyped ==
  /\ IdleChat \in Chat
  /\ IdleChat.phase = "idle" /\ IdleChat.scope = None
  /\ IdleChat.awaiting = None /\ IdleChat.agreed = None
  /\ IdleChat.todo = {} /\ IdleChat.shown = {}
<1>1. 0 \in 0..(MaxToolIterations - 1) /\ 0 \in 0..MaxBlocks  BY AgentAssumption
<1> QED BY <1>1 DEF IdleChat, Chat, Phases, ClientIds

(* A turn that is between two tool calls, waits for the model, or is over.  *)
Resting(c) ==
  /\ c \in Chat
  /\ c.phase \in {"idle", "model", "tools"}
  /\ c.scope # None => c.shown \subseteq {c.scope}
  /\ c.todo = {}
  /\ Covers(c.awaiting) /\ Covers(c.agreed)

LEMMA IdleRests ==
  ASSUME NEW plan \in PlanType \cup {None}, Covers(plan)
  PROVE  Resting(IdleChat) /\ Resting([IdleChat EXCEPT !.awaiting = plan])
<1>1. [IdleChat EXCEPT !.awaiting = plan] \in Chat  BY IdleChatTyped DEF Chat
<1>2. Covers(None)  BY DEF Covers
<1> QED BY <1>1, <1>2, IdleChatTyped DEF Resting, Chat

LEMMA AfterBlockRests ==
  ASSUME NEW c \in Chat, c.scope # None => c.shown \subseteq {c.scope}, c.todo = {},
         Covers(c.awaiting), Covers(c.agreed)
  PROVE  Resting(AfterBlock(c))
<1>1. CASE c.blocks > 1
  <2>1. c.blocks - 1 \in 0..MaxBlocks  BY <1>1, ChatTypes, AgentAssumption
  <2>2. AfterBlock(c) = [c EXCEPT !.phase = "tools", !.call = None, !.blocks = c.blocks - 1]
    BY <1>1 DEF AfterBlock
  <2> QED BY <2>1, <2>2 DEF Resting, Chat, Phases
<1>2. CASE ~(c.blocks > 1) /\ c.round + 1 = MaxToolIterations
  <2>1. AfterBlock(c) = [IdleChat EXCEPT !.awaiting = c.awaiting]
    BY <1>2 DEF AfterBlock, AnswerOf
  <2> QED BY <2>1, ChatTypes, IdleRests
<1>3. CASE ~(c.blocks > 1) /\ c.round + 1 # MaxToolIterations
  <2>1. c.round + 1 \in 0..(MaxToolIterations - 1) /\ 0 \in 0..MaxBlocks
    BY <1>3, ChatTypes, AgentAssumption
  <2>2. AfterBlock(c) = [c EXCEPT !.phase = "model", !.call = None, !.blocks = 0,
                                  !.round = c.round + 1]
    BY <1>3 DEF AfterBlock
  <2> QED BY <2>1, <2>2 DEF Resting, Chat, Phases
<1> QED BY <1>1, <1>2, <1>3

(* A step after which the turn rests.                                       *)
LEMMA RestInv ==
  ASSUME AgentInv, WorkspaceInv', setting' = setting, definition' = definition,
         RunsWereProposed', session'["agent"] = NoSession, Resting(chat')
  PROVE  AgentInv'
<1>1. NoSession.source = None /\ NoSession.batch = 0  BY DEF NoSession
<1>2. SessionOfPhase'  BY DEF SessionOfPhase, Resting
<1>3. ScopeKept'  BY <1>1 DEF ScopeKept, Resting
<1>4. Covers(chat.awaiting)' /\ Covers(chat.agreed)'
  BY DEF Resting, Covers, Runnable, Chosen, DefinitionsOf
<1>5. TodoInv' /\ EditOfCall'  BY DEF TodoInv, EditOfCall, Resting
<1> QED BY <1>2, <1>3, <1>4, <1>5 DEF AgentInv, Resting

LEMMA QuietInv ==
  ASSUME AgentInv, UNCHANGED <<workspaceVars, setting>>, Resting(chat'),
         session["agent"] = NoSession
  PROVE  AgentInv'
<1>1. WorkspaceInv'  BY WorkspaceStutterInv DEF AgentInv
<1>2. RunsWereProposed' /\ session'["agent"] = NoSession /\ definition' = definition
  BY DEF AgentInv, RunsWereProposed, workspaceVars
<1> QED BY <1>1, <1>2, RestInv

LEMMA NoSessionAtRest ==
  ASSUME AgentInv, chat.phase \notin {"starting", "editing", "probing"}
  PROVE  session["agent"] = NoSession /\ chat.todo = {}
BY DEF AgentInv, SessionOfPhase, TodoInv

-----------------------------------------------------------------------------
(* The tools that read.                                                     *)

(* Results that show clients, and under a scope that client only.           *)
Within(scope, R) ==
  \A r \in R : r.clients \subseteq Clients /\ (scope # None => r.clients \subseteq {scope})

LEMMA BatchClients ==
  ASSUME RunsInv, NEW n \in BatchIds
  PROVE  BatchClientId(n) \in ClientIds
<1>1. CASE n = 0  BY <1>1 DEF BatchClientId, ClientIds
<1>2. CASE n # 0
  <2>1. n \in DOMAIN batches  BY <1>2 DEF BatchIds
  <2>2. batches[n] \in Batch  BY <2>1 DEF RunsInv
  <2>3. batches[n].definition \in Definitions  BY <2>2 DEF Batch
  <2> QED BY <2>3, <1>2, RowsAssumption DEF BatchClientId, ClientIds
<1> QED BY <1>1, <1>2

(* What a definition refers to belongs to its own client.                   *)
LEMMA ReferredClients ==
  ASSUME ReferencesInv, NEW d \in Definitions, definition[d] # None
  PROVE  SourceClient(d) \in {Owner[d], None} /\ AccountClient(d) \in {Owner[d], None}
BY DEF ReferencesInv, RefersToOwn, SourceClient, AccountClient

LEMMA RowsOfClient ==
  ASSUME NEW scope \in ClientIds, NEW c \in ClientIds, InScope(scope, c),
         NEW C, C \subseteq {c, None}
  PROVE  Within(scope, {Showing(C), Error, Raises})
BY RowsAssumption DEF Within, Showing, Error, Raises, InScope, ClientIds

LEMMA ErrorsWithin ==
  ASSUME NEW scope \in ClientIds PROVE Within(scope, {Error, Raises, Showing({})})
BY DEF Within, Error, Raises, Showing

LEMMA ClientTools ==
  ASSUME NEW scope \in ClientIds
  PROVE  /\ Within(scope, ForClient(scope, OwnRows))
         /\ Within(scope, ForClient(scope, OwnRowsOrNone))
         /\ Within(scope, ForClient(scope, OwnRowsOrRaises))
<1>1. ASSUME NEW c \in ClientIds
      PROVE  /\ Within(scope, IF InScope(scope, c) THEN OwnRows(c) ELSE {Error})
             /\ Within(scope, IF InScope(scope, c) THEN OwnRowsOrNone(c) ELSE {Error})
             /\ Within(scope, IF InScope(scope, c) THEN OwnRowsOrRaises(c) ELSE {Error})
  <2>1. CASE InScope(scope, c)
    <3>1. Within(scope, {Showing({c}), Error, Raises})  BY <2>1, RowsOfClient
    <3> QED BY <2>1, <3>1 DEF Within, OwnRows, OwnRowsOrNone, OwnRowsOrRaises
  <2>2. CASE ~InScope(scope, c)  BY <2>2, ErrorsWithin DEF Within
  <2> QED BY <2>1, <2>2
<1> QED BY <1>1 DEF Within, ForClient

LEMMA OwnerTools ==
  ASSUME NEW scope \in ClientIds, NEW Owners \in SUBSET ClientIds
  PROVE  /\ Within(scope, ForOwner(scope, Owners, OwnRows))
         /\ Within(scope, ForOwner(scope, Owners, OwnRowsOrNone))
<1>1. ASSUME NEW c \in Owners
      PROVE  /\ Within(scope, IF c # None /\ InScope(scope, c) THEN OwnRows(c) ELSE {Error})
             /\ Within(scope, IF c # None /\ InScope(scope, c) THEN OwnRowsOrNone(c) ELSE {Error})
  <2>1. CASE c # None /\ InScope(scope, c)
    <3>1. Within(scope, {Showing({c}), Error, Raises})  BY <2>1, RowsOfClient
    <3> QED BY <2>1, <3>1 DEF Within, OwnRows, OwnRowsOrNone
  <2>2. CASE ~(c # None /\ InScope(scope, c))  BY <2>2, ErrorsWithin DEF Within
  <2> QED BY <2>1, <2>2
<1> QED BY <1>1 DEF Within, ForOwner

LEMMA BatchesTool ==
  ASSUME RunsInv, NEW scope \in ClientIds
  PROVE  Within(scope, GetBatches(scope))
<1> DEFINE C == {c \in {BatchClientId(n) : n \in BatchIds} : InScope(scope, c)}
<1>1. \A c \in C : c \in ClientIds /\ InScope(scope, c)  BY BatchClients
<1>2. Within(scope, {Showing(C)})
  <2> HIDE DEF C
  <2> QED BY <1>1 DEF Within, Showing, InScope, ClientIds
<1>3. Within(scope, ForClient(scope, OwnRows))  BY ClientTools
<1>4. GetBatches(scope) = ForClient(scope, OwnRows) \cup {Showing(C)}  BY DEF GetBatches
<1> HIDE DEF C
<1> QED BY <1>2, <1>3, <1>4 DEF Within

LEMMA DefinitionTools ==
  ASSUME ReferencesInv, NEW scope \in ClientIds
  PROVE  /\ Within(scope, GetAccountPosition(scope))
         /\ Within(scope, ListBatchDefinitions(scope))
<1>1. ASSUME NEW c \in ClientIds
      PROVE  /\ {c} \cup {AccountClient(d) : d \in DefinitionsOf(c)} \subseteq {c, None}
             /\ {c} \cup DefinitionClients(DefinitionsOf(c)) \subseteq {c, None}
  <2>1. \A d \in DefinitionsOf(c) : d \in Definitions /\ definition[d] # None /\ Owner[d] = c
    BY DEF DefinitionsOf
  <2> QED BY <2>1, ReferredClients DEF DefinitionClients
<1>2. ASSUME NEW c \in ClientIds
      PROVE  /\ Within(scope, IF InScope(scope, c)
                              THEN {Error, Showing({c} \cup {AccountClient(d) : d \in DefinitionsOf(c)})}
                              ELSE {Error})
             /\ Within(scope, IF InScope(scope, c)
                              THEN {Showing({c} \cup DefinitionClients(DefinitionsOf(c)))}
                              ELSE {Error})
  <2> DEFINE A == {c} \cup {AccountClient(d) : d \in DefinitionsOf(c)}
             D == {c} \cup DefinitionClients(DefinitionsOf(c))
  <2>1. A \subseteq {c, None} /\ D \subseteq {c, None}  BY <1>1
  <2> HIDE DEF A, D
  <2>2. CASE InScope(scope, c)
    <3>1. Within(scope, {Showing(A), Error, Raises}) /\ Within(scope, {Showing(D), Error, Raises})
      BY <2>1, <2>2, RowsOfClient
    <3>2. Within(scope, {Error, Showing(A)}) /\ Within(scope, {Showing(D)})
      BY <3>1 DEF Within
    <3> QED BY <2>2, <3>2 DEF A, D
  <2>3. CASE ~InScope(scope, c)  BY <2>3, ErrorsWithin DEF Within
  <2> QED BY <2>2, <2>3
<1>3. Within(scope, GetAccountPosition(scope))
  <2> DEFINE R(c) == IF InScope(scope, c)
                     THEN {Error, Showing({c} \cup {AccountClient(d) : d \in DefinitionsOf(c)})}
                     ELSE {Error}
  <2>1. \A c \in ClientIds : Within(scope, R(c))  BY <1>2
  <2>2. GetAccountPosition(scope) = UNION {R(c) : c \in ClientIds}
    BY DEF GetAccountPosition, ForClient
  <2> HIDE DEF R
  <2> QED BY <2>1, <2>2 DEF Within
<1>4. Within(scope, ListBatchDefinitions(scope))
  BY <1>2 DEF Within, ListBatchDefinitions, ForClient
<1> QED BY <1>3, <1>4

LEMMA OtherTools ==
  ASSUME NEW scope \in ClientIds
  PROVE  /\ Within(scope, GetClients(scope)) /\ Within(scope, GetTaxRule)
         /\ Within(scope, ListReconciliationTypes) /\ Within(scope, {Error})
         /\ Within(scope, SearchTransactions(scope))
<1>1. Within(scope, GetClients(scope))
  BY DEF Within, GetClients, Showing, ClientIds
<1>2. /\ Within(scope, GetTaxRule) /\ Within(scope, ListReconciliationTypes)
      /\ Within(scope, {Error})
  BY ErrorsWithin DEF Within, GetTaxRule, ListReconciliationTypes
<1>3. ASSUME NEW c \in ClientIds
      PROVE  Within(scope, IF InScope(scope, c) THEN {Showing({c}), Raises} ELSE {Error})
  <2>1. CASE InScope(scope, c)
    <3>1. Within(scope, {Showing({c}), Error, Raises})  BY <2>1, RowsOfClient
    <3> QED BY <2>1, <3>1 DEF Within
  <2>2. CASE ~InScope(scope, c)  BY <2>2, ErrorsWithin DEF Within
  <2> QED BY <2>1, <2>2
<1>4. Within(scope, SearchTransactions(scope))
  BY <1>3 DEF Within, SearchTransactions, ForClient
<1> QED BY <1>1, <1>2, <1>4

(* Whatever tool is called with whatever arguments.                         *)
LEMMA ReadToolsWithin ==
  ASSUME ReferencesInv, RunsInv, NEW scope \in ClientIds
  PROVE  Within(scope, ReadToolResults(scope))
<1>0. {BatchClientId(n) : n \in BatchIds} \in SUBSET ClientIds  BY BatchClients
<1>1. /\ Within(scope, GetBankAccounts(scope)) /\ Within(scope, GetImportSources(scope))
      /\ Within(scope, FindTransactionByReference(scope))
      /\ Within(scope, ExplainAmountDifference(scope))
      /\ Within(scope, GetClientConfiguration(scope))
      /\ Within(scope, AggregateExceptions(scope))
      /\ Within(scope, GetCashPosition(scope)) /\ Within(scope, GetForecast(scope))
  BY ClientTools DEF GetBankAccounts, GetImportSources, FindTransactionByReference,
     ExplainAmountDifference, GetClientConfiguration, AggregateExceptions, GetCashPosition,
     GetForecast
<1>2. /\ Within(scope, GetBatchLog(scope)) /\ Within(scope, GetBatchReport(scope))
      /\ Within(scope, GetBatchStatus(scope)) /\ Within(scope, GetReconciliationSummary(scope))
      /\ Within(scope, GetTransaction(scope)) /\ Within(scope, GetMatchEvidence(scope))
      /\ Within(scope, GetException(scope)) /\ Within(scope, GetExceptionSummary(scope))
      /\ Within(scope, GetTaxCalculation(scope)) /\ Within(scope, GetSettlement(scope))
  BY <1>0, OwnerTools DEF GetBatchLog, GetBatchReport, GetBatchStatus, GetReconciliationSummary,
     GetTransaction, GetMatchEvidence, GetException, GetExceptionSummary, GetTaxCalculation,
     GetSettlement, TransactionClientIds, MatchClientIds, ExceptionClientIds
<1>3. Within(scope, GetBatches(scope))  BY BatchesTool
<1> QED BY <1>1, <1>2, <1>3, DefinitionTools, OtherTools DEF Within, ReadToolResults

-----------------------------------------------------------------------------
(* What operators and the worker leave to the agent.                        *)

(* Its session, but for what it knows of their commits.                     *)
SessionKept ==
  /\ session'["agent"].op = session["agent"].op
  /\ session'["agent"].source = session["agent"].source
  /\ session'["agent"].batch = session["agent"].batch
  /\ session["agent"] = NoSession => session'["agent"] = NoSession

(* The runs that there are.  Those they start are agreed by themselves.     *)
BatchesKept ==
  /\ DOMAIN batches \subseteq DOMAIN batches'
  /\ \A n \in DOMAIN batches :
       /\ batches'[n].definition = batches[n].definition
       /\ batches'[n].agreed = batches[n].agreed
       /\ batches'[n].edited = batches[n].edited
  /\ \A n \in DOMAIN batches' \ DOMAIN batches : batches'[n].agreed

DefinitionsStay == \A d \in Definitions : definition[d] # None => definition'[d] # None

LEMMA AgentIsThread == "agent" \in Threads
BY DEF Threads

LEMMA OvertakenKeeps ==
  ASSUME SourcesInv, NEW t \in Threads \ {"agent"}, Holds(t), NEW after,
         session' = Overtaken(t, after)
  PROVE  SessionKept
<1>1. session'["agent"] = IF session["agent"].source = session[t].source
                          THEN [session["agent"] EXCEPT !.since = @ \cup {session[t].op}]
                          ELSE session["agent"]
  BY AgentIsThread DEF Overtaken
<1>2. session["agent"] \in Session  BY AgentIsThread DEF SourcesInv, SourcesTyped
<1>3. session["agent"] = NoSession => session["agent"].source # session[t].source
  <2>1. session[t].source \in ImportSources  BY DEF SourcesInv, SessionsHold
  <2>2. NoSession.source = None  BY SessionTypes DEF SourcesInv
  <2> QED BY <2>1, <2>2, RowsAssumption
<1> QED BY <1>1, <1>2, <1>3 DEF SessionKept, Session

LEMMA ReplacedKeeps ==
  ASSUME SourcesInv, NEW t \in Threads \ {"agent"}, NEW s, session' = [session EXCEPT ![t] = s]
  PROVE  SessionKept
<1>1. session'["agent"] = session["agent"]
  BY AgentIsThread DEF SourcesInv, SourcesTyped
<1> QED BY <1>1 DEF SessionKept

LEMMA StatusKeepsBatches ==
  ASSUME batches \in Seq(Batch), NEW n \in Nat, NEW status \in RunStates,
         batches' = [batches EXCEPT ![n].status = status]
  PROVE  BatchesKept
BY StatusWritten DEF BatchesKept

LEMMA SameBatches == ASSUME batches' = batches PROVE BatchesKept
BY DEF BatchesKept

LEMMA RowStepKeeps ==
  ASSUME WorkspaceInv, RowStep
  PROVE  SessionKept /\ BatchesKept /\ DefinitionsStay
<1>1. session' = session /\ batches' = batches
  BY DEF RowStep, CreateAccount, CreateImportSource, CreateDefinition, UpdateDefinition
<1>2. SessionKept /\ BatchesKept  BY <1>1, SameBatches DEF SessionKept
<1>3. CASE definition' = definition  BY <1>2, <1>3 DEF DefinitionsStay
<1>4. CASE \E d \in Definitions : CreateDefinition(d) \/ UpdateDefinition(d)
  <2>1. PICK d \in Definitions : CreateDefinition(d) \/ UpdateDefinition(d)  BY <1>4
  <2>2. PICK f \in DefinitionForms :
          ValidDefinition(Owner[d], f) /\ definition' = [definition EXCEPT ![d] = f]
    BY <2>1 DEF CreateDefinition, UpdateDefinition
  <2>3. accounts' = accounts /\ importSource' = importSource
    BY <2>1 DEF CreateDefinition, UpdateDefinition
  <2>4. DefinitionsStay
    BY <2>2, <2>3, DefinitionWritten DEF WorkspaceInv, DefinitionsStay
  <2> QED BY <1>2, <2>4
<1> QED BY <1>3, <1>4 DEF RowStep, CreateAccount, CreateImportSource

LEMMA WorkerStepKeeps ==
  ASSUME WorkspaceInv, WorkerStep
  PROVE  SessionKept /\ BatchesKept /\ definition' = definition
<1> USE DEF WorkspaceInv
<1>0. /\ "worker" \in Threads \ {"agent"} /\ batches \in Seq(Batch) /\ worker.batch \in Nat
      /\ "FAILED" \in RunStates /\ "CLOSED" \in RunStates
  BY DEF Threads, RunsInv, RunStates
<1>1. CASE TakeBatch
  <2>1. Head(queue) \in Nat
    <3>1. Head(queue) \in DOMAIN batches  BY <1>1, QueueHead DEF TakeBatch
    <3> QED BY <3>1, <1>0
  <2>2. CASE definition[batches[Head(queue)].definition].source = None
    <3>1. /\ batches' = [batches EXCEPT ![Head(queue)].status = "FAILED"]
          /\ session' = session /\ definition' = definition
      BY <1>1, <2>2 DEF TakeBatch
    <3> QED BY <3>1, <2>1, <1>0, StatusKeepsBatches DEF SessionKept
  <2>3. CASE definition[batches[Head(queue)].definition].source # None
    <3>1. /\ batches' = batches /\ definition' = definition
          /\ \E s : session' = [session EXCEPT !["worker"] = s]
      BY <1>1, <2>3 DEF TakeBatch, Load
    <3> QED BY <3>1, <1>0, SameBatches, ReplacedKeeps
  <2> QED BY <2>2, <2>3
<1>2. CASE ImportFiles
  <2>1. PICK found \in Discoverable(session["worker"].loaded, worker.wanted) :
          /\ CommitPoll("worker", found)
          /\ IF worker.wanted \subseteq found
             THEN worker' = [worker EXCEPT !.pc = "process"] /\ UNCHANGED batches
             ELSE EndBatch("FAILED")
    BY <1>2 DEF ImportFiles
  <2>2. SessionKept  BY <2>1, <1>0, OvertakenKeeps DEF CommitPoll, Holds
  <2>3. BatchesKept
    BY <2>1, <1>0, SameBatches, StatusKeepsBatches DEF EndBatch
  <2> QED BY <1>2, <2>2, <2>3 DEF ImportFiles
<1>3. CASE EndRun
  <2>1. PICK status \in {"CLOSED", "FAILED"} : EndBatch(status)  BY <1>3 DEF EndRun
  <2>2. BatchesKept  BY <2>1, <1>0, StatusKeepsBatches DEF EndBatch
  <2> QED BY <2>2, <1>3 DEF EndRun, SessionKept
<1> QED BY <1>1, <1>2, <1>3 DEF WorkerStep

LEMMA OperatorStepKeeps ==
  ASSUME WorkspaceInv, NEW t \in Operators, OperatorStep(t)
  PROVE  SessionKept /\ BatchesKept /\ definition' = definition
<1> USE DEF WorkspaceInv
<1>0. t \in Threads \ {"agent"}  BY RowsAssumption DEF Threads
<1>1. ASSUME NEW i \in ImportSources, OpenImportSource(t, i)
      PROVE  SessionKept /\ BatchesKept /\ definition' = definition
  <2>1. \E s : session' = [session EXCEPT ![t] = s]
    BY <1>1 DEF OpenImportSource, BeginEdit, BeginPoll, Load
  <2> QED BY <2>1, <1>0, <1>1, ReplacedKeeps, SameBatches DEF OpenImportSource
<1>2. CASE SaveImportSource(t)
  <2>1. PICK p \in Patches : CommitEdit(t, p, NoSession) \/ RefuseEdit(t, p)
    BY <1>2 DEF SaveImportSource
  <2>2. SessionKept
    BY <2>1, <1>0, OvertakenKeeps, ReplacedKeeps DEF CommitEdit, RefuseEdit, Holds
  <2> QED BY <2>2, <1>2, SameBatches DEF SaveImportSource
<1>3. CASE ProbeImportSource(t)
  <2>1. SessionKept
    BY <1>3, <1>0, OvertakenKeeps DEF ProbeImportSource, CommitPoll, Holds
  <2> QED BY <2>1, <1>3, SameBatches DEF ProbeImportSource
<1>4. ASSUME NEW d \in Definitions, RunDefinition(t, d)
      PROVE  SessionKept /\ BatchesKept /\ definition' = definition
  <2>1. CreateBatch(t, d, TRUE, FALSE) /\ definition[d] # None /\ definition' = definition
    BY <1>4 DEF RunDefinition
  <2>2. SessionKept  BY <2>1, <1>0, ReplacedKeeps DEF CreateBatch
  <2>3. BatchesKept
    <3>1. /\ DOMAIN batches' = DOMAIN batches \cup {Len(batches) + 1}
          /\ batches'[Len(batches) + 1] =
               [definition |-> d, status |-> "live", agreed |-> TRUE, edited |-> FALSE]
          /\ \A n \in DOMAIN batches : batches'[n] = batches[n]
      BY <2>1, <1>0, BatchAppended
    <3>2. batches'[Len(batches) + 1].agreed = TRUE  BY <3>1
    <3>3. \A n \in DOMAIN batches' \ DOMAIN batches : batches'[n].agreed
      BY <3>1, <3>2
    <3> QED BY <3>1, <3>3 DEF BatchesKept
  <2> QED BY <2>1, <2>2, <2>3
<1>5. CASE SubmitBatch(t)
  <2>1. SessionKept  BY <1>5, <1>0, ReplacedKeeps DEF SubmitBatch, Submit
  <2> QED BY <2>1, <1>5, SameBatches DEF SubmitBatch
<1> QED BY <1>1, <1>2, <1>3, <1>4, <1>5 DEF OperatorStep

LEMMA OthersKeep ==
  ASSUME WorkspaceInv, WorkspaceNext
  PROVE  WorkspaceInv' /\ SessionKept /\ BatchesKept /\ DefinitionsStay
<1>1. CASE RowStep  BY <1>1, RowStepInv, RowStepKeeps
<1>2. CASE WorkerStep  BY <1>2, WorkerStepInv, WorkerStepKeeps DEF DefinitionsStay
<1>3. CASE \E t \in Operators : OperatorStep(t)
  BY <1>3, OperatorStepInv, OperatorStepKeeps DEF DefinitionsStay
<1> QED BY <1>1, <1>2, <1>3 DEF WorkspaceNext

LEMMA NotedEdits ==
  ASSUME NEW plan \in PlanType \cup {None}, NEW D \in SUBSET Definitions
  PROVE  /\ NoteEdits(plan, D) \in PlanType \cup {None}
         /\ plan = None => NoteEdits(plan, D) = None
         /\ plan # None => /\ NoteEdits(plan, D).call = plan.call
                           /\ NoteEdits(plan, D).definitions = plan.definitions
                           /\ NoteEdits(plan, D).edited = plan.edited \cup D
BY DEF NoteEdits, PlanType

LEMMA NotedCovers ==
  ASSUME NEW plan \in PlanType \cup {None}, Covers(plan),
         NEW D, D = {d \in Definitions : definition'[d] # definition[d]},
         NEW noted, noted = NoteEdits(plan, D)
  PROVE  Covers(noted)'
<1>0. D \in SUBSET Definitions  OBVIOUS
<1>1. CASE plan = None  BY <1>0, <1>1, NotedEdits DEF Covers
<1>2. CASE plan # None
  <2>1. /\ noted.call = plan.call /\ noted.definitions = plan.definitions
        /\ noted.edited = plan.edited \cup D /\ plan.call \in Calls
    BY <1>0, <1>2, NotedEdits DEF PlanType
  <2>2. ASSUME NEW d \in Runnable(plan.call)', RunCall(plan.call)
        PROVE  d \in Definitions /\ (d \in D \/ d \in Runnable(plan.call))
    BY <2>1, CallTypes DEF Runnable, Chosen, DefinitionsOf, RunCall
  <2> QED BY <2>1, <2>2, <1>2 DEF Covers, RunCall
<1> QED BY <1>1, <1>2

LEMMA OthersInv ==
  ASSUME AgentInv, OthersStep
  PROVE  AgentInv'
<1> DEFINE D == {d \in Definitions : definition'[d] # definition[d]}
<1>0. /\ setting' = setting /\ WorkspaceNext
      /\ chat' = [chat EXCEPT !.awaiting = NoteEdits(@, D), !.agreed = NoteEdits(@, D)]
  BY DEF OthersStep
<1>1. WorkspaceInv' /\ SessionKept /\ BatchesKept /\ DefinitionsStay
  BY <1>0, OthersKeep DEF AgentInv
<1>2. chat \in Chat /\ chat.awaiting \in PlanType \cup {None} /\ chat.agreed \in PlanType \cup {None}
  BY ChatTypes DEF AgentInv
<1>3. /\ NoteEdits(chat.awaiting, D) \in PlanType \cup {None}
      /\ NoteEdits(chat.agreed, D) \in PlanType \cup {None}
  BY <1>2, NotedEdits
<1>4. PICK a, b : a = NoteEdits(chat.awaiting, D) /\ b = NoteEdits(chat.agreed, D)
  OBVIOUS
<1>a. Covers(a)' /\ Covers(b)'
  BY <1>2, <1>4, NotedCovers DEF AgentInv
<1> HIDE DEF D
<1>5. /\ chat' \in Chat
      /\ chat'.phase = chat.phase /\ chat'.scope = chat.scope /\ chat'.call = chat.call
      /\ chat'.todo = chat.todo /\ chat'.shown = chat.shown
      /\ chat'.awaiting = NoteEdits(chat.awaiting, D) /\ chat'.agreed = NoteEdits(chat.agreed, D)
  BY <1>0, <1>2, <1>3 DEF Chat
<1>6. Covers(chat.awaiting)' /\ Covers(chat.agreed)'
  BY <1>4, <1>a, <1>5 DEF Covers, Runnable, Chosen, DefinitionsOf
<1>7. SessionOfPhase' /\ EditOfCall'
  BY <1>1, <1>5 DEF AgentInv, SessionOfPhase, EditOfCall, SessionKept
<1>8. TodoInv'
  <2>1. \A x \in chat.todo : x.definition \in Definitions
    BY <1>2, ChatTypes
  <2> QED BY <2>1, <1>1, <1>5 DEF AgentInv, TodoInv, DefinitionsStay
<1>9. ScopeKept'
  <2>1. session["agent"].batch # 0 => session["agent"].batch \in DOMAIN batches
    BY AgentIsThread DEF AgentInv, WorkspaceInv, RunsInv, SessionRuns
  <2>2. session["agent"].batch # 0 =>
          BatchClientId(session["agent"].batch)' = BatchClientId(session["agent"].batch)
    BY <2>1, <1>1 DEF BatchesKept, SessionKept, BatchClientId
  <2> QED BY <2>2, <1>1, <1>5 DEF AgentInv, ScopeKept, SessionKept, BatchClientId
<1>10. RunsWereProposed'
  BY <1>1 DEF AgentInv, RunsWereProposed, BatchesKept
<1> QED BY <1>0, <1>1, <1>5, <1>6, <1>7, <1>8, <1>9, <1>10 DEF AgentInv

-----------------------------------------------------------------------------
(* The turn: every step preserves the invariant, one lemma per action.      *)

LEMMA InitAgentInv == AgentInit => AgentInv
<1> SUFFICES ASSUME AgentInit PROVE AgentInv
  OBVIOUS
<1>1. WorkspaceInv /\ setting \in ProviderSettings /\ chat = IdleChat
  BY InitInv DEF AgentInit
<1>2. Covers(None)  BY DEF Covers
<1>3. session["agent"] = NoSession /\ batches = << >>
  BY AgentIsThread DEF AgentInit, WorkspaceInit
<1>4. SessionOfPhase /\ EditOfCall /\ TodoInv /\ ScopeKept /\ RunsWereProposed
  BY <1>1, <1>3, IdleChatTyped DEF SessionOfPhase, EditOfCall, TodoInv, ScopeKept, RunsWereProposed
<1> QED BY <1>1, <1>2, <1>4, IdleChatTyped DEF AgentInv

LEMMA BeginTurnInv ==
  ASSUME AgentInv, NEW scope \in ClientIds, NEW agreed \in PlanType \cup {None}, Covers(agreed),
         BeginTurn(scope, agreed)
  PROVE  AgentInv'
<1>1. session["agent"] = NoSession  BY NoSessionAtRest DEF BeginTurn
<1>2. Resting(IdleChat)
  <2>1. Covers(None)  BY DEF Covers
  <2> QED BY <2>1, IdleRests
<1>3. Resting([IdleChat EXCEPT !.phase = "model", !.scope = scope, !.agreed = agreed])
  BY IdleChatTyped, <1>2 DEF Resting, Chat, Phases
<1>4. Resting(chat')  BY <1>2, <1>3 DEF BeginTurn
<1> QED BY <1>1, <1>4, QuietInv DEF BeginTurn

LEMMA UserInv ==
  ASSUME AgentInv, UserAsks \/ UserAgrees
  PROVE  AgentInv'
<1>1. CASE UserAsks
  <2>1. Covers(None)  BY DEF Covers
  <2> QED BY <1>1, <2>1, BeginTurnInv DEF UserAsks
<1>2. CASE UserAgrees
  <2>1. chat.awaiting \in PlanType \cup {None} /\ Covers(chat.awaiting)
    BY ChatTypes DEF AgentInv
  <2> QED BY <1>2, <2>1, BeginTurnInv DEF UserAgrees
<1> QED BY <1>1, <1>2

LEMMA ModelInv ==
  ASSUME AgentInv, ModelReplies
  PROVE  AgentInv'
<1>0. /\ chat.phase = "model" /\ UNCHANGED <<workspaceVars, setting>>
  BY DEF ModelReplies, ModelAnswers, ModelFails, ModelCallsTools
<1>1. session["agent"] = NoSession /\ chat.todo = {}  BY <1>0, NoSessionAtRest
<1>2. chat.awaiting \in PlanType \cup {None} /\ Covers(chat.awaiting) /\ Covers(None)
  BY ChatTypes DEF AgentInv, Covers
<1>3. CASE ModelAnswers
  <2>1. Resting(chat')  BY <1>2, <1>3, IdleRests DEF ModelAnswers, AnswerOf
  <2> QED BY <1>0, <1>1, <2>1, QuietInv
<1>4. CASE ModelFails
  <2>1. Resting(chat')  BY <1>2, <1>4, IdleRests DEF ModelFails, Failure
  <2> QED BY <1>0, <1>1, <2>1, QuietInv
<1>5. CASE ModelCallsTools
  <2>1. PICK n \in 1..MaxBlocks : chat' = [chat EXCEPT !.phase = "tools", !.blocks = n, !.shown = {}]
    BY <1>5 DEF ModelCallsTools
  <2>2. n \in 0..MaxBlocks  BY AgentAssumption
  <2>3. Resting(chat')  BY <1>1, <2>1, <2>2 DEF AgentInv, Resting, Chat, Phases
  <2> QED BY <1>0, <1>1, <2>3, QuietInv
<1> QED BY <1>3, <1>4, <1>5 DEF ModelReplies

(* What a tool shows under the scope of the turn.                           *)
LEMMA ShownRests ==
  ASSUME AgentInv, chat.todo = {}, NEW C \in SUBSET Clients,
         chat.scope # None => C \subseteq {chat.scope}
  PROVE  Resting(AfterBlock([chat EXCEPT !.shown = C]))
<1> DEFINE c == [chat EXCEPT !.shown = C]
<1>1. /\ c \in Chat /\ c.scope = chat.scope /\ c.shown = C /\ c.todo = {}
      /\ c.awaiting = chat.awaiting /\ c.agreed = chat.agreed
  BY DEF AgentInv, Chat
<1> HIDE DEF c
<1>2. Covers(c.awaiting) /\ Covers(c.agreed)  BY <1>1 DEF AgentInv
<1>3. Resting(AfterBlock(c))  BY <1>1, <1>2, AfterBlockRests
<1> QED BY <1>3 DEF c

LEMMA BlockRests ==
  ASSUME AgentInv, chat.todo = {}
  PROVE  Resting(AfterBlock(chat))
BY AfterBlockRests DEF AgentInv, ScopeKept

LEMMA ReadToolInv ==
  ASSUME AgentInv, ReadTool
  PROVE  AgentInv'
<1>0. chat.phase = "tools" /\ UNCHANGED <<workspaceVars, setting>>  BY DEF ReadTool
<1>1. session["agent"] = NoSession /\ chat.todo = {}  BY <1>0, NoSessionAtRest
<1>2. PICK r \in ReadToolResults(chat.scope) :
        chat' = IF r.kind = "raises" THEN Failure ELSE AfterBlock([chat EXCEPT !.shown = r.clients])
  BY DEF ReadTool
<1>3. chat.scope \in ClientIds  BY ChatTypes DEF AgentInv
<1>4. Within(chat.scope, ReadToolResults(chat.scope))
  BY <1>3, ReadToolsWithin DEF AgentInv, WorkspaceInv
<1>5. r.clients \in SUBSET Clients /\ (chat.scope # None => r.clients \subseteq {chat.scope})
  BY <1>4 DEF Within
<1>6. Resting(Failure)
  <2>1. Covers(None)  BY DEF Covers
  <2> QED BY <2>1, IdleRests DEF Failure
<1>7. Resting(AfterBlock([chat EXCEPT !.shown = r.clients]))
  BY <1>1, <1>5, ShownRests
<1>8. Resting(chat')  BY <1>2, <1>6, <1>7
<1> QED BY <1>0, <1>1, <1>8, QuietInv

LEMMA RefuseCallInv ==
  ASSUME AgentInv, NEW call, NEW confirmed, RefuseCall(call, confirmed)
  PROVE  AgentInv'
<1>1. /\ chat.phase = "tools" /\ UNCHANGED <<workspaceVars, setting>>
      /\ chat' = AfterBlock(chat)
  BY DEF RefuseCall, Called
<1>2. session["agent"] = NoSession /\ chat.todo = {}  BY <1>1, NoSessionAtRest
<1> QED BY <1>1, <1>2, BlockRests, QuietInv

(* The definitions that a call is about.                                    *)
LEMMA ChosenRows ==
  ASSUME NEW call \in Calls, RunCall(call)
  PROVE  /\ Runnable(call) \subseteq Chosen(call)
         /\ Chosen(call) \subseteq Definitions
         /\ \A d \in Chosen(call) : definition[d] # None /\ Owner[d] = TargetClient(call)
         /\ Runnable(call) \subseteq Planned(call) /\ Planned(call) \subseteq Chosen(call)
<1>1. CASE call.tool = "run_batch"
  BY <1>1, CallTypes DEF Runnable, Chosen, Planned, TargetClient
<1>2. CASE call.tool = "run_all_batches"
  BY <1>2, CallTypes DEF Runnable, Chosen, DefinitionsOf, Planned, TargetClient
<1> QED BY <1>1, <1>2, CallTypes DEF RunCall

LEMMA CallClient ==
  ASSUME NEW call \in Calls PROVE TargetClient(call) \in Clients
<1>1. \A x \in Accounts \cup ImportSources \cup Definitions : Owner[x] \in Clients
  BY RowsAssumption
<1> QED BY <1>1, CallTypes DEF TargetClient

LEMMA ScopedCall ==
  ASSUME NEW call, NEW confirmed, ~Refused(call, confirmed), chat.scope # None
  PROVE  TargetClient(call) = chat.scope
BY DEF Refused, InScope

LEMMA ProposeInv ==
  ASSUME AgentInv, NEW call \in Calls, Propose(call)
  PROVE  AgentInv'
<1> DEFINE C == Showing({TargetClient(call)} \cup {SourceClient(d) : d \in Planned(call)}).clients
           plan == PlanOf(call, Planned(call))
           c == [chat EXCEPT !.awaiting = plan, !.shown = C]
<1>0. /\ chat.phase = "tools" /\ UNCHANGED <<workspaceVars, setting>>
      /\ chat' = AfterBlock(c) /\ ~Refused(call, FALSE)
  BY DEF Propose, Called
<1>1. session["agent"] = NoSession /\ chat.todo = {}  BY <1>0, NoSessionAtRest
<1>2. Planned(call) \subseteq Definitions
      /\ \A d \in Planned(call) : SourceClient(d) \in {TargetClient(call), None}
  <2>1. CASE RunCall(call)
    BY <2>1, ChosenRows, ReferredClients DEF AgentInv, WorkspaceInv
  <2>2. CASE ~RunCall(call)  BY <2>2 DEF RunCall, Planned
  <2> QED BY <2>1, <2>2
<1>3. C = {TargetClient(call)}
  <2>1. TargetClient(call) # None  BY CallClient, RowsAssumption
  <2> QED BY <1>2, <2>1 DEF Showing
<1>4. C \subseteq Clients /\ (chat.scope # None => C \subseteq {chat.scope})
  BY <1>0, <1>3, CallClient, ScopedCall
<1>5. plan \in PlanType /\ Covers(plan)
  BY <1>2, ChosenRows DEF PlanOf, PlanType, Covers
<1> HIDE DEF C, plan
<1>6. /\ c \in Chat /\ c.scope = chat.scope /\ c.shown = C /\ c.todo = {}
      /\ c.awaiting = plan /\ c.agreed = chat.agreed
  BY <1>1, <1>4, <1>5 DEF AgentInv, Chat
<1> HIDE DEF c
<1>7. Covers(c.awaiting) /\ Covers(c.agreed)  BY <1>5, <1>6 DEF AgentInv
<1>8. Resting(AfterBlock(c))  BY <1>4, <1>6, <1>7, AfterBlockRests
<1> QED BY <1>0, <1>1, <1>8, QuietInv

(* What is left to be started.                                              *)
LEMMA StartingInv ==
  ASSUME AgentInv, WorkspaceInv', setting' = setting, definition' = definition,
         RunsWereProposed', session'["agent"].op \in {"idle", "submit"},
         session'["agent"].source = None,
         chat.scope # None /\ session'["agent"].batch # 0 =>
           BatchClientId(session["agent"].batch)' = chat.scope,
         NEW todo, todo \subseteq [definition : Definitions, agreed : BOOLEAN, edited : BOOLEAN],
         \A x \in todo : /\ definition[x.definition] # None
                         /\ chat.scope # None => Owner[x.definition] = chat.scope
                         /\ ModelFollowsPrompt => Proposed(x),
         NEW c, c \in Chat, c.phase = "starting", c.todo = todo,
         c.scope = chat.scope, c.shown = chat.shown, c.awaiting = chat.awaiting,
         c.agreed = chat.agreed, chat' = c
  PROVE  AgentInv'
<1>1. SessionOfPhase' /\ EditOfCall'  BY DEF SessionOfPhase, EditOfCall
<1>2. TodoInv'  BY DEF TodoInv
<1>3. ScopeKept'  BY DEF AgentInv, ScopeKept
<1>4. Covers(chat.awaiting)' /\ Covers(chat.agreed)'
  BY DEF AgentInv, Covers, Runnable, Chosen, DefinitionsOf
<1> QED BY <1>1, <1>2, <1>3, <1>4 DEF AgentInv

LEMMA ToDoRows ==
  ASSUME AgentInv, NEW call \in Calls, RunCall(call), Called(call, TRUE), ~Refused(call, TRUE)
  PROVE  /\ ToDo(call) \subseteq [definition : Definitions, agreed : BOOLEAN, edited : BOOLEAN]
         /\ \A x \in ToDo(call) :
              /\ definition[x.definition] # None
              /\ chat.scope # None => Owner[x.definition] = chat.scope
              /\ ModelFollowsPrompt => Proposed(x)
<1> SUFFICES ASSUME NEW x \in ToDo(call)
             PROVE  /\ x \in [definition : Definitions, agreed : BOOLEAN, edited : BOOLEAN]
                    /\ definition[x.definition] # None
                    /\ chat.scope # None => Owner[x.definition] = chat.scope
                    /\ ModelFollowsPrompt => Proposed(x)
  OBVIOUS
<1>1. PICK d \in Runnable(call) :
        x = [definition |-> d,
             agreed |-> chat.agreed # None /\ chat.agreed.call = call
                        /\ d \in chat.agreed.definitions,
             edited |-> chat.agreed # None /\ d \in chat.agreed.edited]
  BY DEF ToDo
<1>2. d \in Definitions /\ definition[d] # None /\ Owner[d] = TargetClient(call)
  BY ChosenRows
<1>3. ModelFollowsPrompt => /\ chat.agreed # None /\ chat.agreed.call = call
                            /\ (d \in chat.agreed.definitions \/ d \in chat.agreed.edited)
  BY DEF AgentInv, Covers, Called
<1> QED BY <1>1, <1>2, <1>3, ScopedCall DEF Proposed

LEMMA ConfirmRunsInv ==
  ASSUME AgentInv, NEW call \in Calls, ConfirmRuns(call)
  PROVE  AgentInv'
<1>0. /\ RunCall(call) /\ Called(call, TRUE) /\ ~Refused(call, TRUE) /\ chat.phase = "tools"
      /\ UNCHANGED <<workspaceVars, setting>>
      /\ chat' = IF ToDo(call) = {} THEN AfterBlock(chat)
                 ELSE [chat EXCEPT !.phase = "starting", !.call = call, !.todo = ToDo(call)]
  BY DEF ConfirmRuns, RunCall, Called
<1>1. session["agent"] = NoSession /\ chat.todo = {}  BY <1>0, NoSessionAtRest
<1>2. CASE ToDo(call) = {}
  BY <1>0, <1>1, <1>2, BlockRests, QuietInv
<1>3. CASE ToDo(call) # {}
  <2> DEFINE c == [chat EXCEPT !.phase = "starting", !.call = call, !.todo = ToDo(call)]
  <2>1. /\ ToDo(call) \subseteq [definition : Definitions, agreed : BOOLEAN, edited : BOOLEAN]
        /\ \A x \in ToDo(call) :
             /\ definition[x.definition] # None
             /\ chat.scope # None => Owner[x.definition] = chat.scope
             /\ ModelFollowsPrompt => Proposed(x)
    BY <1>0, ToDoRows
  <2>2. /\ c \in Chat /\ c.phase = "starting" /\ c.todo = ToDo(call) /\ c.scope = chat.scope
        /\ c.shown = chat.shown /\ c.awaiting = chat.awaiting /\ c.agreed = chat.agreed
    BY <2>1 DEF AgentInv, Chat, Phases
  <2>3. WorkspaceInv' /\ RunsWereProposed' /\ definition' = definition
    BY <1>0, WorkspaceStutterInv DEF AgentInv, RunsWereProposed, workspaceVars
  <2>4. /\ session'["agent"].op = "idle" /\ session'["agent"].source = None
        /\ session'["agent"].batch = 0
    BY <1>0, <1>1 DEF workspaceVars, NoSession
  <2>5. chat' = c  BY <1>0, <1>3
  <2> HIDE DEF c
  <2> QED BY <1>0, <2>1, <2>2, <2>3, <2>4, <2>5, StartingInv
<1> QED BY <1>2, <1>3

LEMMA FailureRests == Resting(Failure)
<1>1. Covers(None)  BY DEF Covers
<1> QED BY <1>1, IdleRests DEF Failure

(* One of the runs leaves the list.                                         *)
LEMMA TodoShrinks ==
  ASSUME AgentInv, chat.phase = "starting", NEW x \in chat.todo
  PROVE  LET c == [chat EXCEPT !.todo = @ \ {x}] IN
         /\ c \in Chat /\ c.phase = "starting" /\ c.todo = chat.todo \ {x}
         /\ c.scope = chat.scope /\ c.shown = chat.shown /\ c.awaiting = chat.awaiting
         /\ c.agreed = chat.agreed
         /\ c.todo \subseteq [definition : Definitions, agreed : BOOLEAN, edited : BOOLEAN]
         /\ \A y \in chat.todo : /\ definition[y.definition] # None
                                 /\ chat.scope # None => Owner[y.definition] = chat.scope
                                 /\ ModelFollowsPrompt => Proposed(y)
<1>1. chat.todo \in SUBSET [definition : Definitions, agreed : BOOLEAN, edited : BOOLEAN]
  BY ChatTypes DEF AgentInv
<1>2. \A y \in chat.todo : /\ definition[y.definition] # None
                           /\ chat.scope # None => Owner[y.definition] = chat.scope
                           /\ ModelFollowsPrompt => Proposed(y)
  BY DEF AgentInv, TodoInv, ScopeKept
<1> QED BY <1>1, <1>2 DEF AgentInv, Chat

LEMMA IdleAgentSession ==
  ASSUME AgentInv, session["agent"].op = "idle"
  PROVE  session["agent"] = NoSession
BY AgentIsThread DEF AgentInv, WorkspaceInv, SourcesInv, SessionsHold

LEMMA StartRunInv ==
  ASSUME AgentInv, StartRun
  PROVE  AgentInv'
<1>0. PICK x \in chat.todo :
        /\ CreateBatch("agent", x.definition, x.agreed, x.edited)
        /\ chat' = [chat EXCEPT !.todo = @ \ {x}]
  BY DEF StartRun
<1>1. /\ chat.phase = "starting" /\ setting' = setting
      /\ UNCHANGED <<accounts, importSource, definition, queue, worker, changes, raced, overtaken>>
  BY DEF StartRun, NothingBegun
<1> DEFINE c == [chat EXCEPT !.todo = @ \ {x}]
<1>2. /\ c \in Chat /\ c.phase = "starting" /\ c.todo = chat.todo \ {x}
      /\ c.scope = chat.scope /\ c.shown = chat.shown /\ c.awaiting = chat.awaiting
      /\ c.agreed = chat.agreed
      /\ c.todo \subseteq [definition : Definitions, agreed : BOOLEAN, edited : BOOLEAN]
      /\ \A y \in chat.todo : /\ definition[y.definition] # None
                              /\ chat.scope # None => Owner[y.definition] = chat.scope
                              /\ ModelFollowsPrompt => Proposed(y)
  BY <1>1, TodoShrinks
<1>3. chat' = c  BY <1>0
<1>4. x.definition \in Definitions /\ x.agreed \in BOOLEAN /\ x.edited \in BOOLEAN
  BY ChatTypes DEF AgentInv
<1>a. definition[x.definition] # None /\ "agent" \in Threads  BY <1>2, AgentIsThread
<1>b. SourcesInv /\ RunsInv /\ WorkspaceInv  BY DEF AgentInv, WorkspaceInv
<1>c. CreateBatch("agent", x.definition, x.agreed, x.edited)  BY <1>0
<1> HIDE DEF c
<1>5. WorkspaceInv'
  BY <1>1, <1>4, <1>a, <1>b, <1>c, BatchCreated
<1>d. /\ batches' \in Seq(Batch) /\ DOMAIN batches' = DOMAIN batches \cup {Len(batches) + 1}
      /\ batches'[Len(batches) + 1] =
           [definition |-> x.definition, status |-> "live", agreed |-> x.agreed, edited |-> x.edited]
      /\ \A n \in DOMAIN batches : batches'[n] = batches[n]
  BY <1>4, <1>a, <1>b, <1>c, BatchAppended
<1>e. /\ session'["agent"].op = "submit" /\ session'["agent"].batch = Len(batches) + 1
      /\ session'["agent"].source = None
  BY <1>1, <1>a, <1>b, <1>c, CreateBatchInv
<1>6. RunsWereProposed'
  <2> SUFFICES ASSUME ModelFollowsPrompt, NEW n \in DOMAIN batches'
               PROVE  batches'[n].agreed \/ batches'[n].edited
    BY DEF RunsWereProposed
  <2>1. CASE n \in DOMAIN batches  BY <2>1, <1>d DEF AgentInv, RunsWereProposed
  <2>2. CASE n = Len(batches) + 1
    <3>1. batches'[n].agreed = x.agreed /\ batches'[n].edited = x.edited  BY <2>2, <1>d
    <3>2. x.agreed \/ x.edited  BY <1>2 DEF Proposed
    <3> QED BY <3>1, <3>2
  <2> QED BY <2>1, <2>2, <1>d
<1>7. chat.scope # None /\ session'["agent"].batch # 0 =>
        BatchClientId(session["agent"].batch)' = chat.scope
  <2>1. batches'[Len(batches) + 1].definition = x.definition  BY <1>d
  <2> QED BY <2>1, <1>2, <1>e DEF BatchClientId
<1>8. \A y \in c.todo : /\ definition[y.definition] # None
                        /\ chat.scope # None => Owner[y.definition] = chat.scope
                        /\ ModelFollowsPrompt => Proposed(y)
  BY <1>2
<1> QED BY <1>1, <1>2, <1>3, <1>5, <1>e, <1>6, <1>7, <1>8, StartingInv

(* The next run is begun, or the tool returns.                              *)
LEMMA NextRunInv ==
  ASSUME AgentInv, WorkspaceInv', setting' = setting, definition' = definition,
         batches' = batches, session'["agent"] = NoSession, chat.phase = "starting",
         NEW c \in Chat, c.phase = "starting", c.todo \subseteq chat.todo,
         c.scope = chat.scope, c.shown = chat.shown, c.awaiting = chat.awaiting,
         c.agreed = chat.agreed, chat' = NextRun(c)
  PROVE  AgentInv'
<1>1. RunsWereProposed'  BY DEF AgentInv, RunsWereProposed
<1>2. /\ NoSession.op = "idle" /\ NoSession.source = None /\ NoSession.batch = 0
  BY DEF NoSession
<1>3. CASE c.todo = {}
  <2>1. Resting(AfterBlock(c))  BY <1>3, AfterBlockRests DEF AgentInv, ScopeKept
  <2> QED BY <1>1, <1>3, <2>1, RestInv DEF NextRun
<1>4. CASE c.todo # {}
  <2>1. c.todo \subseteq [definition : Definitions, agreed : BOOLEAN, edited : BOOLEAN]
    BY ChatTypes
  <2>2. \A y \in c.todo : /\ definition[y.definition] # None
                          /\ chat.scope # None => Owner[y.definition] = chat.scope
                          /\ ModelFollowsPrompt => Proposed(y)
    BY DEF AgentInv, TodoInv, ScopeKept
  <2>3. chat' = c  BY <1>4 DEF NextRun
  <2> QED BY <1>1, <1>2, <2>1, <2>2, <2>3, StartingInv
<1> QED BY <1>3, <1>4

LEMMA SubmitRunInv ==
  ASSUME AgentInv, SubmitRun
  PROVE  AgentInv'
<1>1. WorkspaceInv'
  BY AgentIsThread, SubmitBatchInv DEF AgentInv, SubmitRun, SubmitBatch
<1>2. session'["agent"] = NoSession
  BY AgentIsThread DEF SubmitRun, Submit, AgentInv, WorkspaceInv, SourcesInv, SourcesTyped
<1> QED BY <1>1, <1>2, NextRunInv DEF SubmitRun, AgentInv

LEMMA CannotStartInv ==
  ASSUME AgentInv, CannotStart
  PROVE  AgentInv'
<1>1. /\ chat.phase = "starting" /\ session["agent"] = NoSession
      /\ UNCHANGED <<workspaceVars, setting>>
  BY IdleAgentSession DEF CannotStart, NothingBegun
<1>2. PICK x \in chat.todo :
        chat' = IF chat.call.tool = "run_batch" THEN Failure
                ELSE NextRun([chat EXCEPT !.todo = @ \ {x}])
  BY DEF CannotStart
<1>3. CASE chat.call.tool = "run_batch"
  BY <1>1, <1>2, <1>3, FailureRests, QuietInv
<1>4. CASE chat.call.tool # "run_batch"
  <2> DEFINE c == [chat EXCEPT !.todo = @ \ {x}]
  <2>1. /\ c \in Chat /\ c.phase = "starting" /\ c.todo = chat.todo \ {x}
        /\ c.scope = chat.scope /\ c.shown = chat.shown /\ c.awaiting = chat.awaiting
        /\ c.agreed = chat.agreed
    BY <1>1, TodoShrinks
  <2>2. chat' = NextRun(c)  BY <1>2, <1>4
  <2> HIDE DEF c
  <2>3. /\ WorkspaceInv' /\ definition' = definition /\ batches' = batches
        /\ session'["agent"] = NoSession /\ setting' = setting
    BY <1>1, WorkspaceStutterInv DEF AgentInv, workspaceVars
  <2> QED BY <1>1, <2>1, <2>2, <2>3, NextRunInv
<1> QED BY <1>3, <1>4

(* An import source that is being edited or probed.                         *)
LEMMA EditingInv ==
  ASSUME AgentInv, WorkspaceInv', setting' = setting, definition' = definition,
         batches' = batches, chat.todo = {}, NEW call \in Calls,
         call.tool = "update_import_source", chat.scope # None => Owner[call.on] = chat.scope,
         NEW phase \in {"editing", "probing"},
         session'["agent"].op = IF phase = "editing" THEN "edit" ELSE "poll",
         session'["agent"].source = call.on,
         session'["agent"].batch = 0,
         chat' = [chat EXCEPT !.phase = phase, !.call = call]
  PROVE  AgentInv'
<1>1. /\ chat' \in Chat /\ chat'.phase = phase /\ chat'.call = call /\ chat'.todo = {}
      /\ chat'.scope = chat.scope /\ chat'.shown = chat.shown
      /\ chat'.awaiting = chat.awaiting /\ chat'.agreed = chat.agreed
  BY DEF AgentInv, Chat, Phases
<1>2. SessionOfPhase' /\ EditOfCall' /\ TodoInv'
  BY <1>1 DEF SessionOfPhase, EditOfCall, TodoInv
<1>3. ScopeKept'  BY <1>1 DEF AgentInv, ScopeKept
<1>4. RunsWereProposed'  BY DEF AgentInv, RunsWereProposed
<1>5. Covers(chat.awaiting)' /\ Covers(chat.agreed)'
  BY <1>1 DEF AgentInv, Covers, Runnable, Chosen, DefinitionsOf
<1> QED BY <1>1, <1>2, <1>3, <1>4, <1>5 DEF AgentInv

LEMMA ConfirmEditInv ==
  ASSUME AgentInv, NEW call \in Calls, ConfirmEdit(call)
  PROVE  AgentInv'
<1>0. /\ chat.phase = "tools" /\ ~Refused(call, TRUE) /\ call.tool = "update_import_source"
      /\ setting' = setting /\ definition' = definition /\ batches' = batches
      /\ importSource' = importSource /\ raced' = raced
      /\ chat' = [chat EXCEPT !.phase = "editing", !.call = call]
  BY DEF ConfirmEdit, Called
<1>1. chat.todo = {}  BY <1>0, NoSessionAtRest
<1>2. call.on \in ImportSources  BY <1>0, CallTypes
<1>3. WorkspaceInv'
  <2>1. OpenImportSource("agent", call.on)  BY DEF ConfirmEdit, OpenImportSource
  <2> QED BY <1>2, <2>1, AgentIsThread, OpenImportSourceInv DEF AgentInv
<1>4. /\ session'["agent"].op = "edit" /\ session'["agent"].source = call.on
      /\ session'["agent"].batch = 0
  <2>1. Load("agent", "edit", call.on) /\ importSource[call.on] # None
    BY DEF ConfirmEdit, BeginEdit
  <2> QED BY <1>0, <1>2, <2>1, AgentIsThread, LoadInv DEF AgentInv, WorkspaceInv
<1>5. chat.scope # None => Owner[call.on] = chat.scope
  BY <1>0, ScopedCall DEF TargetClient
<1> QED BY <1>0, <1>1, <1>3, <1>4, <1>5, EditingInv

(* The row that is being edited or probed is one of the scope's.            *)
LEMMA EditedSource ==
  ASSUME AgentInv, chat.phase \in {"editing", "probing"}
  PROVE  /\ chat.call \in Calls /\ chat.call.tool = "update_import_source"
         /\ chat.call.on \in ImportSources /\ chat.call.patch \in Patches
         /\ session["agent"].source = chat.call.on /\ session["agent"].batch = 0
         /\ chat.todo = {} /\ Owner[chat.call.on] \in Clients
         /\ chat.scope # None => Owner[chat.call.on] = chat.scope
<1>1. /\ chat.call \in Calls /\ chat.call.tool = "update_import_source"
      /\ session["agent"].source = chat.call.on
  BY DEF AgentInv, EditOfCall
<1>2. chat.call.on \in ImportSources /\ chat.call.patch \in Patches  BY <1>1, CallTypes
<1>3. session["agent"].batch = 0
  <2>1. session["agent"].op # "submit"  BY DEF AgentInv, SessionOfPhase
  <2> QED BY <2>1, AgentIsThread DEF AgentInv, WorkspaceInv, RunsInv, SessionRuns
<1>4. chat.call.on # None  BY <1>2, RowsAssumption
<1>5. chat.scope # None => Owner[chat.call.on] = chat.scope
  BY <1>1, <1>4 DEF AgentInv, ScopeKept
<1>6. chat.todo = {}  BY DEF AgentInv, TodoInv
<1>7. Owner[chat.call.on] \in Clients  BY <1>2, RowsAssumption
<1> QED BY <1>1, <1>2, <1>3, <1>5, <1>6, <1>7

LEMMA SaveEditInv ==
  ASSUME AgentInv, SaveEdit
  PROVE  AgentInv'
<1>0. /\ chat.phase = "editing" /\ setting' = setting
      /\ UNCHANGED <<accounts, definition, batches, queue, worker, changes, overtaken>>
  BY DEF SaveEdit
<1> DEFINE p == chat.call.patch
<1>1. /\ chat.call \in Calls /\ chat.call.tool = "update_import_source" /\ p \in Patches
      /\ session["agent"].source = chat.call.on /\ session["agent"].batch = 0
      /\ chat.todo = {} /\ (chat.scope # None => Owner[chat.call.on] = chat.scope)
  BY <1>0, EditedSource
<1>2. CASE CommitEdit("agent", p, ProbeNext(p)) /\ chat' = [chat EXCEPT !.phase = "probing"]
  <2>0. SourcesInv /\ RunsInv /\ ReferencesInv /\ session["agent"] \in Session
    BY AgentIsThread DEF AgentInv, WorkspaceInv, SourcesInv, SourcesTyped
  <2>1. Goes("agent", Edited(Copy("agent"), p), ProbeNext(p))
    BY <1>2 DEF Goes, ProbeNext, Copy, CommitEdit
  <2>2. /\ SourcesInv'
        /\ \A i \in ImportSources : importSource[i] # None => importSource'[i] # None
        /\ Commits("agent", Edited(Copy("agent"), p), ProbeNext(p)) /\ Holds("agent")
        /\ Edited(Copy("agent"), p) \in SourceRow
    BY <1>1, <1>2, <2>0, <2>1, AgentIsThread, CommitEditInv
  <2>3. \A u \in Threads : SessionRuns(u)'
    BY <1>0, <2>0, <2>1, <2>2, AgentIsThread, CommitRuns
  <2>4. RunsInv'  BY <1>0, <2>0, <2>3, RunsKept
  <2>5. ReferencesInv'  BY <1>0, <2>0, <2>2, ReferencesKept
  <2>6. WorkspaceInv'  BY <1>0, <2>2, <2>4, <2>5 DEF AgentInv, WorkspaceInv
  <2>7. session'["agent"] = ProbeNext(p)
    BY <1>2, AgentIsThread DEF CommitEdit, Overtaken
  <2>8. /\ session'["agent"].op = "poll" /\ session'["agent"].source = chat.call.on
        /\ session'["agent"].batch = 0
    BY <1>1, <2>0, <2>7 DEF ProbeNext, Session
  <2>9. chat' = [chat EXCEPT !.phase = "probing", !.call = chat.call]
    BY <1>2 DEF AgentInv, Chat
  <2> QED BY <1>0, <1>1, <2>6, <2>8, <2>9, EditingInv
<1>3. CASE RefuseEdit("agent", p) /\ chat' = AfterBlock(chat)
  <2>1. SaveImportSource("agent")  BY <1>0, <1>1, <1>3 DEF SaveImportSource
  <2>2. WorkspaceInv'  BY <2>1, AgentIsThread, SaveImportSourceInv DEF AgentInv
  <2>3. session'["agent"] = NoSession
    BY <1>3, AgentIsThread DEF RefuseEdit, AgentInv, WorkspaceInv, SourcesInv, SourcesTyped
  <2>4. Resting(chat')  BY <1>1, <1>3, BlockRests
  <2>5. RunsWereProposed'  BY <1>0 DEF AgentInv, RunsWereProposed
  <2> QED BY <1>0, <2>2, <2>3, <2>4, <2>5, RestInv
<1> QED BY <1>2, <1>3 DEF SaveEdit

LEMMA ProbeEditInv ==
  ASSUME AgentInv, ProbeEdit
  PROVE  AgentInv'
<1>0. /\ chat.phase = "probing" /\ setting' = setting
      /\ UNCHANGED <<accounts, definition, batches, queue, worker, changes, overtaken>>
  BY DEF ProbeEdit
<1>1. /\ session["agent"].source = chat.call.on /\ chat.todo = {}
      /\ {Owner[chat.call.on]} \in SUBSET Clients
      /\ (chat.scope # None => {Owner[chat.call.on]} \subseteq {chat.scope})
  BY <1>0, EditedSource
<1>2. RunsWereProposed'  BY <1>0 DEF AgentInv, RunsWereProposed
<1>3. CASE /\ \E found \in Discoverable(session["agent"].loaded,
                                        SourcesOf[Owner[chat.call.on]]) :
                CommitPoll("agent", found)
           /\ chat' = AfterBlock([chat EXCEPT !.shown = {Owner[chat.call.on]}])
  <2>1. ProbeImportSource("agent")
    BY <1>0, <1>1, <1>3 DEF ProbeImportSource, CommitPoll
  <2>2. WorkspaceInv'  BY <2>1, AgentIsThread, ProbeImportSourceInv DEF AgentInv
  <2>3. session'["agent"] = NoSession
    BY <1>3, AgentIsThread DEF CommitPoll, Overtaken
  <2>4. Resting(chat')  BY <1>1, <1>3, ShownRests
  <2> QED BY <1>0, <1>2, <2>2, <2>3, <2>4, RestInv
<1>4. CASE LosePoll("agent") /\ chat' = Failure
  <2>0. SourcesInv /\ RunsInv /\ ReferencesInv /\ session \in [Threads -> Session]
    BY DEF AgentInv, WorkspaceInv, SourcesInv, SourcesTyped
  <2>1. /\ session' = [session EXCEPT !["agent"] = NoSession]
        /\ importSource' = importSource /\ raced' = raced
    BY <1>4 DEF LosePoll
  <2>2. SourcesInv'  BY <2>0, <2>1, AgentIsThread, ReleaseInv
  <2>3. \A u \in Threads : SessionRuns(u)'  BY <1>0, <2>0, <2>1, AgentIsThread, LetGo
  <2>4. RunsInv'  BY <1>0, <2>0, <2>3, RunsKept
  <2>5. ReferencesInv'  BY <1>0, <2>0, <2>1, ReferencesKept
  <2>6. WorkspaceInv'  BY <1>0, <2>2, <2>4, <2>5 DEF AgentInv, WorkspaceInv
  <2>7. session'["agent"] = NoSession  BY <2>0, <2>1, AgentIsThread
  <2>8. Resting(chat')  BY <1>4, FailureRests
  <2> QED BY <1>0, <1>2, <2>6, <2>7, <2>8, RestInv
<1> QED BY <1>3, <1>4 DEF ProbeEdit

LEMMA AgentStutterInv == ASSUME AgentInv, UNCHANGED vars PROVE AgentInv'
<1>1. WorkspaceInv'  BY WorkspaceStutterInv DEF AgentInv, vars
<1>2. UNCHANGED <<batches, definition, session>> /\ chat' = chat /\ setting' = setting
  BY DEF vars, workspaceVars
<1>3. SessionOfPhase' /\ EditOfCall' /\ TodoInv' /\ ScopeKept' /\ RunsWereProposed'
  BY <1>2 DEF AgentInv, SessionOfPhase, EditOfCall, TodoInv, ScopeKept, BatchClientId,
     RunsWereProposed, Proposed
<1>4. Covers(chat.awaiting)' /\ Covers(chat.agreed)'
  BY <1>2 DEF AgentInv, Covers, Runnable, Chosen, DefinitionsOf
<1> QED BY <1>1, <1>2, <1>3, <1>4 DEF AgentInv

LEMMA ToolStepInv == ASSUME AgentInv, ToolStep PROVE AgentInv'
BY ReadToolInv, RefuseCallInv, ProposeInv, ConfirmRunsInv, ConfirmEditInv DEF ToolStep

LEMMA EffectStepInv == ASSUME AgentInv, EffectStep PROVE AgentInv'
BY StartRunInv, SubmitRunInv, CannotStartInv, SaveEditInv, ProbeEditInv DEF EffectStep

-----------------------------------------------------------------------------
(* The theorems.                                                            *)

(* The inductive invariant of a conversation beside operators and worker.   *)
THEOREM AgentInvariant == AgentSpec => []AgentInv
<1>1. AgentInit => AgentInv  BY InitAgentInv
<1>2. AgentInv /\ [AgentNext]_vars => AgentInv'
  <2> SUFFICES ASSUME AgentInv, [AgentNext]_vars PROVE AgentInv'
    OBVIOUS
  <2>1. CASE UserAsks \/ UserAgrees  BY <2>1, UserInv
  <2>2. CASE ModelReplies  BY <2>2, ModelInv
  <2>3. CASE ToolStep  BY <2>3, ToolStepInv
  <2>4. CASE EffectStep  BY <2>4, EffectStepInv
  <2>5. CASE OthersStep  BY <2>5, OthersInv
  <2>6. CASE UNCHANGED vars  BY <2>6, AgentStutterInv
  <2> QED BY <2>1, <2>2, <2>3, <2>4, <2>5, <2>6 DEF AgentNext, AgentProgress
<1> QED BY <1>1, <1>2, PTL DEF AgentSpec

(* Type correctness of the conversation, of the workspace beside it, and    *)
(* that the agent's session is one its turn is in the middle of using.      *)
THEOREM AgentTypeCorrect == AgentSpec => []AgentTypeOK
<1>1. AgentInv => AgentTypeOK  BY InvImpliesTypeOK DEF AgentInv, AgentTypeOK
<1> QED BY <1>1, AgentInvariant, PTL

(* Whatever the model calls and whoever else is at work: a conversation     *)
(* about one client is shown, starts and edits rows of that client only.    *)
THEOREM ScopeAlwaysKept == AgentSpec => []ScopeKept
<1>1. AgentInv => ScopeKept  BY DEF AgentInv
<1> QED BY <1>1, AgentInvariant, PTL

(* With a model that confirms only the call whose plan the user agreed to,  *)
(* every run the agent starts was in that plan, or its definition was       *)
(* created or edited after the plan was shown.                              *)
THEOREM ProposedRuns == AgentSpec => []RunsWereProposed
<1>1. AgentInv => RunsWereProposed  BY DEF AgentInv
<1> QED BY <1>1, AgentInvariant, PTL

=============================================================================
