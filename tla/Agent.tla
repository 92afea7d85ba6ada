-------------------------------- MODULE Agent -------------------------------
(***************************************************************************)
(* The AI Finance Controller: one conversation with it, beside operators   *)
(* and the worker at work in the Workspace.  A turn is one request: the    *)
(* model is asked, the tools it calls are executed and it is asked again,  *)
(* until it answers or the budget of rounds is spent.  The server keeps    *)
(* nothing between turns; what the user agrees to is the plan that the     *)
(* last answer showed.  What the model does is external: it may call any   *)
(* tool with any arguments, answer, or fail, at any time.                  *)
(***************************************************************************)
EXTENDS AgentTools

CONSTANTS
  Subsets,             \* the lists of definitions the model asks to be run, {} for all
  ProviderSettings,    \* the ways AGENT_PROVIDER and the API keys may be set
  MaxToolIterations,   \* _MAX_TOOL_ITERATIONS
  MaxBlocks,           \* bound: tool calls in one reply of the model
  ModelFollowsPrompt   \* does the model confirm only what the user agreed to?

ASSUME AgentAssumption ==
  /\ \A S \in Subsets : S \subseteq Definitions
  /\ MaxToolIterations \in Nat \ {0} /\ MaxBlocks \in Nat

VARIABLES
  setting,   \* the provider setting the server was started with
  chat       \* the conversation, with the request that serves its current turn

vars == <<workspaceVars, setting, chat>>

IdleChat ==
  [ phase |-> "idle", scope |-> None, round |-> 0, blocks |-> 0, awaiting |-> None,
    agreed |-> None, call |-> None, todo |-> {}, shown |-> {} ]

AgentInit ==
  /\ WorkspaceInit
  /\ setting \in ProviderSettings
  /\ chat = IdleChat

(* The calls of tools that change something, without the confirmation.      *)
Calls ==
  [tool : {"run_batch"}, on : Definitions, codes : {{}}, patch : {None}]
  \cup [tool : {"run_all_batches"}, on : Clients, codes : Subsets, patch : {None}]
  \cup [tool : {"update_import_source"}, on : ImportSources, codes : {{}}, patch : Patches]

(* A plan shown: the call, the definitions it would have started, and those *)
(* created or edited since (a ghost).                                       *)
PlanOf(call, D) == [call |-> call, definitions |-> D, edited |-> {}]

-----------------------------------------------------------------------------
(* The provider.                                                            *)

VendorOrder == <<"gemini", "anthropic", "openai", "groq">>

(* get_provider(): a forced vendor that is unknown or has no key raises, and*)
(* without any key it is the NotConfiguredProvider.                         *)
GetProvider(s) ==
  IF s.forced # None
  THEN IF s.forced \in s.keys THEN s.forced ELSE "raises"
  ELSE IF s.keys = {} THEN "unconfigured"
  ELSE LET k == CHOOSE k \in DOMAIN VendorOrder :
                  /\ VendorOrder[k] \in s.keys
                  /\ \A j \in 1..(k - 1) : VendorOrder[j] \notin s.keys
       IN VendorOrder[k]

-----------------------------------------------------------------------------
(* A turn.                                                                  *)

(* The panel sends the transcript.  get_provider() is called outside of the *)
(* handler's try: if it raises the turn ends with HTTP 500.                 *)
BeginTurn(scope, agreed) ==
  /\ chat.phase = "idle"
  /\ chat' = IF GetProvider(setting) = "raises" THEN IdleChat
             ELSE [IdleChat EXCEPT !.phase = "model", !.scope = scope, !.agreed = agreed]
  /\ UNCHANGED <<workspaceVars, setting>>

UserAsks == \E scope \in ClientIds : BeginTurn(scope, None)

(* The user says yes to the plan on the screen, whatever client is selected.*)
UserAgrees ==
  /\ chat.awaiting # None
  /\ \E scope \in ClientIds : BeginTurn(scope, chat.awaiting)

(* An answer carries the last plan that a tool returned ...                 *)
AnswerOf(c) == [IdleChat EXCEPT !.awaiting = c.awaiting]

(* ... and that of a turn in which something raised carries none.           *)
Failure == IdleChat

(* Seeded fault: a round of tool calls is not counted.                      *)
AfterBlock_Uncounted(c) ==
  IF c.blocks > 1 THEN [c EXCEPT !.phase = "tools", !.call = None, !.blocks = @ - 1]
  ELSE [c EXCEPT !.phase = "model", !.call = None, !.blocks = 0]

(* Seeded fault: the budget is off by one.                                  *)
AfterBlock_OneMore(c) ==
  IF c.blocks > 1 THEN [c EXCEPT !.phase = "tools", !.call = None, !.blocks = @ - 1]
  ELSE IF c.round = MaxToolIterations THEN AnswerOf(c)
  ELSE [c EXCEPT !.phase = "model", !.call = None, !.blocks = 0, !.round = @ + 1]

(* A tool call has its result: the next one, or the next round if the       *)
(* budget is not spent.                                                     *)
AfterBlock(c) ==
  IF c.blocks > 1 THEN [c EXCEPT !.phase = "tools", !.call = None, !.blocks = @ - 1]
  ELSE IF c.round + 1 = MaxToolIterations THEN AnswerOf(c)
  ELSE [c EXCEPT !.phase = "model", !.call = None, !.blocks = 0, !.round = @ + 1]

Configured == GetProvider(setting) # "unconfigured"

ModelAnswers ==
  /\ chat.phase = "model" /\ Configured
  /\ chat' = AnswerOf(chat)
  /\ UNCHANGED <<workspaceVars, setting>>

(* The provider errs or times out, or there is none.                        *)
ModelFails ==
  /\ chat.phase = "model"
  /\ chat' = Failure
  /\ UNCHANGED <<workspaceVars, setting>>

ModelCallsTools ==
  /\ chat.phase = "model" /\ Configured
  /\ \E n \in 1..MaxBlocks : chat' = [chat EXCEPT !.phase = "tools", !.blocks = n, !.shown = {}]
  /\ UNCHANGED <<workspaceVars, setting>>

ReadTool ==
  /\ chat.phase = "tools"
  /\ \E r \in ReadToolResults(chat.scope) :
       chat' = IF r.kind = "raises" THEN Failure
               ELSE AfterBlock([chat EXCEPT !.shown = r.clients])
  /\ UNCHANGED <<workspaceVars, setting>>

-----------------------------------------------------------------------------
(* The tools that change something.                                         *)

(* The definitions a run tool is about.                                     *)
Chosen(call) ==
  IF call.tool = "run_batch" THEN {d \in {call.on} : definition[d] # None}
  ELSE {d \in DefinitionsOf(call.on) : call.codes = {} \/ d \in call.codes}

(* run_all_batches() leaves the disabled ones out, run_batch() refuses.     *)
Runnable(call) == {d \in Chosen(call) : definition[d].enabled}

TargetClient(call) == IF call.tool = "run_all_batches" THEN call.on ELSE Owner[call.on]

(* The model calls one of them.  A model that follows the prompt confirms   *)
(* only the call whose plan the user has just agreed to.                    *)
Called(call, confirmed) ==
  /\ chat.phase = "tools"
  /\ call \in Calls
  /\ ModelFollowsPrompt /\ confirmed => chat.agreed # None /\ chat.agreed.call = call

(* An id that nothing has, another client's row, nothing to run or change.  *)
Refused(call, confirmed) ==
  \/ ~InScope(chat.scope, TargetClient(call))
  \/ call.tool = "run_batch" /\ Chosen(call) = {}
  \/ call.tool = "run_batch" /\ confirmed /\ Runnable(call) = {}
  \/ call.tool = "run_all_batches" /\ call.codes # {} /\ Chosen(call) = {}
  \/ call.tool = "update_import_source" /\ importSource[call.on] = None
  \/ call.tool = "update_import_source" /\ DOMAIN call.patch = {}

RefuseCall(call, confirmed) ==
  /\ Called(call, confirmed)
  /\ Refused(call, confirmed)
  /\ chat' = AfterBlock(chat)
  /\ UNCHANGED <<workspaceVars, setting>>

Planned(call) ==
  CASE call.tool = "run_batch"            -> Chosen(call)
    [] call.tool = "run_all_batches"      -> Runnable(call)
    [] call.tool = "update_import_source" -> {}

(* Without confirmed=true the tool returns the plan and does nothing.       *)
Propose(call) ==
  /\ Called(call, FALSE)
  /\ ~Refused(call, FALSE)
  /\ chat' = AfterBlock([chat EXCEPT
               !.awaiting = PlanOf(call, Planned(call)),
               !.shown = Showing({TargetClient(call)}
                                 \cup {SourceClient(d) : d \in Planned(call)}).clients])
  /\ UNCHANGED <<workspaceVars, setting>>

(* Seeded fault: what is started includes what the plan leaves out.         *)
ToDo_Disabled(call) ==
  {[definition |-> d,
    agreed |-> chat.agreed # None /\ chat.agreed.call = call /\ d \in chat.agreed.definitions,
    edited |-> chat.agreed # None /\ d \in chat.agreed.edited] : d \in Chosen(call)}

(* What is to be started, and what the user knew of it.                     *)
ToDo(call) ==
  {[definition |-> d,
    agreed |-> chat.agreed # None /\ chat.agreed.call = call /\ d \in chat.agreed.definitions,
    edited |-> chat.agreed # None /\ d \in chat.agreed.edited] : d \in Runnable(call)}

(* run_batch(), run_all_batches(), confirmed: the definitions are read ...  *)
ConfirmRuns(call) ==
  /\ call.tool # "update_import_source"
  /\ Called(call, TRUE)
  /\ ~Refused(call, TRUE)
  /\ chat' = IF ToDo(call) = {} THEN AfterBlock(chat)
             ELSE [chat EXCEPT !.phase = "starting", !.call = call, !.todo = ToDo(call)]
  /\ UNCHANGED <<workspaceVars, setting>>

NothingBegun == chat.phase = "starting" /\ session["agent"].op = "idle"

(* ... and one after the other is created, committed ...                    *)
StartRun ==
  /\ NothingBegun
  /\ \E x \in chat.todo :
       /\ CreateBatch("agent", x.definition, x.agreed, x.edited)
       /\ chat' = [chat EXCEPT !.todo = @ \ {x}]
  /\ UNCHANGED <<accounts, importSource, definition, queue, worker, changes, raced, overtaken, setting>>

NextRun(c) == IF c.todo = {} THEN AfterBlock(c) ELSE c

(* ... and submitted.                                                       *)
SubmitRun ==
  /\ chat.phase = "starting"
  /\ Submit("agent")
  /\ chat' = NextRun(chat)
  /\ UNCHANGED <<accounts, importSource, definition, batches, worker, changes, raced, setting>>

(* create_batch() raises: run_all_batches() skips the definition, with      *)
(* run_batch() the turn fails.                                              *)
CannotStart ==
  /\ NothingBegun
  /\ \E x \in chat.todo :
       chat' = IF chat.call.tool = "run_batch" THEN Failure
               ELSE NextRun([chat EXCEPT !.todo = @ \ {x}])
  /\ UNCHANGED <<workspaceVars, setting>>

(* update_import_source(), confirmed: loaded ...                            *)
ConfirmEdit(call) ==
  /\ call.tool = "update_import_source"
  /\ Called(call, TRUE)
  /\ ~Refused(call, TRUE)
  /\ Requested
  /\ BeginEdit("agent", call.on)
  /\ chat' = [chat EXCEPT !.phase = "editing", !.call = call]
  /\ UNCHANGED <<accounts, importSource, definition, batches, queue, worker, raced, overtaken, setting>>

(* The session goes on to probe with the copy it has just saved.            *)
ProbeNext(p) == [session["agent"] EXCEPT !.op = "poll", !.loaded = Edited(@, p)]

(* ... saved, or refused by the validation ...                              *)
SaveEdit ==
  /\ chat.phase = "editing"
  /\ \/ /\ CommitEdit("agent", chat.call.patch, ProbeNext(chat.call.patch))
        /\ chat' = [chat EXCEPT !.phase = "probing"]
     \/ /\ RefuseEdit("agent", chat.call.patch)
        /\ chat' = AfterBlock(chat)
  /\ UNCHANGED <<accounts, definition, batches, queue, worker, changes, overtaken, setting>>

(* ... and probed.  If that raises the turn fails, the edit being saved.    *)
ProbeEdit ==
  /\ chat.phase = "probing"
  /\ \/ /\ \E found \in Discoverable(session["agent"].loaded, SourcesOf[Owner[chat.call.on]]) :
             CommitPoll("agent", found)
        /\ chat' = AfterBlock([chat EXCEPT !.shown = {Owner[chat.call.on]}])
     \/ /\ LosePoll("agent")
        /\ chat' = Failure
  /\ UNCHANGED <<accounts, definition, batches, queue, worker, changes, overtaken, setting>>

-----------------------------------------------------------------------------
(* The whole.                                                               *)

ModelReplies == ModelAnswers \/ ModelFails \/ ModelCallsTools

ToolStep ==
  \/ ReadTool
  \/ \E call \in Calls :
       \/ \E confirmed \in BOOLEAN : RefuseCall(call, confirmed)
       \/ Propose(call) \/ ConfirmRuns(call) \/ ConfirmEdit(call)

EffectStep == StartRun \/ SubmitRun \/ CannotStart \/ SaveEdit \/ ProbeEdit

AgentProgress == ModelReplies \/ ToolStep \/ EffectStep

(* Others change the workspace; which definitions they touched is noted.    *)
NoteEdits(plan, D) == IF plan = None THEN None ELSE [plan EXCEPT !.edited = @ \cup D]

OthersStep ==
  /\ WorkspaceNext
  /\ LET D == {d \in Definitions : definition'[d] # definition[d]} IN
       chat' = [chat EXCEPT !.awaiting = NoteEdits(@, D), !.agreed = NoteEdits(@, D)]
  /\ UNCHANGED setting

AgentNext == UserAsks \/ UserAgrees \/ AgentProgress \/ OthersStep

(* The request's thread goes on, and a call of the provider ends, with a    *)
(* reply or with an error: the vendors' clients time out.                   *)
AgentSpec == AgentInit /\ [][AgentNext]_vars /\ WF_vars(AgentProgress)

-----------------------------------------------------------------------------
(* Properties.                                                              *)

PlanType == [call : Calls, definitions : SUBSET Definitions, edited : SUBSET Definitions]

Phases == {"idle", "model", "tools", "starting", "editing", "probing"}

Chat ==
  [ phase : Phases, scope : ClientIds, round : 0..(MaxToolIterations - 1), blocks : 0..MaxBlocks,
    awaiting : PlanType \cup {None}, agreed : PlanType \cup {None}, call : Calls \cup {None},
    todo : SUBSET [definition : Definitions, agreed : BOOLEAN, edited : BOOLEAN],
    shown : SUBSET Clients ]

(* The agent's session belongs to the phase its turn is in.                 *)
SessionOfPhase ==
  CASE chat.phase = "starting" -> session["agent"].op \in {"idle", "submit"}
    [] chat.phase = "editing"  -> session["agent"].op = "edit"
    [] chat.phase = "probing"  -> session["agent"].op = "poll"
    [] chat.phase \notin {"starting", "editing", "probing"} -> session["agent"] = NoSession

(* Type correctness of the conversation.                                    *)
AgentTypeOK ==
  /\ WorkspaceTypeOK
  /\ setting \in ProviderSettings
  /\ chat \in Chat
  /\ SessionOfPhase

(* A conversation scoped to a client shows, starts and edits that client's  *)
(* rows only.                                                               *)
ScopeKept ==
  chat.scope # None =>
    /\ chat.shown \subseteq {chat.scope}
    /\ \A x \in chat.todo : Owner[x.definition] = chat.scope
    /\ session["agent"].source # None => Owner[session["agent"].source] = chat.scope
    /\ session["agent"].batch # 0 => BatchClientId(session["agent"].batch) = chat.scope

(* Every run the agent starts was in the plan that the user agreed to,      *)
(* unless its definition was created or edited after the plan was shown.    *)
(* That presupposes a model that confirms only what the user agreed to.     *)
RunsWereProposed ==
  ModelFollowsPrompt => \A n \in DOMAIN batches : batches[n].agreed \/ batches[n].edited

(* tools.py: an operator must be shown exactly what is about to run and say *)
(* yes before anything executes, whether or not the prompt is followed.     *)
AgreedRuns == \A n \in DOMAIN batches : batches[n].agreed

(* Every turn is answered, whatever the model does: the budget of rounds    *)
(* ends a model that goes on calling tools.                                 *)
EveryTurnAnswered == chat.phase # "idle" ~> chat.phase = "idle"

=============================================================================
