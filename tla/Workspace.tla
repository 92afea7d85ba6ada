------------------------------ MODULE Workspace -----------------------------
(***************************************************************************)
(* What the Reconciliation window edits and starts: bank accounts, import  *)
(* sources, batch definitions, and the runs of definitions.  BatchRunner   *)
(* models a run in detail; here it polls its import source and ends.       *)
(*                                                                         *)
(* A request loads a row, works on that copy and commits.  Autoflush is    *)
(* off and a commit expires nothing: the UPDATE names the attributes whose *)
(* value differs from the copy's and looks at nothing else, so two         *)
(* sessions on one import source interleave between load and commit.  The  *)
(* files at a location come and go as the outside world likes.             *)
(***************************************************************************)
EXTENDS Naturals, FiniteSets, Sequences

CONSTANTS
  Clients,
  Accounts, ImportSources, Definitions,   \* identities of rows
  Owner,            \* the client of each account, import source and definition
  SourcesOf,        \* data source codes configured for each client
  Types,            \* reconciliation types
  ScopedTypes,      \* ... that reconcile one account and must name it
  Usable,           \* the kinds and connections validate_connection() accepts
  SourceForms, DefinitionForms,   \* what operators fill in when they create a row
  Patches,          \* ... and when they change an import source
  SeededAccounts, SeededSources, SeededDefinitions,   \* the rows there are at the start
  Operators,        \* request threads that serve operators
  None,
  MaxChanges,       \* bound: requests of operators that change or poll a row
  MaxBatches        \* bound: runs

Codes == UNION {SourcesOf[c] : c \in Clients}
Kinds == {u[1] : u \in Usable}
Connections == {u[2] : u \in Usable}
Threads == Operators \cup {"worker", "agent"}

DefinitionRow ==
  [ type : Types, account : Accounts \cup {None}, source : ImportSources \cup {None},
    wanted : SUBSET Codes, enabled : BOOLEAN ]

(* What a poll leaves: how many sources it found, and where it looked.      *)
PollMessage == [ count : Nat, at : Kinds \X Connections ]

SourceRow ==
  [ kind : Kinds, connection : Connections, enabled : BOOLEAN, status : {None, "OK", "EMPTY"},
    message : PollMessage \cup {None} ]

ASSUME RowsAssumption ==
  /\ None \notin Clients \cup Accounts \cup ImportSources \cup Definitions
  /\ Owner \in [Accounts \cup ImportSources \cup Definitions -> Clients]
  /\ SourcesOf \in [Clients -> SUBSET Codes] /\ IsFiniteSet(Codes)
  /\ Usable \subseteq Kinds \X Connections
  /\ "worker" \notin Operators /\ "agent" \notin Operators
  /\ None \notin DefinitionRow \cup SourceRow \cup PollMessage \cup {"OK", "EMPTY", "live"}

ASSUME FormsAssumption ==
  /\ \A f \in SourceForms : f.enabled \in BOOLEAN
  /\ DefinitionForms \subseteq DefinitionRow
  /\ \A p \in Patches : "enabled" \in DOMAIN p => p["enabled"] \in BOOLEAN

(* The rows there are at the start: not polled yet, and valid.              *)
ASSUME SeedsAssumption ==
  /\ SeededAccounts \subseteq Accounts
  /\ SeededSources \in [ImportSources -> SourceRow \cup {None}]
  /\ \A i \in ImportSources : SeededSources[i] # None =>
       SeededSources[i].status = None /\ SeededSources[i].message = None
  /\ SeededDefinitions \in [Definitions -> DefinitionRow \cup {None}]
  /\ \A d \in Definitions : SeededDefinitions[d] # None =>
       LET f == SeededDefinitions[d] IN
         /\ f.account # None => f.account \in SeededAccounts /\ Owner[f.account] = Owner[d]
         /\ f.source # None => SeededSources[f.source] # None /\ Owner[f.source] = Owner[d]

ASSUME BoundsAssumption == MaxChanges \in Nat /\ MaxBatches \in Nat

VARIABLES
  accounts,       \* bank_accounts: the rows there are
  importSource,   \* import_sources, None before the insert
  definition,     \* batch_definitions, None before the insert
  batches,        \* batches of definitions, in the order of created_at
  queue,          \* the executor's queue
  worker,         \* the worker thread
  session,        \* what each thread has loaded and not committed
  changes,        \* requests so far, for the bound
  raced,          \* import sources whose last edit and last poll overlapped
  overtaken       \* definitions with a run submitted before an earlier one

workspaceVars == <<accounts, importSource, definition, batches, queue, worker,
                   session, changes, raced, overtaken>>

NoSession == [op |-> "idle", source |-> None, loaded |-> None, since |-> {}, batch |-> 0]
IdleWorker == [pc |-> "idle", batch |-> 0, wanted |-> {}]
RunStates == {"live", "CLOSED", "FAILED"}

WorkspaceInit ==
  /\ accounts = SeededAccounts
  /\ importSource = SeededSources
  /\ definition = SeededDefinitions
  /\ batches = << >>
  /\ queue = << >>
  /\ worker = IdleWorker
  /\ session = [t \in Threads |-> NoSession]
  /\ changes = 0
  /\ raced = {}
  /\ overtaken = {}

Requested == changes < MaxChanges /\ changes' = changes + 1

-----------------------------------------------------------------------------
(* Bank accounts and batch definitions.                                     *)

(* create_account().  update_account() changes no column that is read here. *)
CreateAccount(a) ==
  /\ a \notin accounts
  /\ Requested
  /\ accounts' = accounts \cup {a}
  /\ UNCHANGED <<importSource, definition, batches, queue, worker, session, raced, overtaken>>

(* Seeded fault: whose import source it is goes unasked.                    *)
ValidDefinition_AnySource(c, f) ==
  /\ f.account \in accounts \cup {None}
  /\ f.account # None => Owner[f.account] = c
  /\ f.wanted # {} /\ f.wanted \subseteq SourcesOf[c]
  /\ f.source # None => importSource[f.source] # None

(* _validate_definition_fields()                                            *)
ValidDefinition(c, f) ==
  /\ f.type \in Types
  /\ f.account \in accounts \cup {None}
  /\ f.account # None => Owner[f.account] = c
  /\ f.account = None => f.type \notin ScopedTypes
  /\ f.wanted # {} /\ f.wanted \subseteq SourcesOf[c]
  /\ f.source # None => importSource[f.source] # None /\ Owner[f.source] = c

(* create_definition()                                                      *)
CreateDefinition(d) ==
  /\ definition[d] = None
  /\ Requested
  /\ \E f \in DefinitionForms :
       /\ ValidDefinition(Owner[d], f)
       /\ definition' = [definition EXCEPT ![d] = f]
  /\ UNCHANGED <<accounts, importSource, batches, queue, worker, session, raced, overtaken>>

(* update_definition() validates and writes the merged row.  A field that   *)
(* is sent as null is left alone, so no reference is ever taken out again   *)
(* and what was valid when it was loaded is valid when it is committed.     *)
UpdateDefinition(d) ==
  /\ definition[d] # None
  /\ Requested
  /\ \E f \in DefinitionForms \ {definition[d]} :
       /\ f.account = None => definition[d].account = None
       /\ f.source = None => definition[d].source = None
       /\ ValidDefinition(Owner[d], f)
       /\ definition' = [definition EXCEPT ![d] = f]
  /\ UNCHANGED <<accounts, importSource, batches, queue, worker, session, raced, overtaken>>

-----------------------------------------------------------------------------
(* Import sources.                                                          *)

(* describe_location()                                                      *)
Location(row) == <<row.kind, row.connection>>

(* create_import_source()                                                   *)
CreateImportSource(i) ==
  /\ importSource[i] = None
  /\ Requested
  /\ \E f \in SourceForms :
       /\ Location(f) \in Usable
       /\ importSource' = [importSource EXCEPT ![i] =
            [kind |-> f.kind, connection |-> f.connection, enabled |-> f.enabled,
             status |-> None, message |-> None]]
  /\ UNCHANGED <<accounts, definition, batches, queue, worker, session, raced, overtaken>>

(* A thread loads the row it is to edit or to poll.                         *)
Load(t, op, i) ==
  session' = [session EXCEPT ![t] =
                [NoSession EXCEPT !.op = op, !.source = i, !.loaded = importSource[i]]]

BeginEdit(t, i) ==
  /\ session[t].op = "idle"
  /\ importSource[i] # None
  /\ Load(t, "edit", i)

BeginPoll(t, i) ==
  /\ session[t].op = "idle"
  /\ importSource[i] # None
  /\ Load(t, "poll", i)

(* The UPDATE statement of a session.                                       *)
Written(stored, loaded, new) ==
  [f \in DOMAIN stored |-> IF new[f] # loaded[f] THEN new[f] ELSE stored[f]]

(* The other sessions on the row now work on an older copy.                 *)
Overtaken(t, after) ==
  [u \in Threads |->
     IF u = t THEN after
     ELSE IF session[u].source = session[t].source
          THEN [session[u] EXCEPT !.since = @ \cup {session[t].op}]
          ELSE session[u]]

(* Did an edit and a poll of the row overlap?  A commit that overlapped     *)
(* with nothing settles the question.                                       *)
Races(t, other) ==
  IF session[t].since = {} THEN raced \ {session[t].source}
  ELSE IF other \in session[t].since THEN raced \cup {session[t].source}
  ELSE raced

(* Seeded fault: the previous poll result stays.                            *)
Edited_KeepsPoll(row, p) ==
  [f \in DOMAIN row |-> IF f \in DOMAIN p THEN p[f] ELSE row[f]]

(* A saved edit invalidates the previous poll result.                       *)
Edited(row, p) ==
  [f \in DOMAIN row |->
     IF f \in {"status", "message"} THEN None
     ELSE IF f \in DOMAIN p THEN p[f] ELSE row[f]]

(* update_import_source() commits; afterwards the session is as given.      *)
CommitEdit(t, p, after) ==
  LET i == session[t].source
      new == Edited(session[t].loaded, p) IN
  /\ session[t].op = "edit"
  /\ Location(new) \in Usable
  /\ importSource' = [importSource EXCEPT ![i] = Written(@, session[t].loaded, new)]
  /\ session' = Overtaken(t, after)
  /\ raced' = Races(t, "poll")

(* The merged connection is refused: nothing is written.                    *)
RefuseEdit(t, p) ==
  /\ session[t].op = "edit"
  /\ Location(Edited(session[t].loaded, p)) \notin Usable
  /\ session' = [session EXCEPT ![t] = NoSession]
  /\ UNCHANGED <<importSource, raced>>

(* discover(): a disabled source offers nothing.                            *)
Discoverable(row, wanted) == IF row.enabled THEN SUBSET wanted ELSE {{}}

Polled(row, found) ==
  [row EXCEPT !.status  = IF found = {} THEN "EMPTY" ELSE "OK",
              !.message = [count |-> Cardinality(found), at |-> Location(row)]]

(* The files are looked for where the loaded copy says.                     *)
CommitPoll(t, found) ==
  LET i == session[t].source
      row == session[t].loaded IN
  /\ session[t].op = "poll"
  /\ importSource' = [importSource EXCEPT ![i] = Written(@, row, Polled(row, found))]
  /\ session' = Overtaken(t, NoSession)
  /\ raced' = Races(t, "edit")

(* The database fails the poll's commit: nothing is written.                *)
LosePoll(t) ==
  /\ session[t].op = "poll"
  /\ session' = [session EXCEPT ![t] = NoSession]
  /\ UNCHANGED <<importSource, raced>>

-----------------------------------------------------------------------------
(* Runs: a batch is created and committed, then handed to the executor.     *)

(* create_batch() and its commit, for the thread that submits it next.      *)
(* Rows stand in the order of created_at, which is drawn at the flush; that *)
(* two requests drew it in the other order than they committed in is left   *)
(* out, and is to be read as overtaking (Submit).  The last two fields of a *)
(* row are ghosts, for runs the agent starts: was the definition in the     *)
(* plan the user agreed to, and was it created or edited since?             *)
CreateBatch(t, d, agreed, edited) ==
  /\ Len(batches) < MaxBatches
  /\ batches' = Append(batches, [definition |-> d, status |-> "live",
                                 agreed |-> agreed, edited |-> edited])
  /\ session' = [session EXCEPT ![t] =
                   [NoSession EXCEPT !.op = "submit", !.batch = Len(batches) + 1]]

BatchesOf(d) == {n \in DOMAIN batches : batches[n].definition = d}

AwaitSubmission == {session[t].batch : t \in Threads}
Queued == {queue[k] : k \in DOMAIN queue}

(* runner.submit()                                                          *)
Submit(t) ==
  LET n == session[t].batch
      d == batches[n].definition IN
  /\ session[t].op = "submit"
  /\ queue' = Append(queue, n)
  /\ session' = [session EXCEPT ![t] = NoSession]
  /\ overtaken' = IF \E m \in BatchesOf(d) \cap AwaitSubmission : m < n
                  THEN overtaken \cup {d} ELSE overtaken

(* execute() loads the definition, and _import_files() its import source    *)
(* a commit later; here both are read in one step.  A definition without    *)
(* one fails the run at once.                                               *)
TakeBatch ==
  /\ worker.pc = "idle" /\ queue # << >>
  /\ LET n == Head(queue)
         f == definition[batches[n].definition] IN
       IF f.source = None
       THEN /\ batches' = [batches EXCEPT ![n].status = "FAILED"]
            /\ UNCHANGED <<worker, session>>
       ELSE /\ worker' = [pc |-> "import", batch |-> n, wanted |-> f.wanted]
            /\ Load("worker", "poll", f.source)
            /\ UNCHANGED batches
  /\ queue' = Tail(queue)
  /\ UNCHANGED <<accounts, importSource, definition, changes, raced, overtaken>>

EndBatch(status) ==
  /\ batches' = [batches EXCEPT ![worker.batch].status = status]
  /\ worker' = IdleWorker

(* _import_files() records the poll; a wanted source that is missing fails  *)
(* the run.                                                                 *)
ImportFiles ==
  /\ worker.pc = "import"
  /\ \E found \in Discoverable(session["worker"].loaded, worker.wanted) :
       /\ CommitPoll("worker", found)
       /\ IF worker.wanted \subseteq found
          THEN worker' = [worker EXCEPT !.pc = "process"] /\ UNCHANGED batches
          ELSE EndBatch("FAILED")
  /\ UNCHANGED <<accounts, definition, queue, changes, overtaken>>

(* The rest of execute().                                                   *)
EndRun ==
  /\ worker.pc = "process"
  /\ \E status \in {"CLOSED", "FAILED"} : EndBatch(status)
  /\ UNCHANGED <<accounts, importSource, definition, queue, session, changes, raced, overtaken>>

-----------------------------------------------------------------------------
(* The endpoints of the window.                                             *)

(* An operator opens an import source to change it, or to test it.          *)
OpenImportSource(t, i) ==
  /\ Requested
  /\ BeginEdit(t, i) \/ BeginPoll(t, i)
  /\ UNCHANGED <<accounts, importSource, definition, batches, queue, worker, raced, overtaken>>

(* update_import_source(), the endpoint                                     *)
SaveImportSource(t) ==
  /\ \E p \in Patches : CommitEdit(t, p, NoSession) \/ RefuseEdit(t, p)
  /\ UNCHANGED <<accounts, definition, batches, queue, worker, changes, overtaken>>

(* probe_import_source(): everything the source offers counts.              *)
ProbeImportSource(t) ==
  /\ session[t].op = "poll"
  /\ \E found \in Discoverable(session[t].loaded, SourcesOf[Owner[session[t].source]]) :
       CommitPoll(t, found)
  /\ UNCHANGED <<accounts, definition, batches, queue, worker, changes, overtaken>>

(* run_batch_definition(), and each turn of run_batch_definitions().        *)
RunDefinition(t, d) ==
  /\ session[t].op = "idle"
  /\ definition[d] # None
  /\ definition[d].enabled
  /\ CreateBatch(t, d, TRUE, FALSE)
  /\ UNCHANGED <<accounts, importSource, definition, queue, worker, changes, raced, overtaken>>

SubmitBatch(t) ==
  /\ Submit(t)
  /\ UNCHANGED <<accounts, importSource, definition, batches, worker, changes, raced>>

OperatorStep(t) ==
  \/ \E i \in ImportSources : OpenImportSource(t, i)
  \/ SaveImportSource(t)
  \/ ProbeImportSource(t)
  \/ \E d \in Definitions : RunDefinition(t, d)
  \/ SubmitBatch(t)

RowStep ==
  \/ \E a \in Accounts : CreateAccount(a)
  \/ \E i \in ImportSources : CreateImportSource(i)
  \/ \E d \in Definitions : CreateDefinition(d) \/ UpdateDefinition(d)

WorkerStep == TakeBatch \/ ImportFiles \/ EndRun

WorkspaceNext == RowStep \/ WorkerStep \/ \E t \in Operators : OperatorStep(t)

WorkspaceSpec == WorkspaceInit /\ [][WorkspaceNext]_workspaceVars

-----------------------------------------------------------------------------
(* What the blotter shows.                                                  *)

(* Seeded fault: the first run that was ever made counts.                   *)
LatestBatch_Oldest(d) ==
  IF BatchesOf(d) = {} THEN 0
  ELSE CHOOSE n \in BatchesOf(d) : \A m \in BatchesOf(d) : m >= n

(* latest_batch(), 0 for none                                               *)
LatestBatch(d) ==
  IF BatchesOf(d) = {} THEN 0
  ELSE CHOOSE n \in BatchesOf(d) : \A m \in BatchesOf(d) : m <= n

(* definition_state(), given the sources that discover() finds, or None if  *)
(* nobody looked.                                                           *)
DefinitionState(d, found) ==
  LET n == LatestBatch(d)
      latest == IF n = 0 THEN None ELSE batches[n].status
      available == found # None /\ definition[d].source # None
                   /\ definition[d].wanted \subseteq found
      missing == found # None /\ definition[d].source # None /\ ~available IN
  CASE ~definition[d].enabled -> "DISABLED"
    [] definition[d].enabled /\ latest = "live"   -> "RUNNING"
    [] definition[d].enabled /\ latest = "FAILED" -> "FAILED"
    [] definition[d].enabled /\ latest = "CLOSED" ->
         IF missing THEN "AWAITING_DATA" ELSE "COMPLETED"
    [] definition[d].enabled /\ latest = None ->
         IF available THEN "DATA_AVAILABLE" ELSE "AWAITING_DATA"

-----------------------------------------------------------------------------
(* Properties.                                                              *)

Batch == [ definition : Definitions, status : RunStates, agreed : BOOLEAN, edited : BOOLEAN ]

Session ==
  [ op : {"idle", "edit", "poll", "submit"}, source : ImportSources \cup {None},
    loaded : SourceRow \cup {None}, since : SUBSET {"edit", "poll"}, batch : Nat ]

(* Type correctness of the workspace, and what its references refer to.     *)
WorkspaceTypeOK ==
  /\ accounts \subseteq Accounts
  /\ importSource \in [ImportSources -> SourceRow \cup {None}]
  /\ definition \in [Definitions -> DefinitionRow \cup {None}]
  /\ batches \in Seq(Batch)
  /\ queue \in Seq(Nat) /\ Queued \subseteq DOMAIN batches
  /\ worker \in [pc : {"idle", "import", "process"}, batch : Nat, wanted : SUBSET Codes]
  /\ worker.batch \in DOMAIN batches \cup {0}
  /\ session \in [Threads -> Session] /\ AwaitSubmission \subseteq DOMAIN batches \cup {0}
  /\ changes \in 0..MaxChanges
  /\ raced \subseteq ImportSources
  /\ overtaken \subseteq Definitions

(* A poll result describes the connection that is saved: after an edit the  *)
(* previous result is gone, and no "OK" of the old directory is read as     *)
(* proof that the new one works.  An edit and a poll that overlapped are    *)
(* the exception, until a later edit or poll has the row to itself.         *)
FreshPollResult ==
  \A i \in ImportSources \ raced :
    importSource[i] # None =>
      /\ importSource[i].message # None => importSource[i].message.at = Location(importSource[i])
      /\ importSource[i].status = None <=> importSource[i].message = None

(* What the blotter says of a definition that is enabled is true of all its *)
(* runs, though it looks at the latest one only: it says RUNNING while any  *)
(* of them waits, is queued or is at work, and only then.  The exception    *)
(* are definitions whose runs were submitted in another order than they     *)
(* were created in.  (The module has no kill: after one, the blotter says   *)
(* RUNNING of a run that no thread works on.)                               *)
BlotterTellsRuns ==
  \A d \in Definitions \ overtaken :
    definition[d] # None /\ definition[d].enabled =>
      \A found \in SUBSET Codes \cup {None} :
        DefinitionState(d, found) = "RUNNING"
          <=> BatchesOf(d) \cap (AwaitSubmission \cup Queued \cup {worker.batch}) # {}

=============================================================================
