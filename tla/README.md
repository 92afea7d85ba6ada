# Verification of the finance controller

TLA+ modules, TLC configurations and TLAPS proofs about the backend of the
AI Finance Controller (`src/backend/app`). The program imports bank, gateway
and ledger files for a client, normalizes them, reconciles them, classifies
what stays unmatched, and derives settlements and a cash position. One run of
that pipeline over one business date is a *batch*. This project models what can
go wrong around a batch that a unit test hardly reaches: concurrent requests,
stale session state, failures half way, kills of the process, the order in
which things are committed -- and, inside a batch, what the normalization, the
passes, the classifier, the settlement and the cash position do to the same rows
one after another -- and what an agent may do on behalf of a user who talks to it.

## 1. The system and its parts

| part (code) | state | operations | what is hard |
|---|---|---|---|
| lifecycle table (`domains/batches/state_machine.py`) | `batches.status` | `transition()` | forward-only; the guard reads the session's copy of the row |
| store (`models/`, `db/session.py`, `ingestion/file_store.py`) | rows in SQLite, raw files on disk | commit, rollback, `write_raw_file()` | rows are transactional, files are not |
| run requests (`api/v1/workspace.py`) | none of its own | `/run`, `/run-all` → `_queue()` | count-then-insert batch codes; commit before submit |
| runner (`domains/batches/runner.py`) | in-memory executor queue, one worker thread | `submit()`, `execute()`, `_import_files()`, `_fail()` | commits at every progress call, any step may raise, queue lost on a kill |
| pipeline (`domains/batches/service.py`) | source records, transactions, matches, exceptions, settlements, cash | `process_batch()` | called by the runner (many commits) and by the endpoint (one commit) |
| manual endpoints (`api/v1/batches.py`) | none of their own | create, upload, complete, process | threads with private copies of the row |
| definitions, import sources (`domains/batches/definitions.py`, `ingestion/import_sources.py`) | `batch_definitions`, `import_sources` | create, update, probe, `discover()` | edits race with runs; poll results of an edited connection |
| configuration versions (`domains/clients/config_*.py`) | `client_configurations` | load, activate, patch | "one ACTIVE version" kept by read-then-write; what was read is stale when it is written |
| matching (`domains/reconciliation/`) | pools, used sets, match candidates | six passes over shrinking pools | order of rules, double consumption inside a pass, orientation of identifiers, ties |
| exceptions (`domains/exceptions/`) | exceptions and the transactions they name | classify what is left | duplicates and near misses overlap |
| fees, tax, settlement (`domains/tax/`, `domains/settlement/`) | settlements, their components, FEE_VARIANCE exceptions | decompose matches | rounding of each product, two tolerances |
| summary, report (`batches/summary.py`, `report.py`) | none | group exceptions into issues | what counts as one problem |
| normalization (`domains/normalization/`, `classification/`) | transactions | `normalize_batch()` | signs and split amounts, which mapping of several wins, one bad row stops the batch |
| cash, forecast (`domains/cash/`, `forecasting/`) | positions of a client | one call each per batch | sums over everything that earlier batches have committed, whatever became of them |
| bank accounts (`domains/clients/accounts.py`) | `bank_accounts` | create, update | definitions and cash positions refer to them |
| run log (`batches/run_log.py`) | `batch_log_entries` | append, poll | sequence numbers read by a polling client |
| agent (`agent/`) | nothing between turns | `converse()`, 28 tools | tools that write, confirmation by a flag of the model, the scope, provider failures, a model that never stops |
| frontend, schemas, seed scripts, utilities | none the server depends on | | |

How they interact. A `/run` request counts the definition's batches, inserts and
commits a row, and hands its id to the executor; the single worker thread opens
a session of its own, imports the files its definition names, declares them
complete and calls `process_batch()`, committing at each progress call. The
manual endpoints call the same service functions from request threads, each
with one commit at its end. Operators edit what runs read -- definitions, import
sources, configuration versions -- while they are under way, and the agent calls the
same functions on its own request's session. They all meet in the database (SQLite: one writer at a
time, last writer wins, no version check) and in the directory of raw files.

The properties that make each part correct:

* *Lifecycle*: readers of committed rows see a batch created once, moving only
  forward along the table, and final once CLOSED or FAILED.
* *Runner*: no accepted run is lost while the process lives, every run that ends
  is terminal, progress is monotone and full exactly at the end, a run is
  processed only with all its sources.
* *Store*: a committed file row points at a file that the batch itself wrote;
  one path holds one batch's file (overlapping uploads excepted);
  source records and products are neither
  missing nor doubled for the status a reader sees.
* *Definitions and import sources*: what a definition refers to exists and is its
  client's; a poll result shown is one of the saved connection; the state shown for
  a definition is true of all its runs.
* *Requests*: a batch code is one run's; concurrent requests keep the lifecycle;
  a processing request ends its batch. The code promises all three, and keeps none of
  them when requests overlap or something unexpected is raised (section 3); what
  holds is that two runs of one code leave each other's files alone.
* *Configuration versions*: of the edits made from one version one is accepted; an
  accepted edit is in force when it commits; a batch is bound to a version that was in
  force and that never changes; the data sources of such versions stay known. That one
  version is ACTIVE, that the data sources mirror it, that an edit replaces the version
  it was made from and that a batch takes only files of its own version is promised and
  not kept.
* *Matching and exceptions*: a transaction is in at most one match; what is left is
  what exactly one exception is about; stronger evidence is used before weaker.
* *Settlement*: gross less the recorded components is what was observed, and a gap
  is explained by the fee rules or raised as an exception.
* *Summary*: the issues are the classes of exceptions that share records, so a record
  is counted in one issue; that the exceptions of an issue are one problem is promised
  and not kept.
* *Cash*: what the parsed bank statements say is confirmed, moved between own
  accounts, or still open, to the paisa; the forecast's band covers what may happen.
* *Agent*: a scoped conversation stays with its client; nothing is started that was
  not shown and agreed to; every turn is answered.

## 2. Modules

`BatchStateMachine` -- the table of `state_machine.py` as operators. `Reaches`
is what one commit can do to a status (several `transition()` calls may be
flushed before it); `MCBatchRunner` has TLC check that it is the transitive
closure of `CanTransition`, and it is written with ranks so that it can be
reasoned about without recursion.

`BatchLifecycle` -- the abstract specification: one variable, `status`, and two
actions, `Create` and `Advance`. `FairSpec` adds that an accepted run ends.

`BatchStore` -- the committed rows (`status`, `pct`, `defn`, `runNo`, `files`,
`records`, `made`, `wanted`, `enabled`) and the raw files `raw`, with the
properties of the data that hold or should hold whoever writes it, and the
refinement `Lifecycle == INSTANCE BatchLifecycle`.

`BatchRunner` (extends `BatchStore`) -- run-request handlers, queue, worker
thread, edits of definitions and kills. `worker.pc` is the place in `execute()`:

| `worker.pc` | code | actions leaving it |
|---|---|---|
| `idle` | executor waiting | `StartRun` |
| `import` | `_import_files()` before `discover()` | `DiscoverFiles` |
| `store` | loop over the files found | `StoreFile`, `RefuseOverwrite`, `CommitFiles` |
| `complete` | `mark_files_complete()` | `CompleteFiles` (`RunRaises` where it refuses) |
| `begin`, `parse` | head of `process_batch()` | `BeginProcessing`, `ParseFile`, `ProcessStage` |
| `process` | its later stages | `ProcessStage` |
| `failing` | the except clauses, `_fail()` | `RecordFailure` |

and `RunRaises` leads from every place inside the try block to `failing`.

`BatchApi` (extends `BatchStore`) -- the manual endpoints, one `session` per
concurrent request, with the status it loaded as `view`.

`BatchSystem` (extends `BatchRunner` and `BatchApi`) -- both on one store, plus
what only the combination has: failures on SQLite's write lock.

`ConfigVersions` -- the configuration versions of one client: `configs` are the
rows of `client_configurations` (version `v` is `configs[v]`), `sources` those of
`data_sources`, `bound` what `create_batch()` binds. `request[r]` is what one request thread has read so far:

| `request[r].op` | code | actions leaving it |
|---|---|---|
| `idle` | -- | `BeginActivation`, `BeginEdit`, `BeginBatch` |
| `retire` | `activate_config_version()` has its row | `ReadPrevious` |
| `sync` | it has found the ACTIVE one | `ReadSources` |
| `commit` | it has read the data sources | `CommitActivation` |
| `edit` | `patch_active_config()` has the ACTIVE row | `CommitEdit` |
| `bind` | `create_batch()` has the ACTIVE row | `CommitBatch` |

Sessions run with autoflush off, so an activation takes the write lock only at
its last statement and all it decides on was read before: three reads and a
commit. An edit flushes its insert first; what follows, an activation too, is
alone with the store, so it is one step after the read of its base. An UPDATE
names the attributes that differ from the loaded ones (`Activated`, `Sync`), and
the unique constraints on `(client, version)` and `(client, source)` are guards:
the request that loses takes `AbortRequest`. `Sources` are what a version may or
may not declare, beside the INTERNAL and EXTERNAL one the schema demands.
`LoadVersion` is one step: its read of the highest number and its insert matter
only through the unique constraint. `ConfigVersions` shares no state with
`BatchSystem`: a batch reads its bound version, which the properties below show
to be immutable. The requests of the module overlap freely.

`FeesAndTax` -- `calculate_fee_and_tax()` as operators over integers, rounded
where the code rounds (`Portion` is `round_decimal(..., "HALF_UP")`).

`Matching` (extends `FeesAndTax`) -- the engine. `Plan` is the sequence of loops
that `run_deterministic_passes()` makes of a configuration: one per condition of a
rule of passes 1 and 2, one per rule of passes 3 and 4, then passes 5 and 6.

| variable | code | changed by |
|---|---|---|
| `txn` | the `TxnView`s | -- |
| `pool` | `internal_pool` and `external_pool` | `EndLoop` (`_shrink_pools()`) |
| `at` | the loop being run | `EndLoop` |
| `used` | `used_internal`, `used_external` of the rule being run | `MatchPair`, `MatchGroup`, `EndLoop` |
| `matches` | the candidates of all passes | `MatchPair`, `MatchGroup` |

`MatchPair` is one pass through the body of a loop that appends a candidate. The
code scans the internal pool once, in order, and never returns to a transaction it
has passed over; since the external pool only shrinks during a loop, a transaction
without a candidate never gets one, so the pair formed next is always that of the
first transaction that has a candidate, which is what the guard says. Best
counterparts are minimal `Preference`s: the code's "first of the sorted scan that is
strictly better" becomes a lexicographic comparison with the scan order last.

`Reconciliation` (extends `Matching`) -- what `process_batch()` makes of the
matches, in its order: `Match`, `FinishMatching`, `IdentifyExceptions`,
`BuildSettlements`. `ReconciliationSummary` (extends it) -- the grouping of the
exceptions into issues by `_group_open_exceptions()`, whose union-find is the fold
`IssueGroups`: `Union(t, groups)` is what the loop does for transaction `t`.
`Rerun` -- two runs of `Matching` over the same rows whose ids come in different
orders.

`Normalization` -- from a parsed row to a transaction, as operators:
`map_record()`, `parse_decimal()`'s signs, `resolve_identifiers()`, `classify()` and
what `normalize_batch()` makes of them (`Canonical`, `Rejected`).

`Cash` (extends `Reconciliation` and `Normalization`) -- the batches of one client,
one after another. `rows` are the parsed rows of the current one, `Normalize` makes
`txn` of them, `Reconcile` is any step of `Reconciliation`, and `ComputeCash` writes
the position and the forecast. `NextBatch` is enabled in every state: the batch
before it may be closed, failed, or cut off between two stages by a kill, and what it
has committed by then (`Committed`) is moved to `books`. `compute_cash_position()`
does not ask for the status of a batch, so all of `books` counts.

`Workspace` -- what the Reconciliation window edits and starts. A request loads a row
into its session, works on that copy and commits; `session[t]` is that copy, and
`Written` is the UPDATE statement, which names the attributes that differ from the
copy and looks at nothing else:

| `session[t].op` | code | actions leaving it |
|---|---|---|
| `idle` | -- | `OpenImportSource`, `RunDefinition`, `TakeBatch` (worker) |
| `edit` | `update_import_source()` has the row | `SaveImportSource` |
| `poll` | `probe_import_source()` or `_import_files()` has the row | `ProbeImportSource`, `ImportFiles` |
| `submit` | the batch is committed, not submitted | `SubmitBatch` |

`BatchRunner` models a run in detail; here it takes its definition (`TakeBatch`),
polls (`ImportFiles`) and ends (`EndRun`) -- the two modules look at the same worker
from two sides, at the batch's rows there and at the definition's here. The ghosts
`raced` and `overtaken` name the two exceptions of its properties.

`AgentTools` (extends `Workspace`) -- for each of the 25 read-only tools, the results
it can return under a scope, whatever arguments the model makes up: whose rows they
show, an error, or an exception that leaves `execute_tool()`.

`Agent` (extends `AgentTools`) -- one conversation. `chat` is the request that serves
the current turn:

| `chat.phase` | code | actions leaving it |
|---|---|---|
| `idle` | no turn | `UserAsks`, `UserAgrees` |
| `model` | `provider.create_message()` | `ModelAnswers`, `ModelFails`, `ModelCallsTools` |
| `tools` | `execute_tool()`, one block after another | `ReadTool`, `RefuseCall`, `Propose`, `ConfirmRuns`, `ConfirmEdit` |
| `starting` | the loop of a confirmed `run_all_batches()`, or `run_batch()` | `StartRun`, `SubmitRun`, `CannotStart` |
| `editing`, `probing` | a confirmed `update_import_source()` | `SaveEdit`, `ProbeEdit` |

The writing tools use the actions of `Workspace` on the session of the request
(`CreateBatch`, `Submit`, `CommitEdit`, `CommitPoll` with thread `"agent"`), so they
interleave with operators and worker as those do. What the model does is external:
any call with any arguments, an answer, or a failure, at any time. The server keeps
nothing between turns; `chat.awaiting` is the plan the last answer showed and
`chat.agreed` the one the user has just said yes to. Neither is read by the code:
whether a confirmed call has anything to do with them is up to the model, which
`ModelFollowsPrompt` says of it or not.

`Matching` to `Cash` share no variable with `BatchSystem`: a batch's transactions are
written by the transaction that normalizes it and read only by the steps of its own
run, which `BatchRunner` counts as the products of one `ProcessStage` each.

`MCBatchRunner`, `MCBatchApi`, `MCBatchSystem`, `MCConfigVersions`,
`MCReconciliation`, `MCRerun`, `MCCash`, `MCWorkspace`, `MCAgent` -- the instances
for TLC; `MCRows` holds the matching rules and rows that three of them share.
`BatchRunner_proofs` -- theorems about `BatchRunner`;
`BatchSystem_proofs` -- about `BatchSystem`; `ConfigVersions_proofs` -- about
`ConfigVersions`; `Reconciliation_proofs` -- about `Matching`, `Reconciliation` and
`ReconciliationSummary`; `Cash_proofs` -- about `Cash`; `Workspace_proofs` -- about
`Workspace`; `Agent_proofs` -- about `Agent`; `FiniteInduction` -- lemmas on finite sets and sums that they share.

### What is abstracted, and how

* *Transactions.* A session's writes are invisible before its commit and SQLite
  lets one writer in at a time, so a transaction is one step taken at its
  commit; what was read earlier is kept in the session's own variables
  (`worker.view`, `worker.wanted`, `session[h].view`). Sessions are opened with
  `expire_on_commit=False`, so these copies survive a commit and become stale;
  a rollback expires them, which is why `RecordFailure` looks at the committed
  status.
* *Write lock.* How long a thread waits for it is left out; that the wait can
  time out is `AbandonAtStart` and `AbandonWhileFailing` in `BatchSystem`
  (elsewhere inside `execute()` it is one more cause of `RunRaises`).
* *Codes and paths.* One business date is modelled and one file name per source,
  so a batch code is `(definition, run number)` and a raw path is
  `(definition, run number, source)`. Two batches share a path exactly when
  they share a code, as in `raw_file_path()`.
* *Contents.* In the batch modules files, records and products carry no content; `records` and `made`
  count how often they were committed, which is what double or missing work
  shows up in. Parsing, normalizing and matching may fail at any point
  (`RunRaises`, `ProcessFails`).
* *Rows.* In the reconciliation modules a row is a record of what the passes look at.
  A reference is a sequence of characters, because passes 1 and 2 compare suffixes,
  substrings and leading zeros (`Suffix`, `Within`, `DigitsNoLeadingZeros`);
  `SuffixLen` stands for the code's 6 and is 2 in the instance, with references of
  two and three characters, so that both a shared and a different suffix occur.
  Amounts are non-negative integers, as normalization leaves them; dates are days.
  The similarity of two counterparty texts is a table (`Similarity`) in place of
  `token_sort_ratio`. A match carries its sides and its pass; evidence, confidence,
  cardinality and rule versions repeat what led to it. An exception carries whom it
  is about, whom it names and its amount; severity and wording are left out.
* *Cells.* In `Normalization` a cell is a sequence: a reference is its characters, since
  the identifier operations trim, collapse and strip them, and a date, a number or a
  text is one item. A cell of several items where one is wanted stands for what
  `parse_decimal()` or `parse_date()` cannot read. `words` are the texts of
  classification rules that occur somewhere in the row's raw text.
* *The outside.* The files at an import location come and go: `Discoverable` is any
  subset of what is asked for, nothing for a disabled source.
* *What the agent shows.* A result of a tool is abstracted to the clients whose rows
  are in it. A record that reconciliation made belongs to the client of its batch. How
  an answer is worded, and what `guard.scrub()` takes out of it, is left out.
* *Errors in a stage.* A tax rule that is not in the table raises `NotFoundError`;
  that a stage may raise is `RunRaises` and `ProcessFails` of the batch modules.
* *Left out altogether*: log entries, audit events, timestamps, wording of
  failure reasons, `run_now` variants of the same code path for tests.

Operators whose comment begins with "Seeded fault" are variants of the action
they stand before, changed the way a plausible bug would change it. No
specification uses them; they exist to show that each property notices a bug of
the code it talks about (`mutants` in `PROJECT.json`).

## 3. What TLC checks

| run | instance | checks |
|---|---|---|
| `runner_safety` | 2 batches, 2 sources, 2 handlers, 1 kill | types, nothing stranded, raw paths exclusive, files, records, products, completeness by one list, progress, outcomes, refinement of the lifecycle |
| `runner_live` | 2 batches, 1 source, 2 handlers, fair | every accepted run ends |
| `api_concurrent` | 2 batches, 2 sources, 2 clients | *violated*: lifecycle |
| `system_shared` | worker and client on batches of their own, and the client on the files of one that may be the worker's, 2 batches, 1 handler, 1 kill | types, files; data consistency and lifecycle of the other batch |
| `system_load` | worker and client on batches of their own | *violated*: every outcome is terminal |
| `config` | 2 requests, 3 versions, 1 batch | types, one edit per base, edits take effect, versions frozen, the batch bound to a version once in force, the sources of activated versions known |
| `reconciliation` | 2 internal and 3 external rows, 7 contents each, a rule for every pass | each matched once, each accounted for once, stronger evidence first, settlements add up, gaps answered, a record in one issue |
| `rerun` | 2 internal rows, 1 external, two orders of the ids | *violated*: reconciliation is reproducible |
| `cash` | 2 batches of 2 ledger rows and 2 statement rows, 3, 2 and 4 contents | statements accounted for, band covers outcomes |
| `workspace` | 2 clients, 2 operators, 1 account, 2 import sources, 2 definitions, 5 changes, 3 runs | poll results fresh, blotter tells runs |
| `agent` | 1 conversation, 1 operator, 2 clients, 2 rounds of up to 2 tool calls, 1 change, 1 run | types, scope kept, runs were proposed, every turn answered |
| `agent_consent` | the same, a model that ignores the prompt | *violated*: nothing runs that nobody agreed to |

Bounds and why they are enough. Batches interact only through a shared code (or
by being the same batch), the queue and the one worker: two batches give every
such pair, including one queued behind the other and two with one code. Two
sources are needed to be complete with one and incomplete with the other, to
store one file and fail on the next, and to parse one of two. Two handlers or
clients give every race of two; the hazards listed are all races of two. One
kill reaches every state in which a kill leaves something behind; after it the
system continues from that state. `AdHocRuns` bounds the codes a client sends:
two allow both equal and different codes. `Touched` says what clients
also do to which batches that a `/run` request created. In `system_shared` they upload
files to one batch and declare it complete; whatever goes wrong for that batch then
comes of the stale view that `api_concurrent` shows with two requests, and the
`Others...` properties say that it stays there: they are those of `BatchStore`,
instantiated with the other batches alone. Processing a run's batch as well
multiplies the states and is not in the run.
Deadlock checking is on in the runs of the batch and configuration modules and in `agent`.
The versions need a third one only for a version archived by an edit and
activated again; one optional source is declared, dropped and declared again, and
its flag changes, within three versions; all versions are compared through a
single source at a time. A batch reads a version and is read by no other request, so one is
enough. `runner_live` uses no symmetry, since symmetry is unsound for liveness.

`workspace` starts from nothing, so that every row is created before it is used. Five
changes (`MaxChanges` counts requests that change or poll a row) create an import
source, open it twice -- an edit and a poll that overlap, in both orders, also the
worker's -- and edit it once more afterwards; a row is disturbed by the last overlap
only. Three runs of one definition are one at work, one queued and one between commit
and submit, or two of the latter in the wrong order. The properties are of single
rows, and a second client is there to be confused with the first. Deadlock checking
is off: with the bounds spent and everything idle there is nothing left to do.

`agent` starts with one client set up. Two rounds are a tool call whose result the
model uses and the last one the budget allows; two calls in one reply are a plan that
replaces a plan, a call after a failure, an edit before a run. `MaxChanges` and
`MaxBatches` are 1 there: an operator's edit, or the agent's, between plan and
agreement, and one run. `MaxToolIterations` is 10 in the code and 2 here; a round
leaves nothing behind but its number.

`cash` has two batches, so that the second adds up what the first has left, and the
first may stop in any state. The bank writes withdrawals and deposits into columns of
their own, with and without a sign of their own, one row fills both; the ledgers
state "Dr" or "Cr", or sign the amount; a transfer between own accounts, a group that
aggregates, a match by reference with a gap, and a row without an amount occur. One
batch is of a bank account and the other of none. Two matches of a batch are the most
that add up with each other. Deadlock checking is off, since two batches end it.

The rows of `reconciliation` are chosen so that every pass makes matches, passes
compete for the same rows, and every type of exception and every branch of the
settlement occurs: references that are equal, equal up to zeros, or missing; a
condition written in the other direction; amounts that agree, differ by the fees, by
less and by more than the two tolerances; groups that sum up and groups that do not;
dates inside and outside each window; repeated references on one side. Every
combination of five rows from these is an initial state (16 807 of them). Two
internal rows compete for one external one and the other way round, and three
external rows let a group and a pair meet; a row's part in a pass depends on one
competitor at a time. Deadlock checking is off there and in `rerun` only: a batch
that is settled, or matched twice, is done.

Fairness. `WF(WorkerProgress)`: the executor's thread runs whenever it has
something to do; nothing in the code can make it wait for anybody, and it is
weak fairness of the thread, not of each of its steps. `WF(SubmitBatch(h))`: a
handler that has committed its row has only straight-line code left before
`submit()`. `WF(AgentProgress)` in `agent`: the thread that serves a turn goes on, and
a call of a provider ends, with a reply or with an error, since the vendors'
clients time out, which `_provider_failure_message()` reckons with (`ModelFails`). The model may call tools in every reply; that the turn ends
is due to the budget of rounds. No fairness is assumed of requests, edits, uploads or failures, and
no liveness is claimed if the process is killed: nothing resumes a queued batch.

### Where the code and its documentation disagree

Each of these is a run of its own.

1. `system_load`: the first commit of `execute()` stands before its try block and
   `_fail()` writes inside the except clause, so a lock time-out at either place
   leaves a batch live for ever. (Docstring: "Every outcome ... ends with the
   batch in a terminal state".)
2. `api_concurrent`: `transition()` guards the loaded status, not the stored one.
   (Docstring: transitions are "enforced in exactly one place".)
3. `agent_consent`: `run_batch()`, `run_all_batches()` and `update_import_source()`
   act when they are called with `confirmed=true`, and it is the model that writes
   the argument. (Docstring of `_needs_confirmation()`: confirmation "is enforced
   here, in the tool, rather than left to the model's judgement ... and that guarantee
   cannot depend on a prompt instruction being followed".) `RunsWereProposed` says
   what holds of a model that does follow the prompt.
4. `rerun`: rows of one date are ordered by a random id, so a second run over the
   same files may match rows that say something else. (Docstring of
   `load_transaction_views()`: sorted "for determinism -- reconciliation must be
   reproducible given the same inputs and config version".)

Further disagreements and oddities, in the models without a run of their own unless said otherwise:

* `next_batch_code()` counts rows and `_queue()` inserts later (`RequestRun`,
  `CreateBatch`), so two overlapping requests get one code, though its docstring says
  "unique per re-run". No property claims otherwise. The consequence is contained:
  `RawPathsExclusive` and `RegisteredFilesOnDisk` hold in `runner_safety`, with two
  handlers, and the second run fails.
* Exists-check and write of a raw file are two steps (`CheckUpload`, `WriteRawFile`),
  so of two overlapping uploads to one path the second replaces the first, though
  `raw_file_path()` says that "raw files are never mutated once written".
* `process_batch()` marks FAILED only for `DomainError`; any other exception leaves
  a manually driven batch in FILES_RECEIVED (`AbortRequest` of `BatchApi`), though
  its docstring says that any failure moves the batch to FAILED.
* Two overlapping activations both archive the version they read as ACTIVE, and two
  stay ACTIVE (`CommitActivation`); an activation that overlaps an edit can leave none or
  two. With two, `scalar_one_or_none()` raises in every reader (`AtMostOneActive`),
  though the docstring of `ClientConfiguration` speaks of "whichever version is ACTIVE".
  The states are in `config`, and its properties hold in them.
* An activation writes to `data_sources` what differs from the rows it read, perhaps
  before an edit committed: the version of the edit is ACTIVE, the flag of a source is
  the older one's (`Sync`), though the docstring of `DataSource` says "it mirrors current
  config". `ActivatedSourcesKnown` is of the rows there are, not of their flags.
* An edit takes its sections from the version it read as ACTIVE and archives the one
  that is ACTIVE at its commit (`CommitEdit`), so an activation in between is undone,
  though `patch_active_config()` says it "replaces whole top-level sections of the active
  config". `OneEditPerBase` and `EditsTakeEffect` are what holds of edits all the same.
* `upload_file()` goes by the data sources of the latest activation, `process_batch()` by
  the version bound at creation: after an edit that declares a new source, a batch in
  flight accepts a file of it, and processing raises `KeyError` at
  `ds_config_by_source_id[...]`. The docstring of `config_editor.py` (lines 7-9) says
  "Batches already in flight are unaffected". `BatchApi` has uploads and one
  configuration, `ConfigVersions` has versions and no uploads.
* The summary merges exceptions that share any record (`Union`). The docstring of
  `_group_open_exceptions()` (lines 77-81) says that such rows are "always the two
  sides of the SAME underlying problem", but the classifier offers one row as the near
  miss of several others (`Nearest`), so several near misses become one issue, which
  carries the largest gap alone. `RecordsInOneIssue` checks the grouping as it is
  defined.
* Two rules of one pass share the pools and not the used sets, so a transaction can
  be matched twice; nothing in the configuration's schema forbids such rules and no
  document speaks of them. The theorems about `Matching` assume `OneRulePerPass`, and
  `MCRows` satisfies it, so that what is checked of a pass is the conditions of one rule.
* Pass 2 compares references only within a bucket of equal suffixes, so "17" and
  "017" meet but a reference shorter than the suffix never meets its padded form.
* Pass 5 accepts up to the fee rules' rounding tolerance, the settlement explains up
  to 0.01: a match in between is accepted as explained by fees and then raised as a
  FEE_VARIANCE (`Settle`, first case). `GapsAnswered` says it is at least raised.
* After an older version was activated again, `patch_active_config()` numbers its
  edit after that version and `load_config_version()` refuses it (`v = Len(configs)`
  in `CommitEdit`): rolled back, a client cannot be edited through the windows.
* Two saves of one import source that overlap each write only what they changed, so
  the kind of one and the connection of the other may be stored, a pair that
  `validate_connection()` would refuse (`Written` in `CommitEdit`).
* An edit and a poll that overlap can store a status without its message, or a
  message about the connection before (`raced` in `FreshPollResult`).
* Runs of one definition that are submitted in another order than they were inserted
  end in that order, and the blotter says COMPLETED while the older one is still
  waiting (`overtaken` in `BlotterTellsRuns`). The rows
  of `batches` stand in the order of their commits; `created_at`, by which the blotter
  finds the latest, is drawn at the flush, and two requests that drew it in the other
  order are to be read as overtaken too. After a kill it says RUNNING for ever:
  nothing ends a batch that was live.
* Cash: a batch that failed after matching, or that repeats a day, counts like any
  other (`Considered`). A disputed settlement's amount is in confirmed and in pending
  cash, though the module's docstring keeps the two apart. Exceptions of type
  COUNTERPARTY_MISMATCH and TIMING carry no impact, so the amounts they are about are
  outside the forecast's band, which is why `BandCoversOutcomes` speaks of missing
  records only. A `debit_credit` that a file states as anything but "CREDIT" is an
  outflow. The roles of data sources are taken from the version of the latest batch;
  `Cash` assumes that all versions give a source the same role.
* Agent: a plan can be confirmed again and again; a plan confirmed in the turn that
  showed it is still shown as awaiting confirmation (`AnswerOf`); the text of a failed turn says
  that nothing was run though earlier calls of the turn may have run something
  (`Failure` after `SubmitRun`); a forced provider without its key is an HTTP 500 and
  not the "not configured" answer (`BeginTurn`).

## 4. What is proved

`BatchRunner_proofs` proves about `BatchRunner`, for every set of definitions, sources and handlers, every finite set of batches
and every number of kills:

| theorem | statement |
|---|---|
| `TypeCorrect` | `Spec => []TypeOK` |
| `LifecycleRefinement` | `Spec => ImplementsLifecycle` |
| `NothingStranded` | `Spec => []NoBatchStranded` |
| `OutcomesTerminal` | `Spec => EveryOutcomeTerminal` |
| `RegisteredOnDisk` | `Spec => []RegisteredFilesOnDisk` |
| `PathsExclusive` | `Spec => []RawPathsExclusive` |
| `ProcessedComplete`, `ImportAccepted` | `Spec => []NeverProcessedIncomplete`, `Spec => []ImportSuffices` |
| `ProgressHonest`, `ProgressMonotone` | `Spec => []ProgressShowsOutcome`, `Spec => ProgressOnlyGrows` |
| `RecordsExact` | `Spec => []RecordsMatchFiles` |
| `ResultsExact` | `Spec => []ResultsMatchStatus` |

Assumptions: `BatchesAssumption` (batches are finitely many -- a count is taken
of them -- and `NoBatch`, `NoDefinition` are none of the values they stand
beside) and `MaxCrashesAssumption`.

The argument. None of these properties is inductive: that `ProcessStage` moves a
status forward needs that the worker's copy of the status is the committed one,
which holds only because nobody else writes that row, which holds only because
a batch is in one place at a time. `IInv` says that:

* `WorkerOwns` -- the worker's view is the committed status of its batch, and its
  `pc` fits it;
* `QueueOwns` -- queued batches are CREATED, distinct, and not the running one;
* `HandlerOwns` -- a batch between commit and submit is CREATED, held by one
  handler, and neither queued nor running.

`Invariance` (`Spec => []IInv`) is proved with one lemma per action; type
correctness and the refinement follow from it. The second part of the module adds what
each further theorem needs: `FilesTracked` (files the worker has stored but not yet
committed are on disk) for `RegisteredOnDisk`, and `ProgressFits` (each status
has its range of percentages) for the two about progress. `RecordsFit` says what the
worker has parsed at each of its positions: while it parses, a registered file has
records exactly if it is not among those left. `ProductsFit` says that a batch has the
products of the stages its status has passed, and no others; a batch that failed may
have some of them, each once. `Reaches` being stated with ranks makes every refinement
step a comparison of two numbers.

`BatchSystem_proofs` proves about `BatchSystem`, with any number of clients working by
hand on the batches of the worker:

| theorem | statement |
|---|---|
| `SystemTypeCorrect` | `SystemSpec => []SystemTypeOK` |
| `OthersResultsExact` | `SystemSpec /\ []OneRequestEach => []OthersMatchStatus` |
| `OthersRecordsExact` | `SystemSpec /\ []OneRequestEach => []OthersMatchFiles` |
| `OthersRefineLifecycle` | `SystemSpec /\ []OneRequestEach => OthersFollowLifecycle` |
| `RegisteredOnDiskTogether` | `SystemSpec /\ []OneWriterEach => []RegisteredFilesOnDisk` |

Assumptions: those of `BatchRunner_proofs` and `ApiAssumption`. A batch of a run may be
moved by a request while the worker has it, so of the invariants of `BatchRunner` only
what says nothing of a status survives: `SysInv` keeps who holds which row
(`RunnerHolds`, `RequestsHold`). Statuses, records and products are followed for the
batches that are `Apart`, those that clients leave to the worker or the worker to
clients: `ApartInv` describes the row by what its status promises (`RowsFit`) and every
holder by what he knows of it (`HeldFits`, `WorkerFits`, `ViewsFit`).

The two hypotheses are each a race the code leaves open, and no more than that;
`api_concurrent` shows what the first leads to. `OneRequestEach` -- no two
requests serve one batch at a time (both would read it FILES_RECEIVED and process it, no
row is locked); `OneWriterEach` -- while an upload is between the look at a path and the
write to it, nobody else is about to write that path for another batch. They speak of
these steps alone: what worker, other requests and kills do in between is arbitrary, and
batch codes may repeat. With one client whose codes are not those of a run, as in
`system_shared`, they hold by themselves. `DiskFits` says that nobody else's file lies
where a request is about to write.

`ConfigVersions_proofs` proves about `ConfigVersions`, for every set of sources and
batches and every number of requests and versions:

| theorem | statement |
|---|---|
| `ConfigTypeCorrect` | `ConfigSpec => []ConfigTypeOK` |
| `VersionsKept` | `ConfigSpec => VersionsFrozen` |
| `BoundActivated` | `ConfigSpec => []BoundOnceActivated` |
| `SourcesKept` | `ConfigSpec => []ActivatedSourcesKnown` |
| `EditsNotLost` | `ConfigSpec => []OneEditPerBase` |
| `EditsInForce` | `ConfigSpec => EditsTakeEffect` |

All of them hold however requests interleave, activations included. What a request has
read is stale when it is used, but `Grows` says in which direction the store moves
between any two states: versions are only added, none becomes a draft again, data sources
keep their rows. So what was read stays true in the weak form that is needed
(`ReadsStayTrue`: the bound version was activated, a source that was known is
known). `EditsNotLost` rests on the numbering: an edit numbers itself after its base and is
refused unless the base is still the newest version, so the version after a base is the
only one that can have it as its base (`BasesNext`). `EditsInForce` needs no invariant but
the type: after its insert an edit holds the write lock, and reads what it archives and
synchronizes under it.

`Reconciliation_proofs` proves about `Reconciliation` and `ReconciliationSummary`, for
any rows, any fees, references, similarities and tolerances and any order of the ids:

| theorem | statement |
|---|---|
| `ReconciliationTypeCorrect` | `OneRulePerPass` implies `ReconciliationSpec => []ReconciliationTypeOK` |
| `MatchedOnce` | `OneRulePerPass` implies `ReconciliationSpec => []EachMatchedOnce` |
| `AccountedOnce` | `OneRulePerPass` implies `ReconciliationSpec => []EachAccountedOnce` |
| `StrongerFirst` | `OneWayRound` implies `ReconciliationSpec => []StrongerEvidenceFirst` |
| `SettlementsBalance` | `ReconciliationSpec => []SettlementsAddUp` |
| `NoGapUnanswered` | `ReconciliationSpec => []GapsAnswered` |
| `IssuesAreClasses` | `ReconciliationSpec => []RecordsInOneIssue` |

Assumptions: `MatchingAssumption` (no row is internal and external, rows are finitely
many, ids are ordered, amounts are numbers that are not negative and every row has a
transaction date), `FeesAssumption` (rates and amounts of the fee rules are numbers,
charges are finitely many) and `PlanAssumption` (the plan is a finite sequence of loops
of passes 1 to 6 in that order). The last follows from how `Plan` is built from
`Rules`, but that is an induction over two nested lists; TLC evaluates it. Normalization
stores absolute amounts and rejects a row without a date, and the schema of the
configuration asks for the numbers, so the code justifies the others.

*Matching.* None of the first three properties is
inductive: that the next pair is new to every earlier match depends on what the
pools and the used sets have to do with the matches. `PoolsAndMatches` says it:
together the pools and the matches hold every row, and the matched rows that are
still in the pools are exactly the used ones. A new match takes rows that are in the
pools and not used (`NewMatch`), whatever makes them acceptable -- the proof looks at
no amount, date or reference. `EndLoop` keeps the invariant because two loops of one
pass belong to one rule; that is where `OneRulePerPass` is needed. `Accounting` adds
that the pools are final once rows are classified and that each row left in them is a
duplicate or single on its own side, so gets one draft (`OneDraftEach`), and that the
settlement's own exceptions are none of these.

*Stronger evidence.* `Ordered` says that whatever is unmatched is still in the pools and
unused, and that no match is of a pass the plan has not come to; so at the end of a loop
two rows that no match of its pass has taken are both free, and the loop would have
paired them. What remains is the orientation of the identifiers (`RoundFound`), which
`resolve_condition_sides()` reads off the pools. It is right if the sources carry the
two identifiers of a condition one way round only, which its docstring calls "a fact
about the client's data sources": that is `OneWayRound`. Where it fails -- both types
on both sides -- only the first way round is tried. The property holds with several
rules per pass.

*Settlements.* `Settling` says that a match of pass 5 is explained by the fees
(`Formed`) and that the settlements of a closed batch are those of its matches
(`Settled`). The rest is arithmetic on sums over sets of any size: `BreakdownAddsUp`
(gross less the lines of fee, tax and charges is `Net`) and `SettleCases`. The sums are folds of the community modules, which take the
elements of a set in an order of their own; `FiniteInduction` proves by induction over
the subsets of a finite set that such a fold exists and that the order does not matter
(`SumIs`, `SumSplit`, `SumOfOne`).

*Issues.* `Grouped` says of the groups formed so far that they divide the exceptions, that
two exceptions with a common record among those gone through are in one group, and that no
group falls into two parts without a common record. Merging the groups that share the next
record keeps it (`UnionGroups`), for any order in which the records are chosen, and when all
have been gone through it is `RecordsInOneIssue`, since exceptions name known records only
(`RecordsKnown`).

`Cash_proofs` proves about `Cash`, for every configuration, any number of batches of any
size, and every point at which each of them stops:

| theorem | statement |
|---|---|
| `StatementsAccounted` | `SplitStatements => (CashSpec => []StatementAccountedFor)` |
| `BandHolds` | `CashSpec => []BandCoversOutcomes` |

Assumptions: those of `Reconciliation_proofs` and `CashAssumption`, whose last part says
that a cell that can be read as a date or a number is one (`NumbersReadable`).
`SplitStatements` says how the bank writes its statements: an amount is in a column of
deposits (`credit_positive`) or of withdrawals (`debit_negative`), and no column says
debit or credit. `StatementAccountedFor` reads just these two columns, so it says nothing
of a statement written otherwise. Several rules of one pass are allowed in both theorems.

`CashInv` says of the running batch that its pools and matches together are all its rows
and, once matched, apart (`PoolsLeft`); that the exceptions of a classified batch are about
exactly the bank's rows no match has, and that a missing record's impact is its amount
(`ExceptionsFit`); and that every batch in `books` had this when it stopped (`Fits`). A fee
variance does not disturb it, being about a row of the ledger. Of one batch, `StatedAmount`
takes the sum over the amount columns apart into deposits and withdrawals,
`BookedAsStated` shows that absolute value and debit/credit together lose nothing of it,
and `BatchAccounted` divides the statement's rows into booked, moved and open; the sums
over all batches follow term by term (`SumPlus`). For the band, the movements expected are
pairs of batch and exception: their signed amounts sum up to inflows less outflows, their
impacts to no more than what is unreconciled (`AllExpected`), and what stays away of them
is bounded by its impacts (`PartWithin`).

`Workspace_proofs` proves about `Workspace`, for all sets of clients, rows and
operators, any forms and patches, and any bounds:

| theorem | statement |
|---|---|
| `WorkspaceTypeCorrect` | `WorkspaceSpec => []WorkspaceTypeOK` |
| `FreshPolls` | `WorkspaceSpec => []FreshPollResult` |
| `OwnReferences` | every definition's account and import source exist and are its client's |
| `BlotterTells` | `WorkspaceSpec => []BlotterTellsRuns` |
| `WorkspaceInvariant` | `WorkspaceSpec => []WorkspaceInv` |

Assumptions: `RowsAssumption` (`None` is none of the values it stands beside -- the status of a run among them -- and
codes are finitely many), `FormsAssumption`, `SeedsAssumption` (the rows at the start are
unpolled and refer to their own client's) and `BoundsAssumption`. The heart of
`FreshPolls` is `CopyTells`: a copy that nobody has overtaken is the stored row, and one
that only edits, or only polls, have overtaken still agrees with it on what the other
kind writes. So a commit that meets no overlap writes a whole row, and one that meets
only its own kind leaves result and connection to each other. Each step lemma says what
one commit does to every other session's copy. `BlotterTells` needs to know where the runs
are: a live run is with the session that created it, in the queue or with the worker, in
one of these places only (`OnePlace`, `LiveUnderWay`), and of two runs of one definition
the earlier is ahead in that pipeline unless they were submitted in the other order
(`InOrder`); so a later run is live whenever an earlier one is.

`Agent_proofs` proves about `Agent`, over the invariant of `Workspace_proofs` and for
any patches, subsets, provider settings and positive budget of rounds:

| theorem | statement |
|---|---|
| `AgentTypeCorrect` | `AgentSpec => []AgentTypeOK` |
| `ScopeAlwaysKept` | `AgentSpec => []ScopeKept` |
| `ProposedRuns` | `AgentSpec => []RunsWereProposed` |
| `AgentInvariant` | `AgentSpec => []AgentInv` |

Assumptions: those of `Workspace_proofs` and `AgentAssumption`. `ScopeKept` needs that a
definition refers only to rows of its own client (`ReferencesInv`), for a tool that lists
definitions or shows a plan also shows the import source a definition names;
`ReadToolsWithin` goes through the 25 tools that read. `RunsWereProposed` needs `Covers`:
the plan on the screen, and the one agreed to, name every definition its call would
start, except those created or edited since. Operators and the worker may do anything in
between (`OthersInv`), because `OthersKeep` says what their steps leave to the agent: its
session but for what it knows of their commits, the runs there are, the definitions there
are. `ProposedRuns` says nothing of a model that confirms on its own; `agent_consent`
shows that the code does not stop one.

Every safety invariant that a passing run checks has its theorem. Only model-checked:
liveness (`EveryTurnAnswered`, `ImplementsFairLifecycle`), which is out of the
prover's reach, and the four runs that show a violation. What a recursive definition over
lists computes (`Plan`) is assumed where it is needed and evaluated by TLC.

## 5. What is not modelled, and the plan

Not modelled because it has no control of its own: the parsing of CSV, XLSX and JSON
(its outcomes are choices: records, an error row, an exception), schemas and read-only
endpoints, identifiers, clock and audit helpers, seed data and demonstration worlds,
the frontend.

Modelled in part: the creation of clients; the report and the rest of the summary,
which list what is stored; the run log, whose sequence numbers are drawn by the one
worker and which no part of the server reads to decide anything. How values are written
is abstracted: date formats, thousands separators (`parse_decimal()` makes nothing of a
cell that holds only a comma), the wording that `guard.scrub()` cleans, the messages
each vendor's client is sent.

Left for later:

1. A kill in `Workspace`, and `Workspace`'s runs shown to be those of `BatchRunner`.
