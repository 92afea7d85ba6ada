----------------------------- MODULE BatchStore ----------------------------
(***************************************************************************)
(* What survives a restart: the committed rows of the database and the raw *)
(* files on disk.  Modules that model the threads acting on them extend    *)
(* this one.                                                               *)
(*                                                                         *)
(* SQLite serialises writers, and a session's writes are invisible until   *)
(* its commit, so a transaction is one step taken at its commit; what a    *)
(* session read before it is kept in that session's own variables.  A raw  *)
(* file is visible as soon as it is written, so writing one is a step.     *)
(***************************************************************************)
EXTENDS BatchStateMachine, FiniteSets

CONSTANTS
  Batches,       \* identities for rows of the batches table
  Definitions,   \* batch definitions of one client
  Sources,       \* data source codes a batch can need
  NoBatch,       \* "no batch": None
  NoDefinition   \* "no definition": an ad-hoc batch, or one not inserted yet

ASSUME BatchesAssumption ==
  /\ IsFiniteSet(Batches)
  /\ NoBatch \notin Batches
  /\ NoDefinition \notin Definitions

(* What process_batch() leaves behind besides source records.               *)
Products == {"transactions", "matches", "exceptions", "settlements", "cash"}

VARIABLES
  status,    \* batches.status
  pct,       \* batches.progress_pct
  defn,      \* batches.batch_definition_id
  runNo,     \* with defn the batch_code: the n of "<definition>/<date>#n"
  files,     \* sources with a batch_files row, per batch
  records,   \* how often the source records of a file were committed
  made,      \* how often each product was committed
  raw,       \* raw files on disk: path (def, run, source) and the batch that wrote it
  wanted,    \* batch_definitions.source_ids
  enabled    \* batch_definitions.enabled

batchVars == <<status, pct, defn, runNo, files, records, made>>
storeVars == <<batchVars, raw, wanted, enabled>>

StoreInit ==
  /\ status  = [b \in Batches |-> NoRow]
  /\ pct     = [b \in Batches |-> 0]
  /\ defn    = [b \in Batches |-> NoDefinition]
  /\ runNo   = [b \in Batches |-> 0]
  /\ files   = [b \in Batches |-> {}]
  /\ records = [b \in Batches |-> [s \in Sources |-> 0]]
  /\ made    = [b \in Batches |-> [p \in Products |-> 0]]
  /\ raw     = {}
  /\ wanted  \in [Definitions -> SUBSET Sources \ {{}}]
  /\ enabled = [d \in Definitions |-> TRUE]

RawFile ==
  [def : Definitions \cup {NoDefinition}, run : Nat, source : Sources, by : Batches]

StoreTypeOK ==
  /\ status  \in [Batches -> Statuses \cup {NoRow}]
  /\ pct     \in [Batches -> 0..100]
  /\ defn    \in [Batches -> Definitions \cup {NoDefinition}]
  /\ runNo   \in [Batches -> Nat]
  /\ files   \in [Batches -> SUBSET Sources]
  /\ records \in [Batches -> [Sources -> Nat]]
  /\ made    \in [Batches -> [Products -> Nat]]
  /\ raw     \subseteq RawFile
  /\ wanted  \in [Definitions -> SUBSET Sources]
  /\ enabled \in [Definitions -> BOOLEAN]

(* path.exists(): the path is built from the batch's code, which two        *)
(* batches share exactly when definition and run number agree.              *)
RawPathTaken(b, s) ==
  \E f \in raw : f.def = defn[b] /\ f.run = runNo[b] /\ f.source = s

RawFileOf(b, s) == [def |-> defn[b], run |-> runNo[b], source |-> s, by |-> b]

Live(b) == status[b] \in LiveStates
Terminal(b) == status[b] \in TerminalStates

(* next_batch_code(): one more than the rows the definition already has.    *)
NextRunNo(d) == Cardinality({b \in Batches : defn[b] = d}) + 1

(* create_batch() and its commit.                                           *)
InsertBatch(b, d, n) ==
  /\ status[b] = NoRow
  /\ status' = [status EXCEPT ![b] = "CREATED"]
  /\ defn'   = [defn   EXCEPT ![b] = d]
  /\ runNo'  = [runNo  EXCEPT ![b] = n]
  /\ UNCHANGED <<pct, files, records, made, raw, wanted, enabled>>

(* The products that the transaction ending in the given status commits.    *)
ProductsOf(to) ==
  CASE to = "VALIDATED"                -> {"transactions"}
    [] to = "RECONCILIATION_COMPLETED" -> {"matches"}
    [] to = "EXCEPTIONS_IDENTIFIED"    -> {"exceptions"}
    [] to = "SETTLEMENT_PROCESSING"    -> {"settlements"}
    [] to = "REPORTING"                -> {"cash"}
    [] OTHER                           -> {}

(* The progress_pct that is committed together with a status.               *)
PctAt(to) ==
  CASE to = "FILES_RECEIVED"           -> 20
    [] to = "VALIDATED"                -> 40
    [] to = "NORMALIZED"               -> 55
    [] to = "RECONCILIATION_COMPLETED" -> 70
    [] to = "EXCEPTIONS_IDENTIFIED"    -> 78
    [] to = "TAX_PROCESSING"           -> 84
    [] to = "SETTLEMENT_PROCESSING"    -> 90
    [] to = "REPORTING"                -> 96
    [] OTHER                           -> 100

-----------------------------------------------------------------------------
(* Properties of the committed rows and the files, whoever writes them.     *)

(* What a reader finds for a batch agrees with its status: a product has    *)
(* been committed exactly once if the batch has passed the stage making it, *)
(* not at all before, and a failed batch has no product twice.              *)
(* (The order of transition() and emit() calls in process_batch().)         *)
ResultsMatchStatus ==
  \A b \in Batches : \A p \in Products :
    /\ made[b][p] \in {0, 1}
    /\ status[b] \in LiveStates \cup {"CLOSED"} =>
         (made[b][p] = 1 <=>
            \E to \in Statuses : p \in ProductsOf(to) /\ Rank[to] <= Rank[status[b]])

(* The records a batch is reconciled from are those of its registered       *)
(* files, each parsed exactly once, even when a run fails half way.         *)
(* (parse_source_file() appends rows and is not idempotent.)                *)
RecordsMatchFiles ==
  \A b \in Batches : \A s \in Sources :
    /\ records[b][s] \in {0, 1}
    /\ records[b][s] = 1 => s \in files[b]
    /\ status[b] \in (LiveStates \cup {"CLOSED"}) \ {"CREATED", "FILES_RECEIVED"} =>
         (s \in files[b] => records[b][s] = 1)

(* A file row is committed only after its raw file is on disk, and the file *)
(* it points at was written by the batch itself, even when two batches were *)
(* given the same code.  (store_uploaded_file(), write_raw_file().)         *)
RegisteredFilesOnDisk ==
  \A b \in Batches : \A s \in files[b] : RawFileOf(b, s) \in raw

(* One path holds one batch's file: the exists-check of write_raw_file().   *)
RawPathsExclusive ==
  \A f, g \in raw :
    f.def = g.def /\ f.run = g.run /\ f.source = g.source => f = g

(* Readers of the committed rows see the lifecycle of BatchLifecycle.       *)
Lifecycle == INSTANCE BatchLifecycle

ImplementsLifecycle == Lifecycle!Spec
=============================================================================
