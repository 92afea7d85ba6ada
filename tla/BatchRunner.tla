---------------------------- MODULE BatchRunner ----------------------------
(***************************************************************************)
(* Configured batches from request to end: HTTP handlers that accept /run  *)
(* requests, the in-memory queue of the single-thread executor, and the    *)
(* worker thread that imports the files of a batch and walks it through    *)
(* process_batch(), committing at every progress call.  The process may be *)
(* killed between any two steps: handlers, queue and worker are lost, the  *)
(* committed rows and the raw files stay, and nothing rebuilds the queue.  *)
(***************************************************************************)
EXTENDS BatchStore, Sequences

CONSTANTS
  Handlers,    \* threads of the server's pool that serve /run requests
  MaxCrashes   \* bound: how often the process may be killed

ASSUME MaxCrashesAssumption == MaxCrashes \in Nat

VARIABLES
  handler,    \* the state of each request handler
  queue,      \* work queue of the executor: FIFO of batch ids
  worker,     \* the worker thread and its session
  crashes     \* how often the process was killed

runnerVars == <<handler, queue, worker, crashes>>
vars == <<storeVars, runnerVars>>

IdleHandler == [pc |-> "idle", def |-> NoDefinition, run |-> 0, batch |-> NoBatch]

IdleWorker ==
  [ pc |-> "idle", batch |-> NoBatch, view |-> NoRow,
    wanted |-> {}, found |-> {}, stored |-> {}, left |-> {} ]

WorkerPc ==
  { "idle", "import", "store", "complete", "begin", "parse", "process", "failing" }

Init ==
  /\ StoreInit
  /\ handler = [h \in Handlers |-> IdleHandler]
  /\ queue   = << >>
  /\ worker  = IdleWorker
  /\ crashes = 0

-----------------------------------------------------------------------------
(* Request handlers and operator edits.                                     *)

(* run_batch_definition(): a disabled definition is skipped; for an enabled *)
(* one next_batch_code() counts the definition's existing batches.          *)
RequestRun(h, d) ==
  /\ handler[h].pc = "idle"
  /\ enabled[d]
  /\ handler' = [handler EXCEPT ![h] =
                   [pc |-> "numbered", def |-> d, run |-> NextRunNo(d), batch |-> NoBatch]]
  /\ UNCHANGED <<storeVars, queue, worker, crashes>>

(* create_batch() raises (no ACTIVE configuration): nothing was queued.     *)
RefuseRun(h) ==
  /\ handler[h].pc = "numbered"
  /\ handler' = [handler EXCEPT ![h] = IdleHandler]
  /\ UNCHANGED <<storeVars, queue, worker, crashes>>

(* _queue(): the row is committed before the runner hears of it.            *)
CreateBatch(h) ==
  /\ handler[h].pc = "numbered"
  /\ \E b \in Batches :
       /\ InsertBatch(b, handler[h].def, handler[h].run)
       /\ handler' = [handler EXCEPT ![h] = [@ EXCEPT !.pc = "created", !.batch = b]]
  /\ UNCHANGED <<queue, worker, crashes>>

(* runner.submit()                                                          *)
SubmitBatch(h) ==
  /\ handler[h].pc = "created"
  /\ queue' = Append(queue, handler[h].batch)
  /\ handler' = [handler EXCEPT ![h] = IdleHandler]
  /\ UNCHANGED <<storeVars, worker, crashes>>

(* update_definition(): source_ids may not become empty.                    *)
EditDefinition(d) ==
  /\ \E W \in SUBSET Sources \ {{}}, e \in BOOLEAN :
       /\ wanted'  = [wanted  EXCEPT ![d] = W]
       /\ enabled' = [enabled EXCEPT ![d] = e]
  /\ UNCHANGED <<batchVars, raw, runnerVars>>

-----------------------------------------------------------------------------
(* The worker thread: execute().                                            *)

(* The rows are loaded and the start of the run is committed.  The session  *)
(* keeps the batch's status and the definition's source_ids as loaded here: *)
(* it does not expire them on commit.                                       *)
StartRun ==
  /\ worker.pc = "idle"
  /\ queue # << >>
  /\ LET b == Head(queue) IN
       /\ worker' = [ pc |-> "import", batch |-> b, view |-> status[b],
                      wanted |-> wanted[defn[b]], found |-> {}, stored |-> {}, left |-> {} ]
       /\ pct' = [pct EXCEPT ![b] = 5]
  /\ queue' = Tail(queue)
  /\ UNCHANGED <<status, defn, runNo, files, records, made, raw,
                 wanted, enabled, handler, crashes>>

(* discover(): the import source offers any subset of the wanted sources;   *)
(* an absent directory or a disabled source offers none.                    *)
DiscoverFiles ==
  /\ worker.pc = "import"
  /\ \E found \in SUBSET worker.wanted :
       worker' = [worker EXCEPT !.pc = "store", !.found = found]
  /\ UNCHANGED <<storeVars, handler, queue, crashes>>

(* Seeded fault: the path is not looked at before it is written.            *)
StoreFile_Unchecked(s) ==
  /\ worker.pc = "store"
  /\ s \in worker.found \ worker.stored
  /\ raw' = raw \cup {RawFileOf(worker.batch, s)}
  /\ worker' = [worker EXCEPT !.stored = @ \cup {s}]
  /\ UNCHANGED <<status, pct, defn, runNo, files, records, made,
                 wanted, enabled, handler, queue, crashes>>

(* store_uploaded_file(): the raw file reaches the disk, its row waits for  *)
(* the commit.                                                              *)
StoreFile(s) ==
  /\ worker.pc = "store"
  /\ s \in worker.found \ worker.stored
  /\ ~RawPathTaken(worker.batch, s)
  /\ raw' = raw \cup {RawFileOf(worker.batch, s)}
  /\ worker' = [worker EXCEPT !.stored = @ \cup {s}]
  /\ UNCHANGED <<status, pct, defn, runNo, files, records, made,
                 wanted, enabled, handler, queue, crashes>>

(* write_raw_file() finds the path taken: FileExistsError, turned into a    *)
(* DomainError; the rows of the files already stored are rolled back.       *)
RefuseOverwrite(s) ==
  /\ worker.pc = "store"
  /\ s \in worker.found \ worker.stored
  /\ RawPathTaken(worker.batch, s)
  /\ worker' = [worker EXCEPT !.pc = "failing"]
  /\ UNCHANGED <<storeVars, handler, queue, crashes>>

(* Seeded fault: the rows are committed before the last file is written.    *)
CommitFiles_Early ==
  /\ worker.pc = "store"
  /\ files' = [files EXCEPT ![worker.batch] = @ \cup worker.found]
  /\ worker' = [worker EXCEPT !.pc =
                  IF worker.wanted \subseteq worker.found THEN "complete" ELSE "failing"]
  /\ UNCHANGED <<status, pct, defn, runNo, records, made, raw,
                 wanted, enabled, handler, queue, crashes>>

(* The file rows are committed, then a missing source fails the run.        *)
CommitFiles ==
  /\ worker.pc = "store"
  /\ worker.stored = worker.found
  /\ files' = [files EXCEPT ![worker.batch] = @ \cup worker.stored]
  /\ worker' = [worker EXCEPT !.pc =
                  IF worker.wanted \subseteq worker.stored THEN "complete" ELSE "failing"]
  /\ UNCHANGED <<status, pct, defn, runNo, records, made, raw,
                 wanted, enabled, handler, queue, crashes>>

(* Seeded fault: the definition is read again, as a session would that      *)
(* expires its objects on commit.                                           *)
FilesComplete_AsEdited ==
  /\ wanted[defn[worker.batch]] \subseteq files[worker.batch]
  /\ CanTransition(worker.view, "FILES_RECEIVED")

(* mark_files_complete(): completeness is checked against the rows, the     *)
(* transition against the session's view, which another writer may have     *)
(* moved on before the run loaded it.  Where either fails, RunRaises.       *)
FilesComplete ==
  /\ worker.wanted \subseteq files[worker.batch]
  /\ CanTransition(worker.view, "FILES_RECEIVED")

CompleteFiles ==
  /\ worker.pc = "complete"
  /\ FilesComplete
  /\ status' = [status EXCEPT ![worker.batch] = "FILES_RECEIVED"]
  /\ pct' = [pct EXCEPT ![worker.batch] = PctAt("FILES_RECEIVED")]
  /\ worker' = [worker EXCEPT !.pc = "begin", !.view = "FILES_RECEIVED"]
  /\ UNCHANGED <<defn, runNo, files, records, made, raw,
                 wanted, enabled, handler, queue, crashes>>

(* process_batch() reads the file rows and commits its first progress call. *)
BeginProcessing ==
  /\ worker.pc = "begin"
  /\ worker' = [worker EXCEPT !.pc = "parse", !.left = files[worker.batch]]
  /\ pct' = [pct EXCEPT ![worker.batch] = 25]
  /\ UNCHANGED <<status, defn, runNo, files, records, made, raw,
                 wanted, enabled, handler, queue, crashes>>

(* Seeded fault: a parsed file is not crossed off.                          *)
ParseFile_Again(s) ==
  /\ worker.pc = "parse"
  /\ s \in worker.left
  /\ records' = [records EXCEPT ![worker.batch][s] = @ + 1]
  /\ UNCHANGED <<status, pct, defn, runNo, files, made, raw,
                 wanted, enabled, handler, queue, worker, crashes>>

(* parse_source_file() and the commit that reports it.                      *)
ParseFile(s) ==
  /\ worker.pc = "parse"
  /\ s \in worker.left
  /\ records' = [records EXCEPT ![worker.batch][s] = @ + 1]
  /\ worker' = [worker EXCEPT !.left = @ \ {s}]
  /\ UNCHANGED <<status, pct, defn, runNo, files, made, raw,
                 wanted, enabled, handler, queue, crashes>>

(* Seeded fault: the progress call commits before the stage has written.    *)
Produce_Early(to) ==
  /\ status' = [status EXCEPT ![worker.batch] = to]
  /\ pct' = [pct EXCEPT ![worker.batch] = PctAt(to)]
  /\ made' = [made EXCEPT ![worker.batch] =
                [p \in Products |-> IF p \in ProductsOf(worker.view) THEN @[p] + 1 ELSE @[p]]]

(* Seeded fault: progress is added up instead of set.                       *)
Produce_AddsUp(to) ==
  /\ status' = [status EXCEPT ![worker.batch] = to]
  /\ pct' = [pct EXCEPT ![worker.batch] = @ + PctAt(to)]
  /\ made' = [made EXCEPT ![worker.batch] =
                [p \in Products |-> IF p \in ProductsOf(to) THEN @[p] + 1 ELSE @[p]]]

(* The transitions and products up to the next commit of process_batch().   *)
Produce(to) ==
  /\ status' = [status EXCEPT ![worker.batch] = to]
  /\ pct' = [pct EXCEPT ![worker.batch] = PctAt(to)]
  /\ made' = [made EXCEPT ![worker.batch] =
                [p \in Products |-> IF p \in ProductsOf(to) THEN @[p] + 1 ELSE @[p]]]

ProcessStage ==
  /\ \/ worker.pc = "parse" /\ worker.left = {}
     \/ worker.pc = "process"
  /\ worker.view \in DOMAIN NextCommitted
  /\ LET to == NextCommitted[worker.view] IN
       /\ Produce(to)
       /\ worker' = IF to = "CLOSED" THEN IdleWorker
                    ELSE [worker EXCEPT !.pc = "process", !.view = to]
  /\ UNCHANGED <<defn, runNo, files, records, raw,
                 wanted, enabled, handler, queue, crashes>>

(* Seeded fault: the exception leaves execute() unhandled.                  *)
RunRaises_Unhandled ==
  /\ worker.pc \notin {"idle", "failing"}
  /\ worker' = IdleWorker
  /\ UNCHANGED <<storeVars, handler, queue, crashes>>

(* Any step inside execute()'s try block may raise; everything since the    *)
(* last commit is rolled back.                                              *)
RunRaises ==
  /\ worker.pc \notin {"idle", "failing"}
  /\ worker' = [worker EXCEPT !.pc = "failing"]
  /\ UNCHANGED <<storeVars, handler, queue, crashes>>

(* Seeded fault: a failed run is resumed at process_batch().                *)
RecordFailure_Resumes ==
  /\ worker.pc = "failing"
  /\ status' = [status EXCEPT ![worker.batch] = "FILES_RECEIVED"]
  /\ worker' = [worker EXCEPT !.pc = "begin", !.view = "FILES_RECEIVED"]
  /\ UNCHANGED <<pct, defn, runNo, files, records, made, raw,
                 wanted, enabled, handler, queue, crashes>>

(* Seeded fault: the failure is reported as progress only.                  *)
RecordFailure_NoStatus ==
  /\ worker.pc = "failing"
  /\ pct' = [pct EXCEPT ![worker.batch] = 100]
  /\ worker' = IdleWorker
  /\ UNCHANGED <<status, defn, runNo, files, records, made, raw,
                 wanted, enabled, handler, queue, crashes>>

(* Seeded fault: a failure takes the progress back.                         *)
RecordFailure_Resets ==
  /\ worker.pc = "failing"
  /\ status' = [status EXCEPT ![worker.batch] =
                  IF @ \in TerminalStates THEN @ ELSE "FAILED"]
  /\ pct' = [pct EXCEPT ![worker.batch] = 0]
  /\ worker' = IdleWorker
  /\ UNCHANGED <<defn, runNo, files, records, made, raw,
                 wanted, enabled, handler, queue, crashes>>

(* The rollback expired the session, so _fail() sees the committed status.  *)
RecordFailure ==
  /\ worker.pc = "failing"
  /\ status' = [status EXCEPT ![worker.batch] =
                  IF @ \in TerminalStates THEN @ ELSE "FAILED"]
  /\ pct' = [pct EXCEPT ![worker.batch] = 100]
  /\ worker' = IdleWorker
  /\ UNCHANGED <<defn, runNo, files, records, made, raw,
                 wanted, enabled, handler, queue, crashes>>

-----------------------------------------------------------------------------
(* The process is killed and started again: lifespan() creates tables and   *)
(* seeds tax rules, and neither the queue nor a run in progress is restored. *)
Crash ==
  /\ crashes < MaxCrashes
  /\ crashes' = crashes + 1
  /\ handler' = [h \in Handlers |-> IdleHandler]
  /\ queue'   = << >>
  /\ worker'  = IdleWorker
  /\ UNCHANGED <<storeVars>>

HandlerStep(h) ==
  \/ \E d \in Definitions : RequestRun(h, d)
  \/ RefuseRun(h)
  \/ CreateBatch(h)
  \/ SubmitBatch(h)

(* What the worker thread does next when nothing raises unexpectedly.       *)
WorkerProgress ==
  \/ StartRun
  \/ DiscoverFiles
  \/ \E s \in Sources : StoreFile(s) \/ RefuseOverwrite(s) \/ ParseFile(s)
  \/ CommitFiles
  \/ CompleteFiles
  \/ BeginProcessing
  \/ ProcessStage
  \/ RecordFailure

Next ==
  \/ \E h \in Handlers : HandlerStep(h)
  \/ \E d \in Definitions : EditDefinition(d)
  \/ WorkerProgress
  \/ RunRaises
  \/ Crash

Spec == Init /\ [][Next]_vars

(* The executor's thread keeps running, and a handler that committed a row  *)
(* goes on to submit it; nobody has to send requests or edit definitions.   *)
Fairness ==
  /\ WF_vars(WorkerProgress)
  /\ \A h \in Handlers : WF_vars(SubmitBatch(h))

FairSpec == Spec /\ Fairness

-----------------------------------------------------------------------------
(* Properties.                                                              *)

IsHeld(b)    == \E h \in Handlers : handler[h].batch = b
IsQueued(b)  == \E i \in DOMAIN queue : queue[i] = b
IsRunning(b) == worker.batch = b

TypeOK ==
  /\ StoreTypeOK
  /\ handler \in [Handlers -> [ pc : {"idle", "numbered", "created"},
                                def : Definitions \cup {NoDefinition},
                                run : Nat, batch : Batches \cup {NoBatch} ]]
  /\ queue   \in Seq(Batches)
  /\ worker  \in [ pc : WorkerPc, batch : Batches \cup {NoBatch},
                   view : Statuses \cup {NoRow}, wanted : SUBSET Sources,
                   found : SUBSET Sources, stored : SUBSET Sources,
                   left : SUBSET Sources ]
  /\ crashes \in 0..MaxCrashes

(* While the process has not been killed, a batch that is neither closed    *)
(* nor failed is in somebody's hands: the handler that inserted it, the     *)
(* queue or the worker.  (_queue(), submit(), and the except clauses of     *)
(* execute(): no exception may drop a batch half way.)                      *)
NoBatchStranded ==
  crashes = 0 =>
    \A b \in Batches : Live(b) => IsHeld(b) \/ IsQueued(b) \/ IsRunning(b)

(* A batch is processed only with every source its definition asked for     *)
(* when the run loaded it.  (_import_files(), mark_files_complete().)       *)
NeverProcessedIncomplete ==
  worker.pc \in {"begin", "parse", "process"} =>
    worker.wanted \subseteq files[worker.batch]

(* What was imported is complete: _import_files() and mark_files_complete() *)
(* go by one list of sources, so no edit of the definition under way gets a *)
(* run refused whose files have all arrived.                                *)
ImportSuffices == worker.pc = "complete" => FilesComplete

(* The progress bar is full exactly when the run is over.                   *)
(* (_set_progress() at the end of execute(), _fail().)                      *)
ProgressShowsOutcome ==
  \A b \in Batches : pct[b] = 100 <=> Terminal(b)

(* The progress bar never moves backwards, whatever fails.                  *)
ProgressOnlyGrows ==
  [][\A b \in Batches : pct'[b] >= pct[b]]_pct

(* A batch that the worker has left is closed or failed.  (execute():       *)
(* "Every outcome ... ends with the batch in a terminal state".)            *)
EveryOutcomeTerminal ==
  [][\A b \in Batches :
       IsRunning(b) /\ ~IsRunning(b)' /\ crashes' = crashes
         => status'[b] \in TerminalStates]_vars

(* With a fair worker and no kill, every accepted run ends.                 *)
ImplementsFairLifecycle == Lifecycle!FairSpec

=============================================================================
