---------------------------- MODULE BatchSystem ----------------------------
(***************************************************************************)
(* The server as it runs: the request handlers, the queue and the worker   *)
(* of BatchRunner beside the endpoints of BatchApi, on one database and    *)
(* one directory of raw files.  What neither has alone is the write lock:  *)
(* a processing request keeps it for its whole transaction, and a session  *)
(* that waits longer than SQLite's busy timeout raises OperationalError.   *)
(***************************************************************************)
EXTENDS BatchRunner, BatchApi

systemVars == <<storeVars, runnerVars, session>>

SystemInit ==
  /\ Init
  /\ session = [h \in Sessions |-> IdleSession]

(* Some request may hold the write lock.                                    *)
StoreBusy ==
  \E h \in Sessions : session[h].op = "process" /\ session[h].view = "FILES_RECEIVED"

(* The first flush of execute() stands before its try block: an exception   *)
(* there reaches _execute_in_new_session(), which only logs it.             *)
AbandonAtStart ==
  /\ StoreBusy
  /\ worker.pc = "idle"
  /\ queue # << >>
  /\ queue' = Tail(queue)
  /\ UNCHANGED <<storeVars, handler, worker, crashes, session>>

(* So does an exception raised by _fail() inside the except clauses.        *)
AbandonWhileFailing ==
  /\ StoreBusy
  /\ worker.pc = "failing"
  /\ worker' = IdleWorker
  /\ UNCHANGED <<storeVars, handler, queue, crashes, session>>

SystemCrash ==
  /\ Crash
  /\ session' = [h \in Sessions |-> IdleSession]

SystemNext ==
  \/ (\E h \in Handlers : HandlerStep(h)) /\ UNCHANGED session
  \/ (\E d \in Definitions : EditDefinition(d)) /\ UNCHANGED session
  \/ WorkerProgress /\ UNCHANGED session
  \/ RunRaises /\ UNCHANGED session
  \/ ApiNext /\ UNCHANGED runnerVars
  \/ AbandonAtStart
  \/ AbandonWhileFailing
  \/ SystemCrash

SystemSpec == SystemInit /\ [][SystemNext]_systemVars

SystemTypeOK == TypeOK /\ ApiTypeOK

(* The committed rows of the batches that only one of the two drives.       *)
Apart == {b \in Batches : \A op \in Operations : <<b, op>> \notin Touched}
RowsApart(row) == [b \in Apart |-> row[b]]

StoreApart == INSTANCE BatchStore WITH
  Batches <- Apart, status <- RowsApart(status), pct <- RowsApart(pct), defn <- RowsApart(defn),
  runNo <- RowsApart(runNo), files <- RowsApart(files), records <- RowsApart(records),
  made <- RowsApart(made)

(* What a client does to the batch of a run disturbs no other batch: those  *)
(* follow the lifecycle as if nobody had interfered.                        *)
OthersFollowLifecycle == StoreApart!ImplementsLifecycle

(* Nor does it reach their products: each is committed once its stage has   *)
(* been passed, and not before, though a kill or a failing request falls    *)
(* between.                                                                 *)
OthersMatchStatus == StoreApart!ResultsMatchStatus

(* Nor their records: those of each registered file, parsed once.           *)
OthersMatchFiles == StoreApart!RecordsMatchFiles

(* A batch that the worker takes and leaves is closed or failed: the claim  *)
(* of EveryOutcomeTerminal, here with requests competing for the store.     *)
EveryOutcomeTerminalUnderLoad ==
  [][\A b \in Batches :
       /\ IsRunning(b) \/ (queue # << >> /\ Head(queue) = b)
       /\ ~IsRunning(b)' /\ ~IsQueued(b)' /\ crashes' = crashes
       => status'[b] \in TerminalStates]_systemVars
=============================================================================
