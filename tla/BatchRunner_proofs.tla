------------------------- MODULE BatchRunner_proofs ------------------------
(***************************************************************************)
(* Theorems about BatchRunner for any number of batches, definitions,      *)
(* sources, handlers and kills.  The inductive invariant says who owns a   *)
(* live batch: at most one of a handler, one place in the queue and the    *)
(* worker, and that the worker's copy of the status is the committed one.  *)
(***************************************************************************)
EXTENDS BatchRunner, FiniteSetTheorems, SequenceTheorems, TLAPS

(* The worker's position agrees with the committed status of its batch.     *)
WorkerOwns ==
  /\ worker.pc = "idle" => worker.batch = NoBatch
  /\ worker.pc # "idle" =>
       /\ worker.batch \in Batches
       /\ defn[worker.batch] \in Definitions
       /\ status[worker.batch] \in LiveStates
  /\ worker.pc \in {"import", "store", "complete"} =>
       worker.view = "CREATED" /\ status[worker.batch] = "CREATED"
  /\ worker.pc \in {"begin", "parse"} =>
       worker.view = "FILES_RECEIVED" /\ status[worker.batch] = "FILES_RECEIVED"
  /\ worker.pc = "process" =>
       worker.view = status[worker.batch] /\ worker.view \in DOMAIN NextCommitted

(* A queued batch is untouched, queued once and not being run.              *)
QueueOwns ==
  \A i \in 1..Len(queue) :
    /\ status[queue[i]] = "CREATED"
    /\ defn[queue[i]] \in Definitions
    /\ queue[i] # worker.batch
    /\ \A j \in 1..Len(queue) : i # j => queue[i] # queue[j]

(* A batch that its handler has not submitted yet is nobody else's.         *)
HandlerOwns ==
  \A h \in Handlers :
    /\ handler[h].pc # "created" => handler[h].batch = NoBatch
    /\ handler[h].pc # "idle" => handler[h].def \in Definitions
    /\ handler[h].pc = "created" =>
         /\ handler[h].batch \in Batches
         /\ status[handler[h].batch] = "CREATED"
         /\ defn[handler[h].batch] \in Definitions
         /\ handler[h].batch # worker.batch
         /\ \A i \in 1..Len(queue) : queue[i] # handler[h].batch
         /\ \A g \in Handlers : g # h => handler[g].batch # handler[h].batch

Owns == WorkerOwns /\ QueueOwns /\ HandlerOwns

IInv == TypeOK /\ WorkerOwns /\ QueueOwns /\ HandlerOwns

USE BatchesAssumption, MaxCrashesAssumption

(* A request's run number is a number: next_batch_code() counts a finite    *)
(* set of rows.                                                             *)
LEMMA NextRunNoType == \A d : NextRunNo(d) \in Nat
<1>1. SUFFICES ASSUME NEW d PROVE NextRunNo(d) \in Nat
  OBVIOUS
<1>2. {b \in Batches : defn[b] = d} \subseteq Batches
  OBVIOUS
<1>3. Cardinality({b \in Batches : defn[b] = d}) \in Nat
  BY <1>2, FS_Subset, FS_CardinalityType
<1>4. QED
  BY <1>3 DEF NextRunNo

(* The statuses that the worker commits.                                    *)
LEMMA StatusFacts ==
  /\ LiveStates \subseteq Statuses
  /\ TerminalStates \subseteq Statuses
  /\ LiveStates \cap TerminalStates = {}
  /\ NoRow \notin Statuses
  /\ "CREATED" \in LiveStates
  /\ "FILES_RECEIVED" \in LiveStates \cap DOMAIN NextCommitted
  /\ "FAILED" \in TerminalStates
  /\ "CLOSED" \in TerminalStates
  /\ DOMAIN NextCommitted \subseteq LiveStates
BY DEF Statuses, LiveStates, TerminalStates, NoRow, NextCommitted

LEMMA NextCommittedFacts ==
  ASSUME NEW s \in DOMAIN NextCommitted
  PROVE  /\ NextCommitted[s] \in (DOMAIN NextCommitted) \cup {"CLOSED"}
         /\ NextCommitted[s] # "FILES_RECEIVED"
         /\ Rank[s] < Rank[NextCommitted[s]]
         /\ PctAt(NextCommitted[s]) \in 0..100
         /\ PctAt(NextCommitted[s]) = 100 <=> NextCommitted[s] = "CLOSED"
<1>1. DOMAIN NextCommitted =
        { "FILES_RECEIVED", "VALIDATED", "NORMALIZED",
          "RECONCILIATION_COMPLETED", "EXCEPTIONS_IDENTIFIED",
          "TAX_PROCESSING", "SETTLEMENT_PROCESSING", "REPORTING" }
  BY DEF NextCommitted
<1>2. NextCommitted[s] =
        CASE s = "FILES_RECEIVED"           -> "VALIDATED"
          [] s = "VALIDATED"                -> "NORMALIZED"
          [] s = "NORMALIZED"               -> "RECONCILIATION_COMPLETED"
          [] s = "RECONCILIATION_COMPLETED" -> "EXCEPTIONS_IDENTIFIED"
          [] s = "EXCEPTIONS_IDENTIFIED"    -> "TAX_PROCESSING"
          [] s = "TAX_PROCESSING"           -> "SETTLEMENT_PROCESSING"
          [] s = "SETTLEMENT_PROCESSING"    -> "REPORTING"
          [] OTHER                          -> "CLOSED"
  BY DEF NextCommitted
<1>3. /\ NextCommitted[s] \in (DOMAIN NextCommitted) \cup {"CLOSED"}
      /\ NextCommitted[s] # "FILES_RECEIVED"
  BY <1>1, <1>2
<1>4. Rank[s] < Rank[NextCommitted[s]]
  BY <1>1, <1>2 DEF Rank, Statuses, LiveStates, TerminalStates
<1>5. PctAt(NextCommitted[s]) \in 0..100
  BY DEF PctAt
<1>6. PctAt(NextCommitted[s]) = 100 <=> NextCommitted[s] = "CLOSED"
  BY <1>1, <1>3 DEF PctAt
<1>7. QED
  BY <1>3, <1>4, <1>5, <1>6

-----------------------------------------------------------------------------
(* Types.  All they need to know of who owns what is that the batches and   *)
(* definitions that are held are some.                                      *)

Refers ==
  /\ worker.pc # "idle" => worker.batch \in Batches /\ defn[worker.batch] \in Definitions
  /\ \A i \in 1..Len(queue) : defn[queue[i]] \in Definitions
  /\ \A h \in Handlers :
       /\ handler[h].pc # "idle" => handler[h].def \in Definitions
       /\ handler[h].pc = "created" => handler[h].batch \in Batches

LEMMA InitTypeOK == Init => TypeOK
<1> SUFFICES ASSUME Init PROVE TypeOK
  OBVIOUS
<1> USE DEF Init, StoreInit, IdleHandler, IdleWorker
<1>1. StoreTypeOK
  BY DEF StoreTypeOK, Statuses
<1>2. QED
  BY <1>1 DEF TypeOK, WorkerPc

LEMMA HandlerTyped ==
  ASSUME TypeOK, Refers, NEW h \in Handlers, HandlerStep(h)
  PROVE  TypeOK'
<1>1. ASSUME NEW d \in Definitions, RequestRun(h, d) PROVE TypeOK'
  <2>1. NextRunNo(d) \in Nat
    BY NextRunNoType
  <2>2. QED
    BY <1>1, <2>1 DEF RequestRun, storeVars, batchVars, TypeOK, StoreTypeOK
<1>2. CASE RefuseRun(h)
  BY <1>2 DEF RefuseRun, IdleHandler, storeVars, batchVars, TypeOK, StoreTypeOK
<1>3. CASE CreateBatch(h)
  <2>1. PICK b \in Batches :
          /\ InsertBatch(b, handler[h].def, handler[h].run)
          /\ handler' = [handler EXCEPT ![h] = [@ EXCEPT !.pc = "created", !.batch = b]]
    BY <1>3 DEF CreateBatch
  <2>2. /\ handler[h].def \in Definitions /\ handler[h].run \in Nat
        /\ UNCHANGED <<queue, worker, crashes>>
    BY <1>3 DEF CreateBatch, Refers, TypeOK
  <2>3. StoreTypeOK'
    BY <2>1, <2>2 DEF InsertBatch, TypeOK, StoreTypeOK, Statuses, LiveStates
  <2>4. handler' \in [Handlers -> [ pc : {"idle", "numbered", "created"},
                                    def : Definitions \cup {NoDefinition},
                                    run : Nat, batch : Batches \cup {NoBatch} ]]
    BY <2>1 DEF TypeOK
  <2>5. QED
    BY <2>2, <2>3, <2>4 DEF TypeOK
<1>4. CASE SubmitBatch(h)
  <2>1. queue' \in Seq(Batches)
    BY <1>4, AppendProperties DEF SubmitBatch, Refers, TypeOK
  <2>2. QED
    BY <1>4, <2>1 DEF SubmitBatch, IdleHandler, storeVars, batchVars, TypeOK, StoreTypeOK
<1>5. QED
  BY <1>1, <1>2, <1>3, <1>4 DEF HandlerStep

LEMMA EditTyped ==
  ASSUME TypeOK, NEW d \in Definitions, EditDefinition(d)
  PROVE  TypeOK'
<1> USE DEF EditDefinition, batchVars, runnerVars
<1>1. PICK W \in SUBSET Sources \ {{}}, e \in BOOLEAN :
        /\ wanted'  = [wanted  EXCEPT ![d] = W]
        /\ enabled' = [enabled EXCEPT ![d] = e]
  OBVIOUS
<1>2. wanted' \in [Definitions -> SUBSET Sources] /\ enabled' \in [Definitions -> BOOLEAN]
  BY <1>1 DEF TypeOK, StoreTypeOK
<1>3. QED
  BY <1>2 DEF TypeOK, StoreTypeOK

LEMMA WorkerTyped ==
  ASSUME TypeOK, Refers, WorkerProgress \/ RunRaises
  PROVE  TypeOK'
<1>1. worker.pc # "idle" => worker.batch \in Batches
  BY DEF Refers
<1>2. CASE StartRun
  <2> DEFINE b == Head(queue)
  <2>1. queue' \in Seq(Batches) /\ b \in Batches /\ b = queue[1] /\ 1 \in 1..Len(queue)
    BY <1>2, HeadTailProperties, EmptySeq, LenProperties DEF StartRun, TypeOK
  <2>2. wanted[defn[b]] \in SUBSET Sources /\ status[b] \in Statuses \cup {NoRow}
    BY <2>1 DEF Refers, TypeOK, StoreTypeOK
  <2>3. StoreTypeOK'
    BY <1>2, <2>1 DEF StartRun, TypeOK, StoreTypeOK
  <2>4. QED
    BY <1>2, <2>1, <2>2, <2>3 DEF StartRun, TypeOK, WorkerPc
<1>3. CASE DiscoverFiles
  <2>1. PICK found \in SUBSET worker.wanted :
          worker' = [worker EXCEPT !.pc = "store", !.found = found]
    BY <1>3 DEF DiscoverFiles
  <2>2. QED
    BY <1>3, <2>1 DEF DiscoverFiles, storeVars, batchVars, TypeOK, StoreTypeOK, WorkerPc
<1>4. ASSUME NEW s \in Sources, StoreFile(s) PROVE TypeOK'
  <2>1. RawFileOf(worker.batch, s) \in RawFile
    BY <1>1, <1>4 DEF StoreFile, RawFileOf, RawFile, TypeOK, StoreTypeOK
  <2>2. StoreTypeOK'
    BY <1>4, <2>1 DEF StoreFile, TypeOK, StoreTypeOK, RawFile
  <2>3. QED
    BY <1>4, <2>2 DEF StoreFile, TypeOK
<1>5. ASSUME NEW s \in Sources, RefuseOverwrite(s) \/ RunRaises PROVE TypeOK'
  BY <1>5 DEF RefuseOverwrite, RunRaises, storeVars, batchVars, TypeOK, StoreTypeOK, WorkerPc
<1>6. CASE RunRaises
  BY <1>6 DEF RunRaises, storeVars, batchVars, TypeOK, StoreTypeOK, WorkerPc
<1>7. CASE CommitFiles
  <2>1. StoreTypeOK'
    BY <1>1, <1>7 DEF CommitFiles, TypeOK, StoreTypeOK
  <2>2. QED
    BY <1>7, <2>1 DEF CommitFiles, TypeOK, WorkerPc
<1>8. CASE CompleteFiles
  <2>1. PctAt("FILES_RECEIVED") \in 0..100
    BY DEF PctAt
  <2>2. StoreTypeOK'
    BY <1>1, <1>8, <2>1, StatusFacts DEF CompleteFiles, TypeOK, StoreTypeOK
  <2>3. QED
    BY <1>8, <2>2, StatusFacts DEF CompleteFiles, TypeOK, WorkerPc
<1>9. CASE BeginProcessing
  <2>1. StoreTypeOK'
    <3>1. pct' \in [Batches -> 0..100]
      BY <1>1, <1>9 DEF BeginProcessing, TypeOK, StoreTypeOK
    <3>2. QED
      BY <1>9, <3>1 DEF BeginProcessing, TypeOK, StoreTypeOK
  <2>2. files[worker.batch] \in SUBSET Sources
    BY <1>1, <1>9 DEF BeginProcessing, TypeOK, StoreTypeOK
  <2>3. QED
    BY <1>9, <2>1, <2>2 DEF BeginProcessing, TypeOK, WorkerPc
<1>10. ASSUME NEW s \in Sources, ParseFile(s) PROVE TypeOK'
  <2>1. StoreTypeOK'
    BY <1>1, <1>10 DEF ParseFile, TypeOK, StoreTypeOK
  <2>2. QED
    BY <1>10, <2>1 DEF ParseFile, TypeOK, WorkerPc
<1>11. CASE ProcessStage
  <2> DEFINE to == NextCommitted[worker.view]
  <2>1. /\ worker.batch \in Batches
        /\ worker.view \in DOMAIN NextCommitted
        /\ Produce(to)
        /\ worker' = IF to = "CLOSED" THEN IdleWorker
                     ELSE [worker EXCEPT !.pc = "process", !.view = to]
        /\ UNCHANGED <<defn, runNo, files, records, raw,
                       wanted, enabled, handler, queue, crashes>>
    BY <1>1, <1>11 DEF ProcessStage
  <2>2. to \in Statuses /\ PctAt(to) \in 0..100
    BY <2>1, NextCommittedFacts, StatusFacts
  <2>3. made' \in [Batches -> [Products -> Nat]]
    <3>1. [p \in Products |-> IF p \in ProductsOf(to) THEN made[worker.batch][p] + 1
                              ELSE made[worker.batch][p]] \in [Products -> Nat]
      BY <2>1 DEF TypeOK, StoreTypeOK
    <3>2. QED
      BY <2>1, <3>1 DEF Produce, TypeOK, StoreTypeOK
  <2>4. status' \in [Batches -> Statuses \cup {NoRow}] /\ pct' \in [Batches -> 0..100]
    BY <2>1, <2>2 DEF Produce, TypeOK, StoreTypeOK
  <2>5. StoreTypeOK'
    BY <2>1, <2>3, <2>4 DEF TypeOK, StoreTypeOK
  <2>6. QED
    BY <2>1, <2>2, <2>5 DEF TypeOK, WorkerPc, IdleWorker
<1>12. CASE RecordFailure
  <2>1. StoreTypeOK'
    BY <1>1, <1>12, StatusFacts DEF RecordFailure, TypeOK, StoreTypeOK
  <2>2. QED
    BY <1>12, <2>1 DEF RecordFailure, IdleWorker, TypeOK, WorkerPc
<1>13. QED
  BY <1>2, <1>3, <1>4, <1>5, <1>6, <1>7, <1>8, <1>9, <1>10, <1>11, <1>12 DEF WorkerProgress

LEMMA CrashTyped ==
  ASSUME TypeOK, Crash
  PROVE  TypeOK'
<1> USE DEF Crash, IdleHandler, IdleWorker, storeVars, batchVars
<1>1. StoreTypeOK'
  BY DEF TypeOK, StoreTypeOK
<1>2. crashes' \in 0..MaxCrashes
  BY DEF TypeOK
<1>3. handler' \in [Handlers -> [ pc : {"idle", "numbered", "created"},
                                  def : Definitions \cup {NoDefinition},
                                  run : Nat, batch : Batches \cup {NoBatch} ]]
  OBVIOUS
<1>4. QED
  BY <1>1, <1>2, <1>3 DEF TypeOK, WorkerPc

LEMMA TypeStep == TypeOK /\ Refers /\ [Next]_vars => TypeOK'
<1>1. ASSUME TypeOK, UNCHANGED vars PROVE TypeOK'
  BY <1>1 DEF vars, storeVars, batchVars, runnerVars, TypeOK, StoreTypeOK
<1>2. QED
  BY <1>1, HandlerTyped, EditTyped, WorkerTyped, CrashTyped DEF Next

LEMMA InitIInv == Init => IInv
<1> SUFFICES ASSUME Init PROVE Owns
  BY InitTypeOK DEF IInv, Owns
<1> USE DEF Init, StoreInit, IdleHandler, IdleWorker
<1>1. WorkerOwns
  BY DEF WorkerOwns
<1>2. QueueOwns
  BY DEF QueueOwns
<1>3. HandlerOwns
  BY DEF HandlerOwns
<1>4. QED
  BY <1>1, <1>2, <1>3 DEF Owns

-----------------------------------------------------------------------------
(* Every step preserves the invariant.  The actions of the handlers first.  *)

LEMMA RequestRunIInv ==
  ASSUME IInv, NEW h \in Handlers, NEW d \in Definitions, RequestRun(h, d)
  PROVE  Owns'
<1> USE DEF IInv, Owns, RequestRun, storeVars, batchVars
<1>1. NextRunNo(d) \in Nat
  BY NextRunNoType
<1>2. WorkerOwns'
  BY DEF WorkerOwns
<1>3. QueueOwns'
  BY DEF QueueOwns
<1>4. HandlerOwns'
  BY DEF HandlerOwns, TypeOK
<1>5. QED
  BY <1>2, <1>3, <1>4

LEMMA RefuseRunIInv ==
  ASSUME IInv, NEW h \in Handlers, RefuseRun(h)
  PROVE  Owns'
<1> USE DEF IInv, Owns, RefuseRun, IdleHandler, storeVars, batchVars
<1>1. WorkerOwns'
  BY DEF WorkerOwns
<1>2. QueueOwns'
  BY DEF QueueOwns
<1>3. HandlerOwns'
  BY DEF HandlerOwns, TypeOK
<1>4. QED
  BY <1>1, <1>2, <1>3

(* The inserted row is new, so nobody's hold on another batch changes.      *)
LEMMA CreateBatchIInv ==
  ASSUME IInv, NEW h \in Handlers, CreateBatch(h)
  PROVE  Owns'
<1> USE DEF IInv, Owns
<1>1. PICK b \in Batches :
        /\ InsertBatch(b, handler[h].def, handler[h].run)
        /\ handler' = [handler EXCEPT ![h] = [@ EXCEPT !.pc = "created", !.batch = b]]
  BY DEF CreateBatch
<1>2. /\ handler[h].pc = "numbered"
      /\ handler[h].def \in Definitions
      /\ handler[h].run \in Nat
      /\ UNCHANGED <<queue, worker, crashes>>
  BY DEF CreateBatch, HandlerOwns, TypeOK
<1>3. status[b] = NoRow /\ NoRow \notin Statuses
  BY <1>1 DEF InsertBatch, Statuses, LiveStates, TerminalStates, NoRow
<1>4. WorkerOwns'
  BY <1>1, <1>2, <1>3 DEF InsertBatch, WorkerOwns, TypeOK, StoreTypeOK, Statuses
<1>5. QueueOwns'
  BY <1>1, <1>2, <1>3 DEF InsertBatch, QueueOwns, TypeOK, StoreTypeOK, Statuses, LiveStates
<1>6. HandlerOwns'
  <2>1. b # worker.batch
    BY <1>3 DEF WorkerOwns, Statuses
  <2>2. \A i \in 1..Len(queue) : queue[i] # b
    BY <1>3 DEF QueueOwns, Statuses, LiveStates
  <2>3. \A g \in Handlers : handler[g].batch # b
    BY <1>3 DEF HandlerOwns, Statuses, LiveStates
  <2>4. QED
    BY <1>1, <1>2, <1>3, <2>1, <2>2, <2>3 DEF InsertBatch, HandlerOwns, TypeOK, StoreTypeOK
<1>7. QED
  BY <1>4, <1>5, <1>6

LEMMA SubmitBatchIInv ==
  ASSUME IInv, NEW h \in Handlers, SubmitBatch(h)
  PROVE  Owns'
<1> USE DEF IInv, Owns, SubmitBatch, IdleHandler, storeVars, batchVars
<1> DEFINE b == handler[h].batch
<1>1. /\ b \in Batches
      /\ status[b] = "CREATED"
      /\ defn[b] \in Definitions
      /\ b # worker.batch
      /\ \A i \in 1..Len(queue) : queue[i] # b
      /\ \A g \in Handlers : g # h => handler[g].batch # b
  BY DEF HandlerOwns
<1>2. /\ queue \in Seq(Batches)
      /\ queue' \in Seq(Batches)
      /\ Len(queue') = Len(queue) + 1
      /\ \A i \in 1..Len(queue) : queue'[i] = queue[i]
      /\ queue'[Len(queue) + 1] = b
  BY <1>1, AppendProperties DEF TypeOK
<1>3. Len(queue) \in Nat
  BY <1>2, LenProperties
<1>4. WorkerOwns'
  BY DEF WorkerOwns
<1>5. QueueOwns'
  <2>1. \A i \in 1..Len(queue') : i \in 1..Len(queue) \/ i = Len(queue) + 1
    BY <1>2, <1>3
  <2>2. QED
    BY <1>1, <1>2, <1>3, <2>1 DEF QueueOwns
<1>6. HandlerOwns'
  <2>1. \A g \in Handlers : g # h => handler'[g] = handler[g]
    BY DEF TypeOK
  <2>2. handler'[h] = IdleHandler
    BY DEF TypeOK
  <2>3. ASSUME NEW g \in Handlers, handler'[g].pc = "created"
        PROVE  \A i \in 1..Len(queue') : queue'[i] # handler'[g].batch
    BY <1>2, <1>3, <2>1, <2>2, <2>3, <1>1 DEF HandlerOwns
  <2>4. QED
    BY <1>1, <2>1, <2>2, <2>3, NoBatch \notin Batches DEF HandlerOwns
<1>7. QED
  BY <1>4, <1>5, <1>6

LEMMA EditDefinitionIInv ==
  ASSUME IInv, NEW d \in Definitions, EditDefinition(d)
  PROVE  Owns'
<1> USE DEF IInv, Owns, EditDefinition, batchVars, runnerVars
<1>1. WorkerOwns'
  BY DEF WorkerOwns
<1>2. QueueOwns'
  BY DEF QueueOwns
<1>3. HandlerOwns'
  BY DEF HandlerOwns
<1>4. QED
  BY <1>1, <1>2, <1>3

-----------------------------------------------------------------------------
(* The worker.  It touches only the row of its own batch, so queue and      *)
(* handlers keep what they own.                                             *)

LEMMA OthersUndisturbed ==
  ASSUME IInv,
         UNCHANGED <<handler, queue, defn>>,
         worker'.batch \in {worker.batch, NoBatch},
         \A b \in Batches : b # worker.batch => status'[b] = status[b]
  PROVE  QueueOwns' /\ HandlerOwns'
<1>1. /\ queue \in Seq(Batches)
      /\ \A i \in 1..Len(queue) : queue[i] \in Batches
  BY DEF IInv, TypeOK
<1>2. QueueOwns'
  BY <1>1, NoBatch \notin Batches DEF IInv, QueueOwns
<1>3. HandlerOwns'
  BY <1>1, NoBatch \notin Batches DEF IInv, HandlerOwns
<1>4. QED
  BY <1>2, <1>3

LEMMA StartRunIInv ==
  ASSUME IInv, StartRun
  PROVE  Owns'
<1> DEFINE b == Head(queue)
<1> USE DEF IInv, Owns, IdleWorker
<1>1. /\ queue \in Seq(Batches) /\ queue # << >>
      /\ Len(queue) \in Nat \ {0}
      /\ b \in Batches /\ b = queue[1]
      /\ queue' \in Seq(Batches)
      /\ Len(queue') = Len(queue) - 1
      /\ \A i \in 1..Len(queue') : queue'[i] = queue[i + 1]
  BY HeadTailProperties, EmptySeq, LenProperties DEF StartRun, TypeOK
<1>2. /\ worker.pc = "idle"
      /\ worker' = [ pc |-> "import", batch |-> b, view |-> status[b],
                     wanted |-> wanted[defn[b]], found |-> {}, stored |-> {}, left |-> {} ]
      /\ pct' = [pct EXCEPT ![b] = 5]
      /\ UNCHANGED <<status, defn, runNo, files, records, made, raw,
                     wanted, enabled, handler, crashes>>
  BY DEF StartRun
<1>3. /\ status[b] = "CREATED" /\ defn[b] \in Definitions
      /\ \A i \in 1..Len(queue') : queue'[i] # b
  BY <1>1 DEF QueueOwns
<1>4. WorkerOwns'
  BY <1>1, <1>2, <1>3, StatusFacts DEF WorkerOwns
<1>5. QueueOwns'
  <2>1. \A i \in 1..Len(queue') : i + 1 \in 1..Len(queue)
    BY <1>1
  <2>2. worker'.batch = b
    BY <1>2
  <2>3. ASSUME NEW i \in 1..Len(queue')
        PROVE  /\ status'[queue'[i]] = "CREATED"
               /\ defn'[queue'[i]] \in Definitions
               /\ queue'[i] # worker'.batch
    BY <1>1, <1>2, <1>3, <2>1, <2>2 DEF QueueOwns
  <2>4. ASSUME NEW i \in 1..Len(queue'), NEW j \in 1..Len(queue'), i # j
        PROVE  queue'[i] # queue'[j]
    <3>1. i + 1 # j + 1
      BY <2>4, <1>1
    <3>2. QED
      BY <1>1, <2>1, <3>1 DEF QueueOwns
  <2>5. QED
    BY <2>3, <2>4 DEF QueueOwns
<1>6. HandlerOwns'
  <2>1. \A i \in 1..Len(queue') : i + 1 \in 1..Len(queue)
    BY <1>1
  <2>2. worker'.batch = b /\ 1 \in 1..Len(queue)
    BY <1>1, <1>2
  <2>3. QED
    BY <1>1, <1>2, <2>1, <2>2 DEF HandlerOwns
<1>7. QED
  BY <1>4, <1>5, <1>6

LEMMA DiscoverFilesIInv ==
  ASSUME IInv, DiscoverFiles
  PROVE  Owns'
<1> USE DEF IInv, Owns, DiscoverFiles, storeVars, batchVars
<1>1. PICK found \in SUBSET worker.wanted :
        worker' = [worker EXCEPT !.pc = "store", !.found = found]
  OBVIOUS
<1>2. WorkerOwns'
  BY <1>1 DEF WorkerOwns, TypeOK
<1>3. QueueOwns' /\ HandlerOwns'
  BY <1>1, OthersUndisturbed DEF TypeOK
<1>4. QED
  BY <1>2, <1>3

LEMMA StoreFileIInv ==
  ASSUME IInv, NEW s \in Sources, StoreFile(s)
  PROVE  Owns'
<1> USE DEF IInv, Owns, StoreFile
<1>1. WorkerOwns'
  BY DEF WorkerOwns, TypeOK
<1>2. QueueOwns' /\ HandlerOwns'
  BY OthersUndisturbed DEF TypeOK
<1>3. QED
  BY <1>1, <1>2

(* The three ways into _fail() change nothing but the worker's position.    *)
LEMMA FailingIInv ==
  ASSUME IInv, worker.pc # "idle", worker' = [worker EXCEPT !.pc = "failing"],
         UNCHANGED <<storeVars, handler, queue, crashes>>
  PROVE  Owns'
<1> USE DEF IInv, Owns, storeVars, batchVars
<1>1. WorkerOwns'
  BY DEF WorkerOwns, TypeOK
<1>2. QueueOwns' /\ HandlerOwns'
  BY OthersUndisturbed DEF TypeOK
<1>3. QED
  BY <1>1, <1>2

LEMMA CommitFilesIInv ==
  ASSUME IInv, CommitFiles
  PROVE  Owns'
<1> USE DEF IInv, Owns, CommitFiles
<1>1. worker.batch \in Batches
  BY DEF WorkerOwns
<1>2. worker'.pc \in {"complete", "failing"} /\ worker' = [worker EXCEPT !.pc = worker'.pc]
  BY DEF TypeOK
<1>3. WorkerOwns'
  BY <1>2 DEF WorkerOwns, TypeOK
<1>4. QueueOwns' /\ HandlerOwns'
  BY <1>2, OthersUndisturbed DEF TypeOK
<1>5. QED
  BY <1>3, <1>4

LEMMA CompleteFilesIInv ==
  ASSUME IInv, CompleteFiles
  PROVE  Owns'
<1> USE DEF IInv, Owns, CompleteFiles
<1>1. worker.batch \in Batches
  BY DEF WorkerOwns
<1>2. WorkerOwns'
  BY <1>1, StatusFacts DEF WorkerOwns, TypeOK, StoreTypeOK
<1>3. QueueOwns' /\ HandlerOwns'
  BY OthersUndisturbed DEF TypeOK, StoreTypeOK
<1>4. QED
  BY <1>2, <1>3

LEMMA BeginProcessingIInv ==
  ASSUME IInv, BeginProcessing
  PROVE  Owns'
<1> USE DEF IInv, Owns, BeginProcessing
<1>1. worker.batch \in Batches
  BY DEF WorkerOwns
<1>2. WorkerOwns'
  BY DEF WorkerOwns, TypeOK
<1>3. QueueOwns' /\ HandlerOwns'
  BY OthersUndisturbed DEF TypeOK
<1>4. QED
  BY <1>2, <1>3

LEMMA ParseFileIInv ==
  ASSUME IInv, NEW s \in Sources, ParseFile(s)
  PROVE  Owns'
<1> USE DEF IInv, Owns, ParseFile
<1>1. worker.batch \in Batches
  BY DEF WorkerOwns
<1>2. WorkerOwns'
  BY DEF WorkerOwns, TypeOK
<1>3. QueueOwns' /\ HandlerOwns'
  BY OthersUndisturbed DEF TypeOK
<1>4. QED
  BY <1>2, <1>3

(* Here the worker's view must be the committed status: the row is written  *)
(* from the view, and the next status belongs to the status read.           *)
LEMMA ProcessStageIInv ==
  ASSUME IInv, ProcessStage
  PROVE  Owns'
<1> DEFINE to == NextCommitted[worker.view]
<1> USE DEF IInv, Owns
<1>1. /\ worker.batch \in Batches
      /\ worker.pc \in {"parse", "process"}
      /\ worker.view \in DOMAIN NextCommitted
      /\ Produce(to)
      /\ worker' = IF to = "CLOSED" THEN IdleWorker
                   ELSE [worker EXCEPT !.pc = "process", !.view = to]
      /\ UNCHANGED <<defn, runNo, files, records, raw,
                     wanted, enabled, handler, queue, crashes>>
  BY DEF ProcessStage, WorkerOwns
<1>2. /\ to \in (DOMAIN NextCommitted) \cup {"CLOSED"}
      /\ to \in Statuses
      /\ PctAt(to) \in 0..100
  BY <1>1, NextCommittedFacts, StatusFacts
<1>3. WorkerOwns'
  <2>1. status'[worker.batch] = to
    BY <1>1 DEF Produce, TypeOK, StoreTypeOK
  <2>2. CASE to = "CLOSED"
    BY <1>1, <2>2 DEF WorkerOwns, IdleWorker
  <2>3. CASE to # "CLOSED"
    BY <1>1, <1>2, <2>1, <2>3, StatusFacts DEF WorkerOwns, TypeOK
  <2>4. QED
    BY <2>2, <2>3
<1>4. QueueOwns' /\ HandlerOwns'
  <2>1. worker'.batch \in {worker.batch, NoBatch}
    BY <1>1 DEF IdleWorker, TypeOK
  <2>2. \A b \in Batches : b # worker.batch => status'[b] = status[b]
    BY <1>1 DEF Produce, TypeOK, StoreTypeOK
  <2>3. QED
    BY <1>1, <2>1, <2>2, OthersUndisturbed
<1>5. QED
  BY <1>3, <1>4

LEMMA RecordFailureIInv ==
  ASSUME IInv, RecordFailure
  PROVE  Owns'
<1> USE DEF IInv, Owns, RecordFailure, IdleWorker
<1>1. worker.batch \in Batches
  BY DEF WorkerOwns
<1>2. WorkerOwns'
  BY DEF WorkerOwns
<1>3. QueueOwns' /\ HandlerOwns'
  BY OthersUndisturbed DEF TypeOK, StoreTypeOK
<1>4. QED
  BY <1>2, <1>3

LEMMA CrashIInv ==
  ASSUME IInv, Crash
  PROVE  Owns'
<1> USE DEF IInv, Owns, Crash, IdleHandler, IdleWorker, storeVars, batchVars
<1>1. WorkerOwns'
  BY DEF WorkerOwns
<1>2. QueueOwns'
  BY DEF QueueOwns
<1>3. HandlerOwns'
  BY DEF HandlerOwns
<1>4. QED
  BY <1>1, <1>2, <1>3

LEMMA NextIInv == IInv /\ [Next]_vars => IInv'
<1> SUFFICES ASSUME IInv, [Next]_vars PROVE Owns'
  <2>1. IInv => Refers
    <3>1. WorkerOwns => (worker.pc # "idle" =>
                           worker.batch \in Batches /\ defn[worker.batch] \in Definitions)
      BY DEF WorkerOwns
    <3>2. QueueOwns => \A i \in 1..Len(queue) : defn[queue[i]] \in Definitions
      BY DEF QueueOwns
    <3>3. HandlerOwns => \A h \in Handlers :
                           /\ handler[h].pc # "idle" => handler[h].def \in Definitions
                           /\ handler[h].pc = "created" => handler[h].batch \in Batches
      BY DEF HandlerOwns
    <3>4. QED
      BY <3>1, <3>2, <3>3 DEF IInv, Refers
  <2>2. IInv => TypeOK
    BY DEF IInv
  <2>3. TypeOK' /\ Owns' => IInv'
    BY DEF IInv, Owns
  <2>4. QED
    BY <2>1, <2>2, <2>3, TypeStep
<1>1. ASSUME NEW h \in Handlers, HandlerStep(h) PROVE Owns'
  BY <1>1, RequestRunIInv, RefuseRunIInv, CreateBatchIInv, SubmitBatchIInv DEF HandlerStep
<1>2. ASSUME NEW d \in Definitions, EditDefinition(d) PROVE Owns'
  BY <1>2, EditDefinitionIInv
<1>3. ASSUME NEW s \in Sources, StoreFile(s) \/ RefuseOverwrite(s) \/ ParseFile(s) PROVE Owns'
  BY <1>3, StoreFileIInv, ParseFileIInv, FailingIInv DEF RefuseOverwrite
<1>4. CASE StartRun \/ DiscoverFiles \/ CommitFiles
  BY <1>4, StartRunIInv, DiscoverFilesIInv, CommitFilesIInv
<1>5. CASE CompleteFiles \/ BeginProcessing
  BY <1>5, CompleteFilesIInv, FailingIInv, BeginProcessingIInv
<1>6. CASE ProcessStage \/ RecordFailure
  BY <1>6, ProcessStageIInv, RecordFailureIInv
<1>7. CASE RunRaises
  BY <1>7, FailingIInv DEF RunRaises
<1>8. CASE Crash
  BY <1>8, CrashIInv
<1>9. CASE UNCHANGED vars
  <2>1. UNCHANGED <<status, pct, defn, runNo, files, records, made, raw,
                    wanted, enabled, handler, queue, worker, crashes>>
    BY <1>9 DEF vars, storeVars, batchVars, runnerVars
  <2>2. WorkerOwns'
    BY <2>1 DEF IInv, WorkerOwns
  <2>3. QueueOwns'
    BY <2>1 DEF IInv, QueueOwns
  <2>4. HandlerOwns'
    BY <2>1 DEF IInv, HandlerOwns
  <2>5. QED
    BY <2>2, <2>3, <2>4 DEF Owns
<1>10. QED
  BY <1>1, <1>2, <1>3, <1>4, <1>5, <1>6, <1>7, <1>8, <1>9 DEF Next, WorkerProgress

THEOREM Invariance == Spec => []IInv
BY InitIInv, NextIInv, PTL DEF Spec

(* Every variable keeps its type: progress is a percentage, a status is one *)
(* of the table's, the queue holds batch ids, in every run of the server.   *)
THEOREM TypeCorrect == Spec => []TypeOK
<1>1. IInv => TypeOK
  BY DEF IInv
<1>2. QED
  BY <1>1, Invariance, PTL

-----------------------------------------------------------------------------
(* Refinement: the committed rows follow BatchLifecycle.                    *)

(* What the instance calls a status, a missing row and a commit is what the *)
(* runner calls so.                                                         *)
LEMMA SameVocabulary ==
  /\ Lifecycle!Statuses = Statuses
  /\ Lifecycle!NoRow = NoRow
  /\ \A from, to : Lifecycle!Reaches(from, to) <=> Reaches(from, to)
<1>1. /\ Lifecycle!LiveStates = LiveStates
      /\ Lifecycle!TerminalStates = TerminalStates
      /\ Lifecycle!NoRow = NoRow
  BY DEF Lifecycle!LiveStates, LiveStates, Lifecycle!TerminalStates, TerminalStates,
         Lifecycle!NoRow, NoRow
<1>2. Lifecycle!Statuses = Statuses
  BY <1>1 DEF Lifecycle!Statuses, Statuses
<1>3. Lifecycle!Rank = Rank
  BY <1>2 DEF Lifecycle!Rank, Rank
<1>4. QED
  BY <1>1, <1>2, <1>3 DEF Lifecycle!Reaches, Reaches

(* A batch that is not terminal can be failed in one commit.                *)
LEMMA LiveReachesFailed == \A s \in LiveStates : Reaches(s, "FAILED")
<1>1. Rank["FAILED"] = 13
  BY DEF Rank, Statuses, TerminalStates
<1>2. \A s \in LiveStates : Rank[s] \in 1..11
  BY DEF Rank, Statuses, LiveStates
<1>3. QED
  BY <1>1, <1>2, StatusFacts DEF Reaches

LEMMA AdvanceStep ==
  ASSUME NEW b \in Batches, NEW to \in Statuses, Reaches(status[b], to),
         status' = [status EXCEPT ![b] = to]
  PROVE  Lifecycle!Next
BY SameVocabulary DEF Lifecycle!Next, Lifecycle!Advance

LEMMA LifecycleStep == IInv /\ [Next]_vars => [Lifecycle!Next]_status
<1> SUFFICES ASSUME IInv, [Next]_vars, status' # status PROVE Lifecycle!Next
  OBVIOUS
<1>1. worker.pc # "idle" => worker.batch \in Batches /\ status[worker.batch] \in LiveStates
  BY DEF IInv, WorkerOwns
<1>2. ASSUME NEW h \in Handlers, CreateBatch(h) PROVE Lifecycle!Next
  BY <1>2, SameVocabulary DEF CreateBatch, InsertBatch, Lifecycle!Next, Lifecycle!Create
<1>3. CASE CompleteFiles
  <2>1. Reaches(status[worker.batch], "FILES_RECEIVED")
    BY <1>3, StatusFacts
       DEF CompleteFiles, IInv, WorkerOwns, Reaches, Rank, Statuses, LiveStates
  <2>2. QED
    BY <1>1, <1>3, <2>1, AdvanceStep, StatusFacts DEF CompleteFiles
<1>4. CASE ProcessStage
  <2>1. /\ worker.pc \in {"parse", "process"}
        /\ worker.view \in DOMAIN NextCommitted
        /\ worker.view = status[worker.batch]
        /\ status' = [status EXCEPT ![worker.batch] = NextCommitted[worker.view]]
    BY <1>4 DEF ProcessStage, Produce, IInv, WorkerOwns
  <2>2. Reaches(worker.view, NextCommitted[worker.view])
    BY <2>1, NextCommittedFacts, StatusFacts DEF Reaches
  <2>3. QED
    BY <1>1, <2>1, <2>2, AdvanceStep DEF Reaches
<1>5. CASE RecordFailure
  <2>1. status' = [status EXCEPT ![worker.batch] = "FAILED"]
    BY <1>1, <1>5, StatusFacts DEF RecordFailure
  <2>2. QED
    BY <1>1, <1>5, <2>1, AdvanceStep, LiveReachesFailed, StatusFacts DEF RecordFailure
<1>6. ASSUME NEW h \in Handlers, HandlerStep(h) PROVE CreateBatch(h)
  BY <1>6 DEF HandlerStep, RequestRun, RefuseRun, SubmitBatch, storeVars, batchVars
<1>7. ASSUME NEW d \in Definitions, EditDefinition(d) PROVE FALSE
  BY <1>7 DEF EditDefinition, batchVars
<1>8. ASSUME NEW s \in Sources, StoreFile(s) \/ RefuseOverwrite(s) \/ ParseFile(s) PROVE FALSE
  BY <1>8 DEF StoreFile, RefuseOverwrite, ParseFile, storeVars, batchVars
<1>9. ASSUME StartRun \/ DiscoverFiles \/ CommitFiles
              \/ BeginProcessing \/ RunRaises \/ Crash
      PROVE  FALSE
  BY <1>9 DEF StartRun, DiscoverFiles, CommitFiles, BeginProcessing,
              RunRaises, Crash, storeVars, batchVars
<1>10. ASSUME UNCHANGED vars PROVE FALSE
  BY <1>10 DEF vars, storeVars, batchVars
<1>11. QED
  BY <1>2, <1>3, <1>4, <1>5, <1>6, <1>7, <1>8, <1>9, <1>10 DEF Next, WorkerProgress

(* Whatever requests, edits, failures and kills do, a reader of the         *)
(* committed rows sees batches created once, moving forward through the     *)
(* table of state_machine.py, and final once closed or failed.              *)
THEOREM LifecycleRefinement == Spec => ImplementsLifecycle
<1>1. Init => Lifecycle!Init
  BY SameVocabulary DEF Init, StoreInit, Lifecycle!Init
<1>2. QED
  BY <1>1, LifecycleStep, Invariance, PTL DEF Spec, ImplementsLifecycle, Lifecycle!Spec

-----------------------------------------------------------------------------
(* The other safety properties, each by a step lemma relative to IInv.      *)

(* What an action that only moves the worker leaves alone, and what the     *)
(* variables of an idle step are.                                           *)
LEMMA StutterStep ==
  ASSUME UNCHANGED vars
  PROVE  UNCHANGED <<status, pct, defn, runNo, files, records, made, raw,
                     wanted, enabled, handler, queue, worker, crashes>>
BY DEF vars, storeVars, batchVars, runnerVars

-----------------------------------------------------------------------------
(* No batch is stranded.                                                    *)

LEMMA StrandedStep == IInv /\ NoBatchStranded /\ [Next]_vars => NoBatchStranded'
<1> SUFFICES ASSUME IInv, NoBatchStranded, [Next]_vars, crashes' = 0,
                    NEW b \in Batches, Live(b)'
             PROVE  IsHeld(b)' \/ IsQueued(b)' \/ IsRunning(b)'
  BY DEF NoBatchStranded
<1> USE DEF IsHeld, IsRunning
<1>1. /\ queue \in Seq(Batches)
      /\ Len(queue) \in Nat
      /\ DOMAIN queue = 1..Len(queue)
      /\ crashes \in Nat
  BY LenProperties DEF IInv, TypeOK
<1>2. ASSUME status'[b] = status[b], crashes' = crashes
      PROVE  IsHeld(b) \/ IsQueued(b) \/ IsRunning(b)
  BY <1>2 DEF NoBatchStranded, Live
<1>3. ASSUME NEW h \in Handlers, (\E d \in Definitions : RequestRun(h, d)) \/ RefuseRun(h)
      PROVE  IsHeld(b)' \/ IsQueued(b)' \/ IsRunning(b)'
  <2>1. /\ UNCHANGED <<status, queue, worker, crashes>>
        /\ handler[h].batch = NoBatch
        /\ \A g \in Handlers : g # h => handler'[g] = handler[g]
    BY <1>3 DEF RequestRun, RefuseRun, storeVars, batchVars, IInv, HandlerOwns, TypeOK
  <2>2. QED
    BY <1>2, <2>1 DEF IsQueued
<1>4. ASSUME NEW h \in Handlers, CreateBatch(h)
      PROVE  IsHeld(b)' \/ IsQueued(b)' \/ IsRunning(b)'
  <2>1. PICK c \in Batches :
          /\ InsertBatch(c, handler[h].def, handler[h].run)
          /\ handler' = [handler EXCEPT ![h] = [@ EXCEPT !.pc = "created", !.batch = c]]
    BY <1>4 DEF CreateBatch
  <2>2. /\ UNCHANGED <<queue, worker, crashes>>
        /\ handler[h].batch = NoBatch
        /\ handler'[h].batch = c
        /\ \A g \in Handlers : g # h => handler'[g] = handler[g]
    BY <1>4, <2>1 DEF CreateBatch, IInv, HandlerOwns, TypeOK
  <2>3. CASE b = c
    BY <2>2, <2>3
  <2>4. CASE b # c
    <3>1. status'[b] = status[b]
      BY <2>1, <2>4 DEF InsertBatch, IInv, TypeOK, StoreTypeOK
    <3>2. QED
      BY <1>2, <2>2, <3>1 DEF IsQueued
  <2>5. QED
    BY <2>3, <2>4
<1>5. ASSUME NEW h \in Handlers, SubmitBatch(h)
      PROVE  IsHeld(b)' \/ IsQueued(b)' \/ IsRunning(b)'
  <2>1. /\ UNCHANGED <<status, worker, crashes>>
        /\ \A g \in Handlers : g # h => handler'[g] = handler[g]
        /\ handler[h].batch \in Batches
    BY <1>5 DEF SubmitBatch, storeVars, batchVars, IInv, HandlerOwns, TypeOK
  <2>2. /\ DOMAIN queue' = 1..(Len(queue) + 1)
        /\ \A i \in 1..Len(queue) : queue'[i] = queue[i]
        /\ queue'[Len(queue) + 1] = handler[h].batch
    <3>1. queue' \in Seq(Batches) /\ Len(queue') = Len(queue) + 1
      BY <1>1, <1>5, <2>1, AppendProperties DEF SubmitBatch
    <3>2. QED
      BY <1>1, <1>5, <2>1, <3>1, AppendProperties, LenProperties DEF SubmitBatch
  <2>3. CASE IsQueued(b)
    BY <1>1, <2>2, <2>3 DEF IsQueued
  <2>4. CASE handler[h].batch = b
    BY <1>1, <2>2, <2>4 DEF IsQueued
  <2>5. QED
    BY <1>2, <2>1, <2>3, <2>4
<1>6. ASSUME NEW d \in Definitions, EditDefinition(d)
      PROVE  IsHeld(b)' \/ IsQueued(b)' \/ IsRunning(b)'
  BY <1>2, <1>6 DEF EditDefinition, batchVars, runnerVars, IsQueued
<1>7. CASE StartRun
  <2>1. /\ UNCHANGED <<status, handler, crashes>>
        /\ worker'.batch = Head(queue)
        /\ worker.batch = NoBatch
        /\ queue # << >> /\ queue' = Tail(queue)
    BY <1>7 DEF StartRun, IInv, WorkerOwns
  <2>2. CASE IsQueued(b)
    <3>1. PICK i \in 1..Len(queue) : queue[i] = b
      BY <1>1, <2>2 DEF IsQueued
    <3>2. CASE i = 1
      BY <1>1, <2>1, <3>1, <3>2
    <3>3. CASE i # 1
      <4>1. /\ i - 1 \in 1..Len(queue') /\ queue'[i - 1] = queue[i - 1 + 1]
            /\ DOMAIN queue' = 1..Len(queue')
        BY <1>1, <2>1, <3>1, <3>3, HeadTailProperties, LenProperties
      <4>2. QED
        BY <3>1, <4>1 DEF IsQueued
    <3>4. QED
      BY <3>2, <3>3
  <2>3. QED
    BY <1>2, <2>1, <2>2
(* The worker's other steps keep its batch, or leave it terminal.           *)
<1>8. ASSUME UNCHANGED <<handler, queue, crashes>>,
             worker'.batch # worker.batch => status'[worker.batch] \in TerminalStates,
             b # worker.batch => status'[b] = status[b]
      PROVE  IsHeld(b)' \/ IsQueued(b)' \/ IsRunning(b)'
  <2>1. CASE b = worker.batch
    BY <1>8, <2>1, StatusFacts DEF Live
  <2>2. CASE b # worker.batch
    BY <1>2, <1>8, <2>2 DEF IsQueued
  <2>3. QED
    BY <2>1, <2>2
<1>9. ASSUME NEW s \in Sources, StoreFile(s) \/ RefuseOverwrite(s) \/ ParseFile(s)
      PROVE  IsHeld(b)' \/ IsQueued(b)' \/ IsRunning(b)'
  BY <1>8, <1>9 DEF StoreFile, RefuseOverwrite, ParseFile, storeVars, batchVars, IInv, TypeOK
<1>10. CASE DiscoverFiles \/ CommitFiles \/ CompleteFiles
            \/ BeginProcessing \/ RunRaises
  BY <1>8, <1>10 DEF DiscoverFiles, CommitFiles, CompleteFiles,
     BeginProcessing, RunRaises, storeVars, batchVars, IInv, TypeOK, StoreTypeOK
<1>11. CASE ProcessStage \/ RecordFailure
  <2>1. worker.batch \in Batches
    BY <1>11 DEF ProcessStage, RecordFailure, IInv, WorkerOwns
  <2>2. CASE ProcessStage
    BY <1>8, <2>1, <2>2, StatusFacts
       DEF ProcessStage, Produce, IdleWorker, IInv, TypeOK, StoreTypeOK
  <2>3. CASE RecordFailure
    BY <1>8, <2>1, <2>3, StatusFacts DEF RecordFailure, IdleWorker, IInv, TypeOK, StoreTypeOK
  <2>4. QED
    BY <1>11, <2>2, <2>3
<1>12. CASE Crash
  BY <1>1, <1>12 DEF Crash
<1>13. CASE UNCHANGED vars
  BY <1>2, <1>13, StutterStep DEF IsQueued
<1>14. QED
  BY <1>3, <1>4, <1>5, <1>6, <1>7, <1>9, <1>10, <1>11, <1>12, <1>13
     DEF Next, HandlerStep, WorkerProgress

(* As long as the process lives, a batch that is neither closed nor failed  *)
(* is held by its handler, queued or running: no exception of execute() and *)
(* no interleaving of requests drops one.                                   *)
THEOREM NothingStranded == Spec => []NoBatchStranded
<1>1. Init => NoBatchStranded
  BY StatusFacts DEF Init, StoreInit, NoBatchStranded, Live
<1>2. QED
  BY <1>1, StrandedStep, Invariance, PTL DEF Spec

-----------------------------------------------------------------------------
(* Leaving a batch: only a terminal one, unless the process is killed.      *)

LEMMA OutcomeStep ==
  IInv /\ [Next]_vars =>
    [\A b \in Batches :
       IsRunning(b) /\ ~IsRunning(b)' /\ crashes' = crashes
         => status'[b] \in TerminalStates]_vars
<1> SUFFICES ASSUME IInv, [Next]_vars, NEW b \in Batches,
                    worker.batch = b, worker'.batch # b, crashes' = crashes
             PROVE  status'[b] \in TerminalStates
  BY DEF IsRunning
<1>1. CASE ProcessStage
  <2>1. /\ worker'.batch # worker.batch => NextCommitted[worker.view] = "CLOSED"
        /\ status'[b] = NextCommitted[worker.view]
    BY <1>1 DEF ProcessStage, Produce, IdleWorker, IInv, TypeOK, StoreTypeOK
  <2>2. QED
    BY <2>1, StatusFacts
<1>2. CASE RecordFailure
  BY <1>2, StatusFacts DEF RecordFailure, IInv, TypeOK, StoreTypeOK
<1>3. ASSUME StartRun PROVE FALSE
  BY <1>3, NoBatch \notin Batches DEF StartRun, IInv, WorkerOwns
<1>4. ASSUME NEW h \in Handlers, HandlerStep(h) PROVE FALSE
  BY <1>4 DEF HandlerStep, RequestRun, RefuseRun, CreateBatch, SubmitBatch
<1>5. ASSUME NEW d \in Definitions, EditDefinition(d) PROVE FALSE
  BY <1>5 DEF EditDefinition, runnerVars
<1>6. ASSUME NEW s \in Sources, StoreFile(s) \/ RefuseOverwrite(s) \/ ParseFile(s) PROVE FALSE
  BY <1>6 DEF StoreFile, RefuseOverwrite, ParseFile, IInv, TypeOK
<1>7. ASSUME DiscoverFiles \/ CommitFiles \/ CompleteFiles
              \/ BeginProcessing \/ RunRaises
      PROVE  FALSE
  BY <1>7 DEF DiscoverFiles, CommitFiles, CompleteFiles, BeginProcessing,
              RunRaises, IInv, TypeOK
<1>8. ASSUME Crash PROVE FALSE
  BY <1>8 DEF Crash, IInv, TypeOK
<1>9. ASSUME UNCHANGED vars PROVE FALSE
  BY <1>9, StutterStep
<1>10. QED
  BY <1>1, <1>2, <1>3, <1>4, <1>5, <1>6, <1>7, <1>8, <1>9 DEF Next, WorkerProgress

(* execute(): "Every outcome ... ends with the batch in a terminal state".  *)
THEOREM OutcomesTerminal == Spec => EveryOutcomeTerminal
BY OutcomeStep, Invariance, PTL DEF Spec, EveryOutcomeTerminal

-----------------------------------------------------------------------------
(* Files: what is registered is on disk, under a path nobody else wrote.    *)

(* Rows wait for the commit, so the raw files of a run in progress must be  *)
(* tracked before they are registered; a new row has no files yet.          *)
FilesTracked ==
  /\ worker.pc # "idle" => \A s \in worker.stored : RawFileOf(worker.batch, s) \in raw
  /\ \A b \in Batches : status[b] = NoRow => files[b] = {}
  /\ RegisteredFilesOnDisk

LEMMA FilesStep == IInv /\ FilesTracked /\ [Next]_vars => FilesTracked'
<1> SUFFICES ASSUME IInv, FilesTracked, [Next]_vars PROVE FilesTracked'
  OBVIOUS
<1>1. worker.pc # "idle" => worker.batch \in Batches /\ status[worker.batch] # NoRow
  BY StatusFacts DEF IInv, WorkerOwns
<1>3. ASSUME NEW h \in Handlers, HandlerStep(h) PROVE FilesTracked'
  <2>1. CASE CreateBatch(h)
    <3>1. PICK c \in Batches : InsertBatch(c, handler[h].def, handler[h].run)
      BY <2>1 DEF CreateBatch
    <3>2. /\ worker' = worker /\ files' = files /\ raw' = raw
          /\ status[c] = NoRow /\ status'[c] # NoRow
          /\ \A b \in Batches : b # c =>
               defn'[b] = defn[b] /\ runNo'[b] = runNo[b] /\ status'[b] = status[b]
      BY <2>1, <3>1, StatusFacts DEF CreateBatch, InsertBatch, IInv, TypeOK, StoreTypeOK
    <3>3. \A b \in Batches, s \in Sources : b # c => RawFileOf(b, s)' = RawFileOf(b, s)
      BY <3>2 DEF RawFileOf
    <3>4. worker'.pc # "idle" => \A s \in worker'.stored : RawFileOf(worker.batch, s)' \in raw'
      BY <1>1, <3>2, <3>3 DEF FilesTracked, IInv, TypeOK
    <3>5. ASSUME NEW b \in Batches, NEW s \in files[b] PROVE RawFileOf(b, s)' \in raw
      <4>1. s \in Sources
        BY DEF IInv, TypeOK, StoreTypeOK
      <4>2. b # c
        BY <3>2 DEF FilesTracked
      <4>3. QED
        BY <3>3, <4>1, <4>2 DEF FilesTracked, RegisteredFilesOnDisk
    <3>6. QED
      BY <3>2, <3>4, <3>5 DEF FilesTracked, RegisteredFilesOnDisk, RawFileOf
  <2>2. CASE (\E d \in Definitions : RequestRun(h, d)) \/ RefuseRun(h) \/ SubmitBatch(h)
    <3>1. UNCHANGED <<status, defn, runNo, files, raw, worker>>
      BY <2>2 DEF RequestRun, RefuseRun, SubmitBatch, storeVars, batchVars
    <3>2. QED
      BY <3>1 DEF FilesTracked, RegisteredFilesOnDisk, RawFileOf
  <2>3. QED
    BY <1>3, <2>1, <2>2 DEF HandlerStep
<1>4. ASSUME NEW s \in Sources, StoreFile(s) PROVE FilesTracked'
  BY <1>4 DEF StoreFile, FilesTracked, RegisteredFilesOnDisk, RawFileOf, IInv, TypeOK
<1>5. CASE CommitFiles
  <2>1. /\ worker.pc = "store" /\ worker'.stored = worker.stored /\ worker'.batch = worker.batch
        /\ UNCHANGED <<status, defn, runNo, raw>>
        /\ files' = [files EXCEPT ![worker.batch] = @ \cup worker.stored]
    BY <1>5 DEF CommitFiles, IInv, TypeOK
  <2>2. QED
    BY <1>1, <2>1 DEF FilesTracked, RegisteredFilesOnDisk, RawFileOf, IInv, TypeOK, StoreTypeOK
<1>6. ASSUME NEW s \in Sources, RefuseOverwrite(s) \/ ParseFile(s) PROVE FilesTracked'
  <2>1. UNCHANGED <<status, defn, runNo, files, raw>>
    BY <1>6 DEF RefuseOverwrite, ParseFile, storeVars, batchVars
  <2>2. worker.pc # "idle" /\ worker'.stored = worker.stored /\ worker'.batch = worker.batch
    BY <1>6 DEF RefuseOverwrite, ParseFile, IInv, TypeOK
  <2>3. QED
    BY <2>1, <2>2 DEF FilesTracked, RegisteredFilesOnDisk, RawFileOf
<1>7. CASE DiscoverFiles \/ BeginProcessing \/ RunRaises
  <2>1. UNCHANGED <<status, defn, runNo, files, raw>>
    BY <1>7 DEF DiscoverFiles, BeginProcessing, RunRaises, storeVars, batchVars
  <2>2. worker.pc # "idle" /\ worker'.stored = worker.stored /\ worker'.batch = worker.batch
    BY <1>7 DEF DiscoverFiles, BeginProcessing, RunRaises, IInv, TypeOK
  <2>3. QED
    BY <2>1, <2>2 DEF FilesTracked, RegisteredFilesOnDisk, RawFileOf
<1>8. CASE CompleteFiles \/ ProcessStage \/ RecordFailure
  <2>1. UNCHANGED <<defn, runNo, files, raw>>
    BY <1>8 DEF CompleteFiles, ProcessStage, RecordFailure
  <2>2. \A b \in Batches : status'[b] = NoRow => status[b] = NoRow
    BY <1>8, NextCommittedFacts, StatusFacts
       DEF CompleteFiles, ProcessStage, Produce, RecordFailure, IInv, TypeOK, StoreTypeOK
  <2>3. \/ worker' = IdleWorker
        \/ worker.pc # "idle" /\ worker'.stored = worker.stored /\ worker'.batch = worker.batch
    BY <1>8 DEF CompleteFiles, ProcessStage, RecordFailure, IInv, TypeOK
  <2>4. QED
    BY <2>1, <2>2, <2>3 DEF IdleWorker, FilesTracked, RegisteredFilesOnDisk, RawFileOf
<1>9. CASE StartRun \/ Crash
  <2>1. UNCHANGED <<status, defn, runNo, files, raw>> /\ worker'.stored = {}
    BY <1>9 DEF StartRun, Crash, IdleWorker, storeVars, batchVars
  <2>2. QED
    BY <2>1 DEF FilesTracked, RegisteredFilesOnDisk, RawFileOf
<1>10. ASSUME NEW d \in Definitions, EditDefinition(d) PROVE FilesTracked'
  BY <1>10 DEF EditDefinition, batchVars, runnerVars, FilesTracked, RegisteredFilesOnDisk, RawFileOf
<1>11. CASE UNCHANGED vars
  BY <1>11, StutterStep DEF FilesTracked, RegisteredFilesOnDisk, RawFileOf
<1>12. QED
  BY <1>3, <1>4, <1>5, <1>6, <1>7, <1>8, <1>9, <1>10, <1>11 DEF Next, WorkerProgress

(* A file row never points at a missing file or at a file another batch     *)
(* wrote, though raw files are written long before their rows are committed *)
(* and a killed run leaves files without rows.                              *)
THEOREM RegisteredOnDisk == Spec => []RegisteredFilesOnDisk
<1>1. Init => FilesTracked
  BY DEF Init, StoreInit, IdleWorker, FilesTracked, RegisteredFilesOnDisk
<1>2. FilesTracked => RegisteredFilesOnDisk
  BY DEF FilesTracked
<1>3. QED
  BY <1>1, <1>2, FilesStep, Invariance, PTL DEF Spec

(* Two batches with the same code can never store files under one path: the *)
(* later run fails instead.                                                 *)
THEOREM PathsExclusive == Spec => []RawPathsExclusive
<1>1. Init => RawPathsExclusive
  BY DEF Init, StoreInit, RawPathsExclusive
<1>2. RawPathsExclusive /\ [Next]_vars => RawPathsExclusive'
  <2> SUFFICES ASSUME RawPathsExclusive, [Next]_vars PROVE RawPathsExclusive'
    OBVIOUS
  <2>1. ASSUME NEW s \in Sources, StoreFile(s) PROVE RawPathsExclusive'
    BY <2>1 DEF StoreFile, RawPathTaken, RawFileOf, RawPathsExclusive
  <2>2. ASSUME raw' # raw PROVE \E s \in Sources : StoreFile(s)
    <3>1. ASSUME UNCHANGED vars PROVE FALSE
      BY <2>2, <3>1, StutterStep
    <3>2. ASSUME NEW h \in Handlers, HandlerStep(h) PROVE FALSE
      BY <2>2, <3>2 DEF HandlerStep, RequestRun, RefuseRun, CreateBatch, InsertBatch,
                        SubmitBatch, storeVars
    <3>3. ASSUME NEW d \in Definitions, EditDefinition(d) PROVE FALSE
      BY <2>2, <3>3 DEF EditDefinition
    <3>4. QED
      BY <2>2, <3>1, <3>2, <3>3
         DEF Next, WorkerProgress, StartRun, DiscoverFiles, RefuseOverwrite, CommitFiles,
             CompleteFiles, BeginProcessing, ParseFile, ProcessStage,
             RunRaises, RecordFailure, Crash, storeVars
  <2>3. QED
    BY <2>1, <2>2 DEF RawPathsExclusive
<1>3. QED
  BY <1>1, <1>2, PTL DEF Spec

-----------------------------------------------------------------------------
(* A batch is processed only with all the sources its run asked for.        *)

LEMMA CompleteStep ==
  IInv /\ NeverProcessedIncomplete /\ [Next]_vars => NeverProcessedIncomplete'
<1> SUFFICES ASSUME IInv, NeverProcessedIncomplete, [Next]_vars,
                    worker'.pc \in {"begin", "parse", "process"}
             PROVE  worker'.wanted \subseteq files'[worker'.batch]
  BY DEF NeverProcessedIncomplete
<1>1. CASE CompleteFiles
  BY <1>1 DEF CompleteFiles, FilesComplete, IInv, TypeOK
<1>2. CASE BeginProcessing
  BY <1>2 DEF BeginProcessing, NeverProcessedIncomplete, IInv, TypeOK
<1>3. CASE ProcessStage
  BY <1>3 DEF ProcessStage, IdleWorker, NeverProcessedIncomplete, IInv, TypeOK
<1>4. ASSUME NEW s \in Sources, ParseFile(s)
      PROVE  worker'.wanted \subseteq files'[worker'.batch]
  BY <1>4 DEF ParseFile, NeverProcessedIncomplete, IInv, TypeOK
<1>5. ASSUME UNCHANGED worker, UNCHANGED files
      PROVE  worker'.wanted \subseteq files'[worker'.batch]
  BY <1>5 DEF NeverProcessedIncomplete
<1>6. ASSUME NEW h \in Handlers, HandlerStep(h) PROVE UNCHANGED worker /\ UNCHANGED files
  BY <1>6 DEF HandlerStep, RequestRun, RefuseRun, CreateBatch, InsertBatch, SubmitBatch,
              storeVars, batchVars
<1>7. ASSUME NEW d \in Definitions, EditDefinition(d) PROVE UNCHANGED worker /\ UNCHANGED files
  BY <1>7 DEF EditDefinition, batchVars, runnerVars
<1>8. ASSUME UNCHANGED vars PROVE UNCHANGED worker /\ UNCHANGED files
  BY <1>8, StutterStep
<1>9. ASSUME NEW s \in Sources, StoreFile(s) \/ RefuseOverwrite(s) PROVE FALSE
  BY <1>9 DEF StoreFile, RefuseOverwrite, IInv, TypeOK
<1>10. ASSUME StartRun \/ DiscoverFiles \/ CommitFiles \/ RunRaises
               \/ RecordFailure \/ Crash
       PROVE  FALSE
  <2>1. worker'.pc \in {"import", "store", "complete", "failing", "idle"}
    <3>1. CASE StartRun \/ RecordFailure \/ Crash
      BY <3>1 DEF StartRun, RecordFailure, Crash, IdleWorker
    <3>2. CASE CommitFiles
      BY <3>2 DEF CommitFiles, IInv, TypeOK
    <3>3. CASE RunRaises
      BY <3>3 DEF RunRaises, IInv, TypeOK
    <3>4. CASE DiscoverFiles
      BY <3>4 DEF DiscoverFiles, IInv, TypeOK
    <3>5. QED
      BY <1>10, <3>1, <3>2, <3>3, <3>4
  <2>2. QED
    BY <2>1
<1>11. QED
  BY <1>1, <1>2, <1>3, <1>4, <1>5, <1>6, <1>7, <1>8, <1>9, <1>10 DEF Next, WorkerProgress

(* The records a batch is reconciled from come from every source that its   *)
(* definition named when the run began, whatever is edited meanwhile.       *)
THEOREM ProcessedComplete == Spec => []NeverProcessedIncomplete
<1>1. Init => NeverProcessedIncomplete
  BY DEF Init, IdleWorker, NeverProcessedIncomplete
<1>2. QED
  BY <1>1, CompleteStep, Invariance, PTL DEF Spec

LEMMA ImportStep ==
  IInv /\ IInv' /\ ImportSuffices /\ [Next]_vars => ImportSuffices'
<1> SUFFICES ASSUME IInv, IInv', ImportSuffices, [Next]_vars, worker'.pc = "complete"
             PROVE  FilesComplete'
  BY DEF ImportSuffices
<1>1. CanTransition(worker'.view, "FILES_RECEIVED")
  <2>1. worker'.view = "CREATED"
    BY DEF IInv, WorkerOwns
  <2>2. "CREATED" \in Statuses
    BY DEF Statuses, LiveStates
  <2>3. AllowedTransitions["CREATED"] = {"FILES_RECEIVED"}
    BY <2>2 DEF AllowedTransitions
  <2>4. QED
    BY <2>1, <2>2, <2>3 DEF CanTransition
<1>2. SUFFICES worker'.wanted \subseteq files'[worker'.batch]
  BY <1>1 DEF FilesComplete
<1>3. CASE CommitFiles
  BY <1>3 DEF CommitFiles, IInv, TypeOK, StoreTypeOK, WorkerOwns
<1>4. ASSUME UNCHANGED worker, UNCHANGED files
      PROVE  worker'.wanted \subseteq files'[worker'.batch]
  BY <1>4 DEF ImportSuffices, FilesComplete
<1>5. ASSUME NEW h \in Handlers, HandlerStep(h) PROVE UNCHANGED worker /\ UNCHANGED files
  BY <1>5 DEF HandlerStep, RequestRun, RefuseRun, CreateBatch, InsertBatch, SubmitBatch,
              storeVars, batchVars
<1>6. ASSUME NEW d \in Definitions, EditDefinition(d) PROVE UNCHANGED worker /\ UNCHANGED files
  BY <1>6 DEF EditDefinition, batchVars, runnerVars
<1>7. ASSUME UNCHANGED vars PROVE UNCHANGED worker /\ UNCHANGED files
  BY <1>7, StutterStep
<1>8. ASSUME NEW s \in Sources, StoreFile(s) \/ RefuseOverwrite(s) \/ ParseFile(s) PROVE FALSE
  BY <1>8 DEF StoreFile, RefuseOverwrite, ParseFile, IInv, TypeOK
<1>9. ASSUME StartRun \/ DiscoverFiles \/ RunRaises \/ RecordFailure \/ Crash
             \/ CompleteFiles \/ BeginProcessing \/ ProcessStage
      PROVE  FALSE
  <2>1. CASE StartRun \/ RecordFailure \/ Crash
    BY <2>1 DEF StartRun, RecordFailure, Crash, IdleWorker
  <2>2. CASE DiscoverFiles
    BY <2>2 DEF DiscoverFiles, IInv, TypeOK
  <2>3. CASE RunRaises
    BY <2>3 DEF RunRaises, IInv, TypeOK
  <2>4. CASE CompleteFiles \/ BeginProcessing
    BY <2>4 DEF CompleteFiles, BeginProcessing, IInv, TypeOK
  <2>5. CASE ProcessStage
    BY <2>5 DEF ProcessStage, IdleWorker, IInv, TypeOK
  <2>6. QED
    BY <1>9, <2>1, <2>2, <2>3, <2>4, <2>5
<1>10. QED
  BY <1>3, <1>4, <1>5, <1>6, <1>7, <1>8, <1>9 DEF Next, WorkerProgress

(* A run that imported every source it asked for passes the completeness    *)
(* check, whatever is edited between the two.                               *)
THEOREM ImportAccepted == Spec => []ImportSuffices
<1>1. Init => ImportSuffices
  BY DEF Init, IdleWorker, ImportSuffices
<1>2. QED
  BY <1>1, ImportStep, Invariance, PTL DEF Spec

-----------------------------------------------------------------------------
(* The progress bar.                                                        *)

(* What progress a committed status allows; only _fail() sets 100 on a      *)
(* batch that was not closed.                                               *)
Fits(st, p) ==
  /\ st \in {NoRow, "CREATED"} \cup DOMAIN NextCommitted \cup TerminalStates
  /\ st = NoRow => p = 0
  /\ st = "CREATED" => p \in 0..5
  /\ st = "FILES_RECEIVED" => p \in 20..25
  /\ st \in (DOMAIN NextCommitted) \ {"FILES_RECEIVED"} => p = PctAt(st)
  /\ st \in TerminalStates => p = 100

ProgressFits == \A b \in Batches : Fits(status[b], pct[b])

(* A stage that is reached shows more than the stage before it.             *)
LEMMA PctGrows ==
  ASSUME NEW s \in DOMAIN NextCommitted
  PROVE  /\ PctAt(NextCommitted[s]) >= PctAt(s)
         /\ s = "FILES_RECEIVED" => PctAt(NextCommitted[s]) >= 25
         /\ PctAt(s) \in 0..99
<1>1. /\ PctAt("FILES_RECEIVED") = 20        /\ PctAt("VALIDATED") = 40
      /\ PctAt("NORMALIZED") = 55            /\ PctAt("RECONCILIATION_COMPLETED") = 70
      /\ PctAt("EXCEPTIONS_IDENTIFIED") = 78 /\ PctAt("TAX_PROCESSING") = 84
      /\ PctAt("SETTLEMENT_PROCESSING") = 90 /\ PctAt("REPORTING") = 96
      /\ PctAt("CLOSED") = 100
  BY DEF PctAt
<1>2. /\ NextCommitted["FILES_RECEIVED"] = "VALIDATED"
      /\ NextCommitted["VALIDATED"] = "NORMALIZED"
      /\ NextCommitted["NORMALIZED"] = "RECONCILIATION_COMPLETED"
      /\ NextCommitted["RECONCILIATION_COMPLETED"] = "EXCEPTIONS_IDENTIFIED"
      /\ NextCommitted["EXCEPTIONS_IDENTIFIED"] = "TAX_PROCESSING"
      /\ NextCommitted["TAX_PROCESSING"] = "SETTLEMENT_PROCESSING"
      /\ NextCommitted["SETTLEMENT_PROCESSING"] = "REPORTING"
      /\ NextCommitted["REPORTING"] = "CLOSED"
  BY DEF NextCommitted
<1>3. s \in { "FILES_RECEIVED", "VALIDATED", "NORMALIZED", "RECONCILIATION_COMPLETED",
              "EXCEPTIONS_IDENTIFIED", "TAX_PROCESSING", "SETTLEMENT_PROCESSING", "REPORTING" }
  BY DEF NextCommitted
<1>4. QED
  BY <1>1, <1>2, <1>3

LEMMA ProgressStep ==
  IInv /\ ProgressFits /\ [Next]_vars =>
    ProgressFits' /\ \A b \in Batches : pct'[b] >= pct[b]
<1> SUFFICES ASSUME IInv, ProgressFits, [Next]_vars
             PROVE  ProgressFits' /\ \A b \in Batches : pct'[b] >= pct[b]
  OBVIOUS
<1> DEFINE b == worker.batch
<1>1. \A c \in Batches : pct[c] \in 0..100 /\ pct[c] >= pct[c]
  <2>1. pct \in [Batches -> 0..100]
    BY DEF IInv, TypeOK, StoreTypeOK
  <2>2. QED
    BY <2>1
<1>2. worker.pc # "idle" => b \in Batches /\ status[b] \in LiveStates
  BY DEF IInv, WorkerOwns
(* One row changes; its new status and progress fit and have not shrunk.    *)
<1>3. ASSUME NEW c \in Batches, pct'[c] >= pct[c], Fits(status'[c], pct'[c]),
             \A d \in Batches : d # c => status'[d] = status[d] /\ pct'[d] = pct[d]
      PROVE  ProgressFits' /\ \A d \in Batches : pct'[d] >= pct[d]
  BY <1>1, <1>3 DEF ProgressFits
<1>4. ASSUME UNCHANGED <<status, pct>>
      PROVE  ProgressFits' /\ \A c \in Batches : pct'[c] >= pct[c]
  BY <1>1, <1>4 DEF ProgressFits
<1>5. ASSUME NEW h \in Handlers, CreateBatch(h)
      PROVE  ProgressFits' /\ \A c \in Batches : pct'[c] >= pct[c]
  <2>1. PICK c \in Batches : InsertBatch(c, handler[h].def, handler[h].run)
    BY <1>5 DEF CreateBatch
  <2>2. /\ status[c] = NoRow /\ status'[c] = "CREATED" /\ pct' = pct
        /\ \A d \in Batches : d # c => status'[d] = status[d]
    BY <2>1 DEF InsertBatch, IInv, TypeOK, StoreTypeOK
  <2>3. pct[c] = 0
    BY <2>2 DEF ProgressFits, Fits
  <2>4. Fits(status'[c], pct'[c])
    BY <2>2, <2>3, StatusFacts DEF Fits, NextCommitted
  <2>5. ProgressFits'
    BY <2>2, <2>4 DEF ProgressFits
  <2>6. QED
    BY <1>1, <2>2, <2>5
<1>6. CASE StartRun
  <2>1. PICK c \in Batches : status[c] = "CREATED" /\ status' = status /\ pct' = [pct EXCEPT ![c] = 5]
    <3>1. queue \in Seq(Batches) /\ queue # << >>
      BY <1>6 DEF StartRun, IInv, TypeOK
    <3>2. Head(queue) \in Batches /\ Head(queue) = queue[1] /\ 1 \in 1..Len(queue)
      BY <3>1, HeadTailProperties, EmptySeq, LenProperties
    <3>3. QED
      BY <1>6, <3>2 DEF StartRun, IInv, QueueOwns
  <2>2. /\ status'[c] = "CREATED" /\ pct'[c] = 5
        /\ \A d \in Batches : d # c => status'[d] = status[d] /\ pct'[d] = pct[d]
    BY <2>1 DEF IInv, TypeOK, StoreTypeOK
  <2>3. pct[c] \in 0..5
    BY <2>1 DEF ProgressFits, Fits
  <2>4. Fits("CREATED", 5)
    BY StatusFacts DEF Fits, NextCommitted
  <2>5. pct'[c] >= pct[c]
    BY <2>2, <2>3
  <2>6. QED
    BY <1>3, <2>2, <2>4, <2>5
<1>7. CASE CompleteFiles
  <2>1. status[b] = "CREATED" /\ b \in Batches /\ pct[b] \in 0..5
    BY <1>2, <1>7 DEF CompleteFiles, IInv, WorkerOwns, ProgressFits, Fits
  <2>2. PctAt("FILES_RECEIVED") = 20
    BY DEF PctAt
  <2>3. Fits("FILES_RECEIVED", 20)
    BY StatusFacts DEF Fits
  <2>4. /\ status'[b] = "FILES_RECEIVED" /\ pct'[b] = 20
        /\ \A d \in Batches : d # b => status'[d] = status[d] /\ pct'[d] = pct[d]
    BY <1>7, <2>1, <2>2 DEF CompleteFiles, IInv, TypeOK, StoreTypeOK
  <2>5. pct'[b] >= pct[b]
    BY <2>1, <2>4
  <2>6. QED
    BY <1>3, <2>1, <2>3, <2>4, <2>5
<1>8. CASE BeginProcessing
  <2>1. status[b] = "FILES_RECEIVED" /\ b \in Batches /\ pct[b] \in 20..25
    BY <1>2, <1>8 DEF BeginProcessing, IInv, WorkerOwns, ProgressFits, Fits
  <2>2. /\ status'[b] = "FILES_RECEIVED" /\ pct'[b] = 25
        /\ \A d \in Batches : d # b => status'[d] = status[d] /\ pct'[d] = pct[d]
    BY <1>8, <2>1 DEF BeginProcessing, IInv, TypeOK, StoreTypeOK
  <2>3. Fits("FILES_RECEIVED", 25)
    BY StatusFacts DEF Fits
  <2>4. pct'[b] >= pct[b]
    BY <2>1, <2>2
  <2>5. QED
    BY <1>3, <2>1, <2>2, <2>3, <2>4
<1>9. CASE ProcessStage
  <2> DEFINE to == NextCommitted[worker.view]
  <2>1. /\ b \in Batches
        /\ worker.view \in DOMAIN NextCommitted
        /\ status[b] = worker.view
        /\ status'[b] = to /\ pct'[b] = PctAt(to)
        /\ \A d \in Batches : d # b => status'[d] = status[d] /\ pct'[d] = pct[d]
    BY <1>2, <1>9 DEF ProcessStage, Produce, IInv, WorkerOwns, TypeOK, StoreTypeOK
  <2>2. /\ to \in (DOMAIN NextCommitted) \cup {"CLOSED"} /\ to # "FILES_RECEIVED"
        /\ PctAt(to) \in 0..100 /\ (to = "CLOSED" => PctAt(to) = 100)
    BY <2>1, NextCommittedFacts
  <2>3. PctAt(to) >= pct[b]
    <3>1. CASE worker.view = "FILES_RECEIVED"
      <4>1. pct[b] \in 20..25
        BY <2>1, <3>1 DEF ProgressFits, Fits
      <4>2. QED
        BY <2>1, <2>2, <3>1, <4>1, PctGrows
    <3>2. CASE worker.view # "FILES_RECEIVED"
      <4>1. pct[b] = PctAt(worker.view)
        BY <2>1, <3>2 DEF ProgressFits, Fits
      <4>2. QED
        BY <2>1, <4>1, PctGrows
    <3>3. QED
      BY <3>1, <3>2
  <2>4. "CREATED" \notin (DOMAIN NextCommitted) \cup {"CLOSED"}
    BY DEF NextCommitted
  <2>5. Fits(to, PctAt(to))
    BY <2>2, <2>4, StatusFacts DEF Fits
  <2>6. QED
    BY <1>3, <2>1, <2>2, <2>3, <2>5
<1>10. CASE RecordFailure
  <2>1. /\ b \in Batches /\ status'[b] = "FAILED" /\ pct'[b] = 100
        /\ \A d \in Batches : d # b => status'[d] = status[d] /\ pct'[d] = pct[d]
    BY <1>2, <1>10, StatusFacts DEF RecordFailure, IInv, TypeOK, StoreTypeOK
  <2>2. Fits("FAILED", 100)
    BY StatusFacts DEF Fits, NextCommitted
  <2>3. pct'[b] >= pct[b]
    BY <1>1, <2>1
  <2>4. QED
    BY <1>3, <2>1, <2>2, <2>3
<1>11. ASSUME NEW h \in Handlers, HandlerStep(h), ~CreateBatch(h) PROVE UNCHANGED <<status, pct>>
  BY <1>11 DEF HandlerStep, RequestRun, RefuseRun, SubmitBatch, storeVars, batchVars
<1>12. ASSUME NEW d \in Definitions, EditDefinition(d) PROVE UNCHANGED <<status, pct>>
  BY <1>12 DEF EditDefinition, batchVars
<1>13. ASSUME NEW s \in Sources, StoreFile(s) \/ RefuseOverwrite(s) \/ ParseFile(s)
       PROVE  UNCHANGED <<status, pct>>
  BY <1>13 DEF StoreFile, RefuseOverwrite, ParseFile, storeVars, batchVars
<1>14. ASSUME DiscoverFiles \/ CommitFiles \/ RunRaises \/ Crash
       PROVE  UNCHANGED <<status, pct>>
  BY <1>14 DEF DiscoverFiles, CommitFiles, RunRaises, Crash, storeVars, batchVars
<1>15. ASSUME UNCHANGED vars PROVE UNCHANGED <<status, pct>>
  BY <1>15, StutterStep
<1>16. QED
  BY <1>4, <1>5, <1>6, <1>7, <1>8, <1>9, <1>10, <1>11, <1>12, <1>13, <1>14, <1>15
     DEF Next, WorkerProgress

LEMMA ProgressInvariance == Spec => []ProgressFits
<1>1. Init => ProgressFits
  BY StatusFacts DEF Init, StoreInit, ProgressFits, Fits, NoRow, NextCommitted, TerminalStates
<1>2. QED
  BY <1>1, ProgressStep, Invariance, PTL DEF Spec

(* The bar is full exactly when the batch is closed or failed.              *)
THEOREM ProgressHonest == Spec => []ProgressShowsOutcome
<1>1. ProgressFits => ProgressShowsOutcome
  <2>1. \A st, p : Fits(st, p) => (p = 100 <=> st \in TerminalStates)
    BY PctGrows DEF Fits
  <2>2. QED
    BY <2>1 DEF ProgressFits, ProgressShowsOutcome, Terminal
<1>2. QED
  BY <1>1, ProgressInvariance, PTL

(* The bar never moves backwards, not even when a run fails.                *)
THEOREM ProgressMonotone == Spec => ProgressOnlyGrows
BY ProgressStep, ProgressInvariance, Invariance, PTL DEF Spec, ProgressOnlyGrows

-----------------------------------------------------------------------------
(* Records: a file is parsed once.                                          *)

(* What the records of a batch are at each of the worker's positions.       *)
RecordsFit ==
  /\ \A b \in Batches : \A s \in Sources :
       /\ records[b][s] \in {0, 1}
       /\ records[b][s] = 1 => s \in files[b]
       /\ status[b] \in {NoRow, "CREATED"} => records[b][s] = 0
       /\ status[b] \in ((DOMAIN NextCommitted) \cup {"CLOSED"}) \ {"FILES_RECEIVED"} =>
            (s \in files[b] => records[b][s] = 1)
  /\ worker.pc = "begin" => \A s \in Sources : records[worker.batch][s] = 0
  /\ worker.pc = "process" => worker.view # "FILES_RECEIVED"
  /\ worker.pc = "parse" =>
       \A s \in Sources :
         /\ s \in worker.left => s \in files[worker.batch]
         /\ s \in files[worker.batch] => (s \in worker.left <=> records[worker.batch][s] = 0)

(* A committed status is one the runner commits.                            *)
LEMMA ReachedStatuses ==
  ProgressFits =>
    \A b \in Batches :
      status[b] \in {NoRow, "CREATED"} \cup DOMAIN NextCommitted \cup TerminalStates
BY DEF ProgressFits, Fits

LEMMA RecordsStep == IInv /\ RecordsFit /\ [Next]_vars => RecordsFit'
<1> SUFFICES ASSUME IInv, RecordsFit, [Next]_vars PROVE RecordsFit'
  OBVIOUS
<1> DEFINE b == worker.batch
<1>1. worker.pc # "idle" => b \in Batches
  BY DEF IInv, WorkerOwns
(* Steps that leave the rows alone and put the worker where nothing is      *)
(* asked of it.                                                             *)
<1>2. ASSUME UNCHANGED <<status, files, records>>,
             worker' = worker \/ worker'.pc \notin {"begin", "parse", "process"}
      PROVE  RecordsFit'
  BY <1>2 DEF RecordsFit
<1>3. ASSUME NEW h \in Handlers, HandlerStep(h), ~CreateBatch(h) PROVE RecordsFit'
  BY <1>2, <1>3 DEF HandlerStep, RequestRun, RefuseRun, SubmitBatch, storeVars, batchVars
<1>4. ASSUME NEW h \in Handlers, CreateBatch(h) PROVE RecordsFit'
  <2>1. PICK c \in Batches : InsertBatch(c, handler[h].def, handler[h].run)
    BY <1>4 DEF CreateBatch
  <2>2. /\ UNCHANGED <<files, records, worker>>
        /\ status[c] = NoRow /\ status'[c] = "CREATED"
        /\ \A d \in Batches : d # c => status'[d] = status[d]
    BY <1>4, <2>1 DEF CreateBatch, InsertBatch, IInv, TypeOK, StoreTypeOK
  <2>3. "CREATED" \notin (DOMAIN NextCommitted) \cup {"CLOSED"}
    BY DEF NextCommitted
  <2>4. QED
    BY <2>2, <2>3 DEF RecordsFit
<1>5. ASSUME NEW d \in Definitions, EditDefinition(d) PROVE RecordsFit'
  BY <1>2, <1>5 DEF EditDefinition, batchVars, runnerVars
<1>6. CASE StartRun \/ DiscoverFiles \/ RunRaises \/ Crash
  <2>1. UNCHANGED <<status, files, records>>
    BY <1>6 DEF StartRun, DiscoverFiles, RunRaises, Crash, storeVars, batchVars
  <2>2. worker'.pc \notin {"begin", "parse", "process"}
    <3>1. CASE StartRun \/ Crash
      BY <3>1 DEF StartRun, Crash, IdleWorker
    <3>2. CASE DiscoverFiles
      BY <3>2 DEF DiscoverFiles, IInv, TypeOK
    <3>3. CASE RunRaises
      BY <3>3 DEF RunRaises, IInv, TypeOK
    <3>4. QED
      BY <1>6, <3>1, <3>2, <3>3
  <2>3. QED
    BY <1>2, <2>1, <2>2
<1>7. ASSUME NEW s \in Sources, StoreFile(s) \/ RefuseOverwrite(s) PROVE RecordsFit'
  <2>1. UNCHANGED <<status, files, records>>
    BY <1>7 DEF StoreFile, RefuseOverwrite, storeVars, batchVars
  <2>2. worker'.pc \notin {"begin", "parse", "process"}
    BY <1>7 DEF StoreFile, RefuseOverwrite, IInv, TypeOK
  <2>3. QED
    BY <1>2, <2>1, <2>2
<1>8. CASE CommitFiles
  <2>1. /\ b \in Batches /\ status[b] = "CREATED"
        /\ UNCHANGED <<status, records>>
        /\ worker'.pc \notin {"begin", "parse", "process"}
        /\ files[b] \subseteq files'[b]
        /\ \A d \in Batches : d # b => files'[d] = files[d]
    BY <1>8 DEF CommitFiles, IInv, WorkerOwns, TypeOK, StoreTypeOK
  <2>2. "CREATED" \notin (DOMAIN NextCommitted) \cup {"CLOSED"}
    BY DEF NextCommitted
  <2>3. QED
    BY <2>1, <2>2 DEF RecordsFit
<1>9. CASE CompleteFiles
  <2>1. /\ b \in Batches /\ status[b] = "CREATED" /\ status'[b] = "FILES_RECEIVED"
        /\ UNCHANGED <<files, records>>
        /\ worker'.pc = "begin" /\ worker'.batch = b
        /\ \A d \in Batches : d # b => status'[d] = status[d]
    BY <1>9 DEF CompleteFiles, IInv, WorkerOwns, TypeOK, StoreTypeOK
  <2>2. "FILES_RECEIVED" \notin {NoRow, "CREATED"}
    BY DEF NoRow
  <2>3. QED
    BY <2>1, <2>2 DEF RecordsFit
<1>10. CASE BeginProcessing
  <2>1. /\ b \in Batches
        /\ UNCHANGED <<status, files, records>>
        /\ worker.pc = "begin" /\ worker'.pc = "parse"
        /\ worker'.batch = b /\ worker'.left = files[b]
    BY <1>1, <1>10 DEF BeginProcessing, IInv, TypeOK
  <2>2. QED
    BY <2>1 DEF RecordsFit
<1>11. ASSUME NEW s \in Sources, ParseFile(s) PROVE RecordsFit'
  <2>1. /\ b \in Batches /\ status[b] = "FILES_RECEIVED"
        /\ UNCHANGED <<status, files>>
        /\ worker.pc = "parse" /\ worker'.pc = "parse" /\ worker'.batch = b
        /\ s \in worker.left /\ worker'.left = worker.left \ {s}
    BY <1>1, <1>11 DEF ParseFile, IInv, WorkerOwns, TypeOK
  <2>2. /\ records'[b][s] = records[b][s] + 1
        /\ \A t \in Sources : t # s => records'[b][t] = records[b][t]
        /\ \A d \in Batches : d # b => records'[d] = records[d]
    BY <1>11, <2>1 DEF ParseFile, IInv, TypeOK, StoreTypeOK
  <2>3. s \in files[b] /\ records[b][s] = 0
    BY <2>1 DEF RecordsFit
  <2>4. "FILES_RECEIVED" \notin {NoRow, "CREATED"}
    BY DEF NoRow
  <2>5. ASSUME NEW d \in Batches, NEW t \in Sources
        PROVE  /\ records'[d][t] \in {0, 1}
               /\ records'[d][t] = 1 => t \in files[d]
               /\ status[d] \in {NoRow, "CREATED"} => records'[d][t] = 0
               /\ status[d] \in ((DOMAIN NextCommitted) \cup {"CLOSED"}) \ {"FILES_RECEIVED"} =>
                    (t \in files[d] => records'[d][t] = 1)
    <3>1. CASE d = b /\ t = s
      BY <2>1, <2>2, <2>3, <2>4, <3>1
    <3>2. CASE ~(d = b /\ t = s)
      <4>1. records'[d][t] = records[d][t]
        BY <2>2, <3>2
      <4>2. QED
        BY <4>1 DEF RecordsFit
    <3>3. QED
      BY <3>1, <3>2
  <2>6. ASSUME NEW t \in Sources
        PROVE  /\ t \in worker'.left => t \in files[b]
               /\ t \in files[b] => (t \in worker'.left <=> records'[b][t] = 0)
    BY <2>1, <2>2, <2>3 DEF RecordsFit
  <2>7. QED
    BY <2>1, <2>5, <2>6 DEF RecordsFit
<1>12. CASE ProcessStage
  <2> DEFINE to == NextCommitted[worker.view]
  <2>1. /\ b \in Batches
        /\ worker.view \in DOMAIN NextCommitted
        /\ status[b] = worker.view /\ status'[b] = to
        /\ UNCHANGED <<files, records>>
        /\ \A d \in Batches : d # b => status'[d] = status[d]
    BY <1>1, <1>12 DEF ProcessStage, Produce, IInv, WorkerOwns, TypeOK, StoreTypeOK
  <2>2. /\ worker'.pc \notin {"begin", "parse"}
        /\ worker'.pc = "process" => worker'.view = to
    BY <1>12 DEF ProcessStage, IdleWorker, IInv, TypeOK
  <2>3. \A s \in Sources : s \in files[b] => records[b][s] = 1
    <3>1. CASE worker.pc = "parse"
      BY <1>12, <2>1, <3>1 DEF ProcessStage, RecordsFit
    <3>2. CASE worker.pc = "process"
      <4>1. worker.view # "FILES_RECEIVED"
        BY <3>2 DEF RecordsFit
      <4>2. QED
        BY <2>1, <4>1 DEF RecordsFit
    <3>3. QED
      BY <1>12, <3>1, <3>2 DEF ProcessStage
  <2>4. to \notin {NoRow, "CREATED"}
    <3>1. "CREATED" \notin (DOMAIN NextCommitted) \cup {"CLOSED"}
      BY DEF NextCommitted
    <3>2. QED
      BY <2>1, <3>1, NextCommittedFacts, StatusFacts
  <2>5. to # "FILES_RECEIVED"
    BY <2>1, NextCommittedFacts
  <2>6. QED
    BY <2>1, <2>2, <2>3, <2>4, <2>5 DEF RecordsFit
<1>13. CASE RecordFailure
  <2>1. /\ b \in Batches /\ status'[b] = "FAILED"
        /\ UNCHANGED <<files, records>>
        /\ worker'.pc = "idle"
        /\ \A d \in Batches : d # b => status'[d] = status[d]
    BY <1>1, <1>13, StatusFacts DEF RecordFailure, IdleWorker, IInv, WorkerOwns, TypeOK, StoreTypeOK
  <2>2. "FAILED" \notin {NoRow, "CREATED"} \cup (DOMAIN NextCommitted) \cup {"CLOSED"}
    BY DEF NoRow, NextCommitted
  <2>3. QED
    BY <2>1, <2>2 DEF RecordsFit
<1>14. CASE UNCHANGED vars
  BY <1>2, <1>14, StutterStep
<1>15. QED
  BY <1>3, <1>4, <1>5, <1>6, <1>7, <1>8, <1>9, <1>10, <1>11, <1>12, <1>13, <1>14
     DEF Next, WorkerProgress

(* The records a batch is reconciled from are those of its registered       *)
(* files, each parsed once, though parse_source_file() only ever appends    *)
(* and a run may fail or be killed between any two files.                   *)
THEOREM RecordsExact == Spec => []RecordsMatchFiles
<1>1. Init => RecordsFit
  BY StatusFacts DEF Init, StoreInit, IdleWorker, RecordsFit, NoRow, NextCommitted
<1>2. RecordsFit /\ ProgressFits => RecordsMatchFiles
  <2> SUFFICES ASSUME RecordsFit, ProgressFits, NEW b \in Batches, NEW s \in Sources
               PROVE  /\ records[b][s] \in {0, 1}
                      /\ records[b][s] = 1 => s \in files[b]
                      /\ status[b] \in (LiveStates \cup {"CLOSED"}) \ {"CREATED", "FILES_RECEIVED"} =>
                           (s \in files[b] => records[b][s] = 1)
    BY DEF RecordsMatchFiles
  <2>1. status[b] \in {NoRow, "CREATED"} \cup DOMAIN NextCommitted \cup TerminalStates
    BY ReachedStatuses
  <2>2. status[b] \in (LiveStates \cup {"CLOSED"}) \ {"CREATED", "FILES_RECEIVED"} =>
          status[b] \in ((DOMAIN NextCommitted) \cup {"CLOSED"}) \ {"FILES_RECEIVED"}
    BY <2>1, StatusFacts DEF TerminalStates
  <2>3. QED
    BY <2>2 DEF RecordsFit
<1>3. QED
  BY <1>1, <1>2, RecordsStep, ProgressInvariance, Invariance, PTL DEF Spec

-----------------------------------------------------------------------------
(* Products: a stage is committed with what it makes.                       *)

(* A batch that stands at a status has passed the stage that makes p.       *)
Passed(st, p) == \E to \in Statuses : p \in ProductsOf(to) /\ Rank[to] <= Rank[st]

ProductsFit ==
  \A b \in Batches : \A p \in Products :
    /\ made[b][p] \in {0, 1}
    /\ status[b] = NoRow => made[b][p] = 0
    /\ status[b] \in LiveStates \cup {"CLOSED"} => (made[b][p] = 1 <=> Passed(status[b], p))

(* Each product is made in one stage, and that stage is committed.          *)
LEMMA PassedWhen ==
  ASSUME NEW st \in LiveStates \cup {"CLOSED"}, NEW p \in Products
  PROVE  Passed(st, p) <=>
           \/ p = "transactions" /\ Rank[st] >= 3
           \/ p = "matches"      /\ Rank[st] >= 6
           \/ p = "exceptions"   /\ Rank[st] >= 7
           \/ p = "settlements"  /\ Rank[st] >= 10
           \/ p = "cash"         /\ Rank[st] >= 11
<1>1. /\ Rank["VALIDATED"] = 3               /\ Rank["RECONCILIATION_COMPLETED"] = 6
      /\ Rank["EXCEPTIONS_IDENTIFIED"] = 7   /\ Rank["SETTLEMENT_PROCESSING"] = 10
      /\ Rank["REPORTING"] = 11
  BY DEF Rank, Statuses, LiveStates
<1>2. \A to \in Statuses : p \in ProductsOf(to) <=>
        \/ p = "transactions" /\ to = "VALIDATED"
        \/ p = "matches"      /\ to = "RECONCILIATION_COMPLETED"
        \/ p = "exceptions"   /\ to = "EXCEPTIONS_IDENTIFIED"
        \/ p = "settlements"  /\ to = "SETTLEMENT_PROCESSING"
        \/ p = "cash"         /\ to = "REPORTING"
  BY DEF ProductsOf, Products
<1>3. {"VALIDATED", "RECONCILIATION_COMPLETED", "EXCEPTIONS_IDENTIFIED",
       "SETTLEMENT_PROCESSING", "REPORTING"} \subseteq Statuses
  BY DEF Statuses, LiveStates
<1>4. Rank[st] \in Nat
  BY DEF Rank, Statuses, LiveStates, TerminalStates
<1>5. QED
  BY <1>1, <1>2, <1>3, <1>4 DEF Passed

(* process_batch() commits a stage and its products together: afterwards    *)
(* the batch has passed what it had passed before and the new stage, which  *)
(* is one it had not passed.                                                *)
LEMMA PassedNext ==
  ASSUME NEW s \in DOMAIN NextCommitted, NEW p \in Products
  PROVE  /\ Passed(NextCommitted[s], p) <=> Passed(s, p) \/ p \in ProductsOf(NextCommitted[s])
         /\ p \in ProductsOf(NextCommitted[s]) => ~Passed(s, p)
<1>1. /\ NextCommitted["FILES_RECEIVED"] = "VALIDATED"
      /\ NextCommitted["VALIDATED"] = "NORMALIZED"
      /\ NextCommitted["NORMALIZED"] = "RECONCILIATION_COMPLETED"
      /\ NextCommitted["RECONCILIATION_COMPLETED"] = "EXCEPTIONS_IDENTIFIED"
      /\ NextCommitted["EXCEPTIONS_IDENTIFIED"] = "TAX_PROCESSING"
      /\ NextCommitted["TAX_PROCESSING"] = "SETTLEMENT_PROCESSING"
      /\ NextCommitted["SETTLEMENT_PROCESSING"] = "REPORTING"
      /\ NextCommitted["REPORTING"] = "CLOSED"
  BY DEF NextCommitted
<1>2. s \in { "FILES_RECEIVED", "VALIDATED", "NORMALIZED", "RECONCILIATION_COMPLETED",
              "EXCEPTIONS_IDENTIFIED", "TAX_PROCESSING", "SETTLEMENT_PROCESSING", "REPORTING" }
  BY DEF NextCommitted
<1>3. /\ Rank["FILES_RECEIVED"] = 2          /\ Rank["VALIDATED"] = 3
      /\ Rank["NORMALIZED"] = 4              /\ Rank["RECONCILIATION_COMPLETED"] = 6
      /\ Rank["EXCEPTIONS_IDENTIFIED"] = 7   /\ Rank["TAX_PROCESSING"] = 9
      /\ Rank["SETTLEMENT_PROCESSING"] = 10  /\ Rank["REPORTING"] = 11
      /\ Rank["CLOSED"] = 12
  BY DEF Rank, Statuses, LiveStates, TerminalStates
<1>4. /\ ProductsOf("VALIDATED") = {"transactions"}
      /\ ProductsOf("NORMALIZED") = {}
      /\ ProductsOf("RECONCILIATION_COMPLETED") = {"matches"}
      /\ ProductsOf("EXCEPTIONS_IDENTIFIED") = {"exceptions"}
      /\ ProductsOf("TAX_PROCESSING") = {}
      /\ ProductsOf("SETTLEMENT_PROCESSING") = {"settlements"}
      /\ ProductsOf("REPORTING") = {"cash"}
      /\ ProductsOf("CLOSED") = {}
  BY DEF ProductsOf
<1>5. s \in LiveStates \cup {"CLOSED"} /\ NextCommitted[s] \in LiveStates \cup {"CLOSED"}
  BY NextCommittedFacts, StatusFacts
<1>6. p \in {"transactions", "matches", "exceptions", "settlements", "cash"}
  BY DEF Products
<1> DEFINE After(st) ==
           \/ p = "transactions" /\ Rank[st] >= 3
           \/ p = "matches"      /\ Rank[st] >= 6
           \/ p = "exceptions"   /\ Rank[st] >= 7
           \/ p = "settlements"  /\ Rank[st] >= 10
           \/ p = "cash"         /\ Rank[st] >= 11
<1>7. /\ After(NextCommitted[s]) <=> After(s) \/ p \in ProductsOf(NextCommitted[s])
      /\ p \in ProductsOf(NextCommitted[s]) => ~After(s)
  BY <1>1, <1>2, <1>3, <1>4, <1>6
<1>8. /\ Passed(s, p) <=> After(s)
      /\ Passed(NextCommitted[s], p) <=> After(NextCommitted[s])
  BY <1>5, PassedWhen
<1>9. QED
  BY <1>7, <1>8

(* Before process_batch() commits its first stage nothing has been made.    *)
LEMMA NothingPassed ==
  ASSUME NEW p \in Products
  PROVE  ~Passed("CREATED", p) /\ ~Passed("FILES_RECEIVED", p)
<1>1. Rank["CREATED"] = 1 /\ Rank["FILES_RECEIVED"] = 2
  BY DEF Rank, Statuses, LiveStates
<1>2. QED
  BY <1>1, PassedWhen, StatusFacts

LEMMA ProductsStep == IInv /\ ProductsFit /\ [Next]_vars => ProductsFit'
<1> SUFFICES ASSUME IInv, ProductsFit, [Next]_vars PROVE ProductsFit'
  OBVIOUS
<1> DEFINE b == worker.batch
<1>1. worker.pc # "idle" => b \in Batches /\ status[b] \in LiveStates
  BY DEF IInv, WorkerOwns
<1>2. ASSUME UNCHANGED <<status, made>> PROVE ProductsFit'
  BY <1>2 DEF ProductsFit
(* A row moves to a status whose stages are those it had passed.            *)
<1>3. ASSUME NEW c \in Batches, made' = made, status'[c] \in Statuses,
             \A d \in Batches : d # c => status'[d] = status[d],
             status'[c] \in LiveStates \cup {"CLOSED"} =>
               \A p \in Products : made[c][p] = 1 <=> Passed(status'[c], p)
      PROVE  ProductsFit'
  BY <1>3, StatusFacts DEF ProductsFit
<1>4. ASSUME NEW h \in Handlers, CreateBatch(h) PROVE ProductsFit'
  <2>1. PICK c \in Batches : InsertBatch(c, handler[h].def, handler[h].run)
    BY <1>4 DEF CreateBatch
  <2>2. /\ made' = made /\ status[c] = NoRow /\ status'[c] = "CREATED"
        /\ \A d \in Batches : d # c => status'[d] = status[d]
    BY <2>1 DEF InsertBatch, IInv, TypeOK, StoreTypeOK
  <2>3. \A p \in Products : made[c][p] = 0
    BY <2>2 DEF ProductsFit
  <2>4. QED
    BY <1>3, <2>2, <2>3, NothingPassed, StatusFacts
<1>5. CASE CompleteFiles
  <2>1. /\ b \in Batches /\ status[b] = "CREATED" /\ status'[b] = "FILES_RECEIVED"
        /\ made' = made
        /\ \A d \in Batches : d # b => status'[d] = status[d]
    BY <1>5 DEF CompleteFiles, IInv, WorkerOwns, TypeOK, StoreTypeOK
  <2>2. \A p \in Products : made[b][p] # 1
    BY <2>1, NothingPassed, StatusFacts DEF ProductsFit
  <2>3. QED
    BY <1>3, <2>1, <2>2, NothingPassed, StatusFacts
<1>6. CASE ProcessStage
  <2> DEFINE to == NextCommitted[worker.view]
  <2>1. /\ b \in Batches
        /\ worker.view \in DOMAIN NextCommitted
        /\ status[b] = worker.view /\ status'[b] = to
        /\ made'[b] = [p \in Products |-> IF p \in ProductsOf(to) THEN made[b][p] + 1
                                          ELSE made[b][p]]
        /\ \A d \in Batches : d # b => status'[d] = status[d] /\ made'[d] = made[d]
    BY <1>1, <1>6 DEF ProcessStage, Produce, IInv, WorkerOwns, TypeOK, StoreTypeOK
  <2>2. worker.view \in LiveStates /\ to \in LiveStates \cup {"CLOSED"} /\ to # NoRow
    BY <2>1, NextCommittedFacts, StatusFacts
  <2> HIDE DEF to
  <2>3. ASSUME NEW p \in Products
        PROVE  made'[b][p] \in {0, 1} /\ (made'[b][p] = 1 <=> Passed(to, p))
    <3>1. /\ made[b][p] \in {0, 1}
          /\ made[b][p] = 1 <=> Passed(worker.view, p)
      BY <2>1, <2>2 DEF ProductsFit
    <3>2. /\ Passed(to, p) <=> Passed(worker.view, p) \/ p \in ProductsOf(to)
          /\ p \in ProductsOf(to) => ~Passed(worker.view, p)
      BY <2>1, PassedNext DEF to
    <3>3. made'[b][p] = IF p \in ProductsOf(to) THEN made[b][p] + 1 ELSE made[b][p]
      BY <2>1
    <3>4. QED
      BY <3>1, <3>2, <3>3
  <2>4. ASSUME NEW d \in Batches, NEW p \in Products, d # b
        PROVE  /\ made'[d][p] \in {0, 1}
               /\ status'[d] = NoRow => made'[d][p] = 0
               /\ status'[d] \in LiveStates \cup {"CLOSED"} =>
                    (made'[d][p] = 1 <=> Passed(status'[d], p))
    BY <2>1, <2>4 DEF ProductsFit
  <2>5. QED
    BY <2>1, <2>2, <2>3, <2>4 DEF ProductsFit
<1>7. CASE RecordFailure
  <2>1. /\ b \in Batches /\ status'[b] = "FAILED" /\ made' = made
        /\ \A d \in Batches : d # b => status'[d] = status[d]
    BY <1>1, <1>7, StatusFacts DEF RecordFailure, IInv, TypeOK, StoreTypeOK
  <2>2. "FAILED" \notin LiveStates \cup {"CLOSED"}
    BY DEF LiveStates
  <2>3. QED
    BY <1>3, <2>1, <2>2, StatusFacts
<1>8. ASSUME NEW h \in Handlers, HandlerStep(h), ~CreateBatch(h) PROVE UNCHANGED <<status, made>>
  BY <1>8 DEF HandlerStep, RequestRun, RefuseRun, SubmitBatch, storeVars, batchVars
<1>9. ASSUME NEW d \in Definitions, EditDefinition(d) PROVE UNCHANGED <<status, made>>
  BY <1>9 DEF EditDefinition, batchVars
<1>10. ASSUME NEW s \in Sources, StoreFile(s) \/ RefuseOverwrite(s) \/ ParseFile(s)
       PROVE  UNCHANGED <<status, made>>
  BY <1>10 DEF StoreFile, RefuseOverwrite, ParseFile, storeVars, batchVars
<1>11. ASSUME StartRun \/ DiscoverFiles \/ CommitFiles \/ BeginProcessing \/ RunRaises \/ Crash
       PROVE  UNCHANGED <<status, made>>
  BY <1>11 DEF StartRun, DiscoverFiles, CommitFiles, BeginProcessing, RunRaises, Crash,
               storeVars, batchVars
<1>12. ASSUME UNCHANGED vars PROVE UNCHANGED <<status, made>>
  BY <1>12, StutterStep
<1>13. QED
  BY <1>2, <1>4, <1>5, <1>6, <1>7, <1>8, <1>9, <1>10, <1>11, <1>12 DEF Next, WorkerProgress

(* What a batch's status promises its reader is there: every product of the *)
(* stages it has passed, once, and none of the stages to come; a run that   *)
(* failed or was killed has made nothing twice.                             *)
THEOREM ResultsExact == Spec => []ResultsMatchStatus
<1>1. Init => ProductsFit
  BY StatusFacts DEF Init, StoreInit, ProductsFit, TerminalStates
<1>2. ProductsFit => ResultsMatchStatus
  BY DEF ProductsFit, Passed, ResultsMatchStatus
<1>3. QED
  BY <1>1, <1>2, ProductsStep, Invariance, PTL DEF Spec

=============================================================================
