-------------------------- MODULE BatchSystem_proofs -------------------------
(***************************************************************************)
(* Theorems about the whole server, for any number of batches, handlers,   *)
(* requests and kills.  Unlike in BatchRunner a batch of a run may be      *)
(* moved by a request while the worker has it, so nothing holds of its     *)
(* status but that the row is there.  What runner and requests know of the *)
(* status holds of the batches that are Apart.                             *)
(***************************************************************************)
EXTENDS BatchSystem, BatchRunner_proofs

USE BatchesAssumption, MaxCrashesAssumption, ApiAssumption

Inserted(b) == b \in Batches /\ status[b] # NoRow
IsRun(b) == Inserted(b) /\ defn[b] \in Definitions

(* Who holds which run: as in BatchRunner, but for its status.              *)
RunnerHolds ==
  /\ worker.pc = "idle" => worker.batch = NoBatch
  /\ worker.pc # "idle" => IsRun(worker.batch)
  /\ \A i \in 1..Len(queue) :
       /\ IsRun(queue[i]) /\ queue[i] # worker.batch
       /\ \A j \in 1..Len(queue) : i # j => queue[i] # queue[j]
  /\ \A h \in Handlers :
       /\ handler[h].pc # "created" => handler[h].batch = NoBatch
       /\ handler[h].pc # "idle" => handler[h].def \in Definitions
       /\ handler[h].pc = "created" =>
            /\ IsRun(handler[h].batch) /\ handler[h].batch # worker.batch
            /\ \A i \in 1..Len(queue) : queue[i] # handler[h].batch
            /\ \A g \in Handlers : g # h => handler[g].batch # handler[h].batch

(* A request serves a batch that is there, and a run only if clients do     *)
(* such things to it.                                                       *)
RequestsHold ==
  \A h \in Sessions :
    /\ session[h].op = "idle" => session[h].batch = NoBatch
    /\ session[h].op # "idle" =>
         /\ Inserted(session[h].batch)
         /\ session[h].batch \in Apart => defn[session[h].batch] = NoDefinition
    /\ session[h].op \in {"write", "register"} => session[h].view = "CREATED"

SysInv == SystemTypeOK /\ RunnerHolds /\ RequestsHold

-----------------------------------------------------------------------------
(* Frames: what a step must leave alone.                                    *)

(* No row goes away or changes hands.                                       *)
RowsKept ==
  \A b \in Batches : status[b] # NoRow => status'[b] # NoRow /\ defn'[b] = defn[b]

LEMMA RunnerKept ==
  ASSUME SysInv, RowsKept, UNCHANGED <<handler, queue>>,
         \/ worker' = IdleWorker
         \/ worker'.batch = worker.batch /\ (worker'.pc = "idle" <=> worker.pc = "idle")
  PROVE  RunnerHolds'
<1>0. \A i \in 1..Len(queue) : queue[i] \in Batches
  BY DEF SysInv, SystemTypeOK, TypeOK
<1>1. \A b : IsRun(b) => IsRun(b)'
  BY DEF RowsKept, IsRun, Inserted
<1>2. IdleWorker.pc = "idle" /\ IdleWorker.batch = NoBatch
  BY DEF IdleWorker
<1>3. CASE worker' = IdleWorker
  BY <1>0, <1>1, <1>2, <1>3 DEF SysInv, RunnerHolds, IsRun, Inserted
<1>4. CASE worker'.batch = worker.batch /\ (worker'.pc = "idle" <=> worker.pc = "idle")
  BY <1>0, <1>1, <1>4 DEF SysInv, RunnerHolds
<1> QED BY <1>3, <1>4

LEMMA RequestsKept ==
  ASSUME SysInv, RowsKept, session' = session
  PROVE  RequestsHold'
<1>1. \A b : Inserted(b) => Inserted(b)' /\ defn'[b] = defn[b]
  BY DEF RowsKept, Inserted
<1> QED BY <1>1 DEF SysInv, RequestsHold

(* The session of a request that ends, and one that goes on.                *)
LEMMA RequestReplaced ==
  ASSUME SysInv, RowsKept, NEW h \in Sessions, NEW s, session' = [session EXCEPT ![h] = s],
         \/ s = IdleSession
         \/ /\ s.op # "idle" /\ Inserted(s.batch)
            /\ s.batch \in Apart => defn[s.batch] = NoDefinition
            /\ s.op \in {"write", "register"} => s.view = "CREATED"
  PROVE  RequestsHold'
<1>1. \A b : Inserted(b) => Inserted(b)' /\ defn'[b] = defn[b]
  BY DEF RowsKept, Inserted
<1>2. IdleSession.op = "idle" /\ IdleSession.batch = NoBatch
  BY DEF IdleSession
<1>3. session'[h] = s /\ \A g \in Sessions : g # h => session'[g] = session[g]
  BY DEF SysInv, SystemTypeOK, ApiTypeOK
<1>4. CASE s = IdleSession
  BY <1>1, <1>2, <1>3, <1>4 DEF SysInv, RequestsHold
<1>5. CASE s # IdleSession
  BY <1>1, <1>3, <1>5 DEF SysInv, RequestsHold
<1> QED BY <1>4, <1>5

LEMMA SameRows == ASSUME UNCHANGED <<status, defn>> PROVE RowsKept
BY DEF RowsKept

RunnerTyped ==
  /\ handler \in [Handlers -> [ pc : {"idle", "numbered", "created"},
                                def : Definitions \cup {NoDefinition},
                                run : Nat, batch : Batches \cup {NoBatch} ]]
  /\ queue   \in Seq(Batches)
  /\ worker  \in [ pc : WorkerPc, batch : Batches \cup {NoBatch},
                   view : Statuses \cup {NoRow}, wanted : SUBSET Sources,
                   found : SUBSET Sources, stored : SUBSET Sources,
                   left : SUBSET Sources ]
  /\ crashes \in 0..MaxCrashes

RequestType ==
  [ op : Operations \cup {"idle", "write", "register"}, batch : Batches \cup {NoBatch},
    view : Statuses \cup {NoRow}, source : SUBSET Sources ]

LEMMA TypedParts ==
  SystemTypeOK <=> StoreTypeOK /\ RunnerTyped /\ session \in [Sessions -> RequestType]
BY DEF SystemTypeOK, TypeOK, ApiTypeOK, RunnerTyped, RequestType

LEMMA RequestTyped ==
  ASSUME SystemTypeOK, NEW h \in Sessions, NEW s \in RequestType,
         session' = [session EXCEPT ![h] = s]
  PROVE  session' \in [Sessions -> RequestType]
BY TypedParts

LEMMA IdleTyped == IdleSession \in RequestType
BY DEF IdleSession, RequestType

-----------------------------------------------------------------------------
(* Steps of the runner: types from BatchRunner_proofs, holdings as there.   *)

LEMMA SysRefers == SysInv => Refers
BY DEF SysInv, RunnerHolds, IsRun, Inserted, Refers

LEMMA TypesKept ==
  ASSUME SysInv, [Next]_vars, session' = session
  PROVE  SystemTypeOK'
<1>1. TypeOK'
  BY TypeStep, SysRefers DEF SysInv, SystemTypeOK
<1>2. QED
  BY <1>1 DEF SysInv, SystemTypeOK, ApiTypeOK, TypeOK

LEMMA RequestSys ==
  ASSUME SysInv, NEW h \in Handlers, HandlerStep(h), session' = session
  PROVE  RowsKept /\ RunnerHolds'
<1> USE DEF SysInv, SystemTypeOK
<1>1. \A i \in 1..Len(queue) : queue[i] \in Batches
  BY DEF TypeOK
<1>2. ASSUME NEW d \in Definitions, RequestRun(h, d) PROVE RowsKept /\ RunnerHolds'
  <2>1. UNCHANGED <<status, defn, queue, worker>>
    BY <1>2 DEF RequestRun, storeVars, batchVars
  <2>2. /\ handler'[h].pc = "numbered" /\ handler'[h].def = d /\ handler'[h].batch = NoBatch
        /\ \A g \in Handlers : g # h => handler'[g] = handler[g]
    BY <1>2 DEF RequestRun, TypeOK
  <2>3. QED
    BY <1>1, <2>1, <2>2, SameRows DEF RunnerHolds, IsRun, Inserted
<1>3. CASE RefuseRun(h)
  <2>1. UNCHANGED <<status, defn, queue, worker>>
    BY <1>3 DEF RefuseRun, storeVars, batchVars
  <2>2. /\ handler'[h].pc = "idle" /\ handler'[h].batch = NoBatch
        /\ \A g \in Handlers : g # h => handler'[g] = handler[g]
    BY <1>3 DEF RefuseRun, TypeOK, IdleHandler
  <2>3. QED
    BY <1>1, <2>1, <2>2, SameRows DEF RunnerHolds, IsRun, Inserted
<1>4. CASE CreateBatch(h)
  <2>1. PICK b \in Batches :
          /\ InsertBatch(b, handler[h].def, handler[h].run)
          /\ handler' = [handler EXCEPT ![h] = [@ EXCEPT !.pc = "created", !.batch = b]]
    BY <1>4 DEF CreateBatch
  <2>2. /\ UNCHANGED <<queue, worker>>
        /\ handler[h].pc = "numbered" /\ handler[h].def \in Definitions
    BY <1>4 DEF CreateBatch, RunnerHolds
  <2>3. /\ handler'[h].pc = "created" /\ handler'[h].def = handler[h].def /\ handler'[h].batch = b
        /\ \A g \in Handlers : g # h => handler'[g] = handler[g]
    BY <2>1 DEF TypeOK
  <2>4. /\ status[b] = NoRow /\ status'[b] = "CREATED" /\ defn'[b] = handler[h].def
        /\ \A c \in Batches : c # b => status'[c] = status[c] /\ defn'[c] = defn[c]
    BY <2>1 DEF InsertBatch, TypeOK, StoreTypeOK
  <2>5. RowsKept
    BY <2>4 DEF RowsKept
  <2>6. /\ IsRun(b)' /\ \A c : IsRun(c) => IsRun(c)' /\ c # b
    BY <2>2, <2>4, <2>5 DEF IsRun, Inserted, RowsKept, NoRow
  <2>7. QED
    BY <1>1, <2>2, <2>3, <2>5, <2>6, NoBatch \notin Batches DEF RunnerHolds
<1>5. CASE SubmitBatch(h)
  <2> DEFINE b == handler[h].batch
  <2>1. UNCHANGED <<status, defn, worker>>
    BY <1>5 DEF SubmitBatch, storeVars, batchVars
  <2>2. /\ handler[h].pc = "created" /\ handler'[h].pc = "idle" /\ handler'[h].batch = NoBatch
        /\ \A g \in Handlers : g # h => handler'[g] = handler[g]
    BY <1>5 DEF SubmitBatch, TypeOK, IdleHandler
  <2>3. /\ IsRun(b) /\ b \in Batches /\ b # worker.batch
        /\ \A i \in 1..Len(queue) : queue[i] # b
        /\ \A g \in Handlers : g # h => handler[g].batch # b
    BY <2>2 DEF RunnerHolds, IsRun, Inserted
  <2>4. /\ Len(queue) \in Nat
        /\ Len(queue') = Len(queue) + 1
        /\ \A i \in 1..Len(queue) : queue'[i] = queue[i]
        /\ queue'[Len(queue) + 1] = b
    BY <1>5, <2>3, AppendProperties, LenProperties DEF SubmitBatch, TypeOK
  <2>5. \A i \in 1..Len(queue') :
          \/ i \in 1..Len(queue) /\ queue'[i] = queue[i]
          \/ i = Len(queue) + 1 /\ queue'[i] = b
    BY <2>4
  <2>6. \A i \in 1..Len(queue') :
          /\ IsRun(queue'[i]) /\ queue'[i] # worker.batch
          /\ \A j \in 1..Len(queue') : i # j => queue'[i] # queue'[j]
    BY <2>3, <2>4, <2>5 DEF RunnerHolds
  <2>7. ASSUME NEW g \in Handlers, handler'[g].pc = "created"
        PROVE  /\ IsRun(handler'[g].batch) /\ handler'[g].batch # worker.batch
               /\ \A i \in 1..Len(queue') : queue'[i] # handler'[g].batch
               /\ \A k \in Handlers : k # g => handler'[k].batch # handler'[g].batch
    <3>1. g # h /\ handler'[g] = handler[g] /\ IsRun(handler[g].batch)
      BY <2>2, <2>7 DEF RunnerHolds
    <3>2. handler[g].batch \in Batches /\ handler[g].batch # b
      BY <2>3, <3>1 DEF IsRun, Inserted
    <3>3. \A i \in 1..Len(queue') : queue'[i] # handler'[g].batch
      BY <2>5, <2>7, <3>1, <3>2 DEF RunnerHolds
    <3>4. QED
      BY <2>2, <2>7, <3>1, <3>2, <3>3, NoBatch \notin Batches DEF RunnerHolds
  <2>8. RunnerHolds'
    <3>1. \A g \in Handlers :
            /\ handler'[g].pc # "created" => handler'[g].batch = NoBatch
            /\ handler'[g].pc # "idle" => handler'[g].def \in Definitions
      BY <2>2 DEF RunnerHolds
    <3>2. QED
      BY <2>1, <2>6, <2>7, <3>1 DEF RunnerHolds, IsRun, Inserted
  <2>9. QED
    BY <2>1, <2>8, SameRows
<1>6. QED
  BY <1>2, <1>3, <1>4, <1>5 DEF HandlerStep

LEMMA EditSys ==
  ASSUME SysInv, NEW d \in Definitions, EditDefinition(d)
  PROVE  RowsKept /\ RunnerHolds'
<1>1. UNCHANGED <<status, defn, handler, queue, worker>>
  BY DEF EditDefinition, batchVars, runnerVars
<1>2. QED
  BY <1>1, SameRows, RunnerKept

(* The first batch of the queue leaves it: the worker takes it, or its run  *)
(* is abandoned at the start.                                               *)
LEMMA TakenSys ==
  ASSUME SysInv, queue # << >>, queue' = Tail(queue), worker.pc = "idle",
         UNCHANGED <<status, defn, handler>>,
         \/ worker' = worker
         \/ worker'.pc # "idle" /\ worker'.batch = Head(queue)
  PROVE  RowsKept /\ RunnerHolds'
<1> DEFINE b == Head(queue)
<1>1. /\ Len(queue) \in Nat \ {0} /\ b = queue[1]
      /\ Len(queue') = Len(queue) - 1
      /\ \A i \in 1..Len(queue') : queue'[i] = queue[i + 1]
  BY HeadTailProperties, EmptySeq, LenProperties DEF SysInv, SystemTypeOK, TypeOK
<1>2. \A i \in 1..Len(queue') : i + 1 \in 1..Len(queue) /\ i + 1 # 1
  BY <1>1
<1>3. 1 \in 1..Len(queue)
  BY <1>1
<1>4. /\ IsRun(b)
      /\ \A i \in 1..Len(queue') : IsRun(queue'[i]) /\ queue'[i] # b
      /\ \A h \in Handlers : handler[h].pc = "created" => handler[h].batch # b
  BY <1>1, <1>2, <1>3 DEF SysInv, RunnerHolds
<1>5. worker.batch = NoBatch
  BY DEF SysInv, RunnerHolds
<1>6. \A i \in 1..Len(queue') : queue'[i] # NoBatch
  BY <1>4, NoBatch \notin Batches DEF IsRun, Inserted
<1>7. ASSUME NEW i \in 1..Len(queue'), NEW j \in 1..Len(queue'), i # j
      PROVE  queue'[i] # queue'[j]
  <2>1. i + 1 # j + 1
    BY <1>1, <1>7
  <2>2. QED
    BY <1>1, <1>2, <2>1 DEF SysInv, RunnerHolds
<1>8. \A h \in Handlers : handler[h].pc = "created" =>
        /\ IsRun(handler[h].batch) /\ handler[h].batch # NoBatch
        /\ \A i \in 1..Len(queue') : queue'[i] # handler[h].batch
        /\ \A g \in Handlers : g # h => handler[g].batch # handler[h].batch
  BY <1>1, <1>2, NoBatch \notin Batches DEF SysInv, RunnerHolds, IsRun, Inserted
<1>9. worker'.batch \in {NoBatch, b} /\ (worker'.pc = "idle" => worker'.batch = NoBatch)
        /\ (worker'.pc # "idle" => worker'.batch = b)
  BY <1>5
<1> HIDE DEF b
<1>10. RunnerHolds'
  <2>1. \A h \in Handlers :
          /\ handler'[h].pc # "created" => handler'[h].batch = NoBatch
          /\ handler'[h].pc # "idle" => handler'[h].def \in Definitions
    BY DEF SysInv, RunnerHolds
  <2>2. QED
    BY <1>4, <1>6, <1>7, <1>8, <1>9, <2>1 DEF RunnerHolds, IsRun, Inserted
<1>11. QED
  BY <1>10, SameRows

LEMMA WorkerSys ==
  ASSUME SysInv, WorkerProgress \/ RunRaises
  PROVE  RowsKept /\ RunnerHolds'
<1>1. CASE StartRun
  BY <1>1, TakenSys DEF StartRun
<1>2. ASSUME ~StartRun
      PROVE  RowsKept /\ UNCHANGED <<handler, queue>>
  <2>1. ASSUME NEW s \in Sources, StoreFile(s) \/ RefuseOverwrite(s) \/ ParseFile(s)
        PROVE  UNCHANGED <<status, defn, handler, queue>>
    BY <2>1 DEF StoreFile, RefuseOverwrite, ParseFile, storeVars, batchVars
  <2>2. ASSUME DiscoverFiles \/ CommitFiles \/ BeginProcessing \/ RunRaises
        PROVE  UNCHANGED <<status, defn, handler, queue>>
    BY <2>2 DEF DiscoverFiles, CommitFiles, BeginProcessing, RunRaises, storeVars, batchVars
  <2>3. ASSUME CompleteFiles \/ ProcessStage \/ RecordFailure
        PROVE  RowsKept /\ UNCHANGED <<handler, queue>>
    <3>1. UNCHANGED <<defn, handler, queue>>
      BY <2>3 DEF CompleteFiles, ProcessStage, RecordFailure
    <3>2. ASSUME NEW b \in Batches, status[b] # NoRow PROVE status'[b] # NoRow
      <4>1. CASE CompleteFiles
        BY <3>2, <4>1 DEF CompleteFiles, SysInv, SystemTypeOK, TypeOK, StoreTypeOK, NoRow
      <4>2. CASE RecordFailure
        BY <3>2, <4>2 DEF RecordFailure, SysInv, SystemTypeOK, TypeOK, StoreTypeOK, NoRow
      <4>3. CASE ProcessStage
        <5>1. NextCommitted[worker.view] \in Statuses
          BY <4>3, NextCommittedFacts, StatusFacts DEF ProcessStage
        <5>2. status' = [status EXCEPT ![worker.batch] = NextCommitted[worker.view]]
          BY <4>3 DEF ProcessStage, Produce
        <5>3. QED
          BY <3>2, <5>1, <5>2, StatusFacts DEF SysInv, SystemTypeOK, TypeOK, StoreTypeOK
      <4>4. QED
        BY <2>3, <4>1, <4>2, <4>3
    <3>3. QED
      BY <3>1, <3>2 DEF RowsKept
  <2>4. QED
    BY <1>2, <2>1, <2>2, <2>3, SameRows DEF WorkerProgress
<1>3. ASSUME ~StartRun
      PROVE  \/ worker' = IdleWorker
             \/ worker'.batch = worker.batch /\ worker.pc # "idle" /\ worker'.pc # "idle"
  <2> USE DEF SysInv, SystemTypeOK, TypeOK
  <2>1. ASSUME NEW s \in Sources, StoreFile(s) \/ RefuseOverwrite(s) \/ ParseFile(s)
        PROVE  worker'.batch = worker.batch /\ worker.pc # "idle" /\ worker'.pc # "idle"
    BY <2>1 DEF StoreFile, RefuseOverwrite, ParseFile
  <2>2. ASSUME DiscoverFiles \/ CommitFiles \/ BeginProcessing
        PROVE  worker'.batch = worker.batch /\ worker.pc # "idle" /\ worker'.pc # "idle"
    BY <2>2 DEF DiscoverFiles, CommitFiles, BeginProcessing
  <2>3. ASSUME CompleteFiles \/ RunRaises
        PROVE  worker'.batch = worker.batch /\ worker.pc # "idle" /\ worker'.pc # "idle"
    BY <2>3 DEF CompleteFiles, RunRaises
  <2>4. CASE ProcessStage
    BY <2>4 DEF ProcessStage
  <2>5. CASE RecordFailure
    BY <2>5 DEF RecordFailure
  <2>6. QED
    BY <1>3, <2>1, <2>2, <2>3, <2>4, <2>5 DEF WorkerProgress
<1>4. QED
  BY <1>1, <1>2, <1>3, RunnerKept

-----------------------------------------------------------------------------
(* Steps of the requests.                                                   *)

LEMMA InsertTyped ==
  ASSUME StoreTypeOK, NEW b \in Batches, NEW n \in Nat, InsertBatch(b, NoDefinition, n)
  PROVE  StoreTypeOK'
BY StatusFacts DEF InsertBatch, StoreTypeOK

(* The rows a processing transaction commits.                               *)
LEMMA AddTyped ==
  ASSUME StoreTypeOK, NEW b \in Batches, NEW S, NEW P
  PROVE  /\ AddRecords(b, S) => records' \in [Batches -> [Sources -> Nat]]
         /\ AddProducts(b, P) => made' \in [Batches -> [Products -> Nat]]
<1>1. [s \in Sources |-> IF s \in S THEN records[b][s] + 1 ELSE records[b][s]] \in [Sources -> Nat]
  BY DEF StoreTypeOK
<1>2. [p \in Products |-> IF p \in P THEN made[b][p] + 1 ELSE made[b][p]] \in [Products -> Nat]
  BY DEF StoreTypeOK
<1>3. AddRecords(b, S) => records' \in [Batches -> [Sources -> Nat]]
  BY <1>1 DEF AddRecords, StoreTypeOK
<1>4. AddProducts(b, P) => made' \in [Batches -> [Products -> Nat]]
  BY <1>2 DEF AddProducts, StoreTypeOK
<1>5. QED
  BY <1>3, <1>4

(* What the batch of a request is, and its session, once for all steps.     *)
LEMMA RequestFacts ==
  ASSUME SysInv, NEW h \in Sessions, session[h].op # "idle"
  PROVE  /\ session[h].batch \in Batches /\ status[session[h].batch] # NoRow
         /\ session[h].batch \in Apart => defn[session[h].batch] = NoDefinition
         /\ session[h].source \in SUBSET Sources
         /\ session[h] \in RequestType
BY TypedParts DEF SysInv, RequestsHold, Inserted, RequestType

LEMMA ApiTyped ==
  ASSUME SysInv, NEW h \in Sessions, ApiStep(h)
  PROVE  StoreTypeOK' /\ session' \in [Sessions -> RequestType]
<1> DEFINE b == session[h].batch
<1>1. StoreTypeOK /\ session \in [Sessions -> RequestType]
  BY TypedParts DEF SysInv
<1>2. session[h].op # "idle" =>
        b \in Batches /\ session[h].source \in SUBSET Sources /\ session[h] \in RequestType
  BY RequestFacts
<1>3. EndRequest(h) => session' \in [Sessions -> RequestType]
  BY <1>1, IdleTyped DEF EndRequest
<1>4. CASE CreateAdHoc(h)
  BY <1>1, <1>4, InsertTyped, ApiAssumption DEF CreateAdHoc
<1>5. ASSUME NEW op \in Operations, NEW c \in Batches, ReadBatch(h, op, c)
      PROVE  StoreTypeOK' /\ session' \in [Sessions -> RequestType]
  <2>1. [IdleSession EXCEPT !.op = op, !.batch = c, !.view = status[c]] \in RequestType
    BY <1>1 DEF IdleSession, RequestType, StoreTypeOK
  <2>2. StoreTypeOK'
    BY <1>1, <1>5 DEF ReadBatch, storeVars, batchVars, StoreTypeOK
  <2>3. QED
    BY <1>1, <1>5, <2>1, <2>2 DEF ReadBatch
<1>6. CASE AbortRequest(h)
  BY <1>1, <1>3, <1>6 DEF AbortRequest, storeVars, batchVars, StoreTypeOK
<1>7. CASE CheckUpload(h)
  <2>1. PICK s \in Sources :
          session' = [session EXCEPT ![h].op = "write", ![h].source = {s}]
    BY <1>7 DEF CheckUpload
  <2>2. StoreTypeOK'
    BY <1>1, <1>7 DEF CheckUpload, storeVars, batchVars, StoreTypeOK
  <2>3. QED
    BY <1>1, <2>1, <2>2 DEF RequestType
<1>8. CASE WriteRawFile(h)
  <2>1. raw' \subseteq RawFile
    <3>1. PICK s \in session[h].source :
            raw' = {f \in raw : ~SameRawPath(f, RawFileOf(b, s))} \cup {RawFileOf(b, s)}
      BY <1>8 DEF WriteRawFile
    <3>2. RawFileOf(b, s) \in RawFile
      BY <1>1, <1>2, <1>8, <3>1 DEF WriteRawFile, RawFileOf, RawFile, StoreTypeOK
    <3>3. QED
      BY <1>1, <3>1, <3>2 DEF StoreTypeOK
  <2>2. StoreTypeOK'
    BY <1>1, <1>8, <2>1 DEF WriteRawFile, batchVars, StoreTypeOK
  <2>3. QED
    BY <1>1, <1>8, <2>2 DEF WriteRawFile, RequestType
<1>9. CASE RegisterFile(h)
  BY <1>1, <1>2, <1>3, <1>9 DEF RegisterFile, StoreTypeOK
<1>10. CASE MarkFilesComplete(h)
  BY <1>1, <1>2, <1>3, <1>10, StatusFacts DEF MarkFilesComplete, StoreTypeOK
<1>11. ASSUME ProcessCloses(h) \/ ProcessFails(h)
       PROVE  StoreTypeOK' /\ session' \in [Sessions -> RequestType]
  <2>1. b \in Batches
    BY <1>2, <1>11 DEF ProcessCloses, ProcessFails
  <2>2. status' \in [Batches -> Statuses \cup {NoRow}]
    BY <1>1, <1>11, StatusFacts DEF ProcessCloses, ProcessFails, StoreTypeOK, Statuses
  <2>3. records' \in [Batches -> [Sources -> Nat]]
    BY <1>1, <1>11, <2>1, AddTyped DEF ProcessCloses, ProcessFails
  <2>4. made' \in [Batches -> [Products -> Nat]]
    <3>1. made' = made \/ \E P : AddProducts(b, P)
      BY <1>11 DEF ProcessCloses, ProcessFails
    <3>2. QED
      BY <1>1, <2>1, <3>1, AddTyped DEF StoreTypeOK
  <2>5. EndRequest(h) /\ UNCHANGED <<pct, defn, runNo, files, raw, wanted, enabled>>
    BY <1>11 DEF ProcessCloses, ProcessFails
  <2>6. QED
    BY <1>1, <1>3, <2>2, <2>3, <2>4, <2>5 DEF StoreTypeOK
<1>12. QED
  BY <1>4, <1>5, <1>6, <1>7, <1>8, <1>9, <1>10, <1>11 DEF ApiStep

LEMMA ApiSys ==
  ASSUME SysInv, NEW h \in Sessions, ApiStep(h)
  PROVE  RowsKept /\ RequestsHold'
<1> DEFINE b == session[h].batch
<1>1. session[h].op # "idle" =>
        /\ Inserted(b) /\ (b \in Apart => defn[b] = NoDefinition)
        /\ session[h].op \in {"write", "register"} => session[h].view = "CREATED"
        /\ session[h] \in RequestType
  BY RequestFacts DEF SysInv, RequestsHold
<1>2. CASE CreateAdHoc(h)
  <2>1. PICK c \in Batches, n \in AdHocRuns : InsertBatch(c, NoDefinition, n)
    BY <1>2 DEF CreateAdHoc
  <2>2. RowsKept
    BY <2>1 DEF InsertBatch, RowsKept, SysInv, SystemTypeOK, TypeOK, StoreTypeOK
  <2>3. QED
    BY <1>2, <2>2, RequestsKept DEF CreateAdHoc
<1>3. ASSUME NEW op \in Operations, NEW c \in Batches, ReadBatch(h, op, c)
      PROVE  RowsKept /\ RequestsHold'
  <2> DEFINE s == [IdleSession EXCEPT !.op = op, !.batch = c, !.view = status[c]]
  <2>1. session' = [session EXCEPT ![h] = s] /\ RowsKept
    BY <1>3, SameRows DEF ReadBatch, storeVars, batchVars
  <2>2. s.op = op /\ s.batch = c /\ op \notin {"idle", "write", "register"}
    BY DEF IdleSession, Operations
  <2>3. Inserted(c) /\ (c \in Apart => defn[c] = NoDefinition)
    BY <1>3 DEF ReadBatch, Inserted, Apart
  <2> HIDE DEF s
  <2>4. QED
    BY <2>1, <2>2, <2>3, RequestReplaced
(* The other steps end the request or go on to its next step.               *)
<1>4. ASSUME RowsKept, EndRequest(h) PROVE RequestsHold'
  BY <1>4, RequestReplaced DEF EndRequest
<1>5. CASE AbortRequest(h)
  BY <1>4, <1>5, SameRows DEF AbortRequest, storeVars, batchVars
<1>6. CASE CheckUpload(h)
  <2>1. PICK t \in Sources :
          session' = [session EXCEPT ![h].op = "write", ![h].source = {t}]
    BY <1>6 DEF CheckUpload
  <2> DEFINE s == [session[h] EXCEPT !.op = "write", !.source = {t}]
  <2>2. /\ s.op = "write" /\ s.batch = b /\ s.view = "CREATED"
        /\ session' = [session EXCEPT ![h] = s]
    BY <1>1, <1>6, <2>1 DEF CheckUpload, RequestType
  <2>3. RowsKept
    BY <1>6, SameRows DEF CheckUpload, storeVars, batchVars
  <2>4. Inserted(b) /\ (b \in Apart => defn[b] = NoDefinition)
    BY <1>1, <1>6 DEF CheckUpload
  <2> HIDE DEF s
  <2>5. QED
    BY <2>2, <2>3, <2>4, RequestReplaced
<1>7. CASE WriteRawFile(h)
  <2> DEFINE s == [session[h] EXCEPT !.op = "register"]
  <2>1. /\ s.op = "register" /\ s.batch = b /\ s.view = "CREATED"
        /\ session' = [session EXCEPT ![h] = s]
    BY <1>1, <1>7 DEF WriteRawFile, RequestType
  <2>2. RowsKept
    BY <1>7, SameRows DEF WriteRawFile, batchVars
  <2>3. Inserted(b) /\ (b \in Apart => defn[b] = NoDefinition)
    BY <1>1, <1>7 DEF WriteRawFile
  <2> HIDE DEF s
  <2>4. QED
    BY <2>1, <2>2, <2>3, RequestReplaced
<1>8. CASE RegisterFile(h)
  BY <1>4, <1>8, SameRows DEF RegisterFile
<1>9. ASSUME MarkFilesComplete(h) \/ ProcessCloses(h) \/ ProcessFails(h)
      PROVE  RowsKept /\ RequestsHold'
  <2>1. EndRequest(h) /\ defn' = defn
    BY <1>9 DEF MarkFilesComplete, ProcessCloses, ProcessFails
  <2>2. \E to \in Statuses : status' = [status EXCEPT ![b] = to]
    BY <1>9, StatusFacts DEF MarkFilesComplete, ProcessCloses, ProcessFails, Statuses
  <2>3. RowsKept
    BY <2>1, <2>2, StatusFacts DEF RowsKept, SysInv, SystemTypeOK, TypeOK, StoreTypeOK
  <2>4. QED
    BY <1>4, <2>1, <2>3
<1>10. QED
  BY <1>2, <1>3, <1>5, <1>6, <1>7, <1>8, <1>9 DEF ApiStep

LEMMA SysInit == SystemInit => SysInv
<1> SUFFICES ASSUME SystemInit PROVE SysInv
  OBVIOUS
<1>1. TypeOK
  BY InitTypeOK DEF SystemInit
<1>2. session \in [Sessions -> RequestType]
  BY IdleTyped DEF SystemInit
<1>3. SystemTypeOK
  BY <1>1, <1>2 DEF SystemTypeOK, TypeOK, ApiTypeOK, RequestType
<1>4. RunnerHolds
  BY DEF SystemInit, Init, IdleHandler, IdleWorker, RunnerHolds
<1>5. RequestsHold
  BY DEF SystemInit, IdleSession, RequestsHold
<1>6. QED
  BY <1>3, <1>4, <1>5 DEF SysInv

LEMMA SysStep == SysInv /\ [SystemNext]_systemVars => SysInv' /\ RowsKept
<1> SUFFICES ASSUME SysInv, [SystemNext]_systemVars PROVE SysInv' /\ RowsKept
  OBVIOUS
(* A step of the runner alone, and one of a request alone.                  *)
<1>1. ASSUME [Next]_vars, session' = session, RowsKept, RunnerHolds'
      PROVE  SysInv'
  BY <1>1, TypesKept, RequestsKept DEF SysInv
<1>2. ASSUME NEW h \in Handlers, HandlerStep(h), session' = session PROVE SysInv' /\ RowsKept
  BY <1>1, <1>2, RequestSys DEF Next
<1>3. ASSUME NEW d \in Definitions, EditDefinition(d), session' = session
      PROVE  SysInv' /\ RowsKept
  BY <1>1, <1>3, EditSys DEF Next
<1>4. ASSUME WorkerProgress \/ RunRaises, session' = session PROVE SysInv' /\ RowsKept
  BY <1>1, <1>4, WorkerSys DEF Next
<1>5. ASSUME NEW h \in Sessions, ApiStep(h), UNCHANGED runnerVars PROVE SysInv' /\ RowsKept
  <2>1. StoreTypeOK' /\ session' \in [Sessions -> RequestType]
    BY <1>5, ApiTyped
  <2>2. UNCHANGED <<handler, queue, worker, crashes>>
    BY <1>5 DEF runnerVars
  <2>3. RunnerTyped'
    BY <2>2, TypedParts DEF SysInv, RunnerTyped
  <2>4. SystemTypeOK'
    BY <2>1, <2>3 DEF SystemTypeOK, TypeOK, ApiTypeOK, RunnerTyped, RequestType
  <2>5. RowsKept /\ RequestsHold'
    BY <1>5, ApiSys
  <2>6. RunnerHolds'
    BY <2>2, <2>5, RunnerKept
  <2>7. QED
    BY <2>4, <2>5, <2>6 DEF SysInv
<1>6. CASE AbandonAtStart
  <2>1. RowsKept /\ RunnerHolds'
    <3>1. /\ worker.pc = "idle" /\ queue # << >> /\ queue' = Tail(queue)
          /\ \/ worker' = worker
             \/ worker'.pc # "idle" /\ worker'.batch = Head(queue)
          /\ UNCHANGED <<status, defn, handler>>
      BY <1>6 DEF AbandonAtStart, storeVars, batchVars
    <3>2. QED
      BY <3>1, TakenSys
  <2>2. queue' \in Seq(Batches)
    BY <1>6, HeadTailProperties DEF AbandonAtStart, SysInv, SystemTypeOK, TypeOK
  <2>3. SystemTypeOK'
    BY <1>6, <2>2 DEF AbandonAtStart, storeVars, batchVars,
                      SysInv, SystemTypeOK, TypeOK, ApiTypeOK, StoreTypeOK
  <2>4. QED
    BY <1>6, <2>1, <2>3, RequestsKept DEF AbandonAtStart, SysInv
<1>7. CASE AbandonWhileFailing
  <2>1. RowsKept /\ RunnerHolds'
    BY <1>7, SameRows, RunnerKept DEF AbandonWhileFailing, storeVars, batchVars
  <2>2. SystemTypeOK'
    BY <1>7 DEF AbandonWhileFailing, storeVars, batchVars, IdleWorker, WorkerPc,
                SysInv, SystemTypeOK, TypeOK, ApiTypeOK, StoreTypeOK
  <2>3. QED
    BY <1>7, <2>1, <2>2, RequestsKept DEF AbandonWhileFailing, SysInv
<1>8. CASE SystemCrash
  <2>1. RowsKept
    BY <1>8, SameRows DEF SystemCrash, Crash, storeVars, batchVars
  <2>2. RunnerHolds'
    BY <1>8 DEF SystemCrash, Crash, IdleHandler, IdleWorker, RunnerHolds
  <2>3. TypeOK'
    BY <1>8, CrashTyped DEF SystemCrash, SysInv, SystemTypeOK
  <2>4. session' \in [Sessions -> RequestType] /\ RequestsHold'
    BY <1>8, IdleTyped DEF SystemCrash, IdleSession, RequestsHold
  <2>5. QED
    BY <2>1, <2>2, <2>3, <2>4 DEF SysInv, SystemTypeOK, TypeOK, ApiTypeOK, RequestType
<1>9. CASE UNCHANGED systemVars
  <2>1. UNCHANGED vars /\ UNCHANGED <<status, defn, handler, queue, worker, session>>
    BY <1>9 DEF systemVars, vars, storeVars, batchVars, runnerVars
  <2>2. RowsKept /\ RunnerHolds'
    BY <2>1, SameRows, RunnerKept
  <2>3. QED
    BY <1>1, <2>1, <2>2
<1>10. QED
  BY <1>2, <1>3, <1>4, <1>5, <1>6, <1>7, <1>8, <1>9 DEF SystemNext, ApiNext

LEMMA SystemInvariance == SystemSpec => []SysInv
BY SysInit, SysStep, PTL DEF SystemSpec

(* Whatever requests, the runner and kills do to the same rows, every       *)
(* variable keeps its type: no view, queue entry or file row of a request   *)
(* names what is not there, and progress stays a percentage.                *)
THEOREM SystemTypeCorrect == SystemSpec => []SystemTypeOK
<1>1. SysInv => SystemTypeOK
  BY DEF SysInv
<1>2. QED
  BY <1>1, SystemInvariance, PTL

-----------------------------------------------------------------------------
(* The batches apart.  A row is described by what its status promises; who  *)
(* has the batch by what he knows of its status.                            *)

(* No two requests serve one batch apart at the same time.  (Two could both *)
(* read it FILES_RECEIVED and process it twice: nothing locks the row.)     *)
OneRequestEach ==
  \A g, h \in Sessions :
    g # h /\ session[g].batch \in Apart => session[g].batch # session[h].batch

(* The statuses that follow the parsing of the files.                       *)
Parsed == ((DOMAIN NextCommitted) \cup {"CLOSED"}) \ {"FILES_RECEIVED"}

StatusFits(b) ==
  /\ status[b] \in {NoRow, "CREATED", "FILES_RECEIVED", "FAILED"} \cup Parsed
  /\ defn[b] = NoDefinition =>
       status[b] \in {NoRow, "CREATED", "FILES_RECEIVED", "CLOSED", "FAILED"}

RecordFits(b) ==
  \A s \in Sources :
    /\ records[b][s] \in {0, 1}
    /\ records[b][s] = 1 => s \in files[b]
    /\ status[b] \in {NoRow, "CREATED"} => records[b][s] = 0
    /\ status[b] = "FILES_RECEIVED" /\ defn[b] = NoDefinition => records[b][s] = 0
    /\ status[b] \in Parsed => (s \in files[b] => records[b][s] = 1)

MadeFits(b) ==
  \A p \in Products :
    /\ made[b][p] \in {0, 1}
    /\ status[b] = NoRow => made[b][p] = 0
    /\ status[b] \in LiveStates \cup {"CLOSED"} => (made[b][p] = 1 <=> Passed(status[b], p))

RowFits(b) == StatusFits(b) /\ RecordFits(b) /\ MadeFits(b)

HeldFits ==
  /\ \A i \in 1..Len(queue) : queue[i] \in Apart => status[queue[i]] = "CREATED"
  /\ \A h \in Handlers :
       handler[h].pc = "created" /\ handler[h].batch \in Apart =>
         status[handler[h].batch] = "CREATED"

WorkerFits ==
  worker.batch \in Apart =>
    /\ status[worker.batch] \in LiveStates
    /\ worker.pc \in {"import", "store", "complete"} =>
         worker.view = "CREATED" /\ status[worker.batch] = "CREATED"
    /\ worker.pc \in {"begin", "parse"} =>
         worker.view = "FILES_RECEIVED" /\ status[worker.batch] = "FILES_RECEIVED"
    /\ worker.pc = "process" =>
         worker.view = status[worker.batch] /\ worker.view \in Parsed \cap DOMAIN NextCommitted
    /\ worker.pc = "begin" => \A s \in Sources : records[worker.batch][s] = 0
    /\ worker.pc = "parse" =>
         \A s \in Sources :
           /\ s \in worker.left => s \in files[worker.batch]
           /\ s \in files[worker.batch] => (s \in worker.left <=> records[worker.batch][s] = 0)

ViewsFit ==
  \A h \in Sessions :
    session[h].op # "idle" /\ session[h].batch \in Apart =>
      session[h].view = status[session[h].batch]

RowsFit == \A b \in Apart : RowFits(b)

ApartInv == RowsFit /\ HeldFits /\ WorkerFits /\ ViewsFit

LEMMA ParsedFacts ==
  /\ {NoRow, "CREATED", "FILES_RECEIVED", "FAILED"} \cap Parsed = {}
  /\ "CLOSED" \in Parsed
  /\ Parsed \subseteq LiveStates \cup {"CLOSED"}
  /\ "CLOSED" \notin LiveStates \cup DOMAIN NextCommitted
  /\ DOMAIN NextCommitted \subseteq Parsed \cup {"FILES_RECEIVED"}
  /\ \A s \in DOMAIN NextCommitted : NextCommitted[s] \in Parsed
<1>1. DOMAIN NextCommitted =
        { "FILES_RECEIVED", "VALIDATED", "NORMALIZED",
          "RECONCILIATION_COMPLETED", "EXCEPTIONS_IDENTIFIED",
          "TAX_PROCESSING", "SETTLEMENT_PROCESSING", "REPORTING" }
  BY DEF NextCommitted
<1>2. \A s \in DOMAIN NextCommitted : NextCommitted[s] \in Parsed
  BY NextCommittedFacts DEF Parsed
<1>3. QED
  BY <1>1, <1>2 DEF Parsed, LiveStates, NoRow

SameRow(b) ==
  /\ status'[b] = status[b] /\ defn'[b] = defn[b] /\ files'[b] = files[b]
  /\ records'[b] = records[b] /\ made'[b] = made[b]

OnlyRow(c) == \A b \in Batches : b # c => SameRow(b)

LEMMA SameRowFits == ASSUME NEW b, SameRow(b), RowFits(b) PROVE RowFits(b)'
BY DEF SameRow, RowFits, StatusFits, RecordFits, MadeFits

LEMMA RowsFitKept ==
  ASSUME RowsFit, NEW c, OnlyRow(c), c \in Apart => RowFits(c)'
  PROVE  RowsFit'
<1> SUFFICES ASSUME NEW b \in Apart PROVE RowFits(b)'
  BY DEF RowsFit
<1>1. b \in Batches
  BY DEF Apart
<1>2. QED
  BY <1>1, SameRowFits DEF RowsFit, OnlyRow

LEMMA HeldFitsKept ==
  ASSUME SysInv, HeldFits, NEW c, OnlyRow(c), UNCHANGED <<handler, queue>>,
         c \in Apart =>
           /\ \A i \in 1..Len(queue) : queue[i] # c
           /\ \A h \in Handlers : handler[h].pc = "created" => handler[h].batch # c
  PROVE  HeldFits'
<1>1. \A i \in 1..Len(queue) : queue[i] \in Batches
  BY DEF SysInv, SystemTypeOK, TypeOK
<1>2. \A h \in Handlers : handler[h].pc = "created" => handler[h].batch \in Batches
  BY DEF SysInv, RunnerHolds, IsRun, Inserted
<1>3. \A b \in Batches : b # c => status'[b] = status[b]
  BY DEF OnlyRow, SameRow
<1>4. QED
  BY <1>1, <1>2, <1>3 DEF HeldFits

LEMMA WorkerFitsKept ==
  ASSUME WorkerFits, NEW c, OnlyRow(c), worker' = worker,
         c \in Apart => worker.batch # c
  PROVE  WorkerFits'
<1>1. worker.batch \in Apart => worker.batch \in Batches
  BY DEF Apart
<1>2. worker.batch \in Apart => SameRow(worker.batch)
  BY <1>1 DEF OnlyRow
<1>3. QED
  BY <1>2 DEF WorkerFits, SameRow

LEMMA ViewsFitKept ==
  ASSUME ViewsFit, NEW c, OnlyRow(c), session' = session,
         c \in Apart => \A h \in Sessions : session[h].op # "idle" => session[h].batch # c
  PROVE  ViewsFit'
<1>1. \A b \in Apart : b # c => status'[b] = status[b]
  BY DEF OnlyRow, SameRow, Apart
<1>2. QED
  BY <1>1 DEF ViewsFit

(* A run apart is nobody's request, and the batch of a request apart is no  *)
(* run.                                                                     *)
LEMMA Disjoint ==
  ASSUME SysInv
  PROVE  /\ \A b \in Apart : IsRun(b) =>
              \A h \in Sessions : session[h].op # "idle" => session[h].batch # b
         /\ \A b \in Apart : defn[b] = NoDefinition \/ status[b] = NoRow =>
              /\ worker.batch # b
              /\ \A i \in 1..Len(queue) : queue[i] # b
              /\ \A h \in Handlers : handler[h].pc = "created" => handler[h].batch # b
         /\ \A b \in Apart : status[b] = NoRow =>
              \A h \in Sessions : session[h].op # "idle" => session[h].batch # b
         /\ NoBatch \notin Apart
<1>1. worker.batch = NoBatch \/ IsRun(worker.batch)
  BY DEF SysInv, RunnerHolds
<1>2. NoBatch \notin Apart
  BY DEF Apart
<1>3. \A b \in Apart : IsRun(b) =>
        \A h \in Sessions : session[h].op # "idle" => session[h].batch # b
  BY DEF SysInv, RequestsHold, IsRun
<1>4. \A b \in Apart : status[b] = NoRow =>
        \A h \in Sessions : session[h].op # "idle" => session[h].batch # b
  BY DEF SysInv, RequestsHold, Inserted
<1>5. \A b \in Apart : defn[b] = NoDefinition \/ status[b] = NoRow => ~IsRun(b)
  BY DEF IsRun, Inserted
<1>6. QED
  BY <1>1, <1>2, <1>3, <1>4, <1>5 DEF SysInv, RunnerHolds

(* What one step may do to a committed status.                              *)
Moves(c) ==
  \/ status'[c] = status[c]
  \/ status[c] = NoRow /\ status'[c] = "CREATED"
  \/ Reaches(status[c], status'[c])

OneRowMoves == \E c : OnlyRow(c) /\ (c \in Apart => Moves(c))

LEMMA NoRowMoves ==
  ASSUME UNCHANGED <<status, defn, files, records, made>>
  PROVE  \A c : OnlyRow(c) /\ SameRow(c) /\ Moves(c)
BY DEF OnlyRow, SameRow, Moves

(* A step that changes no row and who has what only by giving it up.        *)
LEMMA RowsAlone ==
  ASSUME SysInv, ApartInv, UNCHANGED <<status, defn, files, records, made>>
  PROVE  /\ RowsFit' /\ OneRowMoves
         /\ UNCHANGED <<handler, queue>> => HeldFits'
         /\ worker' = worker \/ worker'.batch = NoBatch => WorkerFits'
         /\ session' = session => ViewsFit'
<1>1. \A c : OnlyRow(c) /\ SameRow(c) /\ Moves(c)
  BY NoRowMoves
<1>2. RowsFit' /\ OneRowMoves
  BY <1>1, SameRowFits DEF ApartInv, RowsFit, OneRowMoves
<1>3. UNCHANGED <<handler, queue>> => HeldFits'
  BY DEF ApartInv, HeldFits
<1>4. worker' = worker => WorkerFits'
  BY DEF ApartInv, WorkerFits
<1>5. worker'.batch = NoBatch => WorkerFits'
  BY Disjoint DEF WorkerFits
<1>6. session' = session => ViewsFit'
  BY DEF ApartInv, ViewsFit
<1>7. QED
  BY <1>2, <1>3, <1>4, <1>5, <1>6

(* The worker changes the row of its batch only.                            *)
LEMMA WorkerOnlyRow ==
  ASSUME SysInv, WorkerProgress \/ RunRaises, worker.pc # "idle"
  PROVE  /\ OnlyRow(worker.batch) /\ UNCHANGED <<defn, handler, queue>>
         /\ worker' = IdleWorker \/ worker'.batch = worker.batch
<1> USE DEF SysInv, SystemTypeOK, TypeOK, StoreTypeOK
<1>1. ASSUME NEW s \in Sources, StoreFile(s) \/ RefuseOverwrite(s) \/ ParseFile(s)
      PROVE  /\ UNCHANGED <<status, defn, files, made, handler, queue>>
             /\ \A b \in Batches : b # worker.batch => records'[b] = records[b]
             /\ worker'.batch = worker.batch
  BY <1>1 DEF StoreFile, RefuseOverwrite, ParseFile, storeVars, batchVars
<1>2. ASSUME DiscoverFiles \/ BeginProcessing \/ RunRaises
      PROVE  /\ UNCHANGED <<status, defn, files, records, made, handler, queue>>
             /\ worker'.batch = worker.batch
  BY <1>2 DEF DiscoverFiles, BeginProcessing, RunRaises, storeVars, batchVars
<1>3. ASSUME CommitFiles
      PROVE  /\ UNCHANGED <<status, defn, records, made, handler, queue>>
             /\ \A b \in Batches : b # worker.batch => files'[b] = files[b]
             /\ worker'.batch = worker.batch
  BY <1>3 DEF CommitFiles
<1>4. ASSUME CompleteFiles
      PROVE  /\ UNCHANGED <<defn, files, records, made, handler, queue>>
             /\ \A b \in Batches : b # worker.batch => status'[b] = status[b]
             /\ worker'.batch = worker.batch
  BY <1>4 DEF CompleteFiles
<1>5. ASSUME RecordFailure
      PROVE  /\ UNCHANGED <<defn, files, records, made, handler, queue>>
             /\ \A b \in Batches : b # worker.batch => status'[b] = status[b]
             /\ worker' = IdleWorker
  BY <1>5 DEF RecordFailure
<1>6. ASSUME ProcessStage
      PROVE  /\ UNCHANGED <<defn, files, records, handler, queue>>
             /\ \A b \in Batches : b # worker.batch => status'[b] = status[b] /\ made'[b] = made[b]
             /\ worker' = IdleWorker \/ worker'.batch = worker.batch
  BY <1>6 DEF ProcessStage, Produce
<1>7. ~StartRun
  BY DEF StartRun
<1>8. QED
  BY <1>1, <1>2, <1>3, <1>4, <1>5, <1>6, <1>7 DEF WorkerProgress, OnlyRow, SameRow

(* A run that goes from one status to the next with its products.           *)
LEMMA StageMade ==
  ASSUME SysInv, NEW c \in Batches, worker.batch = c, MadeFits(c), ProcessStage,
         status[c] = worker.view
  PROVE  MadeFits(c)'
<1> DEFINE to == NextCommitted[worker.view]
<1>1. /\ worker.view \in DOMAIN NextCommitted /\ status'[c] = to
      /\ made'[c] = [p \in Products |-> IF p \in ProductsOf(to) THEN made[c][p] + 1
                                        ELSE made[c][p]]
  BY DEF ProcessStage, Produce, SysInv, SystemTypeOK, TypeOK, StoreTypeOK
<1>2. worker.view \in LiveStates /\ to \in LiveStates \cup {"CLOSED"} /\ to # NoRow
  BY <1>1, NextCommittedFacts, StatusFacts
<1> HIDE DEF to
<1>3. ASSUME NEW p \in Products
      PROVE  made'[c][p] \in {0, 1} /\ (made'[c][p] = 1 <=> Passed(to, p))
  <2>1. /\ made[c][p] \in {0, 1}
        /\ made[c][p] = 1 <=> Passed(worker.view, p)
    BY <1>2 DEF MadeFits
  <2>2. /\ Passed(to, p) <=> Passed(worker.view, p) \/ p \in ProductsOf(to)
        /\ p \in ProductsOf(to) => ~Passed(worker.view, p)
    BY <1>1, PassedNext DEF to
  <2>3. made'[c][p] = IF p \in ProductsOf(to) THEN made[c][p] + 1 ELSE made[c][p]
    BY <1>1
  <2>4. QED
    BY <2>1, <2>2, <2>3
<1>4. QED
  BY <1>1, <1>2, <1>3 DEF MadeFits

(* A row that moves with its products as they were.                         *)
LEMMA MovedMade ==
  ASSUME NEW c, MadeFits(c), made'[c] = made[c],
         \/ status[c] \in {NoRow, "CREATED"} /\ status'[c] \in {"CREATED", "FILES_RECEIVED"}
         \/ status'[c] = "FAILED"
  PROVE  MadeFits(c)'
<1>1. "CREATED" # NoRow /\ "FILES_RECEIVED" # NoRow /\ "FAILED" # NoRow
  BY DEF NoRow
<1>2. "FAILED" \notin LiveStates \cup {"CLOSED"}
  BY DEF LiveStates
<1>3. CASE status'[c] = "FAILED"
  BY <1>1, <1>2, <1>3 DEF MadeFits
<1>4. CASE status[c] \in {NoRow, "CREATED"} /\ status'[c] \in {"CREATED", "FILES_RECEIVED"}
  <2>1. \A p \in Products : made[c][p] = 0
    BY <1>4, NothingPassed, StatusFacts DEF MadeFits
  <2>2. QED
    BY <1>1, <1>4, <2>1, NothingPassed DEF MadeFits
<1>5. QED
  BY <1>3, <1>4

LEMMA WorkerRow ==
  ASSUME SysInv, ApartInv, WorkerProgress \/ RunRaises, worker.pc # "idle",
         NEW c \in Apart, worker.batch = c
  PROVE  RowFits(c)' /\ WorkerFits' /\ Moves(c)
<1> USE DEF SysInv, SystemTypeOK, TypeOK, StoreTypeOK
<1>1. /\ c \in Batches /\ RowFits(c) /\ IsRun(c)
      /\ status[c] \in LiveStates /\ defn[c] \in Definitions /\ defn[c] # NoDefinition
      /\ WorkerFits
  BY DEF Apart, ApartInv, RowsFit, RunnerHolds, IsRun, WorkerFits
(* Steps on the way to the statuses after parsing, or out.                  *)
<1>2. ASSUME NEW s \in Sources, StoreFile(s) \/ RefuseOverwrite(s) PROVE RowFits(c)' /\ WorkerFits' /\ Moves(c)
  <2>1. UNCHANGED <<status, defn, files, records, made>>
    BY <1>2 DEF StoreFile, RefuseOverwrite, storeVars, batchVars
  <2>2. /\ worker.pc = "store" /\ worker'.pc \in {"store", "failing"}
        /\ worker'.batch = c /\ worker'.view = worker.view
    BY <1>2 DEF StoreFile, RefuseOverwrite
  <2>3. WorkerFits'
    BY <2>1, <2>2, <1>1 DEF WorkerFits
  <2>4. QED
    BY <1>1, <2>1, <2>3, NoRowMoves, SameRowFits
<1>3. ASSUME DiscoverFiles \/ RunRaises PROVE RowFits(c)' /\ WorkerFits' /\ Moves(c)
  <2>1. UNCHANGED <<status, defn, files, records, made>>
    BY <1>3 DEF DiscoverFiles, RunRaises, storeVars, batchVars
  <2>2. /\ (worker.pc = "import" /\ worker'.pc = "store") \/ worker'.pc = "failing"
        /\ worker'.batch = c /\ worker'.view = worker.view
    BY <1>3 DEF DiscoverFiles, RunRaises
  <2>3. WorkerFits'
    BY <2>1, <2>2, <1>1 DEF WorkerFits
  <2>4. QED
    BY <1>1, <2>1, <2>3, NoRowMoves, SameRowFits
<1>4. CASE CommitFiles
  <2>1. /\ UNCHANGED <<status, defn, records, made>>
        /\ files[c] \subseteq files'[c]
        /\ worker.pc = "store" /\ worker'.pc \in {"complete", "failing"}
        /\ worker'.batch = c /\ worker'.view = worker.view
    BY <1>1, <1>4 DEF CommitFiles
  <2>2. status[c] = "CREATED" /\ "CREATED" \notin Parsed
    BY <1>1, <2>1, ParsedFacts DEF WorkerFits
  <2>3. WorkerFits'
    BY <1>1, <2>1, <2>2 DEF WorkerFits
  <2>4. QED
    BY <1>1, <2>1, <2>2, <2>3 DEF RowFits, StatusFits, RecordFits, MadeFits, Moves
<1>5. CASE CompleteFiles
  <2>1. /\ UNCHANGED <<defn, files, records, made>>
        /\ status'[c] = "FILES_RECEIVED" /\ status[c] = "CREATED"
        /\ worker' = [worker EXCEPT !.pc = "begin", !.view = "FILES_RECEIVED"]
    BY <1>1, <1>5 DEF CompleteFiles, WorkerFits
  <2>2. \A s \in Sources : records[c][s] = 0
    BY <1>1, <2>1 DEF RowFits, RecordFits
  <2>3. RowFits(c)'
    BY <1>1, <2>1, <2>2, MovedMade, ParsedFacts DEF RowFits, StatusFits, RecordFits
  <2>4. WorkerFits'
    BY <2>1, <2>2, StatusFacts DEF WorkerFits
  <2>5. Reaches("CREATED", "FILES_RECEIVED")
    BY StatusFacts DEF Reaches, Rank, Statuses, LiveStates
  <2>6. QED
    BY <2>1, <2>3, <2>4, <2>5 DEF Moves
<1>6. CASE BeginProcessing
  <2>1. /\ UNCHANGED <<status, defn, files, records, made>>
        /\ worker.pc = "begin" /\ worker'.pc = "parse" /\ worker'.left = files[c]
        /\ worker'.batch = c /\ worker'.view = worker.view
    BY <1>6 DEF BeginProcessing
  <2>2. WorkerFits'
    BY <1>1, <2>1 DEF WorkerFits
  <2>3. QED
    BY <1>1, <2>1, <2>2, NoRowMoves, SameRowFits
<1>7. ASSUME NEW s \in Sources, ParseFile(s) PROVE RowFits(c)' /\ WorkerFits' /\ Moves(c)
  <2>1. /\ UNCHANGED <<status, defn, files, made>>
        /\ worker.pc = "parse" /\ s \in worker.left
        /\ worker' = [worker EXCEPT !.left = @ \ {s}]
        /\ records'[c][s] = records[c][s] + 1
        /\ \A t \in Sources : t # s => records'[c][t] = records[c][t]
    BY <1>1, <1>7 DEF ParseFile
  <2>2. /\ s \in files[c] /\ records[c][s] = 0 /\ status[c] = "FILES_RECEIVED"
    BY <1>1, <2>1 DEF WorkerFits
  <2>3. RowFits(c)'
    <3>1. RecordFits(c)'
      <4>1. status'[c] \notin {NoRow, "CREATED"} \cup Parsed /\ defn'[c] # NoDefinition
        BY <1>1, <2>1, <2>2, ParsedFacts DEF NoRow
      <4>2. ASSUME NEW t \in Sources
            PROVE  records'[c][t] \in {0, 1} /\ (records'[c][t] = 1 => t \in files[c])
        <5>1. CASE t = s
          BY <2>1, <2>2, <5>1
        <5>2. CASE t # s
          <6>1. records'[c][t] = records[c][t] /\ RecordFits(c)
            BY <1>1, <2>1, <5>2 DEF RowFits
          <6>2. QED
            BY <6>1 DEF RecordFits
        <5>3. QED
          BY <5>1, <5>2
      <4>3. QED
        BY <2>1, <4>1, <4>2 DEF RecordFits
    <3>2. QED
      BY <1>1, <2>1, <3>1 DEF RowFits, StatusFits, MadeFits
  <2>4. WorkerFits'
    BY <1>1, <2>1, <2>2 DEF WorkerFits
  <2>5. QED
    BY <2>1, <2>3, <2>4 DEF Moves
<1>8. CASE ProcessStage
  <2> DEFINE to == NextCommitted[worker.view]
  <2>1. /\ worker.view \in DOMAIN NextCommitted /\ status[c] = worker.view
        /\ status'[c] = to /\ UNCHANGED <<defn, files, records>>
        /\ worker' = IF to = "CLOSED" THEN IdleWorker
                     ELSE [worker EXCEPT !.pc = "process", !.view = to]
    BY <1>1, <1>8 DEF ProcessStage, Produce, WorkerFits
  <2>2. to \in Parsed /\ to # NoRow /\ to \notin {"CREATED", "FILES_RECEIVED"}
        /\ (to = "CLOSED" \/ to \in DOMAIN NextCommitted \cap LiveStates)
    BY <2>1, ParsedFacts, NextCommittedFacts, StatusFacts
  <2>3. \A s \in Sources : s \in files[c] => records[c][s] = 1
    <3>1. CASE worker.pc = "parse"
      BY <1>1, <1>8, <3>1 DEF ProcessStage, WorkerFits, RowFits, RecordFits
    <3>2. CASE worker.pc = "process"
      BY <1>1, <3>2 DEF WorkerFits, RowFits, RecordFits
    <3>3. QED
      BY <1>8, <3>1, <3>2 DEF ProcessStage
  <2>4. MadeFits(c)'
    BY <1>1, <1>8, <2>1, StageMade DEF RowFits
  <2>5. Moves(c)
    BY <2>1, NextCommittedFacts, StatusFacts, <2>2, ParsedFacts DEF Moves, Reaches, Statuses, TerminalStates
  <2>6. RowFits(c)'
    BY <1>1, <2>1, <2>2, <2>3, <2>4 DEF RowFits, StatusFits, RecordFits
  <2>7. WorkerFits'
    <3>1. CASE to = "CLOSED"
      BY <2>1, <3>1, Disjoint DEF WorkerFits, IdleWorker
    <3>2. CASE to # "CLOSED"
      BY <2>1, <2>2, <3>2 DEF WorkerFits
    <3>3. QED
      BY <3>1, <3>2
  <2>8. QED
    BY <2>5, <2>6, <2>7
<1>9. CASE RecordFailure
  <2>1. /\ UNCHANGED <<defn, files, records, made>> /\ status'[c] = "FAILED"
        /\ worker' = IdleWorker
    BY <1>1, <1>9, StatusFacts DEF RecordFailure
  <2>2. RowFits(c)'
    BY <1>1, <2>1, MovedMade, ParsedFacts DEF RowFits, StatusFits, RecordFits, NoRow
  <2>3. WorkerFits'
    BY <2>1, Disjoint DEF WorkerFits, IdleWorker
  <2>4. Reaches(status[c], "FAILED")
    BY <1>1, LiveReachesFailed
  <2>5. QED
    BY <2>1, <2>2, <2>3, <2>4 DEF Moves
<1>10. ~StartRun
  BY DEF StartRun
<1>11. QED
  BY <1>2, <1>3, <1>4, <1>5, <1>6, <1>7, <1>8, <1>9, <1>10 DEF WorkerProgress

-----------------------------------------------------------------------------
(* Each step keeps what is said of the batches apart.                       *)

LEMMA WorkerApart ==
  ASSUME SysInv, ApartInv, WorkerProgress \/ RunRaises, session' = session
  PROVE  ApartInv' /\ OneRowMoves
<1>1. CASE worker.pc # "idle"
  <2>1. PICK c : c = worker.batch
    OBVIOUS
  <2>2. /\ IsRun(c) /\ OnlyRow(c) /\ UNCHANGED <<defn, handler, queue>>
        /\ worker' = IdleWorker \/ worker'.batch = c
    BY <1>1, <2>1, WorkerOnlyRow DEF SysInv, RunnerHolds
  <2>3. c \in Apart => RowFits(c)' /\ WorkerFits' /\ Moves(c)
    BY <1>1, <2>1, WorkerRow
  <2>4. RowsFit'
    BY <2>2, <2>3, RowsFitKept DEF ApartInv
  <2>5. HeldFits'
    <3>1. /\ \A i \in 1..Len(queue) : queue[i] # c
          /\ \A h \in Handlers : handler[h].pc = "created" => handler[h].batch # c
      BY <2>1 DEF SysInv, RunnerHolds
    <3>2. QED
      BY <2>2, <3>1, HeldFitsKept DEF ApartInv
  <2>6. ViewsFit'
    <3>1. c \in Apart => \A h \in Sessions : session[h].op # "idle" => session[h].batch # c
      BY <2>2, Disjoint
    <3>2. QED
      BY <2>2, <3>1, ViewsFitKept DEF ApartInv
  <2>7. WorkerFits'
    <3>1. CASE c \in Apart
      BY <2>3, <3>1
    <3>2. CASE c \notin Apart
      <4>1. worker'.batch \notin Apart
        BY <2>2, <3>2, Disjoint DEF IdleWorker
      <4>2. QED
        BY <4>1 DEF WorkerFits
    <3>3. QED
      BY <3>1, <3>2
  <2>8. QED
    BY <2>2, <2>3, <2>4, <2>5, <2>6, <2>7 DEF ApartInv, OneRowMoves
<1>2. CASE worker.pc = "idle"
  <2>1. StartRun
    <3>1. ASSUME NEW s \in Sources PROVE ~StoreFile(s) /\ ~RefuseOverwrite(s) /\ ~ParseFile(s)
      BY <1>2 DEF StoreFile, RefuseOverwrite, ParseFile
    <3>2. ~DiscoverFiles /\ ~CommitFiles /\ ~CompleteFiles /\ ~BeginProcessing
      BY <1>2 DEF DiscoverFiles, CommitFiles, CompleteFiles, BeginProcessing
    <3>3. ~ProcessStage /\ ~RecordFailure /\ ~RunRaises
      BY <1>2 DEF ProcessStage, RecordFailure, RunRaises
    <3>4. QED
      BY <3>1, <3>2, <3>3 DEF WorkerProgress
  <2>2. /\ UNCHANGED <<status, defn, files, records, made, handler>>
        /\ queue # << >> /\ queue' = Tail(queue)
        /\ worker'.pc = "import" /\ worker'.batch = Head(queue)
        /\ worker'.view = status[Head(queue)]
    BY <2>1 DEF StartRun
  <2>3. /\ Len(queue) \in Nat \ {0} /\ Head(queue) = queue[1]
        /\ Len(queue') = Len(queue) - 1
        /\ \A i \in 1..Len(queue') : queue'[i] = queue[i + 1]
    BY <2>2, HeadTailProperties, EmptySeq, LenProperties DEF SysInv, SystemTypeOK, TypeOK
  <2>4. 1 \in 1..Len(queue) /\ \A i \in 1..Len(queue') : i + 1 \in 1..Len(queue)
    BY <2>3
  <2>5. HeldFits'
    BY <2>2, <2>3, <2>4 DEF ApartInv, HeldFits
  <2>6. WorkerFits'
    <3>1. worker'.batch \in Apart => status[worker'.batch] = "CREATED"
      BY <2>2, <2>3, <2>4 DEF ApartInv, HeldFits
    <3>2. QED
      BY <2>2, <3>1, StatusFacts DEF WorkerFits
  <2>7. RowsFit' /\ OneRowMoves /\ ViewsFit'
    BY <2>2, RowsAlone
  <2>8. QED
    BY <2>5, <2>6, <2>7 DEF ApartInv
<1>3. QED
  BY <1>1, <1>2

(* Inserting a row: the batch of a run, or one that a client makes.         *)
LEMMA InsertApart ==
  ASSUME SysInv, ApartInv, NEW c \in Batches, NEW d, NEW n, InsertBatch(c, d, n)
  PROVE  /\ OnlyRow(c) /\ status'[c] = "CREATED" /\ defn'[c] = d
         /\ RowsFit' /\ OneRowMoves
<1>1. /\ OnlyRow(c) /\ UNCHANGED <<files, records, made>>
      /\ status[c] = NoRow /\ status'[c] = "CREATED" /\ defn'[c] = d
  BY DEF InsertBatch, OnlyRow, SameRow, SysInv, SystemTypeOK, TypeOK, StoreTypeOK
<1>2. c \in Apart => RowFits(c)'
  <2>1. SUFFICES ASSUME c \in Apart PROVE RowFits(c)'
    OBVIOUS
  <2>2. RowFits(c)
    BY <2>1 DEF ApartInv, RowsFit
  <2>3. MadeFits(c)'
    BY <1>1, <2>2, MovedMade DEF RowFits
  <2>4. QED
    BY <1>1, <2>2, <2>3, ParsedFacts DEF RowFits, StatusFits, RecordFits
<1>3. RowsFit'
  BY <1>1, <1>2, RowsFitKept DEF ApartInv
<1>4. QED
  BY <1>1, <1>3 DEF OneRowMoves, Moves

LEMMA HandlerApart ==
  ASSUME SysInv, ApartInv, NEW h \in Handlers, HandlerStep(h), session' = session
  PROVE  ApartInv' /\ OneRowMoves
<1>1. ASSUME NEW d \in Definitions, RequestRun(h, d)
      PROVE  ApartInv' /\ OneRowMoves
  <2>1. UNCHANGED <<status, defn, files, records, made, queue, worker>>
    BY <1>1 DEF RequestRun, storeVars, batchVars
  <2>2. /\ handler'[h].pc # "created"
        /\ \A g \in Handlers : g # h => handler'[g] = handler[g]
    BY <1>1 DEF RequestRun, SysInv, SystemTypeOK, TypeOK
  <2>3. HeldFits'
    BY <2>1, <2>2 DEF ApartInv, HeldFits
  <2>4. QED
    BY <2>1, <2>3, RowsAlone DEF ApartInv
<1>2. CASE RefuseRun(h)
  <2>1. UNCHANGED <<status, defn, files, records, made, queue, worker>>
    BY <1>2 DEF RefuseRun, storeVars, batchVars
  <2>2. /\ handler'[h].pc # "created"
        /\ \A g \in Handlers : g # h => handler'[g] = handler[g]
    BY <1>2 DEF RefuseRun, IdleHandler, SysInv, SystemTypeOK, TypeOK
  <2>3. HeldFits'
    BY <2>1, <2>2 DEF ApartInv, HeldFits
  <2>4. QED
    BY <2>1, <2>3, RowsAlone DEF ApartInv
<1>3. CASE CreateBatch(h)
  <2>1. PICK b \in Batches :
          /\ InsertBatch(b, handler[h].def, handler[h].run)
          /\ handler' = [handler EXCEPT ![h] = [@ EXCEPT !.pc = "created", !.batch = b]]
    BY <1>3 DEF CreateBatch
  <2>2. UNCHANGED <<queue, worker>>
    BY <1>3 DEF CreateBatch
  <2>3. /\ handler'[h].batch = b
        /\ \A g \in Handlers : g # h => handler'[g] = handler[g]
    BY <2>1 DEF SysInv, SystemTypeOK, TypeOK
  <2>4. /\ OnlyRow(b) /\ status'[b] = "CREATED" /\ RowsFit' /\ OneRowMoves
    BY <2>1, InsertApart
  <2>5. status[b] = NoRow
    BY <2>1 DEF InsertBatch
  <2>6. HeldFits'
    <3>1. \A i \in 1..Len(queue) : queue[i] \in Batches
      BY DEF SysInv, SystemTypeOK, TypeOK
    <3>2. \A c \in Apart : c # b => status'[c] = status[c]
      BY <2>4 DEF OnlyRow, SameRow, Apart
    <3>3. QED
      BY <2>2, <2>3, <2>4, <3>2 DEF ApartInv, HeldFits
  <2>7. WorkerFits' /\ ViewsFit'
    BY <2>2, <2>4, <2>5, Disjoint, WorkerFitsKept, ViewsFitKept DEF ApartInv
  <2>8. QED
    BY <2>4, <2>6, <2>7 DEF ApartInv
<1>4. CASE SubmitBatch(h)
  <2> DEFINE b == handler[h].batch
  <2>1. /\ UNCHANGED <<status, defn, files, records, made, worker>>
        /\ handler[h].pc = "created" /\ queue' = Append(queue, b)
    BY <1>4 DEF SubmitBatch, storeVars, batchVars
  <2>2. /\ handler'[h].pc # "created"
        /\ \A g \in Handlers : g # h => handler'[g] = handler[g]
    BY <1>4 DEF SubmitBatch, IdleHandler, SysInv, SystemTypeOK, TypeOK
  <2>3. \A i \in 1..Len(queue') :
          \/ i \in 1..Len(queue) /\ queue'[i] = queue[i]
          \/ queue'[i] = b
    <3>1. b \in Batches /\ queue \in Seq(Batches)
      BY <2>1 DEF SysInv, RunnerHolds, IsRun, Inserted, SystemTypeOK, TypeOK
    <3>2. QED
      BY <2>1, <3>1, AppendProperties, LenProperties
  <2>4. HeldFits'
    BY <2>1, <2>2, <2>3 DEF ApartInv, HeldFits
  <2>5. QED
    BY <2>1, <2>4, RowsAlone DEF ApartInv
<1>5. QED
  BY <1>1, <1>2, <1>3, <1>4 DEF HandlerStep

(* What a request alone does to the row of its batch.                       *)
LEMMA ApiOnlyRow ==
  ASSUME SysInv, NEW h \in Sessions, ApiStep(h), session[h].op # "idle"
  PROVE  /\ OnlyRow(session[h].batch) /\ defn' = defn
         /\ \A g \in Sessions : g # h => session'[g] = session[g]
         /\ \/ session'[h] = IdleSession
            \/ /\ session'[h].batch = session[h].batch /\ session'[h].view = session[h].view
               /\ session'[h].op # "idle"
               /\ UNCHANGED <<status, defn, files, records, made>>
<1> DEFINE b == session[h].batch
<1> USE DEF SysInv, SystemTypeOK, TypeOK, ApiTypeOK, StoreTypeOK
<1>1. ~CreateAdHoc(h) /\ \A op, c : ~ReadBatch(h, op, c)
  BY DEF CreateAdHoc, ReadBatch
<1>2. EndRequest(h) => /\ session'[h] = IdleSession
                       /\ \A g \in Sessions : g # h => session'[g] = session[g]
  BY DEF EndRequest
<1>3. CASE AbortRequest(h)
  BY <1>2, <1>3 DEF AbortRequest, storeVars, batchVars, OnlyRow, SameRow
<1>4. ASSUME CheckUpload(h) \/ WriteRawFile(h)
      PROVE  /\ UNCHANGED <<status, defn, files, records, made>>
             /\ session'[h].batch = b /\ session'[h].view = session[h].view
             /\ session'[h].op # "idle"
             /\ \A g \in Sessions : g # h => session'[g] = session[g]
  <2>1. CASE CheckUpload(h)
    BY <2>1 DEF CheckUpload, storeVars, batchVars
  <2>2. CASE WriteRawFile(h)
    BY <2>2 DEF WriteRawFile, batchVars
  <2>3. QED
    BY <1>4, <2>1, <2>2
<1>5. CASE RegisterFile(h)
  <2>1. UNCHANGED <<status, defn, records, made>> /\ EndRequest(h)
    BY <1>5 DEF RegisterFile
  <2>2. \A c \in Batches : c # b => files'[c] = files[c]
    BY <1>5 DEF RegisterFile
  <2>3. QED
    BY <1>2, <2>1, <2>2 DEF OnlyRow, SameRow
<1>6. ASSUME MarkFilesComplete(h) \/ ProcessCloses(h) \/ ProcessFails(h)
      PROVE  /\ OnlyRow(b) /\ defn' = defn /\ session'[h] = IdleSession
             /\ \A g \in Sessions : g # h => session'[g] = session[g]
  <2>1. UNCHANGED <<defn, files>> /\ EndRequest(h)
    BY <1>6 DEF MarkFilesComplete, ProcessCloses, ProcessFails
  <2>2. \A c \in Batches : c # b => status'[c] = status[c]
    BY <1>6 DEF MarkFilesComplete, ProcessCloses, ProcessFails
  <2>3. \A c \in Batches : c # b => records'[c] = records[c]
    BY <1>6 DEF MarkFilesComplete, ProcessCloses, ProcessFails, AddRecords
  <2>4. \A c \in Batches : c # b => made'[c] = made[c]
    BY <1>6 DEF MarkFilesComplete, ProcessCloses, ProcessFails, AddProducts
  <2>5. QED
    BY <1>2, <2>1, <2>2, <2>3, <2>4 DEF OnlyRow, SameRow
<1>7. QED
  BY <1>1, <1>3, <1>4, <1>5, <1>6 DEF ApiStep, OnlyRow, SameRow

(* The rows that a processing request adds to a batch that had none.        *)
Unparsed(b) == \A s \in Sources : records[b][s] = 0
NothingMade(b) == \A p \in Products : made[b][p] = 0

LEMMA FirstRecords ==
  ASSUME SysInv, NEW b \in Batches, NEW S, AddRecords(b, S), Unparsed(b)
  PROVE  \A s \in Sources : records'[b][s] \in {0, 1} /\ (records'[b][s] = 1 <=> s \in S)
<1>1. records'[b] = [s \in Sources |-> IF s \in S THEN records[b][s] + 1 ELSE records[b][s]]
  BY DEF AddRecords, SysInv, SystemTypeOK, TypeOK, StoreTypeOK
<1>2. QED
  BY <1>1 DEF Unparsed

LEMMA FirstProducts ==
  ASSUME SysInv, NEW b \in Batches, NEW P, AddProducts(b, P), NothingMade(b)
  PROVE  \A p \in Products : made'[b][p] \in {0, 1} /\ (made'[b][p] = 1 <=> p \in P)
<1>1. made'[b] = [p \in Products |-> IF p \in P THEN made[b][p] + 1 ELSE made[b][p]]
  BY DEF AddProducts, SysInv, SystemTypeOK, TypeOK, StoreTypeOK
<1>2. QED
  BY <1>1 DEF NothingMade

LEMMA AllPassed == \A p \in Products : Passed("CLOSED", p)
<1>1. Rank["CLOSED"] = 12
  BY DEF Rank, Statuses, TerminalStates
<1>2. QED
  BY <1>1, PassedWhen DEF Products

(* A request on a batch apart finds it as it read it.                       *)
LEMMA ApiRow ==
  ASSUME SysInv, ApartInv, NEW h \in Sessions, ApiStep(h), session[h].op # "idle",
         NEW b \in Apart, session[h].batch = b
  PROVE  RowFits(b)' /\ Moves(b)
<1> USE DEF SysInv, SystemTypeOK, TypeOK, ApiTypeOK, StoreTypeOK
<1>1. /\ b \in Batches /\ RowFits(b) /\ defn[b] = NoDefinition /\ status[b] # NoRow
      /\ session[h].view = status[b]
      /\ session[h].source \in SUBSET Sources
  BY RequestFacts DEF Apart, ApartInv, RowsFit, ViewsFit
<1>2. ~CreateAdHoc(h) /\ \A op, c : ~ReadBatch(h, op, c)
  BY DEF CreateAdHoc, ReadBatch
<1>3. CASE AbortRequest(h) \/ CheckUpload(h) \/ WriteRawFile(h)
  <2>1. UNCHANGED <<status, defn, files, records, made>>
    BY <1>3 DEF AbortRequest, CheckUpload, WriteRawFile, storeVars, batchVars
  <2>2. QED
    BY <1>1, <2>1, NoRowMoves, SameRowFits
<1>4. CASE RegisterFile(h)
  <2>1. /\ UNCHANGED <<status, defn, records, made>> /\ files[b] \subseteq files'[b]
        /\ session[h].op = "register"
    BY <1>1, <1>4 DEF RegisterFile
  <2>2. status[b] = "CREATED" /\ "CREATED" \notin Parsed
    BY <1>1, <2>1, ParsedFacts DEF RequestsHold
  <2>3. QED
    BY <1>1, <2>1, <2>2 DEF RowFits, StatusFits, RecordFits, MadeFits, Moves
<1>5. CASE MarkFilesComplete(h)
  <2>1. /\ UNCHANGED <<defn, files, records, made>>
        /\ status'[b] = "FILES_RECEIVED" /\ CanTransition(status[b], "FILES_RECEIVED")
    BY <1>1, <1>5 DEF MarkFilesComplete
  <2>2. status[b] = "CREATED"
    BY <2>1 DEF CanTransition, AllowedTransitions
  <2>3. \A s \in Sources : records[b][s] = 0
    BY <1>1, <2>2 DEF RowFits, RecordFits
  <2>4. RowFits(b)'
    BY <1>1, <2>1, <2>2, <2>3, MovedMade, ParsedFacts DEF RowFits, StatusFits, RecordFits
  <2>5. Reaches("CREATED", "FILES_RECEIVED")
    BY StatusFacts DEF Reaches, Rank, Statuses, LiveStates
  <2>6. QED
    BY <2>1, <2>2, <2>4, <2>5 DEF Moves
<1>6. ASSUME ProcessCloses(h) \/ ProcessFails(h)
      PROVE  /\ status[b] = "FILES_RECEIVED" /\ UNCHANGED <<defn, files>>
             /\ Unparsed(b) /\ NothingMade(b)
  <2>1. status[b] = "FILES_RECEIVED" /\ UNCHANGED <<defn, files>>
    BY <1>1, <1>6 DEF ProcessCloses, ProcessFails
  <2>2. Unparsed(b)
    BY <1>1, <2>1 DEF RowFits, RecordFits, Unparsed
  <2>3. NothingMade(b)
    BY <1>1, <2>1, NothingPassed, StatusFacts DEF RowFits, MadeFits, NothingMade
  <2>4. QED
    BY <2>1, <2>2, <2>3
<1>7. CASE ProcessCloses(h)
  <2>1. /\ status'[b] = "CLOSED" /\ AddRecords(b, files[b]) /\ AddProducts(b, Products)
    BY <1>1, <1>7 DEF ProcessCloses
  <2>2. \A s \in Sources : records'[b][s] \in {0, 1} /\ (records'[b][s] = 1 <=> s \in files[b])
    BY <1>1, <1>6, <1>7, <2>1, FirstRecords
  <2>3. \A p \in Products : made'[b][p] \in {0, 1} /\ (made'[b][p] = 1 <=> p \in Products)
    BY <1>1, <1>6, <1>7, <2>1, FirstProducts
  <2>4. "CLOSED" \notin {NoRow, "CREATED", "FILES_RECEIVED"} /\ "CLOSED" \in Parsed
    BY ParsedFacts DEF NoRow
  <2>5. RecordFits(b)'
    BY <1>6, <1>7, <2>1, <2>2, <2>4 DEF RecordFits
  <2>6. MadeFits(b)'
    BY <2>1, <2>3, <2>4, AllPassed DEF MadeFits
  <2>7. StatusFits(b)'
    BY <2>1, <2>4 DEF StatusFits
  <2>8. Reaches("FILES_RECEIVED", "CLOSED")
    BY StatusFacts DEF Reaches, Rank, Statuses, LiveStates, TerminalStates
  <2>9. QED
    BY <1>6, <1>7, <2>1, <2>5, <2>6, <2>7, <2>8 DEF RowFits, Moves
<1>8. CASE ProcessFails(h)
  <2>1. status'[b] = "FAILED"
    BY <1>1, <1>8 DEF ProcessFails
  <2>2. PICK S \in SUBSET files[b] : AddRecords(b, S)
    BY <1>1, <1>8 DEF ProcessFails
  <2>3. made' = made \/ \E P : AddProducts(b, P)
    BY <1>1, <1>8 DEF ProcessFails
  <2>4. \A s \in Sources : records'[b][s] \in {0, 1} /\ (records'[b][s] = 1 => s \in files[b])
    BY <1>1, <1>6, <1>8, <2>2, FirstRecords
  <2>5. \A p \in Products : made'[b][p] \in {0, 1}
    <3>1. CASE made' = made
      BY <1>6, <1>8, <3>1 DEF NothingMade
    <3>2. ASSUME NEW P, AddProducts(b, P) PROVE \A p \in Products : made'[b][p] \in {0, 1}
      BY <1>1, <1>6, <1>8, <3>2, FirstProducts
    <3>3. QED
      BY <2>3, <3>1, <3>2
  <2>6. "FAILED" \notin {NoRow, "CREATED", "FILES_RECEIVED", "CLOSED"} \cup Parsed \cup LiveStates
    BY ParsedFacts DEF NoRow, LiveStates
  <2>7. RecordFits(b)'
    BY <1>6, <1>8, <2>1, <2>4, <2>6 DEF RecordFits
  <2>8. MadeFits(b)'
    BY <2>1, <2>5, <2>6 DEF MadeFits
  <2>9. StatusFits(b)'
    BY <2>1 DEF StatusFits
  <2>10. Reaches("FILES_RECEIVED", "FAILED")
    BY LiveReachesFailed, StatusFacts
  <2>11. QED
    BY <1>6, <1>8, <2>1, <2>7, <2>8, <2>9, <2>10 DEF RowFits, Moves
<1>9. QED
  BY <1>2, <1>3, <1>4, <1>5, <1>7, <1>8 DEF ApiStep

LEMMA ApiApart ==
  ASSUME SysInv, ApartInv, OneRequestEach, NEW h \in Sessions, ApiStep(h), UNCHANGED runnerVars
  PROVE  ApartInv' /\ OneRowMoves
<1>1. UNCHANGED <<handler, queue, worker>>
  BY DEF runnerVars
<1>2. CASE CreateAdHoc(h)
  <2>1. PICK c \in Batches, n \in AdHocRuns : InsertBatch(c, NoDefinition, n)
    BY <1>2 DEF CreateAdHoc
  <2>2. OnlyRow(c) /\ RowsFit' /\ OneRowMoves
    BY <2>1, InsertApart
  <2>3. status[c] = NoRow /\ session' = session
    BY <1>2, <2>1 DEF InsertBatch, CreateAdHoc
  <2>4. HeldFits' /\ WorkerFits' /\ ViewsFit'
    BY <1>1, <2>2, <2>3, Disjoint, HeldFitsKept, WorkerFitsKept, ViewsFitKept DEF ApartInv
  <2>5. QED
    BY <2>2, <2>4 DEF ApartInv
<1>3. ASSUME NEW op \in Operations, NEW c \in Batches, ReadBatch(h, op, c)
      PROVE  ApartInv' /\ OneRowMoves
  <2>1. UNCHANGED <<status, defn, files, records, made>>
    BY <1>3 DEF ReadBatch, storeVars, batchVars
  <2>2. /\ session'[h].batch = c /\ session'[h].view = status[c]
        /\ \A g \in Sessions : g # h => session'[g] = session[g]
    BY <1>3 DEF ReadBatch, IdleSession, SysInv, SystemTypeOK, ApiTypeOK
  <2>3. ViewsFit'
    BY <2>1, <2>2 DEF ApartInv, ViewsFit
  <2>4. QED
    BY <1>1, <2>1, <2>3, RowsAlone DEF ApartInv
<1>4. CASE session[h].op # "idle"
  <2>1. PICK b : b = session[h].batch
    OBVIOUS
  <2>2. /\ OnlyRow(b)
        /\ \A g \in Sessions : g # h => session'[g] = session[g]
        /\ \/ session'[h] = IdleSession
           \/ /\ session'[h].batch = b /\ session'[h].view = session[h].view
              /\ session'[h].op # "idle"
              /\ UNCHANGED <<status, defn, files, records, made>>
    BY <1>4, <2>1, ApiOnlyRow
  <2>3. b \in Apart => RowFits(b)' /\ Moves(b)
    BY <1>4, <2>1, ApiRow
  <2>4. b \in Apart => defn[b] = NoDefinition
    BY <1>4, <2>1, RequestFacts
  <2>5. RowsFit' /\ OneRowMoves
    BY <2>2, <2>3, RowsFitKept DEF ApartInv, OneRowMoves
  <2>6. HeldFits' /\ WorkerFits'
    BY <1>1, <2>2, <2>4, Disjoint, HeldFitsKept, WorkerFitsKept DEF ApartInv
  <2>7. ASSUME NEW g \in Sessions, session'[g].op # "idle", session'[g].batch \in Apart
        PROVE  session'[g].view = status'[session'[g].batch]
    <3>1. CASE g = h
      <4>1. session'[h] # IdleSession
        BY <2>7, <3>1 DEF IdleSession
      <4>2. QED
        BY <1>4, <2>1, <2>2, <2>7, <3>1, <4>1 DEF ApartInv, ViewsFit
    <3>2. CASE g # h
      <4>1. /\ session'[g] = session[g] /\ session[g].batch # b /\ session[g].batch \in Batches
        BY <2>1, <2>2, <2>7, <3>2 DEF OneRequestEach, Apart
      <4>2. status'[session[g].batch] = status[session[g].batch]
        BY <2>2, <4>1 DEF OnlyRow, SameRow
      <4>3. QED
        BY <2>7, <4>1, <4>2 DEF ApartInv, ViewsFit
    <3>3. QED
      BY <3>1, <3>2
  <2>8. QED
    BY <2>5, <2>6, <2>7 DEF ApartInv, ViewsFit
<1>5. CASE session[h].op = "idle"
  <2>1. CreateAdHoc(h) \/ \E op \in Operations, c \in Batches : ReadBatch(h, op, c)
    BY <1>5 DEF ApiStep, AbortRequest, CheckUpload, WriteRawFile, RegisterFile,
                MarkFilesComplete, ProcessCloses, ProcessFails
  <2>2. QED
    BY <1>2, <1>3, <2>1
<1>6. QED
  BY <1>4, <1>5

LEMMA ApartInit == SystemInit => ApartInv
<1> SUFFICES ASSUME SystemInit PROVE ApartInv
  OBVIOUS
<1> USE DEF SystemInit, Init, StoreInit
<1>1. /\ \A b \in Batches : status[b] = NoRow /\ defn[b] = NoDefinition
      /\ \A b \in Batches : \A s \in Sources : records[b][s] = 0
      /\ \A b \in Batches : \A p \in Products : made[b][p] = 0
  OBVIOUS
<1>2. NoRow \notin LiveStates \cup {"CLOSED"}
  BY StatusFacts DEF Statuses, TerminalStates
<1>3. RowsFit
  BY <1>1, <1>2, ParsedFacts DEF Apart, RowsFit, RowFits, StatusFits, RecordFits, MadeFits, NoRow
<1>4. HeldFits /\ WorkerFits /\ ViewsFit
  BY DEF HeldFits, WorkerFits, ViewsFit, IdleHandler, IdleWorker, IdleSession, Apart
<1>5. QED
  BY <1>3, <1>4 DEF ApartInv

LEMMA ApartStep ==
  SysInv /\ ApartInv /\ OneRequestEach /\ [SystemNext]_systemVars => ApartInv' /\ OneRowMoves
<1> SUFFICES ASSUME SysInv, ApartInv, OneRequestEach, [SystemNext]_systemVars
             PROVE  ApartInv' /\ OneRowMoves
  OBVIOUS
<1>1. ASSUME NEW d \in Definitions, EditDefinition(d), session' = session
      PROVE  ApartInv' /\ OneRowMoves
  <2>1. UNCHANGED <<status, defn, files, records, made, handler, queue, worker>>
    BY <1>1 DEF EditDefinition, batchVars, runnerVars
  <2>2. QED
    BY <1>1, <2>1, RowsAlone DEF ApartInv
<1>2. CASE AbandonAtStart
  <2>1. /\ UNCHANGED <<status, defn, files, records, made, handler, worker, session>>
        /\ queue # << >> /\ queue' = Tail(queue)
    BY <1>2 DEF AbandonAtStart, storeVars, batchVars
  <2>2. \A i \in 1..Len(queue') : i + 1 \in 1..Len(queue) /\ queue'[i] = queue[i + 1]
    BY <2>1, HeadTailProperties, EmptySeq, LenProperties DEF SysInv, SystemTypeOK, TypeOK
  <2>3. HeldFits'
    BY <2>1, <2>2 DEF ApartInv, HeldFits
  <2>4. QED
    BY <2>1, <2>3, RowsAlone DEF ApartInv
<1>3. CASE AbandonWhileFailing
  <2>1. /\ UNCHANGED <<status, defn, files, records, made, handler, queue, session>>
        /\ worker'.batch = NoBatch
    BY <1>3 DEF AbandonWhileFailing, storeVars, batchVars, IdleWorker
  <2>2. QED
    BY <2>1, RowsAlone DEF ApartInv
<1>4. CASE SystemCrash
  <2>1. UNCHANGED <<status, defn, files, records, made>>
    BY <1>4 DEF SystemCrash, Crash, storeVars, batchVars
  <2>2. HeldFits' /\ WorkerFits' /\ ViewsFit'
    BY <1>4 DEF SystemCrash, Crash, IdleHandler, IdleWorker, IdleSession, Apart,
                HeldFits, WorkerFits, ViewsFit
  <2>3. QED
    BY <2>1, <2>2, RowsAlone DEF ApartInv
<1>5. CASE UNCHANGED systemVars
  <2>1. UNCHANGED <<status, defn, files, records, made, handler, queue, worker, session>>
    BY <1>5 DEF systemVars, storeVars, batchVars, runnerVars
  <2>2. QED
    BY <2>1, RowsAlone DEF ApartInv
<1>6. QED
  BY <1>1, <1>2, <1>3, <1>4, <1>5, HandlerApart, WorkerApart, ApiApart DEF SystemNext, ApiNext

LEMMA ApartInvariance == SystemSpec /\ []OneRequestEach => []ApartInv
BY SystemInvariance, ApartInit, ApartStep, PTL DEF SystemSpec

-----------------------------------------------------------------------------
(* What a reader finds.  The vocabulary of the instance is the runner's.    *)

LEMMA SameWords ==
  /\ StoreApart!Products = Products
  /\ StoreApart!LiveStates = LiveStates
  /\ StoreApart!Statuses = Statuses
  /\ StoreApart!Rank = Rank
  /\ \A to : StoreApart!ProductsOf(to) = ProductsOf(to)
<1>1. StoreApart!LiveStates = LiveStates /\ StoreApart!TerminalStates = TerminalStates
  BY DEF StoreApart!LiveStates, LiveStates, StoreApart!TerminalStates, TerminalStates
<1>2. StoreApart!Statuses = Statuses
  BY <1>1 DEF StoreApart!Statuses, Statuses
<1>3. StoreApart!Rank = Rank
  BY <1>2 DEF StoreApart!Rank, Rank
<1>4. QED
  BY <1>1, <1>2, <1>3 DEF StoreApart!Products, Products, StoreApart!ProductsOf, ProductsOf

(* As long as no two requests work on one batch at a time: whatever clients *)
(* do by hand to the runs of others, and whichever of the two closes or     *)
(* fails a batch, each of its products is there once and when its status    *)
(* says so.                                                                 *)
THEOREM OthersResultsExact == SystemSpec /\ []OneRequestEach => []OthersMatchStatus
<1>1. ApartInv => OthersMatchStatus
  <2> SUFFICES ASSUME ApartInv, NEW b \in Apart, NEW p \in Products
               PROVE  /\ RowsApart(made)[b][p] \in {0, 1}
                      /\ RowsApart(status)[b] \in LiveStates \cup {"CLOSED"} =>
                           (RowsApart(made)[b][p] = 1 <=>
                              \E to \in Statuses : /\ p \in ProductsOf(to)
                                                   /\ Rank[to] <= Rank[RowsApart(status)[b]])
    BY SameWords DEF OthersMatchStatus, StoreApart!ResultsMatchStatus
  <2>1. RowsApart(made)[b] = made[b] /\ RowsApart(status)[b] = status[b]
    BY DEF RowsApart
  <2>2. MadeFits(b)
    BY DEF ApartInv, RowsFit, RowFits
  <2>3. QED
    BY <2>1, <2>2 DEF MadeFits, Passed
<1>2. QED
  BY <1>1, ApartInvariance, PTL

(* The records of its files are there once too, from the time they are      *)
(* parsed: by the worker one by one, by a request all at once or, when it   *)
(* fails, some of them.                                                     *)
THEOREM OthersRecordsExact == SystemSpec /\ []OneRequestEach => []OthersMatchFiles
<1>1. ApartInv => OthersMatchFiles
  <2> SUFFICES ASSUME ApartInv, NEW b \in Apart, NEW s \in Sources
               PROVE  /\ RowsApart(records)[b][s] \in {0, 1}
                      /\ RowsApart(records)[b][s] = 1 => s \in RowsApart(files)[b]
                      /\ RowsApart(status)[b] \in
                           (LiveStates \cup {"CLOSED"}) \ {"CREATED", "FILES_RECEIVED"} =>
                             (s \in RowsApart(files)[b] => RowsApart(records)[b][s] = 1)
    BY SameWords DEF OthersMatchFiles, StoreApart!RecordsMatchFiles
  <2>1. /\ RowsApart(records)[b] = records[b] /\ RowsApart(status)[b] = status[b]
        /\ RowsApart(files)[b] = files[b]
    BY DEF RowsApart
  <2>2. StatusFits(b) /\ RecordFits(b)
    BY DEF ApartInv, RowsFit, RowFits
  <2>3. status[b] \in (LiveStates \cup {"CLOSED"}) \ {"CREATED", "FILES_RECEIVED"} =>
          status[b] \in Parsed
    BY <2>2, StatusFacts DEF StatusFits, Statuses, TerminalStates, LiveStates
  <2>4. QED
    BY <2>1, <2>2, <2>3 DEF RecordFits
<1>2. QED
  BY <1>1, ApartInvariance, PTL

(* Refinement: their rows follow BatchLifecycle.                            *)
LEMMA ApartVocabulary ==
  /\ StoreApart!Lifecycle!Statuses = Statuses
  /\ StoreApart!Lifecycle!NoRow = NoRow
  /\ \A from, to : StoreApart!Lifecycle!Reaches(from, to) <=> Reaches(from, to)
<1>1. /\ StoreApart!Lifecycle!LiveStates = LiveStates
      /\ StoreApart!Lifecycle!TerminalStates = TerminalStates
      /\ StoreApart!Lifecycle!NoRow = NoRow
  BY DEF StoreApart!Lifecycle!LiveStates, LiveStates, StoreApart!Lifecycle!TerminalStates,
         TerminalStates, StoreApart!Lifecycle!NoRow, NoRow
<1>2. StoreApart!Lifecycle!Statuses = Statuses
  BY <1>1 DEF StoreApart!Lifecycle!Statuses, Statuses
<1>3. StoreApart!Lifecycle!Rank = Rank
  BY <1>2 DEF StoreApart!Lifecycle!Rank, Rank
<1>4. QED
  BY <1>1, <1>2, <1>3 DEF StoreApart!Lifecycle!Reaches, Reaches

LEMMA ApartLifecycleStep ==
  OneRowMoves => [StoreApart!Lifecycle!Next]_(RowsApart(status))
<1> SUFFICES ASSUME OneRowMoves, RowsApart(status)' # RowsApart(status)
             PROVE  StoreApart!Lifecycle!Next
  OBVIOUS
<1>1. PICK c : OnlyRow(c) /\ (c \in Apart => Moves(c))
  BY DEF OneRowMoves
<1>2. \A b \in Apart : b # c => status'[b] = status[b]
  BY <1>1 DEF OnlyRow, SameRow, Apart
<1>3. c \in Apart /\ status'[c] # status[c]
  BY <1>2 DEF RowsApart
<1>4. RowsApart(status)' = [RowsApart(status) EXCEPT ![c] = status'[c]]
  BY <1>2, <1>3 DEF RowsApart
<1>5. RowsApart(status)[c] = status[c]
  BY <1>3 DEF RowsApart
<1>6. \/ status[c] = NoRow /\ status'[c] = "CREATED"
      \/ Reaches(status[c], status'[c]) /\ status'[c] \in Statuses
  BY <1>1, <1>3 DEF Moves, Reaches
<1>7. QED
  BY <1>3, <1>4, <1>5, <1>6, ApartVocabulary
     DEF StoreApart!Lifecycle!Next, StoreApart!Lifecycle!Create, StoreApart!Lifecycle!Advance

(* A reader of the batches that clients leave to the runner, or the runner  *)
(* to clients, sees them follow the table of state_machine.py.              *)
THEOREM OthersRefineLifecycle == SystemSpec /\ []OneRequestEach => OthersFollowLifecycle
<1>1. SystemInit => StoreApart!Lifecycle!Init
  BY ApartVocabulary
     DEF SystemInit, Init, StoreInit, RowsApart, Apart, StoreApart!Lifecycle!Init
<1>2. SysInv /\ ApartInv /\ OneRequestEach /\ [SystemNext]_systemVars =>
        [StoreApart!Lifecycle!Next]_(RowsApart(status))
  BY ApartStep, ApartLifecycleStep
<1>3. QED
  BY <1>1, <1>2, SystemInvariance, ApartInvariance, PTL
     DEF SystemSpec, OthersFollowLifecycle, StoreApart!ImplementsLifecycle,
         StoreApart!Lifecycle!Spec

-----------------------------------------------------------------------------
(* Raw files: write_raw_file() looks at the path in one step and replaces   *)
(* what is there in another.                                                *)

(* Nobody is about to write to a path for one batch while a request is      *)
(* between the look at that path and the write to it for another batch.     *)
OneWriterEach ==
  \A h \in Sessions : \A s \in session[h].source : session[h].op = "write" =>
    /\ \A g \in Sessions :
         session[g].op = "write" /\ s \in session[g].source
           /\ SameRawPath(RawFileOf(session[g].batch, s), RawFileOf(session[h].batch, s)) =>
                session[g].batch = session[h].batch
    /\ worker.pc = "store" /\ s \in worker.found \ worker.stored
         /\ SameRawPath(RawFileOf(worker.batch, s), RawFileOf(session[h].batch, s)) =>
              session[h].batch = worker.batch

(* Nobody else's file lies where a request is about to write.               *)
WritesOwn ==
  \A h \in Sessions : session[h].op = "write" =>
    \A s \in session[h].source : \A f \in raw :
      SameRawPath(f, RawFileOf(session[h].batch, s)) => f.by = session[h].batch

(* A request uploads one file.                                              *)
OneFileEach ==
  \A h \in Sessions : session[h].op = "write" =>
    \A s, t \in session[h].source : s = t

DiskFits ==
  /\ OneFileEach
  /\ \A b \in Batches : status[b] = NoRow => files[b] = {}
  /\ RegisteredFilesOnDisk
  /\ \A h \in Sessions : session[h].op = "register" =>
       \A s \in session[h].source : RawFileOf(session[h].batch, s) \in raw
  /\ WritesOwn
  /\ worker.pc \in {"import", "store"} =>
       \A s \in worker.stored : RawFileOf(worker.batch, s) \in raw

(* Steps that leave paths, files and rows alone.                            *)
LEMMA DiskKept ==
  ASSUME DiskFits, RowsKept, UNCHANGED <<defn, runNo, files, raw>>,
         \A h \in Sessions :
           session'[h] = session[h] \/ session'[h].op \notin {"write", "register"},
         \/ worker'.pc \notin {"import", "store"}
         \/ worker'.stored = {}
         \/ /\ worker.pc \in {"import", "store"}
            /\ worker'.batch = worker.batch /\ worker'.stored = worker.stored
  PROVE  DiskFits'
<1>1. \A b \in Batches : status'[b] = NoRow => files'[b] = {}
  BY DEF DiskFits, RowsKept
<1>2. RegisteredFilesOnDisk'
  BY DEF DiskFits, RegisteredFilesOnDisk, RawFileOf
<1>3. \A h \in Sessions : session'[h].op = "register" =>
        \A s \in session'[h].source :
          [def |-> defn[session'[h].batch], run |-> runNo[session'[h].batch],
           source |-> s, by |-> session'[h].batch] \in raw
  BY DEF DiskFits, RawFileOf
<1>4. WritesOwn'
  BY DEF DiskFits, WritesOwn, RawFileOf
<1>5. worker'.pc \in {"import", "store"} =>
        \A s \in worker'.stored :
          [def |-> defn[worker'.batch], run |-> runNo[worker'.batch],
           source |-> s, by |-> worker'.batch] \in raw
  BY DEF DiskFits, RawFileOf
<1>6. OneFileEach'
  BY DEF DiskFits, OneFileEach
<1>7. QED
  BY <1>1, <1>2, <1>3, <1>4, <1>5, <1>6 DEF DiskFits, RawFileOf

(* A new row has no files, and nobody holds it yet.                         *)
LEMMA DiskInserted ==
  ASSUME SysInv, DiskFits, NEW c \in Batches, NEW d, NEW n, InsertBatch(c, d, n),
         UNCHANGED <<worker, session>>
  PROVE  DiskFits'
<1>1. /\ status[c] = NoRow /\ status'[c] = "CREATED" /\ UNCHANGED <<files, raw>>
      /\ \A b \in Batches : b # c =>
           status'[b] = status[b] /\ defn'[b] = defn[b] /\ runNo'[b] = runNo[b]
  BY DEF InsertBatch, SysInv, SystemTypeOK, TypeOK, StoreTypeOK
<1>2. files[c] = {}
  BY <1>1 DEF DiskFits
<1>3. \A b \in Batches : status'[b] = NoRow => files'[b] = {}
  BY <1>1 DEF DiskFits, NoRow
<1>4. RegisteredFilesOnDisk'
  <2> SUFFICES ASSUME NEW b \in Batches, NEW s \in files[b]
               PROVE  [def |-> defn'[b], run |-> runNo'[b], source |-> s, by |-> b] \in raw
    BY <1>1 DEF RegisteredFilesOnDisk, RawFileOf
  <2>1. b # c
    BY <1>2
  <2>2. QED
    BY <1>1, <2>1 DEF DiskFits, RegisteredFilesOnDisk, RawFileOf
<1>5. \A h \in Sessions : session[h].op # "idle" =>
        session[h].batch \in Batches /\ session[h].batch # c
  BY <1>1 DEF SysInv, RequestsHold, Inserted
<1>6. \A h \in Sessions : session[h].op = "register" =>
        \A s \in session[h].source :
          [def |-> defn'[session[h].batch], run |-> runNo'[session[h].batch],
           source |-> s, by |-> session[h].batch] \in raw
  BY <1>1, <1>5 DEF DiskFits, RawFileOf
<1>7. WritesOwn'
  <2> SUFFICES ASSUME NEW h \in Sessions, session[h].op = "write",
                      NEW s \in session[h].source, NEW f \in raw,
                      f.def = defn'[session[h].batch], f.run = runNo'[session[h].batch],
                      f.source = s
               PROVE  f.by = session[h].batch
    BY <1>1 DEF WritesOwn, SameRawPath, RawFileOf
  <2>1. defn'[session[h].batch] = defn[session[h].batch]
        /\ runNo'[session[h].batch] = runNo[session[h].batch]
    BY <1>1, <1>5
  <2>2. SameRawPath(f, RawFileOf(session[h].batch, s))
    BY <2>1 DEF SameRawPath, RawFileOf
  <2>3. QED
    BY <2>2 DEF DiskFits, WritesOwn
<1>8. worker.pc # "idle" => worker.batch \in Batches /\ worker.batch # c
  BY <1>1 DEF SysInv, RunnerHolds, IsRun, Inserted
<1>9. worker.pc \in {"import", "store"} =>
        \A s \in worker.stored :
          [def |-> defn'[worker.batch], run |-> runNo'[worker.batch],
           source |-> s, by |-> worker.batch] \in raw
  BY <1>1, <1>8 DEF DiskFits, RawFileOf
<1>10. OneFileEach'
  BY DEF DiskFits, OneFileEach
<1>11. QED
  BY <1>1, <1>3, <1>4, <1>6, <1>7, <1>9, <1>10 DEF DiskFits, RawFileOf

(* The worker looks and writes in one step: a request that is about to      *)
(* write to the same path serves the same batch.                            *)
LEMMA DiskStored ==
  ASSUME SysInv, DiskFits, OneWriterEach, NEW s \in Sources, StoreFile(s), session' = session
  PROVE  DiskFits'
<1>1. PICK c : c = worker.batch
  OBVIOUS
<1>2. /\ IsRun(c) /\ c \in Batches /\ defn[c] \in Definitions /\ defn[c] # NoDefinition
      /\ raw' = raw \cup {RawFileOf(c, s)}
      /\ worker'.batch = c /\ worker'.stored = worker.stored \cup {s}
      /\ worker.pc = "store" /\ UNCHANGED <<status, defn, runNo, files>>
  BY <1>1 DEF StoreFile, SysInv, RunnerHolds, IsRun, Inserted, SystemTypeOK, TypeOK
<1>3. WritesOwn'
  <2> SUFFICES ASSUME NEW h \in Sessions, session[h].op = "write",
                      NEW t \in session[h].source, NEW f \in raw',
                      SameRawPath(f, RawFileOf(session[h].batch, t))
               PROVE  f.by = session[h].batch
    BY <1>2 DEF WritesOwn, SameRawPath, RawFileOf
  <2>1. CASE f \in raw
    BY <2>1 DEF DiskFits, WritesOwn
  <2>2. CASE f = RawFileOf(c, s)
    <3>1. t = s /\ SameRawPath(RawFileOf(c, s), RawFileOf(session[h].batch, s))
      BY <2>2 DEF SameRawPath, RawFileOf
    <3>2. s \in worker.found \ worker.stored
      BY DEF StoreFile
    <3>3. session[h].batch = c
      BY <1>1, <1>2, <3>1, <3>2 DEF OneWriterEach
    <3>4. QED
      BY <2>2, <3>3 DEF RawFileOf
  <2>3. QED
    BY <1>2, <2>1, <2>2
<1>4. \A b \in Batches : status'[b] = NoRow => files'[b] = {}
  BY <1>2 DEF DiskFits
<1>5. RegisteredFilesOnDisk'
  BY <1>2 DEF DiskFits, RegisteredFilesOnDisk, RawFileOf
<1>6. \A h \in Sessions : session[h].op = "register" =>
        \A t \in session[h].source : RawFileOf(session[h].batch, t) \in raw'
  BY <1>2 DEF DiskFits
<1>7. \A t \in worker'.stored : RawFileOf(c, t) \in raw'
  BY <1>1, <1>2 DEF DiskFits
<1>8. OneFileEach'
  BY DEF DiskFits, OneFileEach
<1>9. QED
  BY <1>2, <1>3, <1>4, <1>5, <1>6, <1>7, <1>8 DEF DiskFits, RawFileOf

(* The two commits of file rows.                                            *)
LEMMA DiskRegistered ==
  ASSUME SysInv, DiskFits, NEW c \in Batches, status[c] # NoRow, NEW S,
         \A s \in S : RawFileOf(c, s) \in raw,
         files' = [files EXCEPT ![c] = @ \cup S],
         UNCHANGED <<status, defn, runNo, raw>>,
         \A h \in Sessions :
           session'[h] = session[h] \/ session'[h].op \notin {"write", "register"},
         worker' = worker \/ worker'.pc \notin {"import", "store"}
  PROVE  DiskFits'
<1>1. /\ files'[c] = files[c] \cup S
      /\ \A b \in Batches : b # c => files'[b] = files[b]
  BY DEF SysInv, SystemTypeOK, TypeOK, StoreTypeOK
<1>2. \A b \in Batches : status'[b] = NoRow => files'[b] = {}
  BY <1>1 DEF DiskFits
<1>3. RegisteredFilesOnDisk'
  <2> SUFFICES ASSUME NEW b \in Batches, NEW s \in files'[b] PROVE RawFileOf(b, s) \in raw
    BY DEF RegisteredFilesOnDisk, RawFileOf
  <2>1. CASE s \in files[b]
    BY <2>1 DEF DiskFits, RegisteredFilesOnDisk
  <2>2. CASE s \notin files[b]
    BY <1>1, <2>2
  <2>3. QED
    BY <2>1, <2>2
<1>4. \A h \in Sessions : session'[h].op = "register" =>
        \A s \in session'[h].source :
          [def |-> defn[session'[h].batch], run |-> runNo[session'[h].batch],
           source |-> s, by |-> session'[h].batch] \in raw
  BY DEF DiskFits, RawFileOf
<1>5. WritesOwn'
  BY DEF DiskFits, WritesOwn, RawFileOf
<1>6. worker'.pc \in {"import", "store"} =>
        \A s \in worker'.stored :
          [def |-> defn[worker'.batch], run |-> runNo[worker'.batch],
           source |-> s, by |-> worker'.batch] \in raw
  BY DEF DiskFits, RawFileOf
<1>7. OneFileEach'
  BY DEF DiskFits, OneFileEach
<1>8. QED
  BY <1>2, <1>3, <1>4, <1>5, <1>6, <1>7 DEF DiskFits, RawFileOf

(* The look at the path: nobody's file is there.                            *)
LEMMA DiskChecked ==
  ASSUME SysInv, DiskFits, NEW h \in Sessions, CheckUpload(h), worker' = worker
  PROVE  DiskFits'
<1>1. UNCHANGED <<status, defn, runNo, files, raw>>
  BY DEF CheckUpload, storeVars, batchVars
<1>2. PICK s \in Sources :
        /\ ~RawPathTaken(session[h].batch, s)
        /\ session' = [session EXCEPT ![h].op = "write", ![h].source = {s}]
  BY DEF CheckUpload
<1>3. /\ session'[h].op = "write" /\ session'[h].source = {s}
      /\ session'[h].batch = session[h].batch
      /\ \A g \in Sessions : g # h => session'[g] = session[g]
  BY <1>2 DEF SysInv, SystemTypeOK, ApiTypeOK
<1>4. WritesOwn'
  <2> SUFFICES ASSUME NEW g \in Sessions, session'[g].op = "write",
                      NEW t \in session'[g].source, NEW f \in raw,
                      f.def = defn[session'[g].batch], f.run = runNo[session'[g].batch],
                      f.source = t
               PROVE  f.by = session'[g].batch
    BY <1>1 DEF WritesOwn, SameRawPath, RawFileOf
  <2>1. CASE g = h
    BY <1>2, <1>3, <2>1 DEF RawPathTaken
  <2>2. CASE g # h
    BY <1>3, <2>2 DEF DiskFits, WritesOwn, SameRawPath, RawFileOf
  <2>3. QED
    BY <2>1, <2>2
<1>5. \A g \in Sessions : session'[g].op = "register" =>
        \A t \in session'[g].source :
          [def |-> defn[session'[g].batch], run |-> runNo[session'[g].batch],
           source |-> t, by |-> session'[g].batch] \in raw
  BY <1>3 DEF DiskFits, RawFileOf
<1>6. RegisteredFilesOnDisk' /\ \A b \in Batches : status'[b] = NoRow => files'[b] = {}
  BY <1>1 DEF DiskFits, RegisteredFilesOnDisk, RawFileOf
<1>7. OneFileEach'
  BY <1>3 DEF DiskFits, OneFileEach
<1>8. QED
  BY <1>1, <1>4, <1>5, <1>6, <1>7 DEF DiskFits, RawFileOf

(* The write replaces nothing but an older file of the same batch.          *)
LEMMA DiskWritten ==
  ASSUME SysInv, DiskFits, OneWriterEach, NEW h \in Sessions, WriteRawFile(h), worker' = worker
  PROVE  DiskFits'
<1>1. PICK b : b = session[h].batch
  OBVIOUS
<1>2. /\ session[h].op = "write" /\ UNCHANGED <<status, defn, runNo, files>>
      /\ session'[h].op = "register" /\ session'[h].batch = b
      /\ session'[h].source = session[h].source
      /\ \A g \in Sessions : g # h => session'[g] = session[g]
  BY <1>1 DEF WriteRawFile, batchVars, SysInv, SystemTypeOK, ApiTypeOK
<1>3. PICK s \in session[h].source :
        raw' = {f \in raw : ~SameRawPath(f, RawFileOf(b, s))} \cup {RawFileOf(b, s)}
  BY <1>1 DEF WriteRawFile
<1>4. \A f \in raw : SameRawPath(f, RawFileOf(b, s)) => f.by = b
  BY <1>1, <1>2 DEF DiskFits, WritesOwn
<1>5. ASSUME NEW c, NEW t, RawFileOf(c, t) \in raw PROVE RawFileOf(c, t) \in raw'
  <2>1. CASE SameRawPath(RawFileOf(c, t), RawFileOf(b, s))
    <3>1. c = b /\ t = s
      BY <1>4, <1>5, <2>1 DEF SameRawPath, RawFileOf
    <3>2. QED
      BY <1>3, <3>1
  <2>2. CASE ~SameRawPath(RawFileOf(c, t), RawFileOf(b, s))
    BY <1>3, <1>5, <2>2
  <2>3. QED
    BY <2>1, <2>2
<1>6. \A c \in Batches : status'[c] = NoRow => files'[c] = {}
  BY <1>2 DEF DiskFits
<1>7. RegisteredFilesOnDisk'
  <2> SUFFICES ASSUME NEW c \in Batches, NEW t \in files[c] PROVE RawFileOf(c, t) \in raw'
    BY <1>2 DEF RegisteredFilesOnDisk, RawFileOf
  <2>1. QED
    BY <1>5 DEF DiskFits, RegisteredFilesOnDisk
<1>8. \A g \in Sessions : session'[g].op = "register" =>
        \A t \in session'[g].source : RawFileOf(session'[g].batch, t) \in raw'
  <2>1. ASSUME NEW g \in Sessions, g # h, session[g].op = "register", NEW t \in session[g].source
        PROVE  RawFileOf(session[g].batch, t) \in raw'
    BY <1>5, <2>1 DEF DiskFits
  <2>2. \A t \in session[h].source : t = s
    BY <1>2 DEF DiskFits, OneFileEach
  <2>3. QED
    BY <1>2, <1>3, <2>1, <2>2
<1>9. WritesOwn'
  <2> SUFFICES ASSUME NEW g \in Sessions, session'[g].op = "write",
                      NEW t \in session'[g].source, NEW f \in raw',
                      f.def = defn[session'[g].batch], f.run = runNo[session'[g].batch],
                      f.source = t
               PROVE  f.by = session'[g].batch
    BY <1>2 DEF WritesOwn, SameRawPath, RawFileOf
  <2>1. g # h /\ session'[g] = session[g]
    BY <1>2
  <2>2. CASE f \in raw
    BY <2>1, <2>2 DEF DiskFits, WritesOwn, SameRawPath, RawFileOf
  <2>3. CASE f = RawFileOf(b, s)
    <3>1. t = s /\ SameRawPath(RawFileOf(session[g].batch, s), RawFileOf(b, s))
      BY <2>1, <2>3 DEF SameRawPath, RawFileOf
    <3>2. session[g].batch = b
      BY <1>1, <1>2, <2>1, <3>1 DEF OneWriterEach
    <3>3. QED
      BY <2>1, <2>3, <3>2 DEF RawFileOf
  <2>4. QED
    BY <1>3, <2>2, <2>3
<1>10. worker.pc \in {"import", "store"} =>
         \A t \in worker.stored : RawFileOf(worker.batch, t) \in raw'
  BY <1>5 DEF DiskFits
<1>11. OneFileEach'
  BY <1>2 DEF DiskFits, OneFileEach
<1>12. QED
  BY <1>2, <1>6, <1>7, <1>8, <1>9, <1>10, <1>11 DEF DiskFits, RawFileOf

LEMMA DiskSame ==
  ASSUME DiskFits, RowsKept, UNCHANGED <<defn, runNo, files, raw, worker>>,
         \A h \in Sessions :
           session'[h] = session[h] \/ session'[h].op \notin {"write", "register"}
  PROVE  DiskFits'
<1>1. \/ worker'.pc \notin {"import", "store"}
      \/ worker'.stored = {}
      \/ /\ worker.pc \in {"import", "store"}
         /\ worker'.batch = worker.batch /\ worker'.stored = worker.stored
  OBVIOUS
<1>2. QED
  BY <1>1, DiskKept

LEMMA DiskWorker ==
  ASSUME SysInv, DiskFits, OneWriterEach, RowsKept, WorkerProgress \/ RunRaises, session' = session
  PROVE  DiskFits'
<1> USE DEF SysInv, SystemTypeOK, TypeOK
<1>1. ASSUME NEW s \in Sources, StoreFile(s) PROVE DiskFits'
  BY <1>1, DiskStored
<1>2. CASE CommitFiles
  <2>1. PICK c : c = worker.batch
    OBVIOUS
  <2>2. PICK S : S = worker.stored
    OBVIOUS
  <2>3. /\ c \in Batches /\ status[c] # NoRow /\ worker.pc = "store"
        /\ files' = [files EXCEPT ![c] = @ \cup S]
        /\ UNCHANGED <<status, defn, runNo, raw>>
        /\ worker'.pc \notin {"import", "store"}
    BY <1>2, <2>1, <2>2 DEF CommitFiles, RunnerHolds, IsRun, Inserted
  <2>4. \A s \in S : RawFileOf(c, s) \in raw
    BY <2>1, <2>2, <2>3 DEF DiskFits
  <2>5. QED
    BY <2>3, <2>4, DiskRegistered
(* The other steps start with no file stored or leave the import behind.    *)
<1>3. ASSUME UNCHANGED <<defn, runNo, files, raw>>,
             \/ worker'.pc \notin {"import", "store"}
             \/ worker'.stored = {}
             \/ /\ worker.pc \in {"import", "store"}
                /\ worker'.batch = worker.batch /\ worker'.stored = worker.stored
      PROVE  DiskFits'
  BY <1>3, DiskKept
<1>4. CASE StartRun
  BY <1>3, <1>4 DEF StartRun
<1>5. CASE DiscoverFiles
  <2>1. UNCHANGED <<defn, runNo, files, raw>>
    BY <1>5 DEF DiscoverFiles, storeVars, batchVars
  <2>2. /\ worker.pc \in {"import", "store"}
        /\ worker'.batch = worker.batch /\ worker'.stored = worker.stored
    BY <1>5 DEF DiscoverFiles
  <2>3. QED
    BY <1>3, <2>1, <2>2
<1>6. ASSUME NEW s \in Sources, RefuseOverwrite(s) \/ ParseFile(s) PROVE DiskFits'
  <2>1. UNCHANGED <<defn, runNo, files, raw>>
    BY <1>6 DEF RefuseOverwrite, ParseFile, storeVars, batchVars
  <2>2. worker'.pc \notin {"import", "store"}
    BY <1>6 DEF RefuseOverwrite, ParseFile
  <2>3. QED
    BY <1>3, <2>1, <2>2
<1>7. CASE CompleteFiles \/ BeginProcessing \/ RunRaises
  <2>1. UNCHANGED <<defn, runNo, files, raw>>
    BY <1>7 DEF CompleteFiles, BeginProcessing, RunRaises, storeVars, batchVars
  <2>2. worker'.pc \notin {"import", "store"}
    BY <1>7 DEF CompleteFiles, BeginProcessing, RunRaises
  <2>3. QED
    BY <1>3, <2>1, <2>2
<1>8. CASE ProcessStage \/ RecordFailure
  <2>1. UNCHANGED <<defn, runNo, files, raw>>
    BY <1>8 DEF ProcessStage, RecordFailure
  <2>2. worker'.pc \notin {"import", "store"}
    <3>1. CASE ProcessStage
      BY <3>1 DEF ProcessStage, IdleWorker
    <3>2. CASE RecordFailure
      BY <3>2 DEF RecordFailure, IdleWorker
    <3>3. QED
      BY <1>8, <3>1, <3>2
  <2>3. QED
    BY <1>3, <2>1, <2>2
<1>9. QED
  BY <1>1, <1>2, <1>4, <1>5, <1>6, <1>7, <1>8 DEF WorkerProgress

LEMMA DiskApi ==
  ASSUME SysInv, DiskFits, OneWriterEach, RowsKept, NEW h \in Sessions, ApiStep(h), worker' = worker
  PROVE  DiskFits'
<1> DEFINE b == session[h].batch
<1>1. CASE CreateAdHoc(h)
  <2>1. PICK c \in Batches, n \in AdHocRuns : InsertBatch(c, NoDefinition, n)
    BY <1>1 DEF CreateAdHoc
  <2>2. QED
    BY <1>1, <2>1, DiskInserted DEF CreateAdHoc
<1>2. CASE CheckUpload(h)
  BY <1>2, DiskChecked
<1>3. CASE WriteRawFile(h)
  BY <1>3, DiskWritten
<1>4. EndRequest(h) =>
        \A g \in Sessions : session'[g] = session[g] \/ session'[g].op \notin {"write", "register"}
  BY DEF EndRequest, IdleSession, SysInv, SystemTypeOK, ApiTypeOK
<1>5. CASE RegisterFile(h)
  <2>1. PICK c : c = session[h].batch
    OBVIOUS
  <2>2. PICK S : S = session[h].source
    OBVIOUS
  <2>3. /\ c \in Batches /\ status[c] # NoRow
        /\ files' = [files EXCEPT ![c] = @ \cup S]
        /\ UNCHANGED <<status, defn, runNo, raw>>
        /\ EndRequest(h)
    BY <1>5, <2>1, <2>2 DEF RegisterFile, SysInv, RequestsHold, Inserted
  <2>4. \A s \in S : RawFileOf(c, s) \in raw
    BY <1>5, <2>1, <2>2 DEF RegisterFile, DiskFits
  <2>5. QED
    BY <1>4, <2>3, <2>4, DiskRegistered
<1>6. ASSUME NEW op \in Operations, NEW c \in Batches, ReadBatch(h, op, c) PROVE DiskFits'
  <2>1. UNCHANGED <<defn, runNo, files, raw>>
    BY <1>6 DEF ReadBatch, storeVars, batchVars
  <2>2. \A g \in Sessions : session'[g] = session[g] \/ session'[g].op \notin {"write", "register"}
    BY <1>6 DEF ReadBatch, IdleSession, Operations, SysInv, SystemTypeOK, ApiTypeOK
  <2>3. QED
    BY <2>1, <2>2, DiskSame
<1>7. CASE AbortRequest(h) \/ MarkFilesComplete(h) \/ ProcessCloses(h) \/ ProcessFails(h)
  <2>1. UNCHANGED <<defn, runNo, files, raw>> /\ EndRequest(h)
    BY <1>7 DEF AbortRequest, MarkFilesComplete, ProcessCloses, ProcessFails,
                storeVars, batchVars
  <2>2. QED
    BY <1>4, <2>1, DiskSame
<1>8. QED
  BY <1>1, <1>2, <1>3, <1>5, <1>6, <1>7 DEF ApiStep

LEMMA DiskStep ==
  SysInv /\ DiskFits /\ OneWriterEach /\ [SystemNext]_systemVars => DiskFits'
<1> SUFFICES ASSUME SysInv, DiskFits, OneWriterEach, [SystemNext]_systemVars
             PROVE  DiskFits'
  OBVIOUS
<1>1. RowsKept
  BY SysStep
<1>2. ASSUME NEW h \in Handlers, HandlerStep(h), session' = session PROVE DiskFits'
  <2>1. CASE CreateBatch(h)
    <3>1. PICK c \in Batches : InsertBatch(c, handler[h].def, handler[h].run)
      BY <2>1 DEF CreateBatch
    <3>2. QED
      BY <1>2, <2>1, <3>1, DiskInserted DEF CreateBatch
  <2>2. CASE ~CreateBatch(h)
    <3>1. UNCHANGED <<defn, runNo, files, raw, worker>>
      BY <1>2, <2>2 DEF HandlerStep, RequestRun, RefuseRun, SubmitBatch, storeVars, batchVars
    <3>2. QED
      BY <1>1, <1>2, <3>1, DiskSame
  <2>3. QED
    BY <2>1, <2>2
<1>3. ASSUME UNCHANGED <<defn, runNo, files, raw, session>>, worker' = worker \/ worker'.pc = "idle"
      PROVE  DiskFits'
  BY <1>1, <1>3, DiskKept
<1>4. ASSUME NEW d \in Definitions, EditDefinition(d), session' = session PROVE DiskFits'
  BY <1>3, <1>4 DEF EditDefinition, batchVars, runnerVars
<1>5. ASSUME WorkerProgress \/ RunRaises, session' = session PROVE DiskFits'
  BY <1>1, <1>5, DiskWorker
<1>6. ASSUME NEW h \in Sessions, ApiStep(h), UNCHANGED runnerVars PROVE DiskFits'
  BY <1>1, <1>6, DiskApi DEF runnerVars
<1>7. CASE AbandonAtStart \/ AbandonWhileFailing
  <2>1. UNCHANGED <<defn, runNo, files, raw, session>>
    BY <1>7 DEF AbandonAtStart, AbandonWhileFailing, storeVars, batchVars
  <2>2. worker' = worker \/ worker'.pc = "idle"
    BY <1>7 DEF AbandonAtStart, AbandonWhileFailing, IdleWorker
  <2>3. QED
    BY <1>3, <2>1, <2>2
<1>8. CASE SystemCrash
  <2>1. UNCHANGED <<defn, runNo, files, raw>> /\ worker'.pc = "idle"
    BY <1>8 DEF SystemCrash, Crash, IdleWorker, storeVars, batchVars
  <2>2. \A h \in Sessions : session'[h].op \notin {"write", "register"}
    BY <1>8 DEF SystemCrash, IdleSession
  <2>3. QED
    BY <1>1, <2>1, <2>2, DiskKept
<1>9. CASE UNCHANGED systemVars
  BY <1>3, <1>9 DEF systemVars, storeVars, batchVars, runnerVars
<1>10. QED
  BY <1>2, <1>4, <1>5, <1>6, <1>7, <1>8, <1>9 DEF SystemNext, ApiNext

(* A file row points at a file that its own batch wrote, though uploads     *)
(* check and write in two steps, clients upload to runs of the worker, and  *)
(* batches of one code share a directory: the exists-check keeps them apart *)
(* unless an upload overlaps another write to its path.                     *)
THEOREM RegisteredOnDiskTogether ==
  SystemSpec /\ []OneWriterEach => []RegisteredFilesOnDisk
<1>1. SystemInit => DiskFits
  BY DEF SystemInit, Init, StoreInit, IdleSession, IdleWorker,
         DiskFits, OneFileEach, WritesOwn, RegisteredFilesOnDisk
<1>2. DiskFits => RegisteredFilesOnDisk
  BY DEF DiskFits
<1>3. QED
  BY <1>1, <1>2, SystemInvariance, DiskStep, PTL DEF SystemSpec

=============================================================================
