------------------------------ MODULE BatchApi -----------------------------
(***************************************************************************)
(* The HTTP endpoints that drive a batch by hand: create, upload a file,   *)
(* declare the files complete, process.  Each request runs in a thread of  *)
(* its own with its own session: it loads the batch row once, decides on   *)
(* that copy, and writes with one commit.  Nothing locks a row or checks   *)
(* that it is still what was read.                                         *)
(***************************************************************************)
EXTENDS BatchStore

CONSTANTS
  Sessions,    \* concurrent requests
  Required,    \* data sources the bound configuration marks is_required
  AdHocRuns,   \* bound: the distinct batch codes clients send
  Touched      \* what clients also do to which batches that a /run request created

Operations == {"upload", "complete", "process"}

ASSUME ApiAssumption ==
  /\ Required \subseteq Sources
  /\ AdHocRuns \subseteq Nat
  /\ Touched \subseteq Batches \X Operations

VARIABLE session   \* the request each thread is serving

apiVars == <<storeVars, session>>

IdleSession == [op |-> "idle", batch |-> NoBatch, view |-> NoRow, source |-> {}]

ApiInit ==
  /\ StoreInit
  /\ session = [h \in Sessions |-> IdleSession]

EndRequest(h) == session' = [session EXCEPT ![h] = IdleSession]

(* POST /clients/{id}/batches: the client names the batch_code, which need  *)
(* not be new.                                                              *)
CreateAdHoc(h) ==
  /\ session[h].op = "idle"
  /\ \E b \in Batches, n \in AdHocRuns : InsertBatch(b, NoDefinition, n)
  /\ UNCHANGED session

(* get_batch(): the status the request goes by from here on.                *)
ReadBatch(h, op, b) ==
  /\ session[h].op = "idle"
  /\ status[b] # NoRow
  /\ <<b, op>> \in Touched \/ defn[b] = NoDefinition
  /\ session' = [session EXCEPT ![h] = [IdleSession EXCEPT !.op = op, !.batch = b,
                                                           !.view = status[b]]]
  /\ UNCHANGED storeVars

(* The source records and products a processing transaction adds.           *)
AddRecords(b, S) ==
  records' = [records EXCEPT ![b] = [s \in Sources |-> IF s \in S THEN @[s] + 1 ELSE @[s]]]

AddProducts(b, P) ==
  made' = [made EXCEPT ![b] = [p \in Products |-> IF p \in P THEN @[p] + 1 ELSE @[p]]]

(* Seeded fault: the session of a raising request is committed.             *)
AbortRequest_Commits(h) ==
  LET b == session[h].batch IN
  /\ session[h].op = "process" /\ session[h].view = "FILES_RECEIVED"
  /\ AddRecords(b, files[b])
  /\ AddProducts(b, {"transactions"})
  /\ EndRequest(h)
  /\ UNCHANGED <<status, pct, defn, runNo, files, raw, wanted, enabled>>

(* A request that raises before its commit leaves no rows behind: a guard   *)
(* on the view, FileExistsError, a missing source, an unexpected exception. *)
(* A raw file it wrote stays on disk.  (Of process_batch() only exceptions  *)
(* other than DomainError end here: see ProcessFails.)                      *)
AbortRequest(h) ==
  /\ session[h].op # "idle"
  /\ EndRequest(h)
  /\ UNCHANGED storeVars

(* Seeded fault: an existing file is taken for the uploaded one.            *)
CheckUpload_Reuses(h) ==
  LET b == session[h].batch IN
  /\ session[h].op = "upload"
  /\ session[h].view = "CREATED"
  /\ \E s \in Sources :
       session' = [session EXCEPT ![h].source = {s},
                     ![h].op = IF RawPathTaken(b, s) THEN "register" ELSE "write"]
  /\ UNCHANGED storeVars

(* upload_file(): the view must be CREATED, and write_raw_file() looks      *)
(* whether the path exists ...                                              *)
CheckUpload(h) ==
  LET b == session[h].batch IN
  /\ session[h].op = "upload"
  /\ session[h].view = "CREATED"
  /\ \E s \in Sources :
       /\ ~RawPathTaken(b, s)
       /\ session' = [session EXCEPT ![h].op = "write", ![h].source = {s}]
  /\ UNCHANGED storeVars

SameRawPath(f, g) == f.def = g.def /\ f.run = g.run /\ f.source = g.source

(* ... then writes the bytes, replacing whatever appeared there since ...   *)
WriteRawFile(h) ==
  LET b == session[h].batch IN
  /\ session[h].op = "write"
  /\ \E s \in session[h].source :
       raw' = {f \in raw : ~SameRawPath(f, RawFileOf(b, s))} \cup {RawFileOf(b, s)}
  /\ session' = [session EXCEPT ![h].op = "register"]
  /\ UNCHANGED <<batchVars, wanted, enabled>>

(* ... and commits the rows that register the file.                         *)
RegisterFile(h) ==
  LET b == session[h].batch IN
  /\ session[h].op = "register"
  /\ files' = [files EXCEPT ![b] = @ \cup session[h].source]
  /\ EndRequest(h)
  /\ UNCHANGED <<status, pct, defn, runNo, records, made, raw, wanted, enabled>>

(* _expected_source_ids(): the definition's own list wins; it is the list   *)
(* as edited last.                                                          *)
ExpectedSources(b) ==
  IF defn[b] = NoDefinition THEN Required ELSE wanted[defn[b]]

(* Seeded fault: the status is set without asking transition().             *)
MarkFilesComplete_Unguarded(h) ==
  LET b == session[h].batch IN
  /\ session[h].op = "complete"
  /\ ExpectedSources(b) \subseteq files[b]
  /\ status' = [status EXCEPT ![b] = "FILES_RECEIVED"]
  /\ EndRequest(h)
  /\ UNCHANGED <<pct, defn, runNo, files, records, made, raw, wanted, enabled>>

(* mark_files_complete() and the commit.                                    *)
MarkFilesComplete(h) ==
  LET b == session[h].batch IN
  /\ session[h].op = "complete"
  /\ ExpectedSources(b) \subseteq files[b]
  /\ CanTransition(session[h].view, "FILES_RECEIVED")
  /\ status' = [status EXCEPT ![b] = "FILES_RECEIVED"]
  /\ EndRequest(h)
  /\ UNCHANGED <<pct, defn, runNo, files, records, made, raw, wanted, enabled>>

(* process_batch() with the no-op progress hook: one transaction from       *)
(* FILES_RECEIVED to CLOSED.  progress_pct is the runner's, not touched.    *)
ProcessCloses(h) ==
  LET b == session[h].batch IN
  /\ session[h].op = "process"
  /\ session[h].view = "FILES_RECEIVED"
  /\ status' = [status EXCEPT ![b] = "CLOSED"]
  /\ AddRecords(b, files[b])
  /\ AddProducts(b, Products)
  /\ EndRequest(h)
  /\ UNCHANGED <<pct, defn, runNo, files, raw, wanted, enabled>>

(* The products of the stages up to a status.                               *)
ProductsUpTo(last) ==
  UNION {ProductsOf(to) : to \in {t \in LiveStates : Rank[t] <= Rank[last]}}

(* A DomainError on the way, in the stage that follows the status "last":   *)
(* process_batch() sets FAILED and the endpoint commits what was flushed.   *)
ProcessFails(h) ==
  LET b == session[h].batch IN
  /\ session[h].op = "process"
  /\ session[h].view = "FILES_RECEIVED"
  /\ status' = [status EXCEPT ![b] = "FAILED"]
  /\ \/ \E S \in SUBSET files[b] : AddRecords(b, S) /\ UNCHANGED made
     \/ \E last \in LiveStates \ {"CREATED", "FILES_RECEIVED", "REPORTING"} :
          AddRecords(b, files[b]) /\ AddProducts(b, ProductsUpTo(last))
  /\ EndRequest(h)
  /\ UNCHANGED <<pct, defn, runNo, files, raw, wanted, enabled>>

ApiStep(h) ==
  \/ CreateAdHoc(h)
  \/ \E op \in Operations, b \in Batches : ReadBatch(h, op, b)
  \/ AbortRequest(h)
  \/ CheckUpload(h)
  \/ WriteRawFile(h)
  \/ RegisterFile(h)
  \/ MarkFilesComplete(h)
  \/ ProcessCloses(h)
  \/ ProcessFails(h)

ApiNext == \E h \in Sessions : ApiStep(h)

ApiSpec == ApiInit /\ [][ApiNext]_apiVars

-----------------------------------------------------------------------------
(* Properties.                                                              *)

ApiTypeOK ==
  /\ StoreTypeOK
  /\ session \in [Sessions -> [ op : Operations \cup {"idle", "write", "register"},
                                batch : Batches \cup {NoBatch},
                                view : Statuses \cup {NoRow},
                                source : SUBSET Sources ]]
=============================================================================
