--------------------------- MODULE ConfigVersions --------------------------
(***************************************************************************)
(* The configuration versions of one client (config_loader.py,             *)
(* config_editor.py): loaded as drafts, activated, edited by activating a  *)
(* successor, and bound to batches.  The data_sources table is a copy of   *)
(* the declarations that activation refreshes.                             *)
(*                                                                         *)
(* Sessions are opened with autoflush off, so a request reads everything   *)
(* first and the write lock is taken at its explicit flush: only from      *)
(* there to the commit is it alone.  An UPDATE names the attributes whose  *)
(* value differs from the one loaded, and looks at nothing else.           *)
(***************************************************************************)
EXTENDS Naturals, Sequences

CONSTANTS
  Sources,         \* data sources a version may declare or not, beside the
                   \* INTERNAL and the EXTERNAL one that the schema demands
  Batches,
  Requests,        \* concurrent requests
  MaxVersions      \* bound: versions of the client

ASSUME ConfigAssumption == MaxVersions \in Nat

(* How a version declares a data source, and what a row of data_sources     *)
(* says of it; "no" is the absence of a declaration or of the row.          *)
Kinds == {"no", "optional", "required"}
Declarations == [Sources -> Kinds]

VARIABLES
  configs,   \* client_configurations: the row of version v is configs[v]
  sources,   \* data_sources
  bound,     \* batches.config_version_id as a version, 0 before the insert
  request    \* the request each thread is serving, with what it has read

configVars == <<configs, sources, bound, request>>

Idle == [op |-> "idle", version |-> 0, view |-> "none", previous |-> 0,
         known |-> [s \in Sources |-> "no"]]

ConfigInit ==
  /\ configs = << >>
  /\ sources = [s \in Sources |-> "no"]
  /\ bound   = [b \in Batches |-> 0]
  /\ request = [r \in Requests |-> Idle]

(* The versions that a query for the ACTIVE one returns.                    *)
ActiveVersions == {v \in DOMAIN configs : configs[v].status = "ACTIVE"}

(* scalar_one_or_none() raises if the query returns two rows.               *)
AtMostOneActive == \A v, w \in ActiveVersions : v = w

EndRequest(r) == request' = [request EXCEPT ![r] = Idle]

(* load_config_version() from hand-written YAML: it must carry the next     *)
(* number, and the unique constraint refuses a second row with it.          *)
LoadVersion ==
  /\ Len(configs) < MaxVersions
  /\ \E c \in Declarations :
       configs' = Append(configs, [status |-> "DRAFT", declares |-> c, base |-> 0])
  /\ UNCHANGED <<sources, bound, request>>

-----------------------------------------------------------------------------
(* activate_config_version().                                               *)

(* The endpoint loads the row to activate ...                               *)
BeginActivation(r, v) ==
  /\ request[r].op = "idle"
  /\ request' = [request EXCEPT ![r] =
                   [Idle EXCEPT !.op = "retire", !.version = v, !.view = configs[v].status]]
  /\ UNCHANGED <<configs, sources, bound>>

(* ... then the ACTIVE one, to be archived ...                              *)
ReadPrevious(r) ==
  /\ request[r].op = "retire"
  /\ AtMostOneActive
  /\ \E p \in IF ActiveVersions = {} THEN {0} ELSE ActiveVersions :
       request' = [request EXCEPT ![r] = [@ EXCEPT !.op = "sync", !.previous = p]]
  /\ UNCHANGED <<configs, sources, bound>>

(* ... and the data sources there are.                                      *)
ReadSources(r) ==
  /\ request[r].op = "sync"
  /\ request' = [request EXCEPT ![r] = [@ EXCEPT !.op = "commit", !.known = sources]]
  /\ UNCHANGED <<configs, sources, bound>>

(* Seeded fault: rows of sources that are not declared any more go.         *)
Sync_Prunes(c, known) == sources' = c

(* _sync_data_sources(): a declared source that was not read is inserted,   *)
(* unless another request did so since (unique constraint); a row that was  *)
(* read with another flag is updated; rows of other sources stay.           *)
Sync(c, known) ==
  /\ \A s \in Sources : c[s] # "no" /\ known[s] = "no" => sources[s] = "no"
  /\ sources' = [s \in Sources |->
                   IF c[s] # "no" /\ c[s] # known[s] THEN c[s] ELSE sources[s]]

(* Seeded fault: a status no query asks for.                                *)
Activated_Misspelt(v, view, previous) ==
  [configs EXCEPT ![v] = [@ EXCEPT !.status = "ACTIVATED"]]

(* The status of the row is set to ACTIVE after the previous one's was set  *)
(* to ARCHIVED.  Activating what was loaded as ACTIVE writes no status.     *)
Activated(v, view, previous) ==
  [w \in DOMAIN configs |->
     IF w = v /\ view # "ACTIVE" THEN [configs[w] EXCEPT !.status = "ACTIVE"]
     ELSE IF w = previous /\ w # v THEN [configs[w] EXCEPT !.status = "ARCHIVED"]
     ELSE configs[w]]

CommitActivation(r) ==
  LET q == request[r] IN
  /\ q.op = "commit"
  /\ Sync(configs[q.version].declares, q.known)
  /\ configs' = Activated(q.version, q.view, q.previous)
  /\ EndRequest(r)
  /\ UNCHANGED bound

-----------------------------------------------------------------------------
(* patch_active_config().                                                   *)

(* The ACTIVE version is read; the edit will be its successor.              *)
BeginEdit(r) ==
  /\ request[r].op = "idle"
  /\ AtMostOneActive
  /\ \E v \in ActiveVersions :
       request' = [request EXCEPT ![r] = [Idle EXCEPT !.op = "edit", !.version = v]]
  /\ UNCHANGED <<configs, sources, bound>>

(* Seeded fault: the version number is taken for granted.                   *)
CommitEdit_AnyBase(r) ==
  /\ request[r].op = "edit"
  /\ Len(configs) < MaxVersions
  /\ \E c \in Declarations :
       /\ configs' = Append([w \in DOMAIN configs |->
                               IF w \in ActiveVersions
                               THEN [configs[w] EXCEPT !.status = "ARCHIVED"]
                               ELSE configs[w]],
                            [status |-> "ACTIVE", declares |-> c, base |-> request[r].version])
       /\ Sync(c, sources)
  /\ EndRequest(r)
  /\ UNCHANGED bound

(* Seeded fault: the version that was edited is archived, not the ACTIVE    *)
(* one of the moment.                                                       *)
CommitEdit_ArchivesBase(r) ==
  LET v == request[r].version IN
  /\ request[r].op = "edit"
  /\ v = Len(configs)
  /\ v < MaxVersions
  /\ AtMostOneActive
  /\ \E c \in Declarations :
       /\ configs' = Append([configs EXCEPT ![v] = [@ EXCEPT !.status = "ARCHIVED"]],
                            [status |-> "ACTIVE", declares |-> c, base |-> v])
       /\ Sync(c, sources)
  /\ EndRequest(r)
  /\ UNCHANGED bound

(* Seeded fault: the sections of the ACTIVE row itself are replaced.        *)
CommitEdit_InPlace(r) ==
  /\ request[r].op = "edit"
  /\ \E c \in Declarations :
       /\ configs' = [configs EXCEPT ![request[r].version] = [@ EXCEPT !.declares = c]]
       /\ Sync(c, sources)
  /\ EndRequest(r)
  /\ UNCHANGED bound

(* The insert takes the write lock, and what follows it up to the commit,   *)
(* an activation, reads the current rows.                                   *)
CommitEdit(r) ==
  LET v == request[r].version IN
  /\ request[r].op = "edit"
  /\ v = Len(configs)
  /\ v < MaxVersions
  /\ AtMostOneActive
  /\ \E c \in Declarations :
       /\ configs' = Append([w \in DOMAIN configs |->
                               IF w \in ActiveVersions
                               THEN [configs[w] EXCEPT !.status = "ARCHIVED"]
                               ELSE configs[w]],
                            [status |-> "ACTIVE", declares |-> c, base |-> v])
       /\ Sync(c, sources)
  /\ EndRequest(r)
  /\ UNCHANGED bound

-----------------------------------------------------------------------------
(* Batches.                                                                 *)

(* Seeded fault: the newest version is taken for the ACTIVE one.            *)
BeginBatch_Newest(r) ==
  /\ request[r].op = "idle"
  /\ configs # << >>
  /\ request' = [request EXCEPT ![r] = [Idle EXCEPT !.op = "bind", !.version = Len(configs)]]
  /\ UNCHANGED <<configs, sources, bound>>

(* create_batch() finds the ACTIVE version ...                              *)
BeginBatch(r) ==
  /\ request[r].op = "idle"
  /\ AtMostOneActive
  /\ \E v \in ActiveVersions :
       request' = [request EXCEPT ![r] = [Idle EXCEPT !.op = "bind", !.version = v]]
  /\ UNCHANGED <<configs, sources, bound>>

(* ... and the batch is inserted with it.                                   *)
CommitBatch(r) ==
  /\ request[r].op = "bind"
  /\ \E b \in Batches :
       /\ bound[b] = 0
       /\ bound' = [bound EXCEPT ![b] = request[r].version]
  /\ EndRequest(r)
  /\ UNCHANGED <<configs, sources>>

(* A request is refused or raises before its commit: two ACTIVE versions,   *)
(* a version number or a data source that another request took.             *)
AbortRequest(r) ==
  /\ request[r].op # "idle"
  /\ EndRequest(r)
  /\ UNCHANGED <<configs, sources, bound>>

RequestStep(r) ==
  \/ \E v \in DOMAIN configs : BeginActivation(r, v)
  \/ ReadPrevious(r)
  \/ ReadSources(r)
  \/ CommitActivation(r)
  \/ BeginEdit(r)
  \/ CommitEdit(r)
  \/ BeginBatch(r)
  \/ CommitBatch(r)
  \/ AbortRequest(r)

ConfigNext ==
  \/ LoadVersion
  \/ \E r \in Requests : RequestStep(r)

ConfigSpec == ConfigInit /\ [][ConfigNext]_configVars

-----------------------------------------------------------------------------
(* Properties.                                                              *)

Config == [status : {"DRAFT", "ACTIVE", "ARCHIVED"}, declares : Declarations, base : Nat]

ConfigTypeOK ==
  /\ configs \in Seq(Config)
  /\ sources \in Declarations
  /\ bound   \in [Batches -> Nat]
  /\ \A b \in Batches : bound[b] # 0 => bound[b] \in DOMAIN configs
  /\ request \in [Requests -> [ op : {"idle", "retire", "sync", "commit", "edit", "bind"},
                                version : Nat, previous : Nat,
                                view : {"none", "DRAFT", "ACTIVE", "ARCHIVED"},
                                known : Declarations ]]
  /\ \A r \in Requests : request[r].op # "idle" => request[r].version \in DOMAIN configs

(* data_sources has a row of a source exactly if a version that was ever    *)
(* activated declares it: batch_files of older batches refer to the row,    *)
(* and a draft gives nothing to upload to.                                  *)
ActivatedSourcesKnown ==
  \A s \in Sources : sources[s] # "no" <=>
    \E v \in DOMAIN configs : configs[v].status # "DRAFT" /\ configs[v].declares[s] # "no"

(* A batch is bound to a version that was in force, never to a draft.       *)
BoundOnceActivated ==
  \A b \in Batches : bound[b] # 0 => configs[bound[b]].status # "DRAFT"

(* Of any number of edits made from one version at most one is accepted:    *)
(* the others are refused, none overwrites what another operator saved      *)
(* since (the version number of patch_active_config()).                     *)
OneEditPerBase ==
  \A v, w \in DOMAIN configs :
    configs[v].base # 0 /\ configs[v].base = configs[w].base => v = w

(* Versions are append-only: what one declares is never changed, none is    *)
(* removed, none becomes a draft again, and a batch keeps its version.      *)
VersionsFrozen ==
  [][/\ \A v \in DOMAIN configs :
          /\ v \in DOMAIN configs'
          /\ configs'[v].declares = configs[v].declares
          /\ configs'[v].status = "DRAFT" => configs[v].status = "DRAFT"
     /\ \A b \in Batches : bound[b] # 0 => bound'[b] = bound[b]]_configVars

(* What the data_sources rows say of the sources that v declares.           *)
Mirrored(v) ==
  \A s \in Sources :
    configs[v].declares[s] # "no" => sources[s] = configs[v].declares[s]

(* An edit that is accepted is in force when its request commits, whatever  *)
(* was activated since its operator saw the base: it leaves no other        *)
(* version ACTIVE, and data_sources mirrors it.                             *)
EditsTakeEffect ==
  [][\A v \in DOMAIN configs' \ DOMAIN configs :
       configs'[v].base # 0 => ActiveVersions' = {v} /\ Mirrored(v)']_configVars
=============================================================================
