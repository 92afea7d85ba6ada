------------------------ MODULE ConfigVersions_proofs ----------------------
(***************************************************************************)
(* Theorems about ConfigVersions: what holds for any number of concurrent  *)
(* requests, however activations, edits, batches and uploads overlap.      *)
(***************************************************************************)
EXTENDS ConfigVersions, TLAPS

-----------------------------------------------------------------------------
(* Sequences of rows.                                                       *)

LEMMA RowsAreSeq ==
  ASSUME NEW S, NEW n \in Nat, NEW f \in [1..n -> S]
  PROVE  f \in Seq(S) /\ Len(f) = n
OBVIOUS

LEMMA AppendRow ==
  ASSUME NEW S, NEW q \in Seq(S), NEW e \in S
  PROVE  /\ Append(q, e) \in Seq(S)
         /\ Len(q) \in Nat
         /\ Len(Append(q, e)) = Len(q) + 1
         /\ DOMAIN q = 1..Len(q)
         /\ DOMAIN Append(q, e) = 1..(Len(q) + 1)
         /\ \A i \in 1..Len(q) : Append(q, e)[i] = q[i]
         /\ Append(q, e)[Len(q) + 1] = e
OBVIOUS

(* Retiring the ACTIVE rows and appending one: what an edit does.           *)
Retired ==
  [w \in DOMAIN configs |->
     IF w \in ActiveVersions THEN [configs[w] EXCEPT !.status = "ARCHIVED"] ELSE configs[w]]

LEMMA RetiredRows ==
  ASSUME configs \in Seq(Config)
  PROVE  /\ Retired \in Seq(Config)
         /\ Len(Retired) = Len(configs)
         /\ \A w \in DOMAIN configs :
              /\ Retired[w].declares = configs[w].declares
              /\ Retired[w].base = configs[w].base
              /\ Retired[w].status = IF w \in ActiveVersions THEN "ARCHIVED"
                                     ELSE configs[w].status
<1>1. Len(configs) \in Nat /\ DOMAIN configs = 1..Len(configs)
  OBVIOUS
<1>2. \A w \in DOMAIN configs : configs[w] \in Config
  OBVIOUS
<1>3. Retired \in [1..Len(configs) -> Config]
  BY <1>1, <1>2 DEF Retired, Config
<1>4. Retired \in Seq(Config) /\ Len(Retired) = Len(configs)
  BY <1>1, <1>3, RowsAreSeq
<1>5. QED
  BY <1>1, <1>2, <1>4 DEF Retired, Config

(* Activation keeps the rows and what they declare.                         *)
LEMMA ActivatedRows ==
  ASSUME configs \in Seq(Config), NEW v \in DOMAIN configs, NEW view, NEW previous
  PROVE  /\ Activated(v, view, previous) \in Seq(Config)
         /\ Len(Activated(v, view, previous)) = Len(configs)
         /\ DOMAIN Activated(v, view, previous) = DOMAIN configs
         /\ \A w \in DOMAIN configs :
              LET new == Activated(v, view, previous)[w] IN
              /\ new.declares = configs[w].declares
              /\ new.base = configs[w].base
              /\ new.status = IF w = v /\ view # "ACTIVE" THEN "ACTIVE"
                              ELSE IF w = previous /\ w # v THEN "ARCHIVED"
                              ELSE configs[w].status
<1>1. Len(configs) \in Nat /\ DOMAIN configs = 1..Len(configs)
  OBVIOUS
<1>2. \A w \in DOMAIN configs : configs[w] \in Config
  OBVIOUS
<1> DEFINE new == Activated(v, view, previous)
<1>3. new \in [1..Len(configs) -> Config]
  BY <1>1, <1>2 DEF Activated, Config
<1>4. new \in Seq(Config) /\ Len(new) = Len(configs)
  BY <1>1, <1>3, RowsAreSeq
<1>5. QED
  BY <1>1, <1>2, <1>4 DEF Activated, Config

(* What each of the three steps that write configs does to its rows.        *)
LEMMA LoadRows ==
  ASSUME ConfigTypeOK, LoadVersion
  PROVE  /\ configs' \in Seq(Config)
         /\ DOMAIN configs = 1..Len(configs)
         /\ DOMAIN configs' = 1..(Len(configs) + 1)
         /\ Len(configs') = Len(configs) + 1
         /\ \A v \in DOMAIN configs : configs'[v] = configs[v]
         /\ configs'[Len(configs) + 1].status = "DRAFT"
         /\ configs'[Len(configs) + 1].base = 0
<1>1. PICK c \in Declarations :
        configs' = Append(configs, [status |-> "DRAFT", declares |-> c, base |-> 0])
  BY DEF LoadVersion
<1>2. [status |-> "DRAFT", declares |-> c, base |-> 0] \in Config
  BY DEF Config
<1>3. QED
  BY <1>1, <1>2, AppendRow DEF ConfigTypeOK

LEMMA EditRows ==
  ASSUME ConfigTypeOK, NEW r \in Requests, CommitEdit(r)
  PROVE  /\ configs' \in Seq(Config)
         /\ DOMAIN configs = 1..Len(configs)
         /\ DOMAIN configs' = 1..(Len(configs) + 1)
         /\ Len(configs') = Len(configs) + 1
         /\ \A v \in DOMAIN configs :
              /\ configs'[v].declares = configs[v].declares
              /\ configs'[v].base = configs[v].base
              /\ configs'[v].status = IF v \in ActiveVersions THEN "ARCHIVED"
                                      ELSE configs[v].status
         /\ configs'[Len(configs) + 1].status = "ACTIVE"
         /\ configs'[Len(configs) + 1].base = request[r].version
         /\ configs'[Len(configs) + 1].declares \in Declarations
         /\ Sync(configs'[Len(configs) + 1].declares, sources)
<1> DEFINE v == request[r].version
<1>1. PICK c \in Declarations :
        /\ configs' = Append(Retired, [status |-> "ACTIVE", declares |-> c, base |-> v])
        /\ Sync(c, sources)
  BY DEF CommitEdit, Retired
<1>2. [status |-> "ACTIVE", declares |-> c, base |-> v] \in Config
  BY DEF Config, ConfigTypeOK
<1>3. configs \in Seq(Config)
  BY DEF ConfigTypeOK
<1>4. DOMAIN configs = 1..Len(configs) /\ Len(configs) \in Nat
  BY <1>3
<1>5. QED
  BY <1>1, <1>2, <1>3, <1>4, RetiredRows, AppendRow

LEMMA ActivationRows ==
  ASSUME ConfigTypeOK, NEW r \in Requests, CommitActivation(r)
  PROVE  LET q == request[r] IN
         /\ configs' \in Seq(Config)
         /\ q.version \in DOMAIN configs
         /\ DOMAIN configs' = DOMAIN configs
         /\ Len(configs') = Len(configs)
         /\ \A w \in DOMAIN configs :
              /\ configs'[w].declares = configs[w].declares
              /\ configs'[w].base = configs[w].base
              /\ configs'[w].status = IF w = q.version /\ q.view # "ACTIVE" THEN "ACTIVE"
                                      ELSE IF w = q.previous /\ w # q.version THEN "ARCHIVED"
                                      ELSE configs[w].status
<1> DEFINE q == request[r]
<1>1. configs' = Activated(q.version, q.view, q.previous)
  BY DEF CommitActivation
<1>2. configs \in Seq(Config) /\ q.version \in DOMAIN configs
  BY DEF CommitActivation, ConfigTypeOK
<1>3. QED
  BY <1>1, <1>2, ActivatedRows

LEMMA SyncType ==
  ASSUME sources \in Declarations, NEW c \in Declarations, NEW known \in Declarations,
         Sync(c, known)
  PROVE  /\ sources' \in Declarations
         /\ \A s \in Sources : sources[s] # "no" => sources'[s] # "no"
BY DEF Sync, Declarations, Kinds

(* The steps that write no row of configs, sources or batches.              *)
Reads(r) ==
  \/ \E v \in DOMAIN configs : BeginActivation(r, v)
  \/ ReadPrevious(r)
  \/ ReadSources(r)
  \/ BeginEdit(r)
  \/ BeginBatch(r)
  \/ AbortRequest(r)

LEMMA ReadsKeepRows ==
  ASSUME NEW r \in Requests, Reads(r)
  PROVE  UNCHANGED <<configs, sources, bound>>
BY DEF Reads, BeginActivation, ReadPrevious, ReadSources, BeginEdit, BeginBatch, AbortRequest

RequestOK(q) ==
  /\ q \in [ op : {"idle", "retire", "sync", "commit", "edit", "bind"},
             version : Nat, previous : Nat,
             view : {"none", "DRAFT", "ACTIVE", "ARCHIVED"}, known : Declarations ]
  /\ q.op # "idle" => q.version \in DOMAIN configs

LEMMA IdleOK == RequestOK(Idle)
BY DEF RequestOK, Idle, Declarations, Kinds

LEMMA OpeningOK ==
  ASSUME NEW op \in {"retire", "edit", "bind"}, NEW v \in DOMAIN configs, v \in Nat,
         NEW view \in {"none", "DRAFT", "ACTIVE", "ARCHIVED"}
  PROVE  /\ RequestOK([Idle EXCEPT !.op = op, !.version = v, !.view = view])
         /\ RequestOK([Idle EXCEPT !.op = op, !.version = v])
<1>1. Idle.known \in Declarations
  BY DEF Idle, Declarations, Kinds
<1>2. QED
  BY <1>1 DEF RequestOK, Idle

LEMMA ReadsType ==
  ASSUME ConfigTypeOK, NEW r \in Requests, Reads(r)
  PROVE  /\ RequestOK(request'[r])
         /\ request' = [request EXCEPT ![r] = request'[r]]
<1>1. configs \in Seq(Config) /\ Len(configs) \in Nat /\ DOMAIN configs = 1..Len(configs)
  BY DEF ConfigTypeOK
<1>2. \A v \in DOMAIN configs : v \in Nat /\ configs[v] \in Config
  BY <1>1
<1>3. request[r] \in [ op : {"idle", "retire", "sync", "commit", "edit", "bind"},
                       version : Nat, previous : Nat,
                       view : {"none", "DRAFT", "ACTIVE", "ARCHIVED"}, known : Declarations ]
  BY DEF ConfigTypeOK
<1>4. request \in [Requests -> {request[q] : q \in Requests}]
  BY DEF ConfigTypeOK
<1>5. CASE \E v \in DOMAIN configs : BeginActivation(r, v)
  <2>1. PICK v \in DOMAIN configs : BeginActivation(r, v)
    BY <1>5
  <2>2. configs[v].status \in {"none", "DRAFT", "ACTIVE", "ARCHIVED"}
    BY <1>2 DEF Config
  <2>3. RequestOK([Idle EXCEPT !.op = "retire", !.version = v, !.view = configs[v].status])
    BY <1>2, <2>2, OpeningOK
  <2>4. QED
    BY <1>4, <2>1, <2>3 DEF BeginActivation, RequestOK
<1>6. CASE ReadPrevious(r)
  <2>1. PICK p \in Nat : request' = [request EXCEPT ![r] = [request[r] EXCEPT !.op = "sync", !.previous = p]]
    BY <1>2, <1>6 DEF ReadPrevious, ActiveVersions
  <2>2. RequestOK([request[r] EXCEPT !.op = "sync", !.previous = p])
    BY <1>3, <1>6 DEF ReadPrevious, RequestOK, ConfigTypeOK
  <2>3. QED
    BY <1>4, <1>6, <2>1, <2>2 DEF ReadPrevious, RequestOK
<1>7. CASE ReadSources(r)
  <2>1. RequestOK([request[r] EXCEPT !.op = "commit", !.known = sources])
    BY <1>3, <1>7 DEF ReadSources, RequestOK, ConfigTypeOK
  <2>2. QED
    BY <1>4, <1>7, <2>1 DEF ReadSources, RequestOK
<1>8. CASE BeginEdit(r)
  <2>1. PICK v \in ActiveVersions :
          request' = [request EXCEPT ![r] = [Idle EXCEPT !.op = "edit", !.version = v]]
    BY <1>8 DEF BeginEdit
  <2>2. RequestOK([Idle EXCEPT !.op = "edit", !.version = v])
    BY <1>2, OpeningOK DEF ActiveVersions
  <2>3. QED
    BY <1>4, <1>8, <2>1, <2>2 DEF BeginEdit, RequestOK
<1>9. CASE BeginBatch(r)
  <2>1. PICK v \in ActiveVersions :
          request' = [request EXCEPT ![r] = [Idle EXCEPT !.op = "bind", !.version = v]]
    BY <1>9 DEF BeginBatch
  <2>2. RequestOK([Idle EXCEPT !.op = "bind", !.version = v])
    BY <1>2, OpeningOK DEF ActiveVersions
  <2>3. QED
    BY <1>4, <1>9, <2>1, <2>2 DEF BeginBatch, RequestOK
<1>10. CASE AbortRequest(r)
  BY <1>4, <1>10, IdleOK DEF AbortRequest, EndRequest, RequestOK
<1>11. QED
  BY <1>5, <1>6, <1>7, <1>8, <1>9, <1>10 DEF Reads

LEMMA TypeStep == ConfigTypeOK /\ [ConfigNext]_configVars => ConfigTypeOK'
<1> SUFFICES ASSUME ConfigTypeOK, [ConfigNext]_configVars PROVE ConfigTypeOK'
  OBVIOUS
<1>1. configs \in Seq(Config) /\ Len(configs) \in Nat /\ DOMAIN configs = 1..Len(configs)
  BY DEF ConfigTypeOK
<1>2. CASE LoadVersion
  BY <1>1, <1>2, LoadRows DEF LoadVersion, ConfigTypeOK
<1>3. ASSUME NEW r \in Requests, Reads(r) PROVE ConfigTypeOK'
  BY <1>3, ReadsKeepRows, ReadsType DEF ConfigTypeOK, RequestOK
<1>4. ASSUME NEW r \in Requests, CommitActivation(r) PROVE ConfigTypeOK'
  <2>1. configs[request[r].version].declares \in Declarations
    <3>1. request[r].version \in DOMAIN configs
      BY <1>4, ActivationRows
    <3>2. configs[request[r].version] \in Config
      BY <1>1, <3>1
    <3>3. QED
      BY <3>2 DEF Config
  <2>2. sources' \in Declarations
    BY <1>4, <2>1, SyncType DEF CommitActivation, ConfigTypeOK
  <2>3. QED
    BY <1>1, <1>4, <2>2, ActivationRows, IdleOK DEF CommitActivation, EndRequest, ConfigTypeOK, RequestOK
<1>5. ASSUME NEW r \in Requests, CommitEdit(r) PROVE ConfigTypeOK'
  <2>1. sources' \in Declarations
    BY <1>5, EditRows, SyncType DEF ConfigTypeOK
  <2>2. DOMAIN configs \subseteq DOMAIN configs' /\ configs' \in Seq(Config)
    BY <1>1, <1>5, EditRows
  <2>3. QED
    BY <1>5, <2>1, <2>2, IdleOK DEF CommitEdit, EndRequest, ConfigTypeOK, RequestOK
<1>6. ASSUME NEW r \in Requests, CommitBatch(r) PROVE ConfigTypeOK'
  BY <1>6, IdleOK DEF CommitBatch, EndRequest, ConfigTypeOK, RequestOK
<1>7. CASE UNCHANGED configVars
  BY <1>7 DEF configVars, ConfigTypeOK
<1>8. QED
  BY <1>2, <1>3, <1>4, <1>5, <1>6, <1>7 DEF ConfigNext, RequestStep, Reads

LEMMA TypeInit == ConfigInit => ConfigTypeOK
BY IdleOK DEF ConfigInit, ConfigTypeOK, RequestOK, Declarations, Kinds

(* The rows of versions, data sources, batches and requests keep their      *)
(* types, and no request holds a version that is not there.                 *)
THEOREM ConfigTypeCorrect == ConfigSpec => []ConfigTypeOK
BY TypeInit, TypeStep, PTL DEF ConfigSpec

-----------------------------------------------------------------------------
(* Any number of concurrent requests.                                       *)

(* What is never taken back.                                                *)
Grows ==
  /\ \A v \in DOMAIN configs :
       /\ v \in DOMAIN configs'
       /\ configs'[v].declares = configs[v].declares
       /\ configs'[v].status = "DRAFT" => configs[v].status = "DRAFT"
  /\ \A s \in Sources : sources[s] # "no" => sources'[s] # "no"
  /\ \A b \in Batches : bound[b] # 0 => bound'[b] = bound[b]

LEMMA GrowStep == ConfigTypeOK /\ [ConfigNext]_configVars => Grows
<1> SUFFICES ASSUME ConfigTypeOK, [ConfigNext]_configVars PROVE Grows
  OBVIOUS
<1>1. configs \in Seq(Config) /\ Len(configs) \in Nat /\ DOMAIN configs = 1..Len(configs)
  BY DEF ConfigTypeOK
<1>2. CASE LoadVersion
  BY <1>1, <1>2, LoadRows DEF LoadVersion, Grows
<1>3. ASSUME NEW r \in Requests, Reads(r) PROVE Grows
  BY <1>3, ReadsKeepRows DEF Grows
<1>4. ASSUME NEW r \in Requests, CommitActivation(r) PROVE Grows
  <2>1. configs[request[r].version].declares \in Declarations
    <3>1. request[r].version \in DOMAIN configs
      BY <1>4, ActivationRows
    <3>2. configs[request[r].version] \in Config
      BY <1>1, <3>1
    <3>3. QED
      BY <3>2 DEF Config
  <2>2. \A s \in Sources : sources[s] # "no" => sources'[s] # "no"
    BY <1>4, <2>1, SyncType DEF CommitActivation, ConfigTypeOK
  <2>3. QED
    BY <1>4, <2>2, ActivationRows DEF CommitActivation, Grows
<1>5. ASSUME NEW r \in Requests, CommitEdit(r) PROVE Grows
  <2>1. \A s \in Sources : sources[s] # "no" => sources'[s] # "no"
    BY <1>5, EditRows, SyncType DEF ConfigTypeOK
  <2>2. QED
    BY <1>1, <1>5, <2>1, EditRows DEF CommitEdit, Grows
<1>6. ASSUME NEW r \in Requests, CommitBatch(r) PROVE Grows
  BY <1>6 DEF CommitBatch, Grows, ConfigTypeOK
<1>7. CASE UNCHANGED configVars
  BY <1>7 DEF configVars, Grows
<1>8. QED
  BY <1>2, <1>3, <1>4, <1>5, <1>6, <1>7 DEF ConfigNext, RequestStep, Reads

(* However requests interleave, a version is never changed or removed and a *)
(* batch keeps the version it was created with.                             *)
THEOREM VersionsKept == ConfigSpec => VersionsFrozen
<1>1. Grows => (/\ \A v \in DOMAIN configs :
                     /\ v \in DOMAIN configs'
                     /\ configs'[v].declares = configs[v].declares
                     /\ configs'[v].status = "DRAFT" => configs[v].status = "DRAFT"
                /\ \A b \in Batches : bound[b] # 0 => bound'[b] = bound[b])
  BY DEF Grows
<1>2. QED
  BY <1>1, GrowStep, ConfigTypeCorrect, PTL DEF ConfigSpec, VersionsFrozen
(* What a request has read stays true enough, whatever the others commit: a *)
(* version that was not a draft is none later, a data source keeps its row. *)
ReadsStayTrue ==
  \A r \in Requests : LET q == request[r] IN
    /\ q.op = "commit" => \A s \in Sources : q.known[s] # "no" => sources[s] # "no"
    /\ q.op \in {"retire", "sync", "commit"} /\ q.view # "DRAFT" =>
         configs[q.version].status # "DRAFT"
    /\ q.op \in {"sync", "commit"} /\ q.previous # 0 =>
         q.previous \in DOMAIN configs /\ configs[q.previous].status # "DRAFT"
    /\ q.op = "bind" => configs[q.version].status # "DRAFT"

SharedInv == BoundOnceActivated /\ ActivatedSourcesKnown /\ ReadsStayTrue

LEMMA SharedInit == ConfigInit => SharedInv
BY DEF ConfigInit, SharedInv, BoundOnceActivated, ActivatedSourcesKnown, ReadsStayTrue, Idle

LEMMA ReadsStayTrueStep ==
  ASSUME ConfigTypeOK, ReadsStayTrue, [ConfigNext]_configVars
  PROVE  ReadsStayTrue'
<1>1. Grows
  BY GrowStep
<1>2. ConfigTypeOK'
  BY TypeStep
<1> DEFINE True(q) ==
      /\ q.op = "commit" => \A s \in Sources : q.known[s] # "no" => sources'[s] # "no"
      /\ q.op \in {"retire", "sync", "commit"} /\ q.view # "DRAFT" =>
           configs'[q.version].status # "DRAFT"
      /\ q.op \in {"sync", "commit"} /\ q.previous # 0 =>
           q.previous \in DOMAIN configs' /\ configs'[q.previous].status # "DRAFT"
      /\ q.op = "bind" => configs'[q.version].status # "DRAFT"
<1>3. ASSUME NEW r \in Requests PROVE True(request[r])
  <2>1. CASE request[r].op = "idle"
    BY <2>1
  <2>2. CASE request[r].op # "idle"
    <3>1. request[r].version \in DOMAIN configs
      BY <2>2 DEF ConfigTypeOK
    <3>2. configs'[request[r].version].status = "DRAFT" =>
            configs[request[r].version].status = "DRAFT"
      BY <1>1, <3>1 DEF Grows
    <3>3. \A s \in Sources : sources[s] # "no" => sources'[s] # "no"
      BY <1>1 DEF Grows
    <3>4. request[r].previous \in DOMAIN configs =>
            /\ request[r].previous \in DOMAIN configs'
            /\ configs'[request[r].previous].status = "DRAFT" =>
                 configs[request[r].previous].status = "DRAFT"
      BY <1>1 DEF Grows
    <3>5. QED
      BY <3>2, <3>3, <3>4 DEF ReadsStayTrue
  <2>3. QED
    BY <2>1, <2>2
<1>4. True(Idle)
  BY DEF Idle
<1>5. ASSUME NEW r \in Requests, Reads(r) PROVE True(request'[r])
  <2>1. UNCHANGED <<configs, sources>>
    BY <1>5, ReadsKeepRows
  <2>2. CASE \E v \in DOMAIN configs : BeginActivation(r, v)
    <3>1. PICK v \in DOMAIN configs :
            request'[r] = [Idle EXCEPT !.op = "retire", !.version = v, !.view = configs[v].status]
      BY <2>2 DEF BeginActivation, ConfigTypeOK
    <3>2. QED
      BY <2>1, <3>1 DEF Idle
  <2>3. CASE ReadPrevious(r)
    <3>1. PICK p \in ActiveVersions \cup {0} :
            request'[r] = [request[r] EXCEPT !.op = "sync", !.previous = p]
      BY <2>3 DEF ReadPrevious, ConfigTypeOK
    <3>2. request'[r].op = "sync" /\ request'[r].view = request[r].view
          /\ request'[r].version = request[r].version /\ request'[r].previous = p
      BY <3>1 DEF ConfigTypeOK
    <3>3. p # 0 => p \in DOMAIN configs' /\ configs'[p].status # "DRAFT"
      BY <2>1, <3>1 DEF ActiveVersions
    <3>4. QED
      BY <1>3, <2>3, <3>2, <3>3 DEF ReadPrevious
  <2>4. CASE ReadSources(r)
    <3>1. request'[r].op = "commit" /\ request'[r].view = request[r].view
          /\ request'[r].version = request[r].version /\ request'[r].known = sources
          /\ request'[r].previous = request[r].previous
      BY <2>4 DEF ReadSources, ConfigTypeOK
    <3>2. QED
      BY <1>3, <2>1, <2>4, <3>1 DEF ReadSources
  <2>5. CASE BeginEdit(r)
    <3>1. request'[r].op = "edit"
      BY <2>5 DEF BeginEdit, ConfigTypeOK, Idle
    <3>2. QED
      BY <3>1
  <2>6. CASE BeginBatch(r)
    <3>1. PICK v \in ActiveVersions : request'[r] = [Idle EXCEPT !.op = "bind", !.version = v]
      BY <2>6 DEF BeginBatch, ConfigTypeOK
    <3>2. request'[r].op = "bind" /\ request'[r].version = v
      BY <3>1 DEF Idle
    <3>3. configs'[v].status = "ACTIVE"
      BY <2>1 DEF ActiveVersions
    <3>4. QED
      BY <3>2, <3>3
  <2>7. CASE AbortRequest(r)
    <3>1. request'[r] = Idle
      BY <2>7 DEF AbortRequest, EndRequest, ConfigTypeOK
    <3>2. QED
      BY <1>4, <3>1
  <2>8. QED
    BY <1>5, <2>2, <2>3, <2>4, <2>5, <2>6, <2>7 DEF Reads
<1>6. \A r \in Requests : True(request'[r])
  <2>1. CASE LoadVersion \/ UNCHANGED configVars
    <3>1. request' = request
      BY <2>1 DEF LoadVersion, configVars
    <3>2. QED
      BY <1>3, <3>1
  <2>2. ASSUME NEW q \in Requests, Reads(q) PROVE \A r \in Requests : True(request'[r])
    <3>1. \A r \in Requests : r # q => request'[r] = request[r]
      BY <2>2, ReadsType DEF ConfigTypeOK
    <3>2. QED
      BY <1>3, <1>5, <2>2, <3>1
  <2>3. ASSUME NEW q \in Requests, CommitActivation(q) \/ CommitEdit(q) \/ CommitBatch(q)
        PROVE  \A r \in Requests : True(request'[r])
    <3>1. request' = [request EXCEPT ![q] = Idle]
      BY <2>3 DEF CommitActivation, CommitEdit, CommitBatch, EndRequest
    <3>2. \A r \in Requests : request'[r] = IF r = q THEN Idle ELSE request[r]
      BY <3>1 DEF ConfigTypeOK
    <3>3. QED
      BY <1>3, <1>4, <3>2
  <2>4. QED
    BY <2>1, <2>2, <2>3 DEF ConfigNext, RequestStep, Reads
<1>7. QED
  BY <1>6 DEF ReadsStayTrue

LEMMA SharedStep == ConfigTypeOK /\ SharedInv /\ [ConfigNext]_configVars => SharedInv'
<1> SUFFICES ASSUME ConfigTypeOK, SharedInv, [ConfigNext]_configVars PROVE SharedInv'
  OBVIOUS
<1>1. Grows /\ ConfigTypeOK' /\ ReadsStayTrue'
  BY GrowStep, TypeStep, ReadsStayTrueStep DEF SharedInv
<1>2. configs \in Seq(Config) /\ Len(configs) \in Nat /\ DOMAIN configs = 1..Len(configs)
  BY DEF ConfigTypeOK
<1>3. BoundOnceActivated'
  <2>1. CASE bound' = bound
    BY <1>1, <2>1 DEF SharedInv, BoundOnceActivated, Grows, ConfigTypeOK
  <2>2. ASSUME NEW r \in Requests, CommitBatch(r) PROVE BoundOnceActivated'
    BY <2>2 DEF CommitBatch, SharedInv, BoundOnceActivated, ReadsStayTrue, ConfigTypeOK
  <2>3. QED
    BY <2>1, <2>2, ReadsKeepRows
       DEF ConfigNext, RequestStep, Reads, LoadVersion, CommitActivation, CommitEdit, configVars
<1>4. ActivatedSourcesKnown'
  <2> DEFINE Declared(s) == \E v \in DOMAIN configs :
               configs[v].status # "DRAFT" /\ configs[v].declares[s] # "no"
  <2>1. CASE UNCHANGED <<configs, sources>>
    BY <2>1 DEF SharedInv, ActivatedSourcesKnown
  <2>2. CASE LoadVersion
    <3>1. \A s \in Sources : Declared(s)' <=> Declared(s)
      BY <1>2, <2>2, LoadRows
    <3>2. QED
      BY <2>2, <3>1 DEF LoadVersion, SharedInv, ActivatedSourcesKnown
  <2>3. \A s \in Sources : sources[s] # "no" => sources'[s] # "no"
    BY <1>1 DEF Grows
  <2>4. ASSUME NEW s \in Sources, Declared(s) PROVE Declared(s)'
    BY <1>1, <2>4 DEF Grows
  <2>5. ASSUME NEW n \in DOMAIN configs', NEW known, configs'[n].status # "DRAFT",
               Sync(configs'[n].declares, known),
               \A s \in Sources : known[s] # "no" => sources[s] # "no",
               \A v \in DOMAIN configs' : v # n => v \in DOMAIN configs,
               \A v \in DOMAIN configs : v # n /\ configs'[v].status # "DRAFT" =>
                                            configs[v].status # "DRAFT"
        PROVE  ActivatedSourcesKnown'
    <3>1. ASSUME NEW s \in Sources, sources'[s] # "no" PROVE Declared(s)'
      <4>1. CASE configs'[n].declares[s] # "no"
        BY <2>5, <4>1
      <4>2. CASE configs'[n].declares[s] = "no"
        BY <2>4, <2>5, <3>1, <4>2 DEF Sync, SharedInv, ActivatedSourcesKnown
      <4>3. QED
        BY <4>1, <4>2
    <3>2. ASSUME NEW s \in Sources, Declared(s)' PROVE sources'[s] # "no"
      <4>1. CASE configs'[n].declares[s] # "no"
        BY <2>3, <2>5, <4>1 DEF Sync
      <4>2. CASE configs'[n].declares[s] = "no"
        <5>1. PICK v \in DOMAIN configs' :
                configs'[v].status # "DRAFT" /\ configs'[v].declares[s] # "no"
          BY <3>2
        <5>2. v # n /\ v \in DOMAIN configs /\ configs[v].status # "DRAFT"
          BY <2>5, <4>2, <5>1
        <5>3. configs[v].declares[s] # "no"
          BY <1>1, <5>1, <5>2 DEF Grows
        <5>4. QED
          BY <2>3, <5>2, <5>3 DEF SharedInv, ActivatedSourcesKnown
      <4>3. QED
        BY <4>1, <4>2
    <3>3. QED
      BY <3>1, <3>2 DEF ActivatedSourcesKnown
  <2>6. ASSUME NEW r \in Requests, CommitEdit(r) PROVE ActivatedSourcesKnown'
    <3> DEFINE n == Len(configs) + 1
    <3>1. n \in DOMAIN configs' /\ configs'[n].status # "DRAFT"
      BY <1>2, <2>6, EditRows
    <3>2. Sync(configs'[n].declares, sources)
      BY <2>6, EditRows
    <3>3. \A v \in DOMAIN configs : configs'[v].status # "DRAFT" => configs[v].status # "DRAFT"
      BY <2>6, EditRows DEF ActiveVersions
    <3>4. \A v \in DOMAIN configs' : v = n \/ v \in DOMAIN configs
      BY <1>2, <2>6, EditRows
    <3>5. QED
      BY <2>5, <3>1, <3>2, <3>3, <3>4
  <2>7. ASSUME NEW r \in Requests, CommitActivation(r) PROVE ActivatedSourcesKnown'
    <3> DEFINE q == request[r]
    <3>1. q.version \in DOMAIN configs' /\ DOMAIN configs' = DOMAIN configs
      BY <2>7, ActivationRows
    <3>2. configs'[q.version].status # "DRAFT"
      <4>1. CASE q.view = "ACTIVE"
        <5>1. configs[q.version].status # "DRAFT"
          BY <2>7, <4>1 DEF CommitActivation, SharedInv, ReadsStayTrue
        <5>2. QED
          BY <1>1, <3>1, <5>1 DEF Grows
      <4>2. CASE q.view # "ACTIVE"
        BY <2>7, <3>1, <4>2, ActivationRows
      <4>3. QED
        BY <4>1, <4>2
    <3>3. Sync(configs'[q.version].declares, q.known)
      <4>1. configs'[q.version].declares = configs[q.version].declares
        BY <1>1, <3>1 DEF Grows
      <4>2. QED
        BY <2>7, <4>1 DEF CommitActivation
    <3>4. \A s \in Sources : q.known[s] # "no" => sources[s] # "no"
      BY <2>7 DEF CommitActivation, SharedInv, ReadsStayTrue
    <3>5. ASSUME NEW w \in DOMAIN configs, w # q.version, configs'[w].status # "DRAFT"
          PROVE  configs[w].status # "DRAFT"
      <4>1. CASE w = q.previous
        <5>1. q.op = "commit" /\ q.previous # 0
          BY <1>2, <2>7, <4>1 DEF CommitActivation
        <5>2. QED
          BY <4>1, <5>1 DEF SharedInv, ReadsStayTrue
      <4>2. CASE w # q.previous
        BY <2>7, <3>5, <4>2, ActivationRows
      <4>3. QED
        BY <4>1, <4>2
    <3>6. QED
      BY <2>5, <3>1, <3>2, <3>3, <3>4, <3>5
  <2>8. QED
    BY <2>1, <2>2, <2>6, <2>7, ReadsKeepRows
       DEF ConfigNext, RequestStep, Reads, CommitBatch, configVars
<1>5. QED
  BY <1>1, <1>3, <1>4 DEF SharedInv

(* A batch is bound to a version that was in force, even if it was archived *)
(* between the query and the insert.                                        *)
THEOREM BoundActivated == ConfigSpec => []BoundOnceActivated
<1>1. SharedInv => BoundOnceActivated
  BY DEF SharedInv
<1>2. QED
  BY <1>1, SharedInit, SharedStep, ConfigTypeCorrect, PTL DEF ConfigSpec

(* The data sources known are those of the versions that were activated.    *)
THEOREM SourcesKept == ConfigSpec => []ActivatedSourcesKnown
<1>1. SharedInv => ActivatedSourcesKnown
  BY DEF SharedInv
<1>2. QED
  BY <1>1, SharedInit, SharedStep, ConfigTypeCorrect, PTL DEF ConfigSpec
-----------------------------------------------------------------------------
(* Edits.                                                                   *)

(* A version that an edit made was made from the one before it.             *)
BasesNext == \A v \in DOMAIN configs : configs[v].base # 0 => v = configs[v].base + 1

LEMMA BasesStep == ConfigTypeOK /\ BasesNext /\ [ConfigNext]_configVars => BasesNext'
<1> SUFFICES ASSUME ConfigTypeOK, BasesNext, [ConfigNext]_configVars PROVE BasesNext'
  OBVIOUS
<1>1. Len(configs) \in Nat
  BY DEF ConfigTypeOK
<1>2. CASE LoadVersion
  BY <1>1, <1>2, LoadRows DEF BasesNext
<1>3. ASSUME NEW r \in Requests, CommitActivation(r) PROVE BasesNext'
  BY <1>3, ActivationRows DEF BasesNext
<1>4. ASSUME NEW r \in Requests, CommitEdit(r) PROVE BasesNext'
  <2>1. configs'[Len(configs) + 1].base = Len(configs)
    BY <1>4, EditRows DEF CommitEdit
  <2>2. /\ DOMAIN configs = 1..Len(configs) /\ DOMAIN configs' = 1..(Len(configs) + 1)
        /\ \A v \in DOMAIN configs : configs'[v].base = configs[v].base
    BY <1>4, EditRows
  <2>3. ASSUME NEW v \in DOMAIN configs', configs'[v].base # 0
        PROVE  v = configs'[v].base + 1
    <3>1. CASE v \in DOMAIN configs
      BY <2>2, <2>3, <3>1 DEF BasesNext
    <3>2. CASE v \notin DOMAIN configs
      BY <1>1, <2>1, <2>2, <2>3, <3>2
    <3>3. QED
      BY <3>1, <3>2
  <2>4. QED
    BY <2>3 DEF BasesNext
<1>5. CASE UNCHANGED configs
  BY <1>5 DEF BasesNext
<1>6. QED
  BY <1>2, <1>3, <1>4, <1>5, ReadsKeepRows
     DEF ConfigNext, RequestStep, Reads, CommitBatch, configVars

(* However many requests edit one version, one of them is accepted: the     *)
(* version number that an edit takes from its base admits no second one.    *)
THEOREM EditsNotLost == ConfigSpec => []OneEditPerBase
<1>1. ConfigInit => BasesNext
  BY DEF ConfigInit, BasesNext
<1>2. ConfigTypeOK /\ BasesNext => OneEditPerBase
  <2> SUFFICES ASSUME ConfigTypeOK, BasesNext, NEW v \in DOMAIN configs, NEW w \in DOMAIN configs,
                      configs[v].base # 0, configs[v].base = configs[w].base
               PROVE  v = w
    BY DEF OneEditPerBase
  <2>1. v = configs[v].base + 1 /\ w = configs[w].base + 1
    BY DEF BasesNext
  <2>2. QED
    BY <2>1
<1>3. QED
  BY <1>1, <1>2, BasesStep, ConfigTypeCorrect, PTL DEF ConfigSpec

(* The result of an edit is the one ACTIVE version.                         *)
LEMMA EditActivates ==
  ASSUME ConfigTypeOK, NEW r \in Requests, CommitEdit(r)
  PROVE  ActiveVersions' = {Len(configs) + 1}
<1>1. \A v \in DOMAIN configs : configs'[v].status # "ACTIVE"
  BY EditRows DEF ActiveVersions
<1>2. Len(configs) \in Nat
  BY DEF ConfigTypeOK
<1>3. QED
  BY <1>1, <1>2, EditRows DEF ActiveVersions

(* An edit that is accepted is in force, whatever overlapped it: its result *)
(* alone is ACTIVE, and data_sources mirrors it.                            *)
THEOREM EditsInForce == ConfigSpec => EditsTakeEffect
<1>1. ASSUME ConfigTypeOK, [ConfigNext]_configVars,
             NEW v \in DOMAIN configs' \ DOMAIN configs, configs'[v].base # 0
      PROVE  ActiveVersions' = {v} /\ Mirrored(v)'
  <2>1. Len(configs) \in Nat
    BY DEF ConfigTypeOK
  <2>2. ASSUME LoadVersion PROVE FALSE
    <3>1. v = Len(configs) + 1
      BY <1>1, <2>1, <2>2, LoadRows
    <3>2. QED
      BY <1>1, <2>2, <3>1, LoadRows
  <2>3. ASSUME NEW r \in Requests, CommitEdit(r) PROVE ActiveVersions' = {v} /\ Mirrored(v)'
    <3>1. v = Len(configs) + 1
      BY <1>1, <2>1, <2>3, EditRows
    <3>2. Sync(configs'[v].declares, sources)
      BY <1>1, <2>3, <3>1, EditRows
    <3>3. Mirrored(v)'
      BY <3>2 DEF Sync, Mirrored
    <3>4. QED
      BY <1>1, <2>3, <3>1, <3>3, EditActivates
  <2>4. ASSUME DOMAIN configs' = DOMAIN configs PROVE FALSE
    BY <1>1, <2>4
  <2>5. QED
    BY <1>1, <2>2, <2>3, <2>4, ReadsKeepRows, ActivationRows
       DEF ConfigNext, RequestStep, Reads, CommitBatch, configVars
<1>2. ConfigTypeOK /\ [ConfigNext]_configVars =>
        (\A v \in DOMAIN configs' \ DOMAIN configs :
           configs'[v].base # 0 => ActiveVersions' = {v} /\ Mirrored(v)')
  BY <1>1
<1>3. QED
  BY <1>2, ConfigTypeCorrect, PTL DEF ConfigSpec, EditsTakeEffect

=============================================================================
