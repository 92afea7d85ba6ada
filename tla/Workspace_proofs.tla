--------------------------- MODULE Workspace_proofs -------------------------
(***************************************************************************)
(* Proofs about the operators' rows and runs: type correctness, references *)
(* that stay within a client, and poll results that tell the truth of the  *)
(* saved connection.  What they rest on is what a session's copy of a row  *)
(* still tells of the stored row, given what was committed meanwhile.      *)
(***************************************************************************)
EXTENDS Workspace, FiniteInduction, SequenceTheorems

Holds(t) == session[t].op \in {"edit", "poll"}
Stored(t) == importSource[session[t].source]
Copy(t) == session[t].loaded

(* A session holds a row exactly while it edits or polls one.               *)
SessionsHold ==
  \A t \in Threads :
    /\ Holds(t) => session[t].source \in ImportSources /\ Copy(t) \in SourceRow
                   /\ Stored(t) \in SourceRow
    /\ ~Holds(t) => session[t].source = None
    /\ session[t].op = "idle" => session[t] = NoSession

SamePlace(row, other) ==
  row.kind = other.kind /\ row.connection = other.connection /\ row.enabled = other.enabled

(* What a copy tells of the stored row: everything if nothing was committed *)
(* since, the connection if only polls were, and if only edits were, that   *)
(* the poll result is the copy's or gone.                                   *)
CopyTells(t) ==
  /\ session[t].since = {} => Stored(t) = Copy(t)
  /\ session[t].since \subseteq {"poll"} => SamePlace(Stored(t), Copy(t))
  /\ session[t].since \subseteq {"edit"} =>
       /\ Stored(t).status \in {Copy(t).status, None}
       /\ Stored(t).message \in {Copy(t).message, None}
  /\ session[t].since = {"poll"} /\ session[t].source \notin raced => Stored(t).message # None

TellsTruth(row) ==
  /\ row.message # None => row.message.at = Location(row)
  /\ row.status = None <=> row.message = None

SourcesTyped ==
  /\ importSource \in [ImportSources -> SourceRow \cup {None}]
  /\ session \in [Threads -> Session]
  /\ raced \subseteq ImportSources

SourcesInv ==
  /\ SourcesTyped
  /\ SessionsHold
  /\ \A t \in Threads : Holds(t) => CopyTells(t)
  /\ \A i \in ImportSources \ raced : importSource[i] # None => TellsTruth(importSource[i])

(* A definition refers to rows that there are, of its own client.           *)
RefersToOwn(d) ==
  /\ definition[d].account # None =>
       definition[d].account \in accounts /\ Owner[definition[d].account] = Owner[d]
  /\ definition[d].source # None =>
       importSource[definition[d].source] # None /\ Owner[definition[d].source] = Owner[d]

ReferencesInv ==
  /\ accounts \subseteq Accounts
  /\ definition \in [Definitions -> DefinitionRow \cup {None}]
  /\ \A d \in Definitions : definition[d] # None => RefersToOwn(d)

(* The runs that wait, are at work or are about to be submitted are there.  *)
SessionRuns(t) ==
  /\ session[t].batch \in DOMAIN batches \cup {0}
  /\ session[t].op = "submit" <=> session[t].batch # 0

RunsInv ==
  /\ batches \in Seq(Batch)
  /\ \A n \in DOMAIN batches : definition[batches[n].definition] # None
  /\ queue \in Seq(Nat) /\ \A k \in DOMAIN queue : queue[k] \in DOMAIN batches
  /\ worker \in [pc : {"idle", "import", "process"}, batch : DOMAIN batches \cup {0},
                 wanted : SUBSET Codes]
  /\ \A t \in Threads : SessionRuns(t)

WorkspaceInv ==
  /\ SourcesInv
  /\ ReferencesInv
  /\ RunsInv
  /\ changes \in 0..MaxChanges
  /\ overtaken \subseteq Definitions

-----------------------------------------------------------------------------
(* Rows.                                                                    *)

Fields == {"kind", "connection", "enabled", "status", "message"}

LEMMA RowFields ==
  ASSUME NEW row \in SourceRow
  PROVE  /\ DOMAIN row = Fields
         /\ row.kind \in Kinds /\ row.connection \in Connections /\ row.enabled \in BOOLEAN
         /\ row.status \in {None, "OK", "EMPTY"} /\ row.message \in PollMessage \cup {None}
BY DEF SourceRow, Fields

LEMMA RowOfFields ==
  ASSUME NEW kind \in Kinds, NEW connection \in Connections, NEW enabled \in BOOLEAN,
         NEW status \in {None, "OK", "EMPTY"}, NEW message \in PollMessage \cup {None},
         NEW row, row = [f \in Fields |-> row[f]],
         row.kind = kind, row.connection = connection, row.enabled = enabled,
         row.status = status, row.message = message
  PROVE  row \in SourceRow
<1>1. row = [kind |-> kind, connection |-> connection, enabled |-> enabled,
             status |-> status, message |-> message]
  BY DEF Fields
<1> QED BY <1>1 DEF SourceRow

(* What an UPDATE writes is a row again, field by field.                    *)
LEMMA WrittenRow ==
  ASSUME NEW stored \in SourceRow, NEW loaded \in SourceRow, NEW new \in SourceRow
  PROVE  /\ Written(stored, loaded, new) \in SourceRow
         /\ \A f \in Fields : Written(stored, loaded, new)[f] =
              IF new[f] # loaded[f] THEN new[f] ELSE stored[f]
<1> DEFINE w == Written(stored, loaded, new)
<1>1. /\ w = [f \in Fields |-> w[f]]
      /\ \A f \in Fields : w[f] = IF new[f] # loaded[f] THEN new[f] ELSE stored[f]
  BY RowFields DEF Written
<1>2. /\ w.kind \in Kinds /\ w.connection \in Connections /\ w.enabled \in BOOLEAN
      /\ w.status \in {None, "OK", "EMPTY"} /\ w.message \in PollMessage \cup {None}
  <2> HIDE DEF w
  <2> QED BY <1>1, RowFields DEF Fields
<1> HIDE DEF w
<1>3. w \in SourceRow  BY <1>1, <1>2, RowOfFields
<1> QED BY <1>1, <1>3 DEF w

LEMMA EditedRow ==
  ASSUME NEW row \in SourceRow, NEW p \in Patches, Location(Edited(row, p)) \in Usable
  PROVE  /\ Edited(row, p) \in SourceRow
         /\ Edited(row, p).status = None /\ Edited(row, p).message = None
<1> DEFINE e == Edited(row, p)
<1>1. /\ e = [f \in Fields |-> e[f]]
      /\ e.status = None /\ e.message = None
      /\ e.enabled = IF "enabled" \in DOMAIN p THEN p["enabled"] ELSE row.enabled
  BY RowFields DEF Edited, Fields
<1> HIDE DEF e
<1>2. <<e.kind, e.connection>> \in Kinds \X Connections
  BY RowsAssumption DEF Location, e
<1>3. e.enabled \in BOOLEAN  BY <1>1, FormsAssumption, RowFields
<1>4. e \in SourceRow  BY <1>1, <1>2, <1>3, RowOfFields
<1> QED BY <1>1, <1>4 DEF e

LEMMA PolledRow ==
  ASSUME NEW row \in SourceRow, NEW found \in SUBSET Codes
  PROVE  /\ Polled(row, found) \in SourceRow
         /\ SamePlace(Polled(row, found), row)
         /\ Polled(row, found).status # None /\ Polled(row, found).message # None
         /\ Polled(row, found).message.at = Location(row)
<1> DEFINE m == [count |-> Cardinality(found), at |-> Location(row)]
           polled == Polled(row, found)
<1>1. Cardinality(found) \in Nat
  BY FS_Subset, FS_CardinalityType, RowsAssumption
<1>2. m \in PollMessage
  BY <1>1, RowFields DEF PollMessage, Location
<1>3. /\ polled = [f \in Fields |-> polled[f]]
      /\ polled.kind = row.kind /\ polled.connection = row.connection
      /\ polled.enabled = row.enabled /\ polled.message = m
      /\ polled.status = IF found = {} THEN "EMPTY" ELSE "OK"
  BY RowFields DEF Polled, Fields
<1>4. m # None /\ polled.status # None  BY <1>2, <1>3, RowsAssumption
<1> HIDE DEF polled
<1>5. polled \in SourceRow
  <2>1. polled.status \in {None, "OK", "EMPTY"}  BY <1>3
  <2> QED BY <1>2, <1>3, <2>1, RowFields, RowOfFields
<1> QED BY <1>3, <1>4, <1>5 DEF SamePlace, polled

-----------------------------------------------------------------------------
(* Import sources and the sessions on them.                                 *)

(* The row that the commit of session t leaves.                             *)
Left(t, new) == Written(Stored(t), Copy(t), new)

LEMMA LeftRow ==
  ASSUME SourcesInv, NEW t \in Threads, Holds(t), NEW new \in SourceRow
  PROVE  /\ session[t].source \in ImportSources
         /\ Left(t, new) \in SourceRow
         /\ Left(t, new).kind = IF new.kind # Copy(t).kind THEN new.kind ELSE Stored(t).kind
         /\ Left(t, new).connection =
              IF new.connection # Copy(t).connection THEN new.connection ELSE Stored(t).connection
         /\ Left(t, new).enabled =
              IF new.enabled # Copy(t).enabled THEN new.enabled ELSE Stored(t).enabled
         /\ Left(t, new).status =
              IF new.status # Copy(t).status THEN new.status ELSE Stored(t).status
         /\ Left(t, new).message =
              IF new.message # Copy(t).message THEN new.message ELSE Stored(t).message
<1>1. session[t].source \in ImportSources /\ Copy(t) \in SourceRow /\ Stored(t) \in SourceRow
  BY DEF SourcesInv, SessionsHold
<1>2. {"kind", "connection", "enabled", "status", "message"} = Fields  BY DEF Fields
<1> QED BY <1>1, <1>2, WrittenRow DEF Left

(* What a session writes: an edit takes the poll result away, a poll says   *)
(* where it looked.                                                         *)
Writes(t, new) ==
  /\ session[t].op = "edit" => new.status = None /\ new.message = None
  /\ session[t].op = "poll" =>
       /\ SamePlace(new, Copy(t))
       /\ new.status # None /\ new.message # None
       /\ new.message.at = Location(Copy(t))

Other(op) == IF op = "edit" THEN "poll" ELSE "edit"

Goes(t, new, after) ==
  \/ after = NoSession
  \/ session[t].op = "edit" /\ after = [session[t] EXCEPT !.op = "poll", !.loaded = new]

(* A commit, of an edit or of a poll.                                       *)
Commits(t, new, after) ==
  /\ importSource' = [importSource EXCEPT ![session[t].source] = Left(t, new)]
  /\ session' = Overtaken(t, after)
  /\ raced' = Races(t, Other(session[t].op))

LEMMA SessionTypes ==
  ASSUME SourcesTyped, NEW t \in Threads
  PROVE  /\ session[t].op \in {"idle", "edit", "poll", "submit"}
         /\ session[t].source \in ImportSources \cup {None}
         /\ session[t].loaded \in SourceRow \cup {None}
         /\ session[t].since \in SUBSET {"edit", "poll"}
         /\ session[t].batch \in Nat
         /\ NoSession \in Session
         /\ NoSession.op = "idle" /\ NoSession.source = None /\ NoSession.batch = 0
         /\ NoSession.since = {}
BY DEF SourcesTyped, Session, NoSession

(* The sessions after a commit.                                             *)
LEMMA SessionsAfter ==
  ASSUME SourcesInv, NEW t \in Threads, Holds(t), NEW new \in SourceRow,
         NEW after, Goes(t, new, after), session' = Overtaken(t, after)
  PROVE  /\ session' \in [Threads -> Session]
         /\ session'[t] = after
         /\ \A u \in Threads \ {t} :
              /\ session'[u].op = session[u].op
              /\ session'[u].source = session[u].source
              /\ session'[u].loaded = session[u].loaded
              /\ session'[u].batch = session[u].batch
              /\ session[u].source # session[t].source => session'[u] = session[u]
              /\ session[u].source = session[t].source =>
                   session'[u].since = session[u].since \cup {session[t].op}
<1>0. SourcesTyped  BY DEF SourcesInv
<1>1. session'[t] = after  BY DEF Overtaken
<1>2. after \in Session
  <2>1. CASE after = NoSession  BY <2>1, <1>0, SessionTypes
  <2>2. CASE after = [session[t] EXCEPT !.op = "poll", !.loaded = new]
    BY <2>2, <1>0 DEF SourcesTyped, Session
  <2> QED BY <2>1, <2>2 DEF Goes
<1>3. ASSUME NEW u \in Threads \ {t}
      PROVE  /\ session'[u] \in Session
             /\ session'[u].op = session[u].op
             /\ session'[u].source = session[u].source
             /\ session'[u].loaded = session[u].loaded
             /\ session'[u].batch = session[u].batch
             /\ session[u].source # session[t].source => session'[u] = session[u]
             /\ session[u].source = session[t].source =>
                  session'[u].since = session[u].since \cup {session[t].op}
  <2>1. session'[u] = IF session[u].source = session[t].source
                      THEN [session[u] EXCEPT !.since = session[u].since \cup {session[t].op}]
                      ELSE session[u]
    BY <1>3 DEF Overtaken
  <2>2. session[u] \in Session /\ session[t].op \in {"edit", "poll"}
    BY <1>0, <1>3 DEF SourcesTyped, Holds
  <2> QED BY <2>1, <2>2 DEF Session
<1>4. session' \in [Threads -> Session]
  <2>1. session' = [u \in Threads |-> session'[u]]  BY DEF Overtaken
  <2> QED BY <2>1, <1>1, <1>2, <1>3
<1> QED BY <1>1, <1>3, <1>4

LEMMA CommitInv ==
  ASSUME SourcesInv, NEW t \in Threads, Holds(t), NEW new \in SourceRow, Writes(t, new),
         NEW after, Goes(t, new, after), Commits(t, new, after)
  PROVE  /\ SourcesInv'
         /\ \A i \in ImportSources : importSource[i] # None => importSource'[i] # None
<1> DEFINE i == session[t].source
           left == Left(t, new)
<1>0. SourcesTyped /\ SessionsHold /\ i \in ImportSources /\ CopyTells(t)
      /\ Stored(t) \in SourceRow /\ Copy(t) \in SourceRow
      /\ (session[t].op = "edit" \/ session[t].op = "poll")
  BY DEF SourcesInv, SessionsHold, Holds
<1>1. left \in SourceRow  BY LeftRow
<1>2. /\ importSource'[i] = left
      /\ \A j \in ImportSources \ {i} : importSource'[j] = importSource[j]
      /\ importSource' \in [ImportSources -> SourceRow \cup {None}]
  BY <1>0, <1>1 DEF Commits, SourcesTyped
<1>3. /\ session' \in [Threads -> Session]
      /\ session'[t] = after
      /\ \A u \in Threads \ {t} :
           /\ session'[u].op = session[u].op
           /\ session'[u].source = session[u].source
           /\ session'[u].loaded = session[u].loaded
           /\ session'[u].batch = session[u].batch
           /\ session[u].source # i => session'[u] = session[u]
           /\ session[u].source = i =>
                session'[u].since = session[u].since \cup {session[t].op}
  BY SessionsAfter DEF Commits
<1>4. raced' \subseteq ImportSources /\ raced \ {i} \subseteq raced' /\ raced' \subseteq raced \cup {i}
  BY <1>0 DEF Commits, Races, SourcesTyped
<1>5. SourcesTyped'  BY <1>2, <1>3, <1>4 DEF SourcesTyped
<1>a. after # NoSession =>
        /\ session[t].op = "edit"
        /\ session'[t].op = "poll" /\ session'[t].source = i /\ session'[t].loaded = new
        /\ session'[t].since = session[t].since /\ session'[t].batch = session[t].batch
  BY <1>0, <1>3 DEF Goes, SourcesTyped, Session
<1>b. after = NoSession => session'[t] = NoSession /\ session'[t].op = "idle"
                           /\ session'[t].source = None
  BY <1>3 DEF NoSession
<1>6. SessionsHold'
  <2> SUFFICES ASSUME NEW u \in Threads
               PROVE  /\ Holds(u)' => session'[u].source \in ImportSources
                                      /\ session'[u].loaded \in SourceRow
                                      /\ importSource'[session'[u].source] \in SourceRow
                      /\ ~Holds(u)' => session'[u].source = None
                      /\ session'[u].op = "idle" => session'[u] = NoSession
    BY DEF SessionsHold, Copy, Stored
  <2>1. CASE u = t /\ after = NoSession  BY <2>1, <1>b DEF Holds
  <2>2. CASE u = t /\ after # NoSession  BY <2>2, <1>a, <1>0, <1>1, <1>2 DEF Holds
  <2>3. CASE u # t
    <3>1. Holds(u)' <=> Holds(u)  BY <2>3, <1>3 DEF Holds
    <3>2. Holds(u) => session[u].source \in ImportSources /\ session[u].loaded \in SourceRow
                      /\ importSource[session[u].source] \in SourceRow
      BY <1>0 DEF SessionsHold, Copy, Stored
    <3>3. ~Holds(u) => session[u].source = None  BY <1>0 DEF SessionsHold
    <3>4. session[u].op = "idle" => session[u] = NoSession
      BY <1>0 DEF SessionsHold
    <3>6. NoSession.source = None  BY <1>0, SessionTypes
    <3>5. i # None  BY <1>0, RowsAssumption
    <3> QED BY <2>3, <3>1, <3>2, <3>3, <3>4, <3>5, <3>6, <1>1, <1>2, <1>3
  <2> QED BY <2>1, <2>2, <2>3
<1>7. i \notin raced' => TellsTruth(left)
  <2> SUFFICES ASSUME i \notin raced' PROVE TellsTruth(left)
    OBVIOUS
  <2>0. Stored(t) # None  BY <1>0, RowsAssumption
  <2>1. CASE session[t].op = "edit"
    <3>1. session[t].since \subseteq {"edit"}
      <4>1. "poll" \notin session[t].since
        BY <2>1, <1>0 DEF Commits, Races, Other
      <4>2. session[t].since \in SUBSET {"edit", "poll"}  BY <1>0, SessionTypes
      <4> QED BY <4>1, <4>2
    <3>2. /\ Stored(t).status \in {Copy(t).status, None}
          /\ Stored(t).message \in {Copy(t).message, None}
      BY <3>1, <1>0 DEF CopyTells
    <3>3. left.status = None /\ left.message = None
      BY <2>1, <3>2, LeftRow DEF Writes
    <3> QED BY <3>3 DEF TellsTruth
  <2>2. CASE session[t].op = "poll"
    <3>1. session[t].since \subseteq {"poll"}
      <4>1. "edit" \notin session[t].since
        BY <2>2, <1>0 DEF Commits, Races, Other
      <4>2. session[t].since \in SUBSET {"edit", "poll"}  BY <1>0, SessionTypes
      <4> QED BY <4>1, <4>2
    <3>2. SamePlace(Stored(t), Copy(t))  BY <3>1, <1>0 DEF CopyTells
    <3>3. Location(left) = Location(Copy(t)) /\ Location(Stored(t)) = Location(Copy(t))
      BY <2>2, <3>2, LeftRow DEF Writes, SamePlace, Location
    <3>4. CASE session[t].since = {}
      <4>1. Stored(t) = Copy(t)  BY <3>4, <1>0 DEF CopyTells
      <4>2. left.status = new.status /\ left.message = new.message  BY <4>1, LeftRow
      <4> QED BY <4>2, <2>2, <3>3 DEF Writes, TellsTruth
    <3>5. CASE session[t].since = {"poll"}
      <4>1. i \notin raced
        BY <2>2, <3>5 DEF Commits, Races, Other
      <4>2. TellsTruth(Stored(t)) /\ Stored(t).message # None
        BY <3>5, <4>1, <2>0, <1>0 DEF SourcesInv, CopyTells, Stored
      <4>3. /\ left.status \in {new.status, Stored(t).status}
            /\ left.message \in {new.message, Stored(t).message}
        BY LeftRow
      <4> QED BY <4>2, <4>3, <2>2, <3>3 DEF Writes, TellsTruth
    <3> QED BY <3>1, <3>4, <3>5
  <2> QED BY <2>1, <2>2, <1>0
<1>8. \A j \in ImportSources \ raced' : importSource'[j] # None => TellsTruth(importSource'[j])
  <2> SUFFICES ASSUME NEW j \in ImportSources \ raced', importSource'[j] # None
               PROVE TellsTruth(importSource'[j])
    OBVIOUS
  <2>1. CASE j = i  BY <2>1, <1>2, <1>7
  <2>2. CASE j # i  BY <2>2, <1>2, <1>4 DEF SourcesInv
  <2> QED BY <2>1, <2>2
<1>9. ASSUME NEW u \in Threads, Holds(u)'
      PROVE  CopyTells(u)'
  <2>0. session[t].since \in SUBSET {"edit", "poll"}  BY <1>0, SessionTypes
  <2>1. CASE u = t
    <3>1. after # NoSession  BY <2>1, <1>9, <1>b DEF Holds
    <3>2. /\ Stored(t)' = left /\ Copy(t)' = new /\ session'[t].since = session[t].since
          /\ session'[t].source = i /\ session[t].op = "edit"
      BY <3>1, <1>a, <1>2 DEF Stored, Copy
    <3>3. session[t].since = {} => left = new
      <4> SUFFICES ASSUME session[t].since = {} PROVE left = new
        OBVIOUS
      <4>1. Stored(t) = Copy(t)  BY <1>0 DEF CopyTells
      <4>2. \A f \in Fields : left[f] = new[f]
        BY <4>1, <1>0, WrittenRow DEF Left
      <4>3. DOMAIN left = Fields /\ DOMAIN new = Fields  BY <1>1, RowFields
      <4>4. left = [f \in Fields |-> left[f]] /\ new = [f \in Fields |-> new[f]]
        BY <4>3, <1>1 DEF SourceRow, Fields
      <4> QED BY <4>2, <4>4
    <3>4. session[t].since \subseteq {"poll"} => SamePlace(left, new)
      <4> SUFFICES ASSUME session[t].since \subseteq {"poll"} PROVE SamePlace(left, new)
        OBVIOUS
      <4>1. SamePlace(Stored(t), Copy(t))  BY <1>0 DEF CopyTells
      <4> QED BY <4>1, LeftRow DEF SamePlace
    <3>5. session[t].since \subseteq {"edit"} =>
            left.status = None /\ left.message = None
      BY <3>2, <1>0, LeftRow DEF CopyTells, Writes
    <3>6. session[t].since = {"poll"} => i \in raced'
      BY <3>2, <1>0 DEF Commits, Races, Other
    <3> QED BY <2>1, <3>2, <3>3, <3>4, <3>5, <3>6 DEF CopyTells
  <2>2. CASE u # t /\ session[u].source # i
    <3>1. session'[u] = session[u] /\ Holds(u) /\ session[u].source \in ImportSources
      BY <2>2, <1>3, <1>9, <1>0 DEF Holds, SessionsHold
    <3>2. Stored(u)' = Stored(u) /\ Copy(u)' = Copy(u)
      BY <2>2, <3>1, <1>2 DEF Stored, Copy
    <3>3. session[u].source \notin raced' => session[u].source \notin raced
      BY <2>2, <1>4
    <3>4. CopyTells(u)  BY <3>1 DEF SourcesInv
    <3> QED BY <3>1, <3>2, <3>3, <3>4 DEF CopyTells
  <2>3. CASE u # t /\ session[u].source = i
    <3>1. /\ Holds(u) /\ Copy(u)' = Copy(u) /\ Stored(u)' = left /\ Stored(u) = Stored(t)
          /\ session'[u].since = session[u].since \cup {session[t].op}
          /\ session'[u].source = i
      BY <2>3, <1>2, <1>3, <1>9 DEF Holds, Stored, Copy
    <3>2. CopyTells(u)  BY <3>1 DEF SourcesInv
    <3>3. CASE session[t].op = "edit"
      <4>1. "edit" \in session'[u].since  BY <3>1, <3>3
      <4>2. session'[u].since \subseteq {"edit"} =>
              /\ left.status \in {Copy(u).status, None}
              /\ left.message \in {Copy(u).message, None}
        <5>1. session'[u].since \subseteq {"edit"} => session[u].since \subseteq {"edit"}
          BY <3>1
        <5>2. left.status \in {None, Stored(t).status} /\ left.message \in {None, Stored(t).message}
          BY <3>3, LeftRow DEF Writes
        <5> QED BY <5>1, <5>2, <3>1, <3>2 DEF CopyTells
      <4> QED BY <4>1, <4>2, <3>1 DEF CopyTells
    <3>4. CASE session[t].op = "poll"
      <4>1. "poll" \in session'[u].since  BY <3>1, <3>4
      <4>2. session'[u].since \subseteq {"poll"} => SamePlace(left, Copy(u))
        <5> SUFFICES ASSUME session'[u].since \subseteq {"poll"} PROVE SamePlace(left, Copy(u))
          OBVIOUS
        <5>1. SamePlace(Stored(t), Copy(u))  BY <3>1, <3>2 DEF CopyTells
        <5>2. /\ left.kind = Stored(t).kind /\ left.connection = Stored(t).connection
              /\ left.enabled = Stored(t).enabled
          BY <3>4, LeftRow DEF Writes, SamePlace
        <5> QED BY <5>1, <5>2 DEF SamePlace
      <4>3. session'[u].since = {"poll"} /\ i \notin raced' => left.message # None
        <5> SUFFICES ASSUME i \notin raced' PROVE left.message # None
          OBVIOUS
        <5>1. "edit" \notin session[t].since
          BY <3>4, <1>0 DEF Commits, Races, Other
        <5>2. CASE session[t].since = {}
          <6>1. Stored(t) = Copy(t)  BY <5>2, <1>0 DEF CopyTells
          <6> QED BY <6>1, <3>4, LeftRow DEF Writes
        <5>3. CASE session[t].since = {"poll"}
          <6>1. i \notin raced  BY <3>4, <5>3 DEF Commits, Races, Other
          <6>2. Stored(t).message # None  BY <6>1, <5>3, <1>0 DEF CopyTells
          <6> QED BY <6>2, <3>4, LeftRow DEF Writes
        <5> QED BY <5>1, <5>2, <5>3, <2>0
      <4> QED BY <4>1, <4>2, <4>3, <3>1 DEF CopyTells
    <3> QED BY <3>3, <3>4, <1>0
  <2> QED BY <2>1, <2>2, <2>3
<1>10. \A j \in ImportSources : importSource[j] # None => importSource'[j] # None
  BY <1>1, <1>2, RowsAssumption
<1>11. (\A u \in Threads : Holds(u) => CopyTells(u))'
  BY <1>9
<1> QED BY <1>5, <1>6, <1>8, <1>10, <1>11 DEF SourcesInv

(* A thread takes up a row that nobody has changed since, or lets go.       *)
LEMMA ReplaceInv ==
  ASSUME SourcesInv, NEW t \in Threads, NEW s \in Session,
         s.op \in {"edit", "poll"} =>
           /\ s.source \in ImportSources /\ importSource[s.source] # None
           /\ s.loaded = importSource[s.source] /\ s.since = {},
         s.op \notin {"edit", "poll"} => s.source = None,
         s.op = "idle" => s = NoSession,
         session' = [session EXCEPT ![t] = s], importSource' = importSource, raced' = raced
  PROVE  SourcesInv'
<1>0. SourcesTyped /\ SessionsHold  BY DEF SourcesInv
<1>1. /\ session' \in [Threads -> Session] /\ session'[t] = s
      /\ \A u \in Threads \ {t} : session'[u] = session[u]
  BY <1>0 DEF SourcesTyped
<1>2. SourcesTyped'  BY <1>0, <1>1 DEF SourcesTyped
<1>3. s.op \in {"edit", "poll"} => importSource[s.source] \in SourceRow
  BY <1>0 DEF SourcesTyped
<1>4. SessionsHold'
  <2> SUFFICES ASSUME NEW u \in Threads
               PROVE  /\ Holds(u)' => session'[u].source \in ImportSources
                                      /\ session'[u].loaded \in SourceRow
                                      /\ importSource[session'[u].source] \in SourceRow
                      /\ ~Holds(u)' => session'[u].source = None
                      /\ session'[u].op = "idle" => session'[u] = NoSession
    BY DEF SessionsHold, Copy, Stored
  <2>1. CASE u = t  BY <2>1, <1>1, <1>3 DEF Holds
  <2>2. CASE u # t
    <3>1. /\ Holds(u) => session[u].source \in ImportSources
                         /\ session[u].loaded \in SourceRow
                         /\ importSource[session[u].source] \in SourceRow
          /\ ~Holds(u) => session[u].source = None
          /\ session[u].op = "idle" => session[u] = NoSession
      BY <1>0 DEF SessionsHold, Copy, Stored
    <3> QED BY <2>2, <1>1, <3>1 DEF Holds
  <2> QED BY <2>1, <2>2
<1>5. ASSUME NEW u \in Threads, Holds(u)'
      PROVE  CopyTells(u)'
  <2>1. CASE u = t
    <3>1. Stored(u)' = Copy(u)' /\ session'[u].since = {}
      BY <2>1, <1>1, <1>5 DEF Holds, Stored, Copy
    <3> QED BY <3>1 DEF CopyTells, SamePlace
  <2>2. CASE u # t
    <3>1. CopyTells(u)  BY <2>2, <1>1, <1>5 DEF Holds, SourcesInv
    <3> QED BY <2>2, <3>1, <1>1 DEF CopyTells, Stored, Copy
  <2> QED BY <2>1, <2>2
<1> QED BY <1>2, <1>4, <1>5 DEF SourcesInv

LEMMA SameSources ==
  ASSUME SourcesInv, session' = session, importSource' = importSource, raced' = raced
  PROVE  SourcesInv'
BY DEF SourcesInv, SourcesTyped, SessionsHold, Holds, CopyTells, Stored, Copy

LEMMA CreateInv ==
  ASSUME SourcesInv, NEW i \in ImportSources, importSource[i] = None,
         NEW row \in SourceRow, row.status = None, row.message = None,
         importSource' = [importSource EXCEPT ![i] = row], session' = session, raced' = raced
  PROVE  SourcesInv'
<1>0. SourcesTyped /\ SessionsHold  BY DEF SourcesInv
<1>1. /\ importSource'[i] = row
      /\ \A j \in ImportSources \ {i} : importSource'[j] = importSource[j]
      /\ importSource' \in [ImportSources -> SourceRow \cup {None}]
  BY <1>0 DEF SourcesTyped
<1>2. SourcesTyped'  BY <1>0, <1>1 DEF SourcesTyped
<1>3. \A u \in Threads : Holds(u) => session[u].source # i /\ Stored(u)' = Stored(u)
  <2> SUFFICES ASSUME NEW u \in Threads, Holds(u)
               PROVE  session[u].source # i /\ Stored(u)' = Stored(u)
    OBVIOUS
  <2>1. session[u].source \in ImportSources /\ importSource[session[u].source] # None
    BY <1>0, RowsAssumption DEF SessionsHold, Stored
  <2> QED BY <2>1, <1>1 DEF Stored
<1>4. SessionsHold'
  BY <1>0, <1>3 DEF SessionsHold, Holds, Copy
<1>5. (\A u \in Threads : Holds(u) => CopyTells(u))'
  <2> SUFFICES ASSUME NEW u \in Threads, Holds(u) PROVE CopyTells(u)'
    BY DEF Holds
  <2>1. CopyTells(u) /\ Stored(u)' = Stored(u) /\ Copy(u)' = Copy(u)
    BY <1>3 DEF SourcesInv, Copy
  <2> QED BY <2>1 DEF CopyTells
<1>6. (\A j \in ImportSources \ raced : importSource[j] # None => TellsTruth(importSource[j]))'
  <2> SUFFICES ASSUME NEW j \in ImportSources \ raced, importSource'[j] # None
               PROVE  TellsTruth(importSource'[j])
    OBVIOUS
  <2>1. CASE j = i  BY <2>1, <1>1 DEF TellsTruth
  <2>2. CASE j # i  BY <2>2, <1>1 DEF SourcesInv
  <2> QED BY <2>1, <2>2
<1> QED BY <1>2, <1>4, <1>5, <1>6 DEF SourcesInv

LEMMA CommitPollInv ==
  ASSUME SourcesInv, NEW t \in Threads, NEW found \in SUBSET Codes, CommitPoll(t, found)
  PROVE  /\ SourcesInv'
         /\ \A i \in ImportSources : importSource[i] # None => importSource'[i] # None
         /\ Commits(t, Polled(Copy(t), found), NoSession) /\ Holds(t)
<1>1. Holds(t) /\ session[t].op = "poll"  BY DEF CommitPoll, Holds
<1>2. Copy(t) \in SourceRow  BY <1>1 DEF SourcesInv, SessionsHold
<1> DEFINE new == Polled(Copy(t), found)
<1>3. new \in SourceRow /\ Writes(t, new)  BY <1>1, <1>2, PolledRow DEF Writes
<1>4. Commits(t, new, NoSession)
  <2>1. session[t].source \in ImportSources  BY <1>1 DEF SourcesInv, SessionsHold
  <2>2. importSource \in [ImportSources -> SourceRow \cup {None}]
    BY DEF SourcesInv, SourcesTyped
  <2> QED BY <1>1, <2>1, <2>2 DEF CommitPoll, Commits, Left, Stored, Copy, Other
<1>5. Goes(t, new, NoSession)  BY DEF Goes
<1> HIDE DEF new
<1> QED BY <1>1, <1>3, <1>4, <1>5, CommitInv DEF new

LEMMA CommitEditInv ==
  ASSUME SourcesInv, NEW t \in Threads, NEW p \in Patches, NEW after,
         Goes(t, Edited(Copy(t), p), after), CommitEdit(t, p, after)
  PROVE  /\ SourcesInv'
         /\ \A i \in ImportSources : importSource[i] # None => importSource'[i] # None
         /\ Commits(t, Edited(Copy(t), p), after) /\ Holds(t)
         /\ Edited(Copy(t), p) \in SourceRow
<1>1. Holds(t) /\ session[t].op = "edit"  BY DEF CommitEdit, Holds
<1>2. Copy(t) \in SourceRow  BY <1>1 DEF SourcesInv, SessionsHold
<1> DEFINE new == Edited(Copy(t), p)
<1>3. new \in SourceRow /\ Writes(t, new)
  <2>1. Location(new) \in Usable  BY DEF CommitEdit, Copy
  <2> QED BY <1>1, <1>2, <2>1, EditedRow DEF Writes
<1>4. Commits(t, new, after)
  <2>1. session[t].source \in ImportSources  BY <1>1 DEF SourcesInv, SessionsHold
  <2>2. importSource \in [ImportSources -> SourceRow \cup {None}]
    BY DEF SourcesInv, SourcesTyped
  <2> QED BY <1>1, <2>1, <2>2 DEF CommitEdit, Commits, Left, Stored, Copy, Other
<1> HIDE DEF new
<1> QED BY <1>1, <1>3, <1>4, CommitInv DEF new

(* Taking up a row, and letting go.                                         *)
LEMMA LoadInv ==
  ASSUME SourcesInv, NEW t \in Threads, NEW i \in ImportSources, importSource[i] # None,
         NEW op \in {"edit", "poll"}, Load(t, op, i),
         importSource' = importSource, raced' = raced
  PROVE  /\ SourcesInv'
         /\ session'[t].op = op /\ session'[t].source = i /\ session'[t].batch = 0
         /\ \A u \in Threads \ {t} : session'[u] = session[u]
<1> DEFINE s == [NoSession EXCEPT !.op = op, !.source = i, !.loaded = importSource[i]]
<1>0. NoSession \in Session /\ NoSession.since = {} /\ NoSession.batch = 0
  BY SessionTypes DEF SourcesInv
<1>1. session' = [session EXCEPT ![t] = s]  BY DEF Load
<1>3. /\ s \in Session
      /\ s.op = op /\ s.source = i /\ s.loaded = importSource[i] /\ s.since = {} /\ s.batch = 0
  <2>1. importSource[i] \in SourceRow  BY DEF SourcesInv, SourcesTyped
  <2> QED BY <2>1, <1>0 DEF Session
<1> HIDE DEF s
<1>4. SourcesInv'  BY <1>1, <1>3, ReplaceInv
<1>5. session \in [Threads -> Session]  BY DEF SourcesInv, SourcesTyped
<1> QED BY <1>1, <1>3, <1>4, <1>5

LEMMA ReleaseInv ==
  ASSUME SourcesInv, NEW t \in Threads, session' = [session EXCEPT ![t] = NoSession],
         importSource' = importSource, raced' = raced
  PROVE  SourcesInv'
<1>1. /\ NoSession \in Session /\ NoSession.op = "idle" /\ NoSession.source = None
  BY SessionTypes DEF SourcesInv
<1> QED BY <1>1, ReplaceInv

(* create_batch() leaves a session that is to submit the batch.             *)
LEMMA CreateBatchInv ==
  ASSUME SourcesInv, RunsInv, NEW t \in Threads, NEW d, NEW agreed, NEW edited,
         CreateBatch(t, d, agreed, edited), importSource' = importSource, raced' = raced
  PROVE  /\ SourcesInv'
         /\ session'[t].op = "submit" /\ session'[t].batch = Len(batches) + 1
         /\ session'[t].source = None
         /\ \A u \in Threads \ {t} : session'[u] = session[u]
<1> DEFINE s == [NoSession EXCEPT !.op = "submit", !.batch = Len(batches) + 1]
<1>0. NoSession \in Session /\ NoSession.source = None
  BY SessionTypes DEF SourcesInv
<1>1. session' = [session EXCEPT ![t] = s]  BY DEF CreateBatch
<1>3. s \in Session /\ s.op = "submit" /\ s.source = None /\ s.batch = Len(batches) + 1
  <2>1. Len(batches) + 1 \in Nat  BY DEF RunsInv
  <2> QED BY <2>1, <1>0 DEF Session
<1> HIDE DEF s
<1>4. SourcesInv'  BY <1>1, <1>3, ReplaceInv
<1>5. session \in [Threads -> Session]  BY DEF SourcesInv, SourcesTyped
<1> QED BY <1>1, <1>3, <1>4, <1>5

(* What a source offers is among the sources that are configured.           *)
LEMMA DiscoverableCodes ==
  ASSUME NEW row, NEW wanted \in SUBSET Codes, NEW found \in Discoverable(row, wanted)
  PROVE  found \in SUBSET Codes
BY DEF Discoverable

-----------------------------------------------------------------------------
(* Definitions and what they refer to.                                      *)

LEMMA ReferencesKept ==
  ASSUME ReferencesInv, accounts' = accounts, definition' = definition,
         \A i \in ImportSources : importSource[i] # None => importSource'[i] # None
  PROVE  ReferencesInv'
<1> SUFFICES ASSUME NEW d \in Definitions, definition[d] # None
             PROVE  RefersToOwn(d)'
  BY DEF ReferencesInv
<1>1. RefersToOwn(d) /\ definition[d] \in DefinitionRow  BY DEF ReferencesInv
<1>2. definition[d].source \in ImportSources \cup {None}  BY <1>1 DEF DefinitionRow
<1> QED BY <1>1, <1>2 DEF RefersToOwn

LEMMA DefinitionWritten ==
  ASSUME ReferencesInv, accounts' = accounts, importSource' = importSource,
         NEW d \in Definitions, NEW f \in DefinitionForms, ValidDefinition(Owner[d], f),
         definition' = [definition EXCEPT ![d] = f]
  PROVE  /\ ReferencesInv'
         /\ \A e \in Definitions : definition[e] # None => definition'[e] # None
<1>1. f \in DefinitionRow /\ f # None  BY FormsAssumption, RowsAssumption
<1>2. /\ definition \in [Definitions -> DefinitionRow \cup {None}]
      /\ definition'[d] = f
      /\ \A e \in Definitions \ {d} : definition'[e] = definition[e]
  BY DEF ReferencesInv
<1>3. definition' \in [Definitions -> DefinitionRow \cup {None}]  BY <1>1, <1>2
<1>4. ASSUME NEW e \in Definitions, definition'[e] # None
      PROVE  RefersToOwn(e)'
  <2>1. CASE e = d  BY <2>1, <1>2 DEF RefersToOwn, ValidDefinition
  <2>2. CASE e # d  BY <2>2, <1>2, <1>4 DEF RefersToOwn, ReferencesInv
  <2> QED BY <2>1, <2>2
<1> QED BY <1>1, <1>2, <1>3, <1>4 DEF ReferencesInv

LEMMA AccountAdded ==
  ASSUME ReferencesInv, NEW a \in Accounts, accounts' = accounts \cup {a},
         importSource' = importSource, definition' = definition
  PROVE  ReferencesInv'
BY DEF ReferencesInv, RefersToOwn

-----------------------------------------------------------------------------
(* Runs.                                                                    *)

LEMMA RunsKept ==
  ASSUME RunsInv, batches' = batches, queue' = queue, worker' = worker,
         \A d \in Definitions : definition[d] # None => definition'[d] # None,
         \A t \in Threads : SessionRuns(t)'
  PROVE  RunsInv'
<1>1. ASSUME NEW n \in DOMAIN batches PROVE batches[n].definition \in Definitions
  <2>1. batches[n] \in Batch  BY DEF RunsInv
  <2> QED BY <2>1 DEF Batch
<1> QED BY <1>1 DEF RunsInv

LEMMA SessionRunsKept ==
  ASSUME NEW t \in Threads, SessionRuns(t), session'[t].op = session[t].op,
         session'[t].batch = session[t].batch, DOMAIN batches \subseteq DOMAIN batches'
  PROVE  SessionRuns(t)'
BY DEF SessionRuns

LEMMA CommitRuns ==
  ASSUME SourcesInv, RunsInv, NEW t \in Threads, Holds(t), NEW new \in SourceRow,
         NEW after, Goes(t, new, after), Commits(t, new, after),
         DOMAIN batches \subseteq DOMAIN batches'
  PROVE  \A u \in Threads : SessionRuns(u)'
<1> SUFFICES ASSUME NEW u \in Threads PROVE SessionRuns(u)'
  OBVIOUS
<1>1. /\ session'[t] = after
      /\ \A v \in Threads \ {t} :
           session'[v].op = session[v].op /\ session'[v].batch = session[v].batch
  BY SessionsAfter DEF Commits
<1>2. CASE u # t  BY <1>1, <1>2, SessionRunsKept DEF RunsInv
<1>3. CASE u = t /\ after = NoSession
  <2>1. session'[u].op = "idle" /\ session'[u].batch = 0  BY <1>1, <1>3 DEF NoSession
  <2> QED BY <2>1 DEF SessionRuns
<1>4. CASE u = t /\ after # NoSession
  <2>1. session[t] \in Session  BY DEF SourcesInv, SourcesTyped
  <2>2. session'[u].op = "poll" /\ session'[u].batch = session[t].batch
    BY <1>1, <1>4, <2>1 DEF Goes, Session
  <2>3. session[t].batch = 0  BY DEF RunsInv, SessionRuns, Holds
  <2> QED BY <2>2, <2>3 DEF SessionRuns
<1> QED BY <1>2, <1>3, <1>4

(* Writing the status of a run.                                             *)
LEMMA StatusWritten ==
  ASSUME batches \in Seq(Batch), NEW n \in Nat, NEW status \in RunStates,
         batches' = [batches EXCEPT ![n].status = status]
  PROVE  /\ batches' \in Seq(Batch) /\ DOMAIN batches' = DOMAIN batches
         /\ \A m \in DOMAIN batches :
              /\ batches'[m].definition = batches[m].definition
              /\ batches'[m].agreed = batches[m].agreed
              /\ batches'[m].edited = batches[m].edited
<1>1. DOMAIN batches = 1..Len(batches) /\ Len(batches) \in Nat
  OBVIOUS
<1>2. DOMAIN batches' = DOMAIN batches
  OBVIOUS
<1>3. ASSUME NEW m \in DOMAIN batches
      PROVE  /\ batches'[m] \in Batch
             /\ batches'[m].definition = batches[m].definition
             /\ batches'[m].agreed = batches[m].agreed
             /\ batches'[m].edited = batches[m].edited
  <2>1. batches[m] \in Batch  OBVIOUS
  <2>2. batches'[m] = batches[m] \/ batches'[m] = [batches[m] EXCEPT !.status = status]
    OBVIOUS
  <2> QED BY <2>1, <2>2 DEF Batch
<1>4. batches' \in [1..Len(batches) -> Batch]
  <2>1. batches' = [m \in 1..Len(batches) |-> batches'[m]]  BY <1>1
  <2> QED BY <2>1, <1>1, <1>3
<1>5. batches' \in Seq(Batch)  BY <1>1, <1>4, SeqDef
<1> QED BY <1>2, <1>3, <1>5

LEMMA BatchAppended ==
  ASSUME RunsInv, NEW t \in Threads, NEW d \in Definitions, definition[d] # None,
         NEW agreed \in BOOLEAN, NEW edited \in BOOLEAN, CreateBatch(t, d, agreed, edited)
  PROVE  /\ batches' \in Seq(Batch) /\ DOMAIN batches' = DOMAIN batches \cup {Len(batches) + 1}
         /\ Len(batches) + 1 \notin DOMAIN batches
         /\ batches'[Len(batches) + 1] =
              [definition |-> d, status |-> "live", agreed |-> agreed, edited |-> edited]
         /\ \A n \in DOMAIN batches : batches'[n] = batches[n]
<1> DEFINE b == [definition |-> d, status |-> "live", agreed |-> agreed, edited |-> edited]
<1>1. b \in Batch  BY DEF Batch, RunStates
<1>2. batches \in Seq(Batch) /\ batches' = Append(batches, b)  BY DEF RunsInv, CreateBatch
<1> HIDE DEF b
<1>3. /\ batches' \in Seq(Batch) /\ Len(batches') = Len(batches) + 1
      /\ batches'[Len(batches) + 1] = b
      /\ \A n \in 1..Len(batches) : batches'[n] = batches[n]
  BY <1>1, <1>2
<1>4. DOMAIN batches = 1..Len(batches) /\ DOMAIN batches' = 1..(Len(batches) + 1)
      /\ Len(batches) \in Nat
  BY <1>2, <1>3
<1> QED BY <1>3, <1>4 DEF b

-----------------------------------------------------------------------------
(* Every step preserves the invariant, one lemma per operation.             *)

LEMMA InitInv == WorkspaceInit => WorkspaceInv
<1> SUFFICES ASSUME WorkspaceInit PROVE WorkspaceInv
  OBVIOUS
<1> USE DEF WorkspaceInit
<1>1. SourcesTyped
  <2>1. NoSession \in Session  BY DEF NoSession, Session
  <2> QED BY <2>1, SeedsAssumption DEF SourcesTyped
<1>2. \A t \in Threads : session[t] = NoSession /\ ~Holds(t)
  BY DEF Holds, NoSession
<1>3. SessionsHold  BY <1>2 DEF SessionsHold, NoSession
<1>4. \A i \in ImportSources : importSource[i] # None => TellsTruth(importSource[i])
  BY SeedsAssumption DEF TellsTruth
<1>5. SourcesInv  BY <1>1, <1>2, <1>3, <1>4 DEF SourcesInv
<1>6. ReferencesInv  BY SeedsAssumption DEF ReferencesInv, RefersToOwn
<1>7. RunsInv
  <2>1. \A t \in Threads : SessionRuns(t)
    BY <1>2 DEF SessionRuns, NoSession
  <2>2. batches \in Seq(Batch) /\ queue \in Seq(Nat) /\ DOMAIN batches = {} /\ DOMAIN queue = {}
    OBVIOUS
  <2> QED BY <2>1, <2>2 DEF RunsInv, IdleWorker
<1> QED BY <1>5, <1>6, <1>7, BoundsAssumption DEF WorkspaceInv

LEMMA CreateAccountInv ==
  ASSUME WorkspaceInv, NEW a \in Accounts, CreateAccount(a)
  PROVE  WorkspaceInv'
<1> USE DEF CreateAccount, WorkspaceInv
<1>1. SourcesInv'  BY SameSources
<1>2. ReferencesInv'  BY AccountAdded
<1>3. RunsInv'  BY RunsKept DEF RunsInv, SessionRuns
<1> QED BY <1>1, <1>2, <1>3, BoundsAssumption DEF Requested

LEMMA WriteDefinitionInv ==
  ASSUME WorkspaceInv, NEW d \in Definitions, CreateDefinition(d) \/ UpdateDefinition(d)
  PROVE  WorkspaceInv'
<1> USE DEF WorkspaceInv
<1>1. PICK f \in DefinitionForms :
        ValidDefinition(Owner[d], f) /\ definition' = [definition EXCEPT ![d] = f]
  BY DEF CreateDefinition, UpdateDefinition
<1>2. /\ UNCHANGED <<accounts, importSource, batches, queue, worker, session, raced, overtaken>>
      /\ Requested
  BY DEF CreateDefinition, UpdateDefinition
<1>3. SourcesInv'  BY <1>2, SameSources
<1>4. ReferencesInv' /\ \A e \in Definitions : definition[e] # None => definition'[e] # None
  BY <1>1, <1>2, DefinitionWritten
<1>5. RunsInv'  BY <1>2, <1>4, RunsKept DEF RunsInv, SessionRuns
<1> QED BY <1>2, <1>3, <1>4, <1>5, BoundsAssumption DEF Requested

LEMMA CreateImportSourceInv ==
  ASSUME WorkspaceInv, NEW i \in ImportSources, CreateImportSource(i)
  PROVE  WorkspaceInv'
<1> USE DEF WorkspaceInv, CreateImportSource
<1>1. PICK f \in SourceForms :
        /\ Location(f) \in Usable
        /\ importSource' = [importSource EXCEPT ![i] =
             [kind |-> f.kind, connection |-> f.connection, enabled |-> f.enabled,
              status |-> None, message |-> None]]
  OBVIOUS
<1> DEFINE row == [kind |-> f.kind, connection |-> f.connection, enabled |-> f.enabled,
                   status |-> None, message |-> None]
<1>2. row \in SourceRow /\ row.status = None /\ row.message = None
  <2>1. <<f.kind, f.connection>> \in Kinds \X Connections
    BY <1>1, RowsAssumption DEF Location
  <2> QED BY <2>1, FormsAssumption DEF SourceRow
<1> HIDE DEF row
<1>3. importSource' = [importSource EXCEPT ![i] = row]  BY <1>1 DEF row
<1>4. SourcesInv'  BY <1>2, <1>3, CreateInv
<1>5. \A j \in ImportSources : importSource[j] # None => importSource'[j] # None
  BY <1>3
<1>6. ReferencesInv'  BY <1>5, ReferencesKept
<1>7. RunsInv'  BY RunsKept DEF RunsInv, SessionRuns
<1> QED BY <1>4, <1>6, <1>7, BoundsAssumption DEF Requested

(* A session that is replaced, while the runs stay.                         *)
LEMMA SessionRunsReplaced ==
  ASSUME RunsInv, NEW t \in Threads, session'[t].op # "submit", session'[t].batch = 0,
         \A u \in Threads \ {t} : session'[u] = session[u],
         DOMAIN batches' = DOMAIN batches
  PROVE  \A u \in Threads : SessionRuns(u)'
BY DEF RunsInv, SessionRuns

LEMMA OpenImportSourceInv ==
  ASSUME WorkspaceInv, NEW t \in Threads, NEW i \in ImportSources, OpenImportSource(t, i)
  PROVE  WorkspaceInv'
<1> USE DEF WorkspaceInv, OpenImportSource
<1>1. PICK op \in {"edit", "poll"} : Load(t, op, i) /\ importSource[i] # None
  BY DEF BeginEdit, BeginPoll
<1>2. /\ SourcesInv'
      /\ session'[t].op # "submit" /\ session'[t].batch = 0
      /\ \A u \in Threads \ {t} : session'[u] = session[u]
  BY <1>1, LoadInv
<1>3. \A u \in Threads : SessionRuns(u)'  BY <1>2, SessionRunsReplaced
<1>4. RunsInv'  BY <1>3, RunsKept
<1>5. ReferencesInv'  BY ReferencesKept
<1> QED BY <1>2, <1>4, <1>5, BoundsAssumption DEF Requested

LEMMA LetGo ==
  ASSUME SourcesInv, RunsInv, NEW t \in Threads,
         session' = [session EXCEPT ![t] = NoSession], DOMAIN batches' = DOMAIN batches
  PROVE  \A u \in Threads : SessionRuns(u)'
<1>1. NoSession.op = "idle" /\ NoSession.batch = 0  BY DEF NoSession
<1>2. session \in [Threads -> Session]  BY DEF SourcesInv, SourcesTyped
<1> QED BY <1>1, <1>2, SessionRunsReplaced

LEMMA SaveImportSourceInv ==
  ASSUME WorkspaceInv, NEW t \in Threads, SaveImportSource(t)
  PROVE  WorkspaceInv'
<1> USE DEF WorkspaceInv, SaveImportSource
<1>1. PICK p \in Patches : CommitEdit(t, p, NoSession) \/ RefuseEdit(t, p)
  OBVIOUS
<1>2. CASE CommitEdit(t, p, NoSession)
  <2>1. Goes(t, Edited(Copy(t), p), NoSession)  BY DEF Goes
  <2>2. /\ SourcesInv'
        /\ \A i \in ImportSources : importSource[i] # None => importSource'[i] # None
        /\ Commits(t, Edited(Copy(t), p), NoSession) /\ Holds(t)
        /\ Edited(Copy(t), p) \in SourceRow
    BY <1>2, <2>1, CommitEditInv
  <2>3. \A u \in Threads : SessionRuns(u)'  BY <2>1, <2>2, CommitRuns
  <2>4. RunsInv'  BY <2>3, RunsKept
  <2>5. ReferencesInv'  BY <2>2, ReferencesKept
  <2> QED BY <2>2, <2>4, <2>5
<1>3. CASE RefuseEdit(t, p)
  <2>1. SourcesInv'  BY <1>3, ReleaseInv DEF RefuseEdit
  <2>2. \A u \in Threads : SessionRuns(u)'  BY <1>3, LetGo DEF RefuseEdit
  <2>3. RunsInv'  BY <2>2, RunsKept
  <2>4. ReferencesInv'  BY <1>3, ReferencesKept DEF RefuseEdit
  <2> QED BY <2>1, <2>3, <2>4
<1> QED BY <1>1, <1>2, <1>3

(* A commit of a poll, whatever becomes of the worker and the runs.         *)
LEMMA PollCommitted ==
  ASSUME SourcesInv, ReferencesInv, RunsInv, NEW t \in Threads, NEW found \in SUBSET Codes,
         CommitPoll(t, found), accounts' = accounts, definition' = definition,
         DOMAIN batches \subseteq DOMAIN batches'
  PROVE  SourcesInv' /\ ReferencesInv' /\ \A u \in Threads : SessionRuns(u)'
<1>1. /\ SourcesInv'
      /\ \A i \in ImportSources : importSource[i] # None => importSource'[i] # None
      /\ Commits(t, Polled(Copy(t), found), NoSession) /\ Holds(t)
  BY CommitPollInv
<1>2. Polled(Copy(t), found) \in SourceRow
  <2>1. Copy(t) \in SourceRow  BY <1>1 DEF SourcesInv, SessionsHold
  <2> QED BY <2>1, PolledRow
<1>3. Goes(t, Polled(Copy(t), found), NoSession)  BY DEF Goes
<1>4. \A u \in Threads : SessionRuns(u)'  BY <1>1, <1>2, <1>3, CommitRuns
<1>5. ReferencesInv'  BY <1>1, ReferencesKept
<1> QED BY <1>1, <1>4, <1>5

LEMMA ProbeImportSourceInv ==
  ASSUME WorkspaceInv, NEW t \in Threads, ProbeImportSource(t)
  PROVE  WorkspaceInv'
<1> USE DEF WorkspaceInv, ProbeImportSource
<1>1. session[t].source \in ImportSources
  BY DEF SourcesInv, SessionsHold, Holds
<1>2. SourcesOf[Owner[session[t].source]] \in SUBSET Codes  BY <1>1, RowsAssumption
<1>3. PICK found \in Discoverable(session[t].loaded, SourcesOf[Owner[session[t].source]]) :
        CommitPoll(t, found)
  OBVIOUS
<1>4. found \in SUBSET Codes  BY <1>2, <1>3, DiscoverableCodes
<1>5. SourcesInv' /\ ReferencesInv' /\ \A u \in Threads : SessionRuns(u)'
  BY <1>3, <1>4, PollCommitted
<1>6. RunsInv'  BY <1>5, RunsKept
<1> QED BY <1>5, <1>6

(* create_batch(), for a definition that is there.                          *)
LEMMA BatchCreated ==
  ASSUME WorkspaceInv, NEW t \in Threads, NEW d \in Definitions, definition[d] # None,
         NEW agreed \in BOOLEAN, NEW edited \in BOOLEAN, CreateBatch(t, d, agreed, edited),
         UNCHANGED <<accounts, importSource, definition, queue, worker, changes, raced, overtaken>>
  PROVE  WorkspaceInv'
<1> USE DEF WorkspaceInv
<1>1. /\ SourcesInv'
      /\ session'[t].op = "submit" /\ session'[t].batch = Len(batches) + 1
      /\ \A u \in Threads \ {t} : session'[u] = session[u]
  BY CreateBatchInv
<1> DEFINE b == [definition |-> d, status |-> "live", agreed |-> agreed, edited |-> edited]
<1>2. /\ batches' \in Seq(Batch) /\ DOMAIN batches' = DOMAIN batches \cup {Len(batches) + 1}
      /\ Len(batches) + 1 \notin DOMAIN batches /\ batches'[Len(batches) + 1] = b
      /\ \A n \in DOMAIN batches : batches'[n] = batches[n]
  BY BatchAppended
<1>3. Len(batches) + 1 # 0  BY DEF RunsInv
<1>4. \A u \in Threads : SessionRuns(u)'
  BY <1>1, <1>2, <1>3 DEF RunsInv, SessionRuns
<1>5. \A n \in DOMAIN batches' : definition'[batches'[n].definition] # None
  BY <1>2 DEF RunsInv
<1>6. RunsInv'
  <2> HIDE DEF b
  <2> QED BY <1>2, <1>4, <1>5 DEF RunsInv
<1>7. ReferencesInv'  BY ReferencesKept
<1> QED BY <1>1, <1>6, <1>7

LEMMA RunDefinitionInv ==
  ASSUME WorkspaceInv, NEW t \in Threads, NEW d \in Definitions, RunDefinition(t, d)
  PROVE  WorkspaceInv'
BY BatchCreated DEF RunDefinition

LEMMA SubmitBatchInv ==
  ASSUME WorkspaceInv, NEW t \in Threads, SubmitBatch(t)
  PROVE  WorkspaceInv'
<1> USE DEF WorkspaceInv, SubmitBatch, Submit
<1>1. SourcesInv'  BY ReleaseInv
<1>2. ReferencesInv'  BY ReferencesKept
<1>3. session[t].batch \in DOMAIN batches
  BY DEF RunsInv, SessionRuns
<1>4. batches[session[t].batch].definition \in Definitions
  <2>1. batches[session[t].batch] \in Batch  BY <1>3 DEF RunsInv
  <2> QED BY <2>1 DEF Batch
<1>5. overtaken' \subseteq Definitions  BY <1>4
<1>6. queue' \in Seq(Nat) /\ \A k \in DOMAIN queue' : queue'[k] \in DOMAIN batches
  <2>1. session[t].batch \in Nat  BY SessionTypes DEF SourcesInv
  <2>2. queue \in Seq(Nat) /\ queue' = Append(queue, session[t].batch)  BY DEF RunsInv
  <2>3. queue' \in Seq(Nat)  BY <2>1, <2>2
  <2>4. ASSUME NEW k \in DOMAIN queue' PROVE queue'[k] \in DOMAIN batches
    <3>1. k \in 1..Len(queue) + 1  BY <2>2, <2>1, <2>4
    <3>2. CASE k = Len(queue) + 1  BY <3>2, <2>1, <2>2, <1>3
    <3>3. CASE k \in 1..Len(queue)
      <4>1. k \in DOMAIN queue /\ queue'[k] = queue[k]  BY <3>3, <2>1, <2>2
      <4> QED BY <4>1 DEF RunsInv
    <3> QED BY <3>1, <3>2, <3>3, <2>2
  <2> QED BY <2>3, <2>4
<1>7. \A u \in Threads : SessionRuns(u)'  BY LetGo
<1>8. RunsInv'  BY <1>6, <1>7 DEF RunsInv
<1> QED BY <1>1, <1>2, <1>5, <1>8

LEMMA QueueHead ==
  ASSUME RunsInv, queue # << >>
  PROVE  /\ Head(queue) \in DOMAIN batches
         /\ Tail(queue) \in Seq(Nat)
         /\ \A k \in DOMAIN Tail(queue) : Tail(queue)[k] \in DOMAIN batches
<1>1. queue \in Seq(Nat) /\ Len(queue) \in Nat /\ Len(queue) > 0 /\ 1 \in DOMAIN queue
  BY DEF RunsInv
<1>2. Head(queue) = queue[1] /\ Tail(queue) \in Seq(Nat)  BY <1>1
<1>3. ASSUME NEW k \in DOMAIN Tail(queue) PROVE Tail(queue)[k] \in DOMAIN batches
  <2>1. k \in 1..(Len(queue) - 1)  BY <1>1, <1>3
  <2>2. Tail(queue)[k] = queue[k + 1] /\ k + 1 \in DOMAIN queue  BY <1>1, <2>1
  <2> QED BY <2>2 DEF RunsInv
<1> QED BY <1>1, <1>2, <1>3 DEF RunsInv

LEMMA TakeBatchInv ==
  ASSUME WorkspaceInv, TakeBatch
  PROVE  WorkspaceInv'
<1> USE DEF WorkspaceInv
<1> DEFINE n == Head(queue)
           d == batches[n].definition
           f == definition[d]
<1>0. /\ queue # << >> /\ queue' = Tail(queue)
      /\ UNCHANGED <<accounts, importSource, definition, changes, raced, overtaken>>
  BY DEF TakeBatch
<1>1. /\ n \in DOMAIN batches /\ queue' \in Seq(Nat)
      /\ \A k \in DOMAIN queue' : queue'[k] \in DOMAIN batches
  BY <1>0, QueueHead
<1>2. d \in Definitions /\ f # None /\ f \in DefinitionRow /\ RefersToOwn(d) /\ n \in Nat
  <2>1. batches[n] \in Batch /\ n \in Nat  BY <1>1 DEF RunsInv
  <2> QED BY <2>1, <1>1 DEF RunsInv, ReferencesInv, Batch
<1>3. ReferencesInv'  BY <1>0, ReferencesKept
<1>4. CASE f.source = None
  <2>1. /\ batches' = [batches EXCEPT ![n].status = "FAILED"]
        /\ worker' = worker /\ session' = session
    BY <1>4 DEF TakeBatch
  <2>2. SourcesInv'  BY <2>1, <1>0, SameSources
  <2>3. /\ batches' \in Seq(Batch) /\ DOMAIN batches' = DOMAIN batches
        /\ \A m \in DOMAIN batches : batches'[m].definition = batches[m].definition
    <3>1. batches \in Seq(Batch) /\ "FAILED" \in RunStates  BY DEF RunsInv, RunStates
    <3> QED BY <3>1, <2>1, <1>2, StatusWritten
  <2>4. \A u \in Threads : SessionRuns(u)'  BY <2>1, <2>3 DEF RunsInv, SessionRuns
  <2>5. RunsInv'
    <3> HIDE DEF n, d, f
    <3> QED BY <2>1, <2>3, <2>4, <1>0, <1>1 DEF RunsInv
  <2> QED BY <2>2, <2>5, <1>3, <1>0
<1>5. CASE f.source # None
  <2>1. /\ worker' = [pc |-> "import", batch |-> n, wanted |-> f.wanted]
        /\ Load("worker", "poll", f.source) /\ batches' = batches
    BY <1>5 DEF TakeBatch
  <2>2. f.source \in ImportSources /\ importSource[f.source] # None /\ f.wanted \subseteq Codes
    BY <1>2, <1>5 DEF DefinitionRow, RefersToOwn
  <2>3. "worker" \in Threads  BY DEF Threads
  <2>4. /\ SourcesInv'
        /\ session'["worker"].op # "submit" /\ session'["worker"].batch = 0
        /\ \A u \in Threads \ {"worker"} : session'[u] = session[u]
    BY <2>1, <2>2, <2>3, <1>0, LoadInv
  <2>5. \A u \in Threads : SessionRuns(u)'  BY <2>1, <2>3, <2>4, SessionRunsReplaced
  <2>6. worker' \in [pc : {"idle", "import", "process"}, batch : DOMAIN batches \cup {0},
                     wanted : SUBSET Codes]
    BY <2>1, <2>2, <1>1
  <2>7. RunsInv'
    <3> HIDE DEF n, d, f
    <3> QED BY <2>1, <2>5, <2>6, <1>0, <1>1 DEF RunsInv
  <2> QED BY <2>4, <2>7, <1>3, <1>0
<1> QED BY <1>4, <1>5

(* The worker ends the run.                                                 *)
LEMMA EndBatchInv ==
  ASSUME RunsInv, NEW status \in RunStates, EndBatch(status), queue' = queue,
         definition' = definition
  PROVE  /\ DOMAIN batches' = DOMAIN batches
         /\ (\A t \in Threads : SessionRuns(t)') => RunsInv'
<1>1. worker.batch \in Nat /\ batches \in Seq(Batch)  BY DEF RunsInv
<1>2. /\ batches' \in Seq(Batch) /\ DOMAIN batches' = DOMAIN batches
      /\ \A m \in DOMAIN batches : batches'[m].definition = batches[m].definition
  BY <1>1, StatusWritten DEF EndBatch
<1>3. worker' \in [pc : {"idle", "import", "process"}, batch : DOMAIN batches \cup {0},
                   wanted : SUBSET Codes]
  BY DEF EndBatch, IdleWorker
<1> QED BY <1>2, <1>3 DEF RunsInv

LEMMA ImportFilesInv ==
  ASSUME WorkspaceInv, ImportFiles
  PROVE  WorkspaceInv'
<1> USE DEF WorkspaceInv
<1>0. UNCHANGED <<accounts, definition, queue, changes, overtaken>>  BY DEF ImportFiles
<1>1. "worker" \in Threads /\ worker.wanted \in SUBSET Codes  BY DEF Threads, RunsInv
<1>2. PICK found \in Discoverable(session["worker"].loaded, worker.wanted) :
        /\ CommitPoll("worker", found)
        /\ IF worker.wanted \subseteq found
           THEN worker' = [worker EXCEPT !.pc = "process"] /\ UNCHANGED batches
           ELSE EndBatch("FAILED")
  BY DEF ImportFiles
<1>3. found \in SUBSET Codes  BY <1>1, <1>2, DiscoverableCodes
<1>4. DOMAIN batches' = DOMAIN batches
  <2>1. CASE worker.wanted \subseteq found  BY <1>2, <2>1
  <2>2. CASE ~(worker.wanted \subseteq found)
    BY <1>2, <2>2, <1>0, EndBatchInv DEF RunStates
  <2> QED BY <2>1, <2>2
<1>5. SourcesInv' /\ ReferencesInv' /\ \A u \in Threads : SessionRuns(u)'
  BY <1>0, <1>1, <1>2, <1>3, <1>4, PollCommitted
<1>6. RunsInv'
  <2>1. CASE worker.wanted \subseteq found
    <3>1. worker' = [worker EXCEPT !.pc = "process"] /\ UNCHANGED batches  BY <1>2, <2>1
    <3>2. worker' \in [pc : {"idle", "import", "process"}, batch : DOMAIN batches \cup {0},
                       wanted : SUBSET Codes]
      BY <3>1 DEF RunsInv
    <3> QED BY <3>1, <3>2, <1>0, <1>5 DEF RunsInv
  <2>2. CASE ~(worker.wanted \subseteq found)
    <3>1. EndBatch("FAILED") /\ "FAILED" \in RunStates  BY <1>2, <2>2 DEF RunStates
    <3> QED BY <3>1, <1>0, <1>5, EndBatchInv
  <2> QED BY <2>1, <2>2
<1> QED BY <1>0, <1>5, <1>6

LEMMA EndRunInv ==
  ASSUME WorkspaceInv, EndRun
  PROVE  WorkspaceInv'
<1> USE DEF WorkspaceInv, EndRun
<1>1. PICK status \in RunStates : EndBatch(status)  BY DEF RunStates
<1>2. DOMAIN batches' = DOMAIN batches /\ ((\A t \in Threads : SessionRuns(t)') => RunsInv')
  BY <1>1, EndBatchInv
<1>3. \A t \in Threads : SessionRuns(t)'  BY <1>2 DEF RunsInv, SessionRuns
<1>4. SourcesInv'  BY SameSources
<1>5. ReferencesInv'  BY ReferencesKept
<1> QED BY <1>2, <1>3, <1>4, <1>5

LEMMA WorkspaceStutterInv ==
  ASSUME WorkspaceInv, UNCHANGED workspaceVars
  PROVE  WorkspaceInv'
<1> USE DEF WorkspaceInv, workspaceVars
<1>1. SourcesInv'  BY SameSources
<1>2. ReferencesInv'  BY ReferencesKept
<1>3. RunsInv'  BY RunsKept DEF RunsInv, SessionRuns
<1> QED BY <1>1, <1>2, <1>3

LEMMA RowStepInv == ASSUME WorkspaceInv, RowStep PROVE WorkspaceInv'
BY CreateAccountInv, CreateImportSourceInv, WriteDefinitionInv DEF RowStep

LEMMA WorkerStepInv == ASSUME WorkspaceInv, WorkerStep PROVE WorkspaceInv'
BY TakeBatchInv, ImportFilesInv, EndRunInv DEF WorkerStep

LEMMA OperatorStepInv ==
  ASSUME WorkspaceInv, NEW t \in Operators, OperatorStep(t) PROVE WorkspaceInv'
<1>1. t \in Threads  BY DEF Threads
<1> QED BY <1>1, OpenImportSourceInv, SaveImportSourceInv, ProbeImportSourceInv,
           RunDefinitionInv, SubmitBatchInv DEF OperatorStep

(* The inductive invariant of the workspace.                                *)
THEOREM WorkspaceInvariant == WorkspaceSpec => []WorkspaceInv
<1>1. WorkspaceInit => WorkspaceInv  BY InitInv
<1>2. WorkspaceInv /\ [WorkspaceNext]_workspaceVars => WorkspaceInv'
  <2> SUFFICES ASSUME WorkspaceInv, [WorkspaceNext]_workspaceVars PROVE WorkspaceInv'
    OBVIOUS
  <2>1. CASE RowStep  BY <2>1, RowStepInv
  <2>2. CASE WorkerStep  BY <2>2, WorkerStepInv
  <2>3. CASE \E t \in Operators : OperatorStep(t)  BY <2>3, OperatorStepInv
  <2>4. CASE UNCHANGED workspaceVars  BY <2>4, WorkspaceStutterInv
  <2> QED BY <2>1, <2>2, <2>3, <2>4 DEF WorkspaceNext
<1> QED BY <1>1, <1>2, PTL DEF WorkspaceSpec

LEMMA InvImpliesTypeOK == WorkspaceInv => WorkspaceTypeOK
<1> SUFFICES ASSUME WorkspaceInv PROVE WorkspaceTypeOK
  OBVIOUS
<1> USE DEF WorkspaceInv
<1>1. Queued \subseteq DOMAIN batches /\ queue \in Seq(Nat)  BY DEF RunsInv, Queued
<1>2. AwaitSubmission \subseteq DOMAIN batches \cup {0}
  BY DEF RunsInv, SessionRuns, AwaitSubmission
<1>3. /\ worker \in [pc : {"idle", "import", "process"}, batch : Nat, wanted : SUBSET Codes]
      /\ worker.batch \in DOMAIN batches \cup {0} /\ batches \in Seq(Batch)
  BY DEF RunsInv
<1>4. /\ importSource \in [ImportSources -> SourceRow \cup {None}]
      /\ session \in [Threads -> Session] /\ raced \subseteq ImportSources
  BY DEF SourcesInv, SourcesTyped
<1> QED BY <1>1, <1>2, <1>3, <1>4 DEF WorkspaceTypeOK, ReferencesInv

(* Type correctness of the rows, the runs and the sessions, and that every  *)
(* queued, running or awaited run is a row.                                 *)
THEOREM WorkspaceTypeCorrect == WorkspaceSpec => []WorkspaceTypeOK
BY WorkspaceInvariant, InvImpliesTypeOK, PTL

LEMMA InvImpliesFresh == WorkspaceInv => FreshPollResult
BY DEF WorkspaceInv, SourcesInv, TellsTruth, FreshPollResult

(* However many requests and the worker interleave between the load and the *)
(* commit of an import source: unless an edit and a poll of it overlapped,  *)
(* the stored poll result was obtained at the connection that is stored.    *)
THEOREM FreshPolls == WorkspaceSpec => []FreshPollResult
BY WorkspaceInvariant, InvImpliesFresh, PTL

(* A definition names an account and an import source that exist and that   *)
(* belong to its own client.                                                *)
THEOREM OwnReferences ==
  WorkspaceSpec => [](\A d \in Definitions : definition[d] # None => RefersToOwn(d))
<1>1. WorkspaceInv => \A d \in Definitions : definition[d] # None => RefersToOwn(d)
  BY DEF WorkspaceInv, ReferencesInv
<1> QED BY <1>1, WorkspaceInvariant, PTL

-----------------------------------------------------------------------------
(* What the blotter says: the places of the runs that are under way, and    *)
(* the order in which the runs of a definition pass through them.           *)

Waiting(n) == \E t \in Threads : session[t].batch = n
InQueue(n) == \E k \in DOMAIN queue : queue[k] = n
UnderWay(n) == Waiting(n) \/ InQueue(n) \/ worker.batch = n

(* No run is in two places.                                                 *)
OnePlace ==
  /\ \A t, u \in Threads : t # u /\ session[t].batch # 0 => session[t].batch # session[u].batch
  /\ \A t \in Threads : session[t].batch # 0 =>
       ~InQueue(session[t].batch) /\ session[t].batch # worker.batch
  /\ \A j, k \in DOMAIN queue : j # k => queue[j] # queue[k]
  /\ \A k \in DOMAIN queue : queue[k] # worker.batch
  /\ worker.pc = "idle" <=> worker.batch = 0

LiveUnderWay == \A n \in DOMAIN batches : batches[n].status = "live" <=> UnderWay(n)

(* Wherever run m is, run n is behind it.                                   *)
Ahead(m, n) ==
  /\ Waiting(m) => Waiting(n)
  /\ \A k \in DOMAIN queue : queue[k] = m =>
       Waiting(n) \/ \E j \in DOMAIN queue : j > k /\ queue[j] = n
  /\ worker.batch = m => Waiting(n) \/ InQueue(n)

(* The earlier of two runs of a definition is ahead, unless they were       *)
(* submitted in the other order.                                            *)
InOrder ==
  \A m, n \in DOMAIN batches :
    m < n /\ batches[m].definition = batches[n].definition
    /\ batches[m].definition \notin overtaken => Ahead(m, n)

BlotterInv == OnePlace /\ LiveUnderWay /\ InOrder /\ session["worker"].batch = 0

(* The numbers of runs are positive, so 0 is none of them.                  *)
LEMMA RunNumbers ==
  ASSUME WorkspaceInv
  PROVE  /\ DOMAIN batches = 1..Len(batches) /\ Len(batches) \in Nat
         /\ DOMAIN queue = 1..Len(queue) /\ Len(queue) \in Nat
         /\ \A k \in DOMAIN queue : queue[k] \in DOMAIN batches
         /\ \A n \in DOMAIN batches : n \in Nat /\ n # 0
         /\ \A t \in Threads : session[t].op # "submit" => session[t].batch = 0
BY DEF WorkspaceInv, RunsInv, SessionRuns

(* Steps that leave every run where it is.                                  *)
LEMMA PlacesKept ==
  ASSUME BlotterInv, \A t \in Threads : session'[t].batch = session[t].batch,
         queue' = queue, worker'.batch = worker.batch,
         worker'.pc = "idle" <=> worker.pc = "idle",
         batches' = batches, overtaken' = overtaken
  PROVE  BlotterInv'
<1>1. \A n : /\ Waiting(n)' <=> Waiting(n)
             /\ InQueue(n)' <=> InQueue(n)
  BY DEF Waiting, InQueue
<1>2. OnePlace'  BY DEF BlotterInv, OnePlace, InQueue
<1>3. LiveUnderWay'  BY DEF BlotterInv, LiveUnderWay, UnderWay, Waiting, InQueue
<1>4. InOrder'  BY DEF BlotterInv, InOrder, Ahead, Waiting, InQueue
<1>5. session'["worker"].batch = 0  BY DEF BlotterInv, Threads
<1> QED BY <1>2, <1>3, <1>4, <1>5 DEF BlotterInv

(* create_batch(): the new run waits, and every other is ahead of it.       *)
LEMMA CreatedLast ==
  ASSUME WorkspaceInv, BlotterInv, NEW t \in Threads \ {"worker"}, session[t].batch = 0, NEW d \in Definitions,
         NEW new, new.definition = d, new.status = "live",
         DOMAIN batches' = DOMAIN batches \cup {Len(batches) + 1},
         batches'[Len(batches) + 1] = new,
         \A n \in DOMAIN batches : batches'[n] = batches[n],
         session'[t].batch = Len(batches) + 1,
         \A u \in Threads \ {t} : session'[u] = session[u],
         UNCHANGED <<queue, worker, overtaken>>
  PROVE  BlotterInv'
<1>0. PICK last : last = Len(batches) + 1  OBVIOUS
<1>1. /\ last \notin DOMAIN batches /\ last # 0
      /\ \A n \in DOMAIN batches : n < last /\ n # 0
      /\ \A k \in DOMAIN queue : queue[k] \in DOMAIN batches
      /\ worker.batch \in DOMAIN batches \cup {0}
      /\ \A u \in Threads : session[u].batch \in DOMAIN batches \cup {0}
  <2>1. RunsInv  BY DEF WorkspaceInv
  <2> QED BY <2>1, <1>0, RunNumbers DEF RunsInv, SessionRuns
<1>2. session'[t].batch = last /\ batches'[last] = new /\ DOMAIN batches' = DOMAIN batches \cup {last}
  BY <1>0
<1>3. /\ Waiting(last)'
      /\ \A n \in DOMAIN batches : Waiting(n)' <=> Waiting(n)
      /\ \A n : InQueue(n)' <=> InQueue(n)
  <2>1. Waiting(last)'  BY <1>2 DEF Waiting
  <2>2. ASSUME NEW n \in DOMAIN batches PROVE Waiting(n)' <=> Waiting(n)
    BY <1>1, <1>2 DEF Waiting
  <2>3. ASSUME NEW n PROVE InQueue(n)' <=> InQueue(n)
    BY DEF InQueue
  <2> QED BY <2>1, <2>2, <2>3
<1>4. OnePlace'
  <2>1. \A u, v \in Threads : u # v /\ session'[u].batch # 0 => session'[u].batch # session'[v].batch
    BY <1>1, <1>2 DEF BlotterInv, OnePlace
  <2>2. \A u \in Threads : session'[u].batch # 0 =>
          ~InQueue(session'[u].batch) /\ session'[u].batch # worker.batch
    BY <1>1, <1>2 DEF BlotterInv, OnePlace, InQueue
  <2> QED BY <2>1, <2>2 DEF BlotterInv, OnePlace, InQueue
<1>5. LiveUnderWay'
  <2>1. ASSUME NEW n \in DOMAIN batches PROVE batches'[n].status = "live" <=> UnderWay(n)'
    BY <1>3 DEF BlotterInv, LiveUnderWay, UnderWay
  <2>2. batches'[last].status = "live" /\ UnderWay(last)'
    BY <1>2, <1>3 DEF UnderWay
  <2> QED BY <1>2, <2>1, <2>2 DEF LiveUnderWay
<1>6. InOrder'
  <2> SUFFICES ASSUME NEW m \in DOMAIN batches', NEW n \in DOMAIN batches', m < n,
                      batches'[m].definition = batches'[n].definition,
                      batches'[m].definition \notin overtaken
               PROVE  Ahead(m, n)'
    BY DEF InOrder
  <2>1. m \in DOMAIN batches
    <3>1. CASE n = last  BY <1>1, <1>2, <3>1, RunNumbers
    <3>2. CASE n # last  BY <1>1, <1>2, <3>2, RunNumbers
    <3> QED BY <3>1, <3>2
  <2>2. CASE n = last  BY <1>3, <2>2 DEF Ahead
  <2>3. CASE n # last
    <3>1. n \in DOMAIN batches  BY <1>2, <2>3
    <3>2. Ahead(m, n)  BY <2>1, <3>1 DEF BlotterInv, InOrder
    <3> QED BY <1>3, <2>1, <3>1, <3>2 DEF Ahead
  <2> QED BY <2>2, <2>3
<1>7. session'["worker"].batch = 0  BY DEF BlotterInv, Threads
<1> QED BY <1>4, <1>5, <1>6, <1>7 DEF BlotterInv

(* runner.submit(): the run goes from its session to the end of the queue.  *)
LEMMA SubmittedBehind ==
  ASSUME WorkspaceInv, BlotterInv, NEW t \in Threads, SubmitBatch(t)
  PROVE  BlotterInv'
<1>0. PICK n : n = session[t].batch  OBVIOUS
<1>1. /\ n \in DOMAIN batches /\ n # 0 /\ n \in Nat /\ RunsInv
      /\ session'[t].batch = 0 /\ \A u \in Threads \ {t} : session'[u] = session[u]
      /\ batches' = batches /\ worker' = worker
      /\ overtaken' = IF \E m \in BatchesOf(batches[n].definition) \cap AwaitSubmission : m < n
                      THEN overtaken \cup {batches[n].definition} ELSE overtaken
  <2>1. session[t].op = "submit"  BY DEF SubmitBatch, Submit
  <2>2. session' = [session EXCEPT ![t] = NoSession] /\ SourcesTyped /\ RunsInv
    BY DEF SubmitBatch, Submit, WorkspaceInv, SourcesInv
  <2>3. session'[t].batch = 0 /\ \A u \in Threads \ {t} : session'[u] = session[u]
    BY <2>2, SessionTypes DEF SourcesTyped
  <2>4. n \in DOMAIN batches  BY <1>0, <2>1, <2>2 DEF RunsInv, SessionRuns
  <2> QED BY <1>0, <2>2, <2>3, <2>4, RunNumbers DEF SubmitBatch, Submit
<1>2. /\ Len(queue) \in Nat /\ DOMAIN queue = 1..Len(queue)
      /\ DOMAIN queue' = 1..(Len(queue) + 1) /\ queue'[Len(queue) + 1] = n
      /\ \A k \in DOMAIN queue : queue'[k] = queue[k]
  <2>1. queue \in Seq(Nat) /\ queue' = Append(queue, n)
    BY <1>0, <1>1 DEF RunsInv, SubmitBatch, Submit
  <2> QED BY <2>1, <1>1
<1>3. PICK last : last = Len(queue) + 1  OBVIOUS
<1>4. /\ DOMAIN queue' = DOMAIN queue \cup {last} /\ last \notin DOMAIN queue /\ queue'[last] = n
      /\ \A k \in DOMAIN queue : last > k /\ k \in Nat
  BY <1>2, <1>3
<1>5. /\ ~InQueue(n) /\ n # worker.batch
      /\ \A u \in Threads \ {t} : session[u].batch # n
      /\ \A k \in DOMAIN queue : queue[k] # n
  BY <1>0, <1>1 DEF BlotterInv, OnePlace, InQueue
<1>6. ASSUME NEW m \in DOMAIN batches
      PROVE  /\ Waiting(m)' <=> Waiting(m) /\ m # n
             /\ InQueue(m)' <=> InQueue(m) \/ m = n
  <2>1. Waiting(m)' <=> Waiting(m) /\ m # n
    BY <1>0, <1>1, <1>5, RunNumbers DEF Waiting
  <2>2. InQueue(m)' <=> InQueue(m) \/ m = n
    BY <1>2, <1>4 DEF InQueue
  <2> QED BY <2>1, <2>2
<1>7. OnePlace'
  <2>1. \A u, v \in Threads : u # v /\ session'[u].batch # 0 => session'[u].batch # session'[v].batch
    BY <1>1 DEF BlotterInv, OnePlace
  <2>2. ASSUME NEW u \in Threads, session'[u].batch # 0
        PROVE  /\ \A j \in DOMAIN queue' : queue'[j] # session'[u].batch
               /\ session'[u].batch # worker'.batch
    <3>1. u # t /\ session'[u] = session[u] /\ session[u].batch # n /\ worker' = worker
      BY <1>1, <1>5, <2>2
    <3>2. ~InQueue(session[u].batch) /\ session[u].batch # worker.batch
      BY <2>2, <3>1 DEF BlotterInv, OnePlace
    <3> QED BY <1>2, <1>4, <3>1, <3>2 DEF InQueue
  <2>3. \A j, k \in DOMAIN queue' : j # k => queue'[j] # queue'[k]
    BY <1>2, <1>4, <1>5 DEF BlotterInv, OnePlace
  <2>4. \A k \in DOMAIN queue' : queue'[k] # worker'.batch
    BY <1>1, <1>2, <1>4, <1>5 DEF BlotterInv, OnePlace
  <2>5. worker'.pc = "idle" <=> worker'.batch = 0  BY <1>1 DEF BlotterInv, OnePlace
  <2> QED BY <2>1, <2>2, <2>3, <2>4, <2>5 DEF OnePlace, InQueue
<1>8. LiveUnderWay'
  BY <1>0, <1>1, <1>6 DEF BlotterInv, LiveUnderWay, UnderWay, Waiting
<1>9. InOrder'
  <2> SUFFICES ASSUME NEW m \in DOMAIN batches, NEW k \in DOMAIN batches, m < k,
                      batches[m].definition = batches[k].definition,
                      batches[m].definition \notin overtaken'
               PROVE  Ahead(m, k)'
    BY <1>1 DEF InOrder
  <2>1. Ahead(m, k) /\ m # k
    BY <1>1, RunNumbers DEF BlotterInv, InOrder
  <2>2. CASE m = n
    BY <1>1, <1>2, <1>4, <1>5, <1>6, <2>1, <2>2, <1>0 DEF Ahead, Waiting
  <2>3. CASE k = n
    <3>1. ~Waiting(m)
      <4> SUFFICES ASSUME Waiting(m) PROVE FALSE
        OBVIOUS
      <4>1. m \in BatchesOf(batches[n].definition) \cap AwaitSubmission
        BY <2>3 DEF Waiting, BatchesOf, AwaitSubmission
      <4> QED BY <1>1, <2>3, <4>1
    <3>2. \A j \in DOMAIN queue' : queue'[j] = m => last > j
      BY <1>4, <2>1, <2>3
    <3> QED BY <1>1, <1>4, <1>6, <2>3, <3>1, <3>2 DEF Ahead
  <2>4. CASE m # n /\ k # n
    <3>1. Waiting(m)' => Waiting(k)'  BY <1>6, <2>1, <2>4 DEF Ahead
    <3>2. ASSUME NEW j \in DOMAIN queue', queue'[j] = m
          PROVE  Waiting(k)' \/ \E i \in DOMAIN queue' : i > j /\ queue'[i] = k
      <4>1. j \in DOMAIN queue /\ queue[j] = m  BY <1>2, <1>4, <2>4, <3>2
      <4> QED BY <4>1, <1>2, <1>4, <1>6, <2>1, <2>4 DEF Ahead
    <3>3. worker'.batch = m => Waiting(k)' \/ InQueue(k)'
      BY <1>1, <1>6, <2>1, <2>4 DEF Ahead
    <3> QED BY <3>1, <3>2, <3>3 DEF Ahead
  <2> QED BY <2>2, <2>3, <2>4
<1>10. session'["worker"].batch = 0  BY <1>1 DEF BlotterInv, Threads
<1> QED BY <1>7, <1>8, <1>9, <1>10 DEF BlotterInv

(* The executor hands out the run at the head.                              *)
LEMMA Dequeued ==
  ASSUME WorkspaceInv, queue # << >>, queue' = Tail(queue)
  PROVE  /\ 1 \in DOMAIN queue /\ queue[1] = Head(queue)
         /\ \A j \in DOMAIN queue' : j \in Nat /\ j + 1 \in DOMAIN queue /\ queue'[j] = queue[j + 1]
         /\ \A j \in DOMAIN queue : j \in Nat /\ j >= 1
         /\ \A j \in DOMAIN queue : j # 1 => j - 1 \in DOMAIN queue' /\ queue'[j - 1] = queue[j]
<1>1. queue \in Seq(Nat) /\ Len(queue) \in Nat /\ Len(queue) > 0  BY DEF WorkspaceInv, RunsInv
<1> QED BY <1>1

LEMMA TailOf ==
  ASSUME WorkspaceInv, BlotterInv, queue # << >>, queue' = Tail(queue)
  PROVE  /\ \A m : InQueue(m)' <=> InQueue(m) /\ m # Head(queue)
         /\ \A j, k \in DOMAIN queue' : j # k => queue'[j] # queue'[k]
         /\ ~Waiting(Head(queue)) /\ worker.batch # Head(queue)
         /\ Head(queue) \in DOMAIN batches
<1>0. Head(queue) \in DOMAIN batches  BY QueueHead DEF WorkspaceInv
<1>1. PICK n : n = Head(queue)  OBVIOUS
<1>2. /\ 1 \in DOMAIN queue /\ queue[1] = n /\ n \in DOMAIN batches /\ n # 0
      /\ \A j, k \in DOMAIN queue : j # k => queue[j] # queue[k]
      /\ \A t \in Threads : session[t].batch # 0 => ~InQueue(session[t].batch)
      /\ \A k \in DOMAIN queue : queue[k] # worker.batch
  BY <1>0, <1>1, Dequeued, RunNumbers DEF BlotterInv, OnePlace
<1>3. ASSUME NEW m PROVE InQueue(m)' <=> InQueue(m) /\ m # n
  <2>1. ASSUME NEW j \in DOMAIN queue', queue'[j] = m PROVE InQueue(m) /\ m # n
    <3>1. j + 1 \in DOMAIN queue /\ j + 1 # 1 /\ queue[j + 1] = m
      <4>1. j \in Nat /\ j \in DOMAIN queue' /\ j + 1 \in DOMAIN queue /\ queue[j + 1] = m
        BY <2>1, Dequeued
      <4>2. j # 0
        <5>1. queue \in Seq(Nat)  BY DEF WorkspaceInv, RunsInv
        <5> QED BY <5>1, <2>1
      <4> QED BY <4>1, <4>2
    <3> QED BY <3>1, <1>2 DEF InQueue
  <2>2. ASSUME NEW j \in DOMAIN queue, queue[j] = m, m # n
        PROVE  \E i \in DOMAIN queue' : queue'[i] = m
    BY <2>2, <1>2, Dequeued
  <2> QED BY <2>1, <2>2 DEF InQueue
<1>4. \A j, k \in DOMAIN queue' : j # k => queue'[j] # queue'[k]
  BY <1>2, Dequeued
<1>5. ~Waiting(n)  BY <1>2 DEF Waiting, InQueue
<1>6. worker.batch # n  BY <1>2
<1> QED BY <1>0, <1>1, <1>3, <1>4, <1>5, <1>6

(* execute(): the run at the head is at work, or has failed at once.        *)
LEMMA TakenFromHead ==
  ASSUME WorkspaceInv, BlotterInv, TakeBatch
  PROVE  BlotterInv'
<1>0. PICK n : n = Head(queue)  OBVIOUS
<1>1. /\ queue # << >> /\ queue' = Tail(queue) /\ overtaken' = overtaken
      /\ worker.pc = "idle" /\ worker.batch = 0
  BY DEF TakeBatch, BlotterInv, OnePlace
<1>2. /\ \A m : InQueue(m)' <=> InQueue(m) /\ m # n
      /\ \A j, k \in DOMAIN queue' : j # k => queue'[j] # queue'[k]
      /\ ~Waiting(n) /\ n \in DOMAIN batches /\ n # 0 /\ InQueue(n) /\ queue[1] = n
      /\ 1 \in DOMAIN queue
  BY <1>0, <1>1, TailOf, Dequeued, RunNumbers DEF InQueue
<1>3. /\ \A u \in Threads : session'[u].batch = session[u].batch
      /\ DOMAIN batches' = DOMAIN batches
      /\ \A m \in DOMAIN batches : batches'[m].definition = batches[m].definition
      /\ \A m \in DOMAIN batches : m # n => batches'[m] = batches[m]
      /\ \/ batches'[n].status = "FAILED" /\ worker' = worker
         \/ batches' = batches /\ worker'.batch = n /\ worker'.pc # "idle"
  <2> DEFINE f == definition[batches[n].definition]
  <2>1. CASE f.source = None
    <3>1. batches' = [batches EXCEPT ![n].status = "FAILED"] /\ worker' = worker /\ session' = session
      BY <1>0, <2>1 DEF TakeBatch
    <3>2. batches \in Seq(Batch) /\ n \in Nat /\ "FAILED" \in RunStates
      BY <1>2, RunNumbers DEF WorkspaceInv, RunsInv, RunStates
    <3>3. batches[n] \in Batch  BY <1>2, <3>2
    <3>4. batches'[n].status = "FAILED"  BY <1>2, <3>1, <3>3 DEF Batch
    <3>5. \A m \in DOMAIN batches : m # n => batches'[m] = batches[m]  BY <3>1
    <3> QED BY <3>1, <3>2, <3>4, <3>5, StatusWritten
  <2>2. CASE f.source # None
    <3>1. /\ worker' = [pc |-> "import", batch |-> n, wanted |-> f.wanted]
          /\ Load("worker", "poll", f.source) /\ batches' = batches
      BY <1>0, <2>2 DEF TakeBatch
    <3>2. session'["worker"].batch = 0 /\ \A u \in Threads \ {"worker"} : session'[u] = session[u]
      <4>1. "worker" \in Threads /\ SourcesTyped  BY DEF Threads, WorkspaceInv, SourcesInv
      <4>2. NoSession.batch = 0 /\ NoSession \in Session  BY <4>1, SessionTypes
      <4>3. [NoSession EXCEPT !.op = "poll", !.source = f.source,
                              !.loaded = importSource[f.source]].batch = 0
        BY <4>2 DEF Session
      <4> QED BY <3>1, <4>1, <4>3 DEF Load, SourcesTyped
    <3> QED BY <3>1, <3>2 DEF BlotterInv
  <2> QED BY <2>1, <2>2
<1>4. \A m : Waiting(m)' <=> Waiting(m)  BY <1>3 DEF Waiting
<1>5. OnePlace'
  <2>1. \A u, v \in Threads : u # v /\ session'[u].batch # 0 => session'[u].batch # session'[v].batch
    BY <1>3 DEF BlotterInv, OnePlace
  <2>2. ASSUME NEW u \in Threads, session'[u].batch # 0
        PROVE  /\ \A j \in DOMAIN queue' : queue'[j] # session'[u].batch
               /\ session'[u].batch # worker'.batch
    <3>1. PICK m : m = session[u].batch  OBVIOUS
    <3>2. m # 0 /\ m # n /\ ~InQueue(m) /\ m # worker.batch /\ session'[u].batch = m
      BY <1>2, <1>3, <2>2, <3>1 DEF BlotterInv, OnePlace
    <3>3. ~InQueue(m)'  BY <1>2, <3>2
    <3> QED BY <1>3, <3>2, <3>3 DEF InQueue
  <2>3. \A k \in DOMAIN queue' : queue'[k] # worker'.batch
    <3>1. ASSUME NEW k \in DOMAIN queue' PROVE queue'[k] # worker'.batch
      <4>1. PICK m : m = queue'[k]  OBVIOUS
      <4>2. InQueue(m)'  BY <4>1 DEF InQueue
      <4>3. InQueue(m) /\ m # n  BY <1>2, <4>2
      <4>4. m # 0  BY <4>3, RunNumbers DEF InQueue
      <4> QED BY <1>1, <1>3, <4>1, <4>3, <4>4
    <3> QED BY <3>1
  <2>4. worker'.pc = "idle" <=> worker'.batch = 0  BY <1>1, <1>2, <1>3
  <2> QED BY <1>2, <2>1, <2>2, <2>3, <2>4 DEF OnePlace, InQueue
<1>6. LiveUnderWay'
  <2> SUFFICES ASSUME NEW m \in DOMAIN batches
               PROVE  batches'[m].status = "live" <=> UnderWay(m)'
    BY <1>3 DEF LiveUnderWay
  <2>1. batches[m].status = "live" <=> UnderWay(m)  BY DEF BlotterInv, LiveUnderWay
  <2>2. m # 0  BY RunNumbers
  <2>3. CASE m = n  BY <1>1, <1>2, <1>3, <1>4, <2>1, <2>2, <2>3 DEF UnderWay
  <2>4. CASE m # n  BY <1>1, <1>2, <1>3, <1>4, <2>1, <2>2, <2>4 DEF UnderWay
  <2> QED BY <2>3, <2>4
<1>7. InOrder'
  <2> SUFFICES ASSUME NEW m \in DOMAIN batches, NEW k \in DOMAIN batches, m < k,
                      batches[m].definition = batches[k].definition,
                      batches[m].definition \notin overtaken
               PROVE  Ahead(m, k)'
    BY <1>1, <1>3 DEF InOrder
  <2>1. Ahead(m, k) /\ m # k /\ m # 0
    BY RunNumbers DEF BlotterInv, InOrder
  <2>2. Waiting(m)' => Waiting(k)'  BY <1>4, <2>1 DEF Ahead
  <2>3. ASSUME NEW j \in DOMAIN queue', queue'[j] = m, ~Waiting(k)
        PROVE  \E h \in DOMAIN queue' : h > j /\ queue'[h] = k
    <3>1. j \in Nat /\ j + 1 \in DOMAIN queue /\ queue[j + 1] = m  BY <1>1, <2>3, Dequeued
    <3>2. PICK h \in DOMAIN queue : h > j + 1 /\ queue[h] = k
      BY <2>1, <2>3, <3>1 DEF Ahead
    <3>3. h \in Nat /\ h # 1 /\ h - 1 \in DOMAIN queue' /\ queue'[h - 1] = k /\ h - 1 > j
      BY <1>1, <3>1, <3>2, Dequeued
    <3> QED BY <3>3
  <2>4. worker'.batch = m => Waiting(k)' \/ InQueue(k)'
    <3>1. SUFFICES ASSUME worker'.batch = m, ~Waiting(k) PROVE InQueue(k)'
      BY <1>4
    <3>2. m = n  BY <1>1, <1>3, <2>1, <3>1
    <3>3. InQueue(k)  BY <1>2, <2>1, <3>1, <3>2 DEF Ahead, InQueue
    <3> QED BY <1>2, <2>1, <3>2, <3>3
  <2> QED BY <1>4, <2>2, <2>3, <2>4 DEF Ahead
<1>8. session'["worker"].batch = 0  BY <1>3 DEF BlotterInv, Threads
<1> QED BY <1>5, <1>6, <1>7, <1>8 DEF BlotterInv

(* A run that ends is nowhere any more.                                     *)
LEMMA EndedNowhere ==
  ASSUME WorkspaceInv, BlotterInv, worker.pc # "idle", NEW status \in {"CLOSED", "FAILED"},
         EndBatch(status), \A u \in Threads : session'[u].batch = session[u].batch,
         queue' = queue, overtaken' = overtaken
  PROVE  BlotterInv'
<1>0. PICK n : n = worker.batch  OBVIOUS
<1>1. n # 0 /\ n \in DOMAIN batches /\ ~Waiting(n) /\ ~InQueue(n) /\ n \in Nat
  <2>1. n # 0  BY <1>0 DEF BlotterInv, OnePlace
  <2>2. n \in DOMAIN batches  BY <1>0, <2>1 DEF WorkspaceInv, RunsInv
  <2> QED BY <1>0, <2>1, <2>2, RunNumbers DEF BlotterInv, OnePlace, Waiting, InQueue
<1>2. /\ DOMAIN batches' = DOMAIN batches
      /\ \A m \in DOMAIN batches : batches'[m].definition = batches[m].definition
      /\ \A m \in DOMAIN batches : m # n => batches'[m] = batches[m]
      /\ batches'[n].status = status
      /\ worker'.batch = 0 /\ worker'.pc = "idle"
  <2>1. batches' = [batches EXCEPT ![n].status = status] /\ worker' = IdleWorker
    BY <1>0 DEF EndBatch
  <2>2. batches \in Seq(Batch) /\ status \in RunStates
    BY DEF WorkspaceInv, RunsInv, RunStates
  <2>3. batches[n] \in Batch  BY <1>1, <2>2
  <2>4. batches'[n].status = status  BY <1>1, <2>1, <2>3 DEF Batch
  <2> QED BY <1>1, <2>1, <2>2, <2>4, StatusWritten DEF IdleWorker
<1>3. \A m : (Waiting(m)' <=> Waiting(m)) /\ (InQueue(m)' <=> InQueue(m))
  BY DEF Waiting, InQueue
<1>4. OnePlace'
  <2>1. \A k \in DOMAIN queue : queue[k] # 0  BY RunNumbers
  <2> QED BY <1>2, <2>1 DEF BlotterInv, OnePlace, InQueue
<1>5. LiveUnderWay'
  <2> SUFFICES ASSUME NEW m \in DOMAIN batches
               PROVE  batches'[m].status = "live" <=> UnderWay(m)'
    BY <1>2 DEF LiveUnderWay
  <2>1. batches[m].status = "live" <=> UnderWay(m)  BY DEF BlotterInv, LiveUnderWay
  <2>2. m # 0  BY RunNumbers
  <2>3. CASE m = n  BY <1>1, <1>2, <1>3, <2>2, <2>3 DEF UnderWay
  <2>4. CASE m # n  BY <1>0, <1>2, <1>3, <2>1, <2>2, <2>4 DEF UnderWay
  <2> QED BY <2>3, <2>4
<1>6. InOrder'
  <2> SUFFICES ASSUME NEW m \in DOMAIN batches, NEW k \in DOMAIN batches, m < k,
                      batches[m].definition = batches[k].definition,
                      batches[m].definition \notin overtaken
               PROVE  Ahead(m, k)'
    BY <1>2 DEF InOrder
  <2>1. Ahead(m, k) /\ m # 0  BY RunNumbers DEF BlotterInv, InOrder
  <2> QED BY <1>2, <1>3, <2>1 DEF Ahead
<1>7. session'["worker"].batch = 0  BY DEF BlotterInv, Threads
<1> QED BY <1>4, <1>5, <1>6, <1>7 DEF BlotterInv

(* A session that lets its row go, or that takes one, submits no run.       *)
LEMMA PollPlaces ==
  ASSUME WorkspaceInv, NEW t \in Threads, NEW found \in SUBSET Codes, CommitPoll(t, found)
  PROVE  \A u \in Threads : session'[u].batch = session[u].batch
<1>1. SourcesInv /\ session[t].op = "poll" /\ session[t].batch = 0 /\ Copy(t) \in SourceRow
      /\ SourcesTyped /\ Holds(t)
  BY RunNumbers DEF CommitPoll, WorkspaceInv, SourcesInv, SessionsHold, Holds
<1>2. /\ Polled(Copy(t), found) \in SourceRow /\ Goes(t, Polled(Copy(t), found), NoSession)
      /\ session' = Overtaken(t, NoSession)
  BY <1>1, PolledRow DEF Goes, CommitPoll
<1>3. /\ session'[t] = NoSession
      /\ \A u \in Threads \ {t} : session'[u].batch = session[u].batch
  BY <1>1, <1>2, SessionsAfter
<1>4. session'[t].batch = 0  BY <1>1, <1>3, SessionTypes
<1> QED BY <1>1, <1>3, <1>4

LEMMA ReleasePlaces ==
  ASSUME WorkspaceInv, NEW t \in Threads, session[t].op # "submit",
         session' = [session EXCEPT ![t] = NoSession]
  PROVE  \A u \in Threads : session'[u].batch = session[u].batch
<1>1. SourcesTyped /\ session[t].batch = 0  BY RunNumbers DEF WorkspaceInv, SourcesInv
<1>2. NoSession.batch = 0  BY <1>1, SessionTypes
<1> QED BY <1>1, <1>2 DEF SourcesTyped

LEMMA EditPlaces ==
  ASSUME WorkspaceInv, NEW t \in Threads, NEW p \in Patches, CommitEdit(t, p, NoSession)
  PROVE  \A u \in Threads : session'[u].batch = session[u].batch
<1>1. SourcesInv /\ SourcesTyped /\ session[t].op = "edit" /\ session[t].batch = 0
  BY RunNumbers DEF CommitEdit, WorkspaceInv, SourcesInv
<1>2. Goes(t, Edited(Copy(t), p), NoSession)  BY DEF Goes
<1>3. Holds(t) /\ Edited(Copy(t), p) \in SourceRow  BY <1>1, <1>2, CommitEditInv
<1>4. session' = Overtaken(t, NoSession)  BY DEF CommitEdit
<1>5. /\ session'[t] = NoSession
      /\ \A u \in Threads \ {t} : session'[u].batch = session[u].batch
  BY <1>1, <1>2, <1>3, <1>4, SessionsAfter
<1>6. session'[t].batch = 0  BY <1>1, <1>5, SessionTypes
<1> QED BY <1>1, <1>5, <1>6

LEMMA LoadPlaces ==
  ASSUME WorkspaceInv, NEW t \in Threads, session[t].op # "submit", NEW i \in ImportSources,
         importSource[i] # None, NEW op \in {"edit", "poll"}, Load(t, op, i),
         importSource' = importSource, raced' = raced
  PROVE  \A u \in Threads : session'[u].batch = session[u].batch
<1>1. session[t].batch = 0 /\ SourcesInv  BY RunNumbers DEF WorkspaceInv
<1>2. session'[t].batch = 0 /\ \A u \in Threads \ {t} : session'[u] = session[u]
  BY <1>1, LoadInv
<1> QED BY <1>1, <1>2

LEMMA OperatorPlaces ==
  ASSUME WorkspaceInv, BlotterInv, NEW t \in Operators, OperatorStep(t)
  PROVE  BlotterInv'
<1>0. t \in Threads \ {"worker"}  BY RowsAssumption DEF Threads
<1>1. ASSUME NEW i \in ImportSources, OpenImportSource(t, i) PROVE BlotterInv'
  <2>1. PICK op \in {"edit", "poll"} :
          Load(t, op, i) /\ importSource[i] # None /\ session[t].op = "idle"
    BY <1>1 DEF OpenImportSource, BeginEdit, BeginPoll
  <2>2. UNCHANGED <<importSource, batches, queue, worker, raced, overtaken>>
    BY <1>1 DEF OpenImportSource
  <2>3. \A u \in Threads : session'[u].batch = session[u].batch
    BY <1>0, <2>1, <2>2, LoadPlaces
  <2> QED BY <2>2, <2>3, PlacesKept
<1>2. CASE SaveImportSource(t)
  <2>1. UNCHANGED <<batches, queue, worker, overtaken>>  BY <1>2 DEF SaveImportSource
  <2>2. \A u \in Threads : session'[u].batch = session[u].batch
    <3>1. PICK p \in Patches : CommitEdit(t, p, NoSession) \/ RefuseEdit(t, p)
      BY <1>2 DEF SaveImportSource
    <3>2. CASE CommitEdit(t, p, NoSession)  BY <1>0, <3>2, EditPlaces
    <3>3. CASE RefuseEdit(t, p)  BY <1>0, <3>3, ReleasePlaces DEF RefuseEdit
    <3> QED BY <3>1, <3>2, <3>3
  <2> QED BY <2>1, <2>2, PlacesKept
<1>3. CASE ProbeImportSource(t)
  <2>1. UNCHANGED <<batches, queue, worker, overtaken>> /\ session[t].op = "poll"
    BY <1>3 DEF ProbeImportSource
  <2>2. session[t].source \in ImportSources
    BY <1>0, <2>1 DEF WorkspaceInv, SourcesInv, SessionsHold, Holds
  <2>3. SourcesOf[Owner[session[t].source]] \in SUBSET Codes  BY <2>2, RowsAssumption
  <2>4. PICK found \in SUBSET Codes : CommitPoll(t, found)
    BY <1>3, <2>3, DiscoverableCodes DEF ProbeImportSource
  <2>5. \A u \in Threads : session'[u].batch = session[u].batch  BY <1>0, <2>4, PollPlaces
  <2> QED BY <2>1, <2>5, PlacesKept
<1>4. ASSUME NEW d \in Definitions, RunDefinition(t, d) PROVE BlotterInv'
  <2> DEFINE b == [definition |-> d, status |-> "live", agreed |-> TRUE, edited |-> FALSE]
  <2>1. /\ session[t].op = "idle" /\ definition[d] # None /\ CreateBatch(t, d, TRUE, FALSE)
        /\ UNCHANGED <<importSource, queue, worker, raced, overtaken>>
    BY <1>4 DEF RunDefinition
  <2>2. session[t].batch = 0 /\ RunsInv /\ SourcesInv  BY <1>0, <2>1, RunNumbers DEF WorkspaceInv
  <2>3. /\ DOMAIN batches' = DOMAIN batches \cup {Len(batches) + 1}
        /\ batches'[Len(batches) + 1] = b
        /\ \A n \in DOMAIN batches : batches'[n] = batches[n]
    BY <1>0, <2>1, <2>2, BatchAppended
  <2>4. session'[t].batch = Len(batches) + 1 /\ \A u \in Threads \ {t} : session'[u] = session[u]
    BY <1>0, <2>1, <2>2, CreateBatchInv
  <2>5. b.definition = d /\ b.status = "live"  OBVIOUS
  <2> HIDE DEF b
  <2> QED BY <1>0, <2>1, <2>2, <2>3, <2>4, <2>5, CreatedLast
<1>5. CASE SubmitBatch(t)  BY <1>0, <1>5, SubmittedBehind
<1> QED BY <1>1, <1>2, <1>3, <1>4, <1>5 DEF OperatorStep

LEMMA WorkerPlaces ==
  ASSUME WorkspaceInv, BlotterInv, WorkerStep
  PROVE  BlotterInv'
<1>1. CASE TakeBatch  BY <1>1, TakenFromHead
<1>2. CASE ImportFiles
  <2>1. "worker" \in Threads /\ worker.wanted \in SUBSET Codes
    BY DEF Threads, WorkspaceInv, RunsInv
  <2>2. PICK found \in Discoverable(session["worker"].loaded, worker.wanted) :
          /\ CommitPoll("worker", found)
          /\ IF worker.wanted \subseteq found
             THEN worker' = [worker EXCEPT !.pc = "process"] /\ UNCHANGED batches
             ELSE EndBatch("FAILED")
    BY <1>2 DEF ImportFiles
  <2>3. \A u \in Threads : session'[u].batch = session[u].batch
    BY <2>1, <2>2, DiscoverableCodes, PollPlaces
  <2>4. queue' = queue /\ overtaken' = overtaken /\ worker.pc = "import"  BY <1>2 DEF ImportFiles
  <2>5. CASE worker.wanted \subseteq found
    <3>1. batches' = batches /\ worker'.batch = worker.batch /\ worker'.pc = "process"
      BY <2>2, <2>5 DEF WorkspaceInv, RunsInv
    <3> QED BY <2>3, <2>4, <3>1, PlacesKept
  <2>6. CASE ~(worker.wanted \subseteq found)
    <3>1. EndBatch("FAILED") /\ worker.pc # "idle"  BY <2>2, <2>4, <2>6
    <3> QED BY <2>3, <2>4, <3>1, EndedNowhere
  <2> QED BY <2>5, <2>6
<1>3. CASE EndRun
  <2>1. PICK status \in {"CLOSED", "FAILED"} : EndBatch(status)  BY <1>3 DEF EndRun
  <2>2. /\ queue' = queue /\ overtaken' = overtaken /\ worker.pc # "idle"
        /\ \A u \in Threads : session'[u].batch = session[u].batch
    BY <1>3 DEF EndRun
  <2> QED BY <2>1, <2>2, EndedNowhere
<1> QED BY <1>1, <1>2, <1>3 DEF WorkerStep

LEMMA RowsPlaces ==
  ASSUME BlotterInv, RowStep \/ UNCHANGED workspaceVars
  PROVE  BlotterInv'
<1>1. UNCHANGED <<batches, queue, worker, session, overtaken>>
  BY DEF RowStep, CreateAccount, CreateImportSource, CreateDefinition, UpdateDefinition,
         workspaceVars
<1> QED BY <1>1, PlacesKept

LEMMA InitPlaces == WorkspaceInit => BlotterInv
<1> SUFFICES ASSUME WorkspaceInit PROVE BlotterInv
  OBVIOUS
<1>1. WorkspaceInv  BY InitInv
<1>2. /\ DOMAIN batches = {} /\ DOMAIN queue = {} /\ worker.pc = "idle" /\ worker.batch = 0
  BY DEF WorkspaceInit, IdleWorker
<1>3. \A t \in Threads : session[t].batch = 0
  <2>1. SourcesTyped  BY <1>1 DEF WorkspaceInv, SourcesInv
  <2> QED BY <2>1, SessionTypes DEF WorkspaceInit
<1>4. OnePlace  BY <1>2, <1>3 DEF OnePlace
<1>5. LiveUnderWay /\ InOrder  BY <1>2 DEF LiveUnderWay, InOrder
<1>6. session["worker"].batch = 0  BY <1>3 DEF Threads
<1> QED BY <1>4, <1>5, <1>6 DEF BlotterInv

(* Every run that waits or is at work is live, every live run does, and the *)
(* earlier of two runs of a definition is ahead of the later.               *)
LEMMA BlotterInvariant == WorkspaceSpec => []BlotterInv
<1>1. WorkspaceInit => BlotterInv  BY InitPlaces
<1>2. WorkspaceInv /\ BlotterInv /\ [WorkspaceNext]_workspaceVars => BlotterInv'
  <2> SUFFICES ASSUME WorkspaceInv, BlotterInv, [WorkspaceNext]_workspaceVars PROVE BlotterInv'
    OBVIOUS
  <2>1. CASE RowStep \/ UNCHANGED workspaceVars  BY <2>1, RowsPlaces
  <2>2. CASE WorkerStep  BY <2>2, WorkerPlaces
  <2>3. CASE \E t \in Operators : OperatorStep(t)  BY <2>3, OperatorPlaces
  <2> QED BY <2>1, <2>2, <2>3 DEF WorkspaceNext
<1> QED BY <1>1, <1>2, WorkspaceInvariant, PTL DEF WorkspaceSpec

(* latest_batch() is the last run of the definition, if it has any.         *)
LEMMA LatestIsLast ==
  ASSUME WorkspaceInv, NEW d
  PROVE  /\ BatchesOf(d) = {} => LatestBatch(d) = 0
         /\ BatchesOf(d) # {} =>
              LatestBatch(d) \in BatchesOf(d) /\ \A m \in BatchesOf(d) : m <= LatestBatch(d)
<1>1. ASSUME BatchesOf(d) # {}
      PROVE  LatestBatch(d) \in BatchesOf(d) /\ \A m \in BatchesOf(d) : m <= LatestBatch(d)
  <2>1. BatchesOf(d) \in SUBSET (0..Len(batches)) /\ Len(batches) \in Nat
    BY RunNumbers DEF BatchesOf
  <2>2. \E n \in BatchesOf(d) : \A m \in BatchesOf(d) : m <= n
    BY <1>1, <2>1, LargestOf
  <2> QED BY <1>1, <2>2 DEF LatestBatch
<1> QED BY <1>1 DEF LatestBatch

LEMMA BlotterImplies == WorkspaceInv /\ BlotterInv => BlotterTellsRuns
<1> SUFFICES ASSUME WorkspaceInv, BlotterInv,
                    NEW d \in Definitions \ overtaken, definition[d] # None, definition[d].enabled,
                    NEW found \in SUBSET Codes \cup {None}
             PROVE  DefinitionState(d, found) = "RUNNING"
                      <=> BatchesOf(d) \cap (AwaitSubmission \cup Queued \cup {worker.batch}) # {}
  BY DEF BlotterTellsRuns
<1> DEFINE last == LatestBatch(d)
           latest == IF last = 0 THEN None ELSE batches[last].status
<1>1. /\ BatchesOf(d) = {} => last = 0
      /\ BatchesOf(d) # {} => last \in BatchesOf(d) /\ \A m \in BatchesOf(d) : m <= last
  BY LatestIsLast
<1>2. \A m \in BatchesOf(d) : m \in DOMAIN batches /\ batches[m].definition = d /\ m # 0 /\ m \in Nat
  BY RunNumbers DEF BatchesOf
<1>3. \A m \in BatchesOf(d) :
        m \in AwaitSubmission \cup Queued \cup {worker.batch} <=> UnderWay(m)
  BY DEF AwaitSubmission, Queued, UnderWay, Waiting, InQueue
<1>4. \A m \in BatchesOf(d) : UnderWay(m) <=> batches[m].status = "live"
  BY <1>2 DEF BlotterInv, LiveUnderWay
<1>5. latest \in RunStates \cup {None}
  <2>1. CASE last = 0  BY <2>1
  <2>2. CASE last # 0
    <3>1. last \in DOMAIN batches  BY <1>1, <1>2, <2>2
    <3>2. batches[last] \in Batch  BY <3>1 DEF WorkspaceInv, RunsInv
    <3> QED BY <2>2, <3>2 DEF Batch
  <2> QED BY <2>1, <2>2
<1>6. None \notin {"live"}  BY RowsAssumption
<1>7. latest = "live" <=> \E m \in BatchesOf(d) : UnderWay(m)
  <2>1. ASSUME latest = "live" PROVE \E m \in BatchesOf(d) : UnderWay(m)
    <3>1. last # 0  BY <2>1, <1>6
    <3> QED BY <2>1, <3>1, <1>1, <1>4
  <2>2. ASSUME NEW m \in BatchesOf(d), UnderWay(m) PROVE latest = "live"
    <3>1. last \in BatchesOf(d) /\ m <= last /\ last # 0  BY <1>1, <1>2
    <3>2. CASE m = last  BY <2>2, <3>1, <3>2, <1>4
    <3>3. CASE m # last
      <4>1. m < last  BY <3>1, <3>3, <1>2
      <4>2. Ahead(m, last)
        <5> HIDE DEF last, latest
        <5> QED BY <4>1, <3>1, <1>2 DEF BlotterInv, InOrder
      <4>3. UnderWay(last)  BY <2>2, <4>2 DEF Ahead, UnderWay, InQueue
      <4> QED BY <3>1, <4>3, <1>4
    <3> QED BY <3>2, <3>3
  <2> QED BY <2>1, <2>2
<1>8. DefinitionState(d, found) = "RUNNING" <=> latest = "live"
  <2> DEFINE available == found # None /\ definition[d].source # None
                          /\ definition[d].wanted \subseteq found
             missing == found # None /\ definition[d].source # None /\ ~available
  <2>1. DefinitionState(d, found) =
          CASE ~definition[d].enabled -> "DISABLED"
            [] definition[d].enabled /\ latest = "live"   -> "RUNNING"
            [] definition[d].enabled /\ latest = "FAILED" -> "FAILED"
            [] definition[d].enabled /\ latest = "CLOSED" ->
                 IF missing THEN "AWAITING_DATA" ELSE "COMPLETED"
            [] definition[d].enabled /\ latest = None ->
                 IF available THEN "DATA_AVAILABLE" ELSE "AWAITING_DATA"
    BY DEF DefinitionState
  <2> HIDE DEF latest, available, missing
  <2> QED BY <2>1, <1>5, <1>6 DEF RunStates
<1> HIDE DEF last, latest
<1>9. (\E m \in BatchesOf(d) : UnderWay(m))
        <=> BatchesOf(d) \cap (AwaitSubmission \cup Queued \cup {worker.batch}) # {}
  BY <1>3
<1> QED BY <1>7, <1>8, <1>9

(* The blotter says RUNNING of an enabled definition exactly while a run of *)
(* it waits to be submitted, is queued or is at work, however many          *)
(* operators start runs of it, unless runs of the definition were submitted *)
(* in another order than they were created in (overtaken).                  *)
THEOREM BlotterTells == WorkspaceSpec => []BlotterTellsRuns
BY WorkspaceInvariant, BlotterInvariant, BlotterImplies, PTL
=============================================================================
