---------------------------- MODULE Normalization --------------------------
(***************************************************************************)
(* How a parsed row of a file becomes a transaction (normalization/,       *)
(* classification/): the columns are mapped to the fields of a             *)
(* transaction, its identifiers are brought to one form, a rule says what  *)
(* kind of money movement it is.                                           *)
(*                                                                         *)
(* A row is [cells |-> a function from columns, words |-> the texts of the *)
(* classification rules that occur somewhere in it].  A cell is a sequence *)
(* of items, blank when it is empty; a date or a number is a cell of one   *)
(* item, and a cell of several cannot be read as one.                      *)
(***************************************************************************)
EXTENDS Integers, Sequences, SequencesExt, FiniteSetsExt, Functions

CONSTANTS
  DataSources,        \* source_id -> [mappings, priority], of the bound version
  IdentifierRules,    \* identifier type -> the operations to normalize it with
  ClassificationRules,
  Spaces, Alphanumeric,   \* the characters an operation tells apart
  Recased,            \* "uppercase", "lowercase" -> a function of characters
  NoDate              \* a date that a row does not carry

NoText == ""

Blank(cell) == cell = << >>

Cell(row, column) == IF column \in DOMAIN row.cells THEN row.cells[column] ELSE << >>

Readable(cell) == Len(cell) = 1

DateFields == {"transaction_date", "value_date", "settlement_date"}

DecimalFields == {"fee_amount", "tax_amount", "adjustment_amount"}

-----------------------------------------------------------------------------
(* map_record()                                                             *)

(* The mappings to a field whose column holds something.                    *)
Filled(row, source, field) ==
  LET mappings == DataSources[source].mappings
  IN  {i \in DOMAIN mappings :
         mappings[i].field = field /\ ~Blank(Cell(row, mappings[i].column))}

Unreadable(row, source) ==
  \E i \in DOMAIN DataSources[source].mappings :
    LET mapping == DataSources[source].mappings[i]
        cell    == Cell(row, mapping.column)
    IN  \/ mapping.required /\ Blank(cell)
        \/ /\ mapping.field \in DateFields \cup DecimalFields \cup {"amount"}
           /\ ~Blank(cell) /\ ~Readable(cell)

Abs(n) == IF n < 0 THEN -n ELSE n

(* Seeded fault: the column's own sign is taken as it is.                   *)
Signed_AsRead(n, convention) == n

(* parse_decimal()                                                          *)
Signed(n, convention) ==
  CASE convention = "debit_negative"  -> -Abs(n)
    [] convention = "credit_positive" -> Abs(n)
    [] OTHER                          -> n

(* A bank statement splits the amount over two columns: what they hold is   *)
(* added up.  Every other field has the value of the last mapping to it.    *)
AmountOf(row, source) ==
  LET mappings == DataSources[source].mappings
  IN  SumFunction([i \in Filled(row, source, "amount") |->
                     Signed(Cell(row, mappings[i].column)[1], mappings[i].sign)])

LastCell(row, source, field) ==
  LET last == Max(Filled(row, source, field))
  IN  Cell(row, DataSources[source].mappings[last].column)

DayOf(row, source, field) ==
  IF Filled(row, source, field) = {} THEN NoDate ELSE LastCell(row, source, field)[1]

TextOf(row, source, field) ==
  IF Filled(row, source, field) = {} THEN NoText
  ELSE LET last   == Max(Filled(row, source, field))
           values == DataSources[source].mappings[last].values
           text   == LastCell(row, source, field)[1]
       IN  IF text \in DOMAIN values THEN values[text] ELSE text

-----------------------------------------------------------------------------
(* resolve_identifiers()                                                    *)

Trim(ref) ==
  LET inner == {i \in DOMAIN ref : ref[i] \notin Spaces}
  IN  IF inner = {} THEN << >> ELSE SubSeq(ref, Min(inner), Max(inner))

(* A run of spaces is one space.                                            *)
CollapseSpaces(ref) ==
  LET kept == {i \in DOMAIN ref :
                 i = 1 \/ ref[i] \notin Spaces \/ ref[i - 1] \notin Spaces}
  IN  Trim([k \in 1..Cardinality(kept) |->
              ref[CHOOSE i \in kept : Cardinality({j \in kept : j <= i}) = k]])

Operate(operation, ref) ==
  CASE operation = "trim"                   -> Trim(ref)
    [] operation = "collapse_whitespace"    -> CollapseSpaces(ref)
    [] operation = "strip_non_alphanumeric" -> SelectSeq(ref, LAMBDA c : c \in Alphanumeric)
    [] OTHER                                -> [i \in DOMAIN ref |-> Recased[operation][ref[i]]]

(* An identifier type without rules is only trimmed.                        *)
NormalForm(type, ref) ==
  IF type \in DOMAIN IdentifierRules /\ IdentifierRules[type] # << >>
  THEN FoldLeft(LAMBDA text, operation : Operate(operation, text), ref, IdentifierRules[type])
  ELSE Trim(ref)

IdentifierMappings(row, source, type) ==
  {i \in Filled(row, source, "identifier") : DataSources[source].mappings[i].type = type}

Identifiers(row, source) ==
  LET mappings == DataSources[source].mappings
      types    == {mappings[i].type : i \in Filled(row, source, "identifier")}
  IN  [type \in types |->
         NormalForm(type, Cell(row, mappings[Max(IdentifierMappings(row, source, type))].column))]

CanonicalReference(ids, priority) ==
  LET usable == {i \in DOMAIN priority : priority[i] \in DOMAIN ids /\ ids[priority[i]] # << >>}
  IN  IF usable = {} THEN << >> ELSE ids[priority[Min(usable)]]

-----------------------------------------------------------------------------
(* classify()                                                               *)

RuleMatches(rule, source, row) ==
  /\ rule.when # [source |-> NoText, text |-> NoText]
  /\ rule.when.source = NoText \/ rule.when.source = source
  /\ rule.when.text = NoText \/ rule.when.text \in row.words

(* The first rule that matches wins, else the last one marked default.      *)
WinningRule(row, source) ==
  LET matching == {i \in DOMAIN ClassificationRules :
                     /\ ~ClassificationRules[i].default
                     /\ RuleMatches(ClassificationRules[i], source, row)}
      defaults == {i \in DOMAIN ClassificationRules : ClassificationRules[i].default}
  IN  CASE matching # {}                   -> ClassificationRules[Min(matching)].set
        [] matching = {} /\ defaults # {} -> ClassificationRules[Max(defaults)].set
        [] OTHER                           -> << >>

Attribute(row, source, field, otherwise) ==
  IF field \in DOMAIN WinningRule(row, source) THEN WinningRule(row, source)[field]
                                               ELSE otherwise

(* What the row states itself beats what a rule infers.                     *)
CounterpartyType(row, source) ==
  LET stated == TextOf(row, source, "counterparty_type")
  IN  IF stated # NoText THEN stated
      ELSE Attribute(row, source, "counterparty_type", "UNKNOWN")

-----------------------------------------------------------------------------
(* normalize_batch(), for one row.                                          *)

(* The IngestionErrors: one row that has one stops the batch.               *)
Rejected(row, source) ==
  \/ Unreadable(row, source)
  \/ Filled(row, source, "transaction_date") = {}
  \/ Filled(row, source, "amount") = {}

DebitCredit(row, source) ==
  LET stated == TextOf(row, source, "debit_credit")
  IN  CASE stated # NoText                                -> stated
        [] stated = NoText /\ AmountOf(row, source) < 0  -> "DEBIT"
        [] stated = NoText /\ AmountOf(row, source) >= 0 -> "CREDIT"

Canonical(row, source) ==
  LET ids == Identifiers(row, source)
  IN  [ids |-> ids,
       reference |-> CanonicalReference(ids, DataSources[source].priority),
       amount |-> Abs(AmountOf(row, source)),
       debitCredit |-> DebitCredit(row, source),
       days |-> [field \in DateFields |-> DayOf(row, source, field)],
       party |-> TextOf(row, source, "counterparty"),
       partyType |-> CounterpartyType(row, source),
       instrument |-> Attribute(row, source, "instrument_type", "OTHER")]
=============================================================================
