-------------------------------- MODULE Cash -------------------------------
(***************************************************************************)
(* A client's cash over several batches (cash/service.py,                  *)
(* forecasting/service.py).  Each batch normalizes the rows of its files,  *)
(* reconciles them and ends with a cash position, which adds up the        *)
(* committed results of all batches of the client, whatever became of      *)
(* them.  A batch may stop anywhere: the runner commits after every stage, *)
(* and what is committed stays when the server is killed.                  *)
(***************************************************************************)
EXTENDS Reconciliation, Normalization

CONSTANTS
  RowsOf,        \* source_id -> the rows its files may hold
  SourceOf,      \* the data source of a transaction
  AccountOf,     \* the bank account of the definition of the n-th batch, or ""
  MaxBatches     \* bound

(* The item of a cell that can be read as a number or a date is one.        *)
NumbersReadable(row, source) ==
  LET mappings == DataSources[source].mappings
      Numeric  == {i \in DOMAIN mappings : mappings[i].field \in {"amount", "transaction_date"}}
  IN  /\ Len(mappings) \in Nat /\ DOMAIN mappings = 1..Len(mappings)
      /\ \A i \in Numeric : Readable(Cell(row, mappings[i].column)) =>
           Cell(row, mappings[i].column)[1] \in Int

ASSUME CashAssumption ==
  /\ MaxBatches \in Nat \ {0}
  /\ NoDate = NoDay
  /\ \A t \in Transactions : SourceOf[t] \in DOMAIN DataSources \cap DOMAIN RowsOf
  /\ \A source \in DOMAIN DataSources \cap DOMAIN RowsOf : \A row \in RowsOf[source] :
       NumbersReadable(row, source)

VARIABLES
  rows,       \* the parsed rows of the batch
  books,      \* what the earlier batches have left in the database
  position,   \* the latest cash position
  forecast

cashVars == <<reconciliationVars, rows, books, position, forecast>>

Number == Len(books) + 1

NoPosition == [batch |-> 0]

PossibleRows == {r \in [Transactions -> UNION {RowsOf[s] : s \in DOMAIN RowsOf}] :
                   \A t \in Transactions : r[t] \in RowsOf[SourceOf[t]]}

CashInit ==
  /\ rows \in PossibleRows
  /\ txn = << >> /\ pool = Transactions /\ at = 1 /\ used = {} /\ matches = {}
  /\ stage = "normalize" /\ exceptions = {} /\ settlements = {}
  /\ books = << >>
  /\ position = NoPosition /\ forecast = NoPosition

Keeps == UNCHANGED <<rows, books, position, forecast>>

Normalize ==
  /\ stage = "normalize"
  /\ \A t \in Transactions : ~Rejected(rows[t], SourceOf[t])
  /\ txn' = [t \in Transactions |-> Canonical(rows[t], SourceOf[t])]
  /\ stage' = "match"
  /\ UNCHANGED <<pool, at, used, matches, exceptions, settlements>> /\ Keeps

RejectRow ==
  /\ stage = "normalize"
  /\ \E t \in Transactions : Rejected(rows[t], SourceOf[t])
  /\ stage' = "failed"
  /\ UNCHANGED <<txn, pool, at, used, matches, exceptions, settlements>> /\ Keeps

Reconcile == ReconciliationNext /\ Keeps

-----------------------------------------------------------------------------
(* compute_cash_position()                                                  *)

(* What the batch has committed: the passes are one transaction.            *)
Committed ==
  [txn |-> txn, rows |-> rows, account |-> AccountOf[Number],
   parsed |-> stage \notin {"normalize", "failed"},
   classified |-> stage \in {"settle", "closed"},
   matches |-> IF stage = "match" THEN {} ELSE matches,
   exceptions |-> exceptions, settlements |-> settlements]

Considered == Append(books, Committed)

(* The sum over the batches in B of the measure of a batch.                 *)
Over(B, Measure(_)) == SumFunction([n \in DOMAIN B |-> Measure(B[n])])

SignedAmount(t) == IF t.debitCredit = "CREDIT" THEN t.amount ELSE -t.amount

InMatch(b) == UNION {m.source \cup m.target : m \in b.matches}

Transfer(b, t) == b.txn[t].partyType = "INTERNAL_ACCOUNT"

SumOfSigned(b, S) == SumFunction([t \in S |-> SignedAmount(b.txn[t])])

MatchedExternal(b) == InMatch(b) \cap External

ConfirmedCash(b) == SumOfSigned(b, {t \in MatchedExternal(b) : ~Transfer(b, t)})

TransferVolume(b) ==
  SumFunction([t \in {u \in MatchedExternal(b) : Transfer(b, u)} |-> b.txn[t].amount])

(* Movements between the client's own accounts count here.                  *)
AccountCash(b) == SumOfSigned(b, MatchedExternal(b))

PendingCash(b) ==
  SumFunction([s \in {x \in b.settlements : ~x.explained} |-> s.observed])

Impacts(S) == SumFunction([e \in S |-> e.impact])

ExpectedMovements(b) == {e \in b.exceptions : e.type = "MISSING_EXTERNAL_RECORD"}

Inflows(b) == {e \in ExpectedMovements(b) : b.txn[e.about].debitCredit = "CREDIT"}

(* Whatever is not stated as a credit is an outflow.                        *)
Outflows(b) == ExpectedMovements(b) \ Inflows(b)

(* Seeded fault: what is expected is not counted as unreconciled.           *)
Unreconciled_Unexpected(b) ==
  Impacts({e \in b.exceptions : e.type # "MISSING_EXTERNAL_RECORD"})

Unreconciled(b) == Impacts(b.exceptions)

Accounts == {AccountOf[n] : n \in 1..Number} \ {NoText}

CashPosition(B) ==
  [batch |-> Number,
   confirmed |-> Over(B, ConfirmedCash),
   pending |-> Over(B, PendingCash),
   inflows |-> Over(B, LAMBDA b : Impacts(Inflows(b))),
   outflows |-> Over(B, LAMBDA b : Impacts(Outflows(b))),
   unreconciled |-> Over(B, Unreconciled),
   transfers |-> Over(B, TransferVolume),
   byAccount |-> [a \in Accounts |->
      Over(B, LAMBDA b : IF b.account = a THEN AccountCash(b) ELSE 0)]]

(* build_forecast()                                                         *)
ForecastOf(p) ==
  LET expected == p.confirmed + p.inflows - p.outflows
  IN  [batch |-> p.batch, expected |-> expected,
       low |-> expected - p.unreconciled, high |-> expected + p.unreconciled]

Reported == position.batch = Number

ComputeCash ==
  /\ stage = "closed" /\ ~Reported
  /\ position' = CashPosition(Considered)
  /\ forecast' = ForecastOf(CashPosition(Considered))
  /\ UNCHANGED <<reconciliationVars, rows, books>>

(* The next batch of the client; the one before it is over, or a kill cut   *)
(* it off wherever it was.  Nothing takes it up again or marks it: the      *)
(* books count what it had committed.                                       *)
NextBatch ==
  /\ Number < MaxBatches
  /\ books' = Append(books, Committed)
  /\ rows' \in PossibleRows
  /\ txn' = << >> /\ pool' = Transactions /\ at' = 1 /\ used' = {} /\ matches' = {}
  /\ stage' = "normalize" /\ exceptions' = {} /\ settlements' = {}
  /\ UNCHANGED <<position, forecast>>

CashNext ==
  \/ Normalize
  \/ RejectRow
  \/ Reconcile
  \/ ComputeCash
  \/ NextBatch

CashSpec == CashInit /\ [][CashNext]_cashVars

-----------------------------------------------------------------------------
(* Properties                                                               *)

(* What the statements of a batch say, read off the columns themselves:     *)
(* deposits less withdrawals, whatever the sign a bank writes them with.    *)
Columns(row, source, convention) ==
  {i \in Filled(row, source, "amount") : DataSources[source].mappings[i].sign = convention}

Moved(row, source, convention) ==
  SumFunction([i \in Columns(row, source, convention) |->
                 Abs(Cell(row, DataSources[source].mappings[i].column)[1])])

Stated(row, source) ==
  Moved(row, source, "credit_positive") - Moved(row, source, "debit_negative")

(* A bank's statement has a column for what goes out and one for what comes *)
(* in, and none that says which of the two a movement is.                   *)
SplitStatements ==
  \A t \in External : LET mappings == DataSources[SourceOf[t]].mappings IN
    \A i \in DOMAIN mappings :
      /\ mappings[i].field # "debit_credit"
      /\ mappings[i].field = "amount" =>
           mappings[i].sign \in {"credit_positive", "debit_negative"}

Statement(b, S) == SumFunction([t \in S |-> Stated(b.rows[t], SourceOf[t])])

(* The rows of the statements that the batch leaves open: an exception is   *)
(* about them or, if it never came to that, no committed match has them.    *)
LeftOpen(b) ==
  IF b.classified THEN External \cap {e.about : e \in b.exceptions}
  ELSE External \ InMatch(b)

ParsedExternal(b) == IF b.parsed THEN External ELSE {}

(* The bank's money is all accounted for: when a position is computed, the  *)
(* net of every statement ever parsed for the client is its confirmed cash, *)
(* plus the matched movements between the client's own accounts, plus the   *)
(* rows left open; and the figure of each bank account is the net of that   *)
(* account's statements less the rows left open (cash/service.py:60-85,     *)
(* over the signs of field_mapper.py and the pools of the engine).          *)
StatementAccountedFor ==
  Reported =>
    /\ Over(Considered, LAMBDA b : Statement(b, ParsedExternal(b))) =
         position.confirmed
         + Over(Considered, LAMBDA b :
             Statement(b, {t \in ParsedExternal(b) \cap InMatch(b) : Transfer(b, t)}))
         + Over(Considered, LAMBDA b : Statement(b, ParsedExternal(b) \cap LeftOpen(b)))
    /\ \A a \in DOMAIN position.byAccount :
         position.byAccount[a] =
           Over(Considered, LAMBDA b :
             IF b.account = a THEN Statement(b, ParsedExternal(b) \ LeftOpen(b)) ELSE 0)

(* The forecast's band is wide enough for what it expects: whichever of the *)
(* movements still missing at the bank arrive in the end, of all batches,   *)
(* the client's confirmed cash stays between the low and the high estimate  *)
(* (forecasting/service.py:27-36; cash/service.py:107-122).                 *)
Missing ==
  UNION {{<<n, e>> : e \in ExpectedMovements(Considered[n])} : n \in DOMAIN Considered}

BandCoversOutcomes ==
  Reported =>
    \A arrived \in SUBSET Missing :
      LET cash == position.confirmed +
            SumFunction([x \in arrived |-> SignedAmount(Considered[x[1]].txn[x[2].about])])
      IN  forecast.low <= cash /\ cash <= forecast.high
=============================================================================
