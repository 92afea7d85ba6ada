----------------------------- MODULE Cash_proofs ---------------------------
(***************************************************************************)
(* The cash position and the forecast of Cash, for every configuration,    *)
(* every number of batches and every point at which one of them stops.     *)
(***************************************************************************)
EXTENDS Cash, Reconciliation_proofs
-----------------------------------------------------------------------------
(* What normalization makes of the rows a source may hold.                  *)

(* A row of a source, of a batch that no row has stopped.                   *)
Accepted(row, source) == NumbersReadable(row, source) /\ ~Rejected(row, source)

LEMMA FilledBounded ==
  ASSUME NEW row, NEW source, NumbersReadable(row, source), NEW field
  PROVE  /\ IsFiniteSet(Filled(row, source, field))
         /\ Filled(row, source, field) \subseteq DOMAIN DataSources[source].mappings
         /\ Filled(row, source, field) \subseteq 0..Len(DataSources[source].mappings)
<1> DEFINE mappings == DataSources[source].mappings
<1>1. Len(mappings) \in Nat /\ DOMAIN mappings = 1..Len(mappings)
  BY DEF NumbersReadable
<1>2. Filled(row, source, field) \subseteq DOMAIN mappings
  BY DEF Filled
<1>3. IsFiniteSet(1..Len(mappings))
  BY <1>1, FS_Interval
<1>4. IsFiniteSet(Filled(row, source, field))
  BY <1>1, <1>2, <1>3, FS_Subset
<1>5. 1..Len(mappings) \subseteq 0..Len(mappings)
  BY <1>1
<1> QED BY <1>1, <1>2, <1>4, <1>5

LEMMA NumberCells ==
  ASSUME NEW row, NEW source, Accepted(row, source),
         NEW field \in {"amount", "transaction_date"}, NEW i \in Filled(row, source, field)
  PROVE  Cell(row, DataSources[source].mappings[i].column)[1] \in Int
<1> DEFINE mapping == DataSources[source].mappings[i]
           cell == Cell(row, mapping.column)
<1>1. i \in DOMAIN DataSources[source].mappings /\ mapping.field = field /\ ~Blank(cell)
  BY DEF Filled
<1>2. field \in DateFields \cup DecimalFields \cup {"amount"}
  BY DEF DateFields
<1>3. ~Unreadable(row, source)
  BY DEF Accepted, Rejected
<1>4. Readable(cell)
  BY <1>1, <1>2, <1>3 DEF Unreadable
<1> QED BY <1>1, <1>4 DEF Accepted, NumbersReadable

LEMMA AmountOfType ==
  ASSUME NEW row, NEW source, Accepted(row, source)
  PROVE  AmountOf(row, source) \in Int
<1> DEFINE S == Filled(row, source, "amount")
           mappings == DataSources[source].mappings
           f == [i \in S |-> Signed(Cell(row, mappings[i].column)[1], mappings[i].sign)]
<1>1. \A sign : \A n \in Int : Signed(n, sign) \in Int
  BY DEF Signed, Abs
<1>2. \A i \in S : Cell(row, mappings[i].column)[1] \in Int
  BY NumberCells
<1>3. IsFiniteSet(S)
  BY FilledBounded DEF Accepted
<1> HIDE DEF mappings, S
<1>4. Summable(f, S) /\ DOMAIN f = S
  BY <1>1, <1>2, <1>3 DEF Summable
<1>5. SumFunctionOnSet(f, S) \in Int
  <2> HIDE DEF f
  <2> QED BY <1>4, SumType
<1>6. AmountOf(row, source) = SumFunction(f)
  BY DEF AmountOf, S, mappings
<1> HIDE DEF f
<1> QED BY <1>4, <1>5, <1>6 DEF SumFunction

LEMMA DayOfType ==
  ASSUME NEW row, NEW source, Accepted(row, source)
  PROVE  DayOf(row, source, "transaction_date") \in Int
<1> DEFINE S == Filled(row, source, "transaction_date")
           mappings == DataSources[source].mappings
<1>1. S # {} /\ S \in SUBSET (0..Len(mappings)) /\ Len(mappings) \in Nat
  BY FilledBounded DEF Accepted, Rejected, NumbersReadable
<1>2. \E n \in S : \A m \in S : m <= n
  <2> HIDE DEF S, mappings
  <2> QED BY <1>1, LargestOf
<1>3. Max(S) \in S
  BY <1>1, <1>2 DEF Max
<1>4. Cell(row, mappings[Max(S)].column)[1] \in Int
  BY <1>3, NumberCells
<1> QED BY <1>1, <1>4 DEF DayOf, LastCell

LEMMA CanonicalTypes ==
  ASSUME NEW row, NEW source, Accepted(row, source)
  PROVE  /\ Canonical(row, source).amount \in Nat
         /\ Canonical(row, source).amount = Abs(AmountOf(row, source))
         /\ Canonical(row, source).days["transaction_date"] \in Int
         /\ Canonical(row, source).debitCredit = DebitCredit(row, source)
<1>1. /\ Canonical(row, source).amount = Abs(AmountOf(row, source))
      /\ Canonical(row, source).days["transaction_date"] = DayOf(row, source, "transaction_date")
      /\ Canonical(row, source).debitCredit = DebitCredit(row, source)
  BY DEF Canonical, DateFields
<1>2. \A n \in Int : Abs(n) \in Nat
  BY DEF Abs
<1> QED BY <1>1, <1>2, AmountOfType, DayOfType

-----------------------------------------------------------------------------
(* The sign of a movement.                                                  *)

(* The column conventions of one source, as SplitStatements wants them.     *)
Split(source) ==
  LET mappings == DataSources[source].mappings
  IN  \A i \in DOMAIN mappings :
        /\ mappings[i].field # "debit_credit"
        /\ mappings[i].field = "amount" =>
             mappings[i].sign \in {"credit_positive", "debit_negative"}

(* The sum of what either kind of column holds.                             *)
LEMMA MovedIs ==
  ASSUME NEW row, NEW source, Accepted(row, source), NEW convention,
         NEW f, \A i \in Columns(row, source, convention) :
                  f[i] = Abs(Cell(row, DataSources[source].mappings[i].column)[1])
  PROVE  /\ Summable(f, Columns(row, source, convention))
         /\ Moved(row, source, convention) = SumFunctionOnSet(f, Columns(row, source, convention))
<1> DEFINE S == Columns(row, source, convention)
           e == [i \in S |-> Abs(Cell(row, DataSources[source].mappings[i].column)[1])]
<1>1. S \subseteq Filled(row, source, "amount") /\ IsFiniteSet(S)
  <2>1. S \subseteq Filled(row, source, "amount")
    BY DEF Columns
  <2> QED BY <2>1, FilledBounded, FS_Subset DEF Accepted
<1>2. \A i \in S : Cell(row, DataSources[source].mappings[i].column)[1] \in Int
  BY <1>1, NumberCells
<1>3. \A n \in Int : Abs(n) \in Int
  BY DEF Abs
<1>4. \A i \in S : e[i] \in Int /\ f[i] = e[i]
  <2> HIDE DEF S
  <2>1. \A i \in S : e[i] = Abs(Cell(row, DataSources[source].mappings[i].column)[1])
    OBVIOUS
  <2>2. \A i \in S : f[i] = Abs(Cell(row, DataSources[source].mappings[i].column)[1])
    BY DEF S
  <2> HIDE DEF e
  <2> QED BY <1>2, <1>3, <2>1, <2>2
<1>5. DOMAIN e = S /\ Moved(row, source, convention) = SumFunction(e)
  BY DEF Moved
<1> HIDE DEF S, e
<1>6. Summable(e, S) /\ Summable(f, S)
  BY <1>1, <1>4 DEF Summable
<1>7. SumFunctionOnSet(f, S) = SumFunctionOnSet(e, S)
  BY <1>4, <1>6, SumSame
<1>8. Summable(f, S) /\ Moved(row, source, convention) = SumFunctionOnSet(f, S)
  BY <1>5, <1>6, <1>7 DEF SumFunction
<1> QED BY <1>8 DEF S

(* The amount of a statement's row is what came in less what went out.      *)
LEMMA StatedAmount ==
  ASSUME NEW row, NEW source, Accepted(row, source), Split(source)
  PROVE  AmountOf(row, source) = Stated(row, source)
<1> DEFINE mappings == DataSources[source].mappings
           S == Filled(row, source, "amount")
           C == Columns(row, source, "credit_positive")
           D == Columns(row, source, "debit_negative")
           f == [i \in S |-> Signed(Cell(row, mappings[i].column)[1], mappings[i].sign)]
           e == [i \in S |-> Abs(Cell(row, mappings[i].column)[1])]
<1>1. S = C \cup D /\ C \cap D = {} /\ IsFiniteSet(S)
  <2>1. \A i \in S : mappings[i].sign \in {"credit_positive", "debit_negative"}
    BY DEF Split, Filled
  <2>2. /\ C = {i \in S : mappings[i].sign = "credit_positive"}
        /\ D = {i \in S : mappings[i].sign = "debit_negative"}
    BY DEF Columns
  <2>3. IsFiniteSet(S)
    BY FilledBounded DEF Accepted
  <2> HIDE DEF S, C, D, mappings
  <2> QED BY <2>1, <2>2, <2>3
<1>2. \A i \in S : Cell(row, mappings[i].column)[1] \in Int
  BY NumberCells
<1>3. /\ \A i \in C : mappings[i].sign = "credit_positive"
      /\ \A i \in D : mappings[i].sign = "debit_negative"
  BY DEF Columns
<1>4. \A n \in Int : /\ Signed(n, "credit_positive") = Abs(n)
                     /\ Signed(n, "debit_negative") = -Abs(n)
                     /\ Abs(n) \in Int
  BY DEF Signed, Abs
<1>5. AmountOf(row, source) = SumFunctionOnSet(f, S)
  <2>1. AmountOf(row, source) = SumFunction(f)
    BY DEF AmountOf
  <2>2. DOMAIN f = S
    OBVIOUS
  <2> HIDE DEF f, S
  <2> QED BY <2>1, <2>2 DEF SumFunction
<1> HIDE DEF S, C, D, mappings
<1>6. /\ \A i \in C : f[i] = e[i] /\ e[i] = Abs(Cell(row, mappings[i].column)[1])
      /\ \A i \in D : f[i] = -e[i] /\ e[i] = Abs(Cell(row, mappings[i].column)[1])
      /\ \A i \in S : e[i] \in Int /\ f[i] \in Int
  BY <1>1, <1>2, <1>3, <1>4
<1> HIDE DEF e, f
<1>7. /\ Summable(e, C) /\ Moved(row, source, "credit_positive") = SumFunctionOnSet(e, C)
      /\ Summable(e, D) /\ Moved(row, source, "debit_negative") = SumFunctionOnSet(e, D)
  BY <1>6, MovedIs DEF C, D, mappings
<1>8. Summable(f, C \cup D)
  BY <1>1, <1>6 DEF Summable
<1>9. SumFunctionOnSet(f, S) = SumFunctionOnSet(f, C) + SumFunctionOnSet(f, D)
  BY <1>1, <1>8, SumDisjoint
<1>10. SumFunctionOnSet(f, C) = SumFunctionOnSet(e, C)
  BY <1>6, <1>7, SumSame
<1>11. SumFunctionOnSet(f, D) = -SumFunctionOnSet(e, D)
  BY <1>6, <1>7, SumNegative
<1>12. SumFunctionOnSet(e, C) \in Int /\ SumFunctionOnSet(e, D) \in Int
  BY <1>7, SumType
<1>13. \A a, b \in Int : a + (-b) = a - b
  OBVIOUS
<1> QED BY <1>5, <1>7, <1>9, <1>10, <1>11, <1>12, <1>13 DEF Stated

(* What a batch books for a movement is what the statement says of it.      *)
LEMMA BookedAsStated ==
  ASSUME NEW row, NEW source, Accepted(row, source), Split(source)
  PROVE  SignedAmount(Canonical(row, source)) = Stated(row, source)
<1>1. Filled(row, source, "debit_credit") = {}
  BY DEF Filled, Split
<1>2. TextOf(row, source, "debit_credit") = NoText
  BY <1>1 DEF TextOf
<1>3. AmountOf(row, source) \in Int
  BY AmountOfType
<1>4. DebitCredit(row, source) = IF AmountOf(row, source) < 0 THEN "DEBIT" ELSE "CREDIT"
  BY <1>2, <1>3 DEF DebitCredit
<1>5. SignedAmount(Canonical(row, source)) = AmountOf(row, source)
  BY <1>3, <1>4, CanonicalTypes DEF SignedAmount, Abs
<1> QED BY <1>5, StatedAmount

-----------------------------------------------------------------------------
(* What is true of a batch wherever it has stopped.                         *)

Parsed(b) ==
  \A t \in Transactions :
    /\ b.txn[t] = Canonical(b.rows[t], SourceOf[t])
    /\ Accepted(b.rows[t], SourceOf[t])

(* An exception about a movement the bank does not show has its amount.     *)
ExpectedAmounts(b) ==
  \A e \in ExpectedMovements(b) :
    b.parsed /\ e.about \in Transactions /\ b.txn[e.about].amount = e.impact

Fits(b) ==
  /\ b.parsed \in BOOLEAN
  /\ b.parsed => Parsed(b)
  /\ ~b.parsed => b.matches = {} /\ ~b.classified
  /\ b.classified => External \cap {e.about : e \in b.exceptions} = External \ InMatch(b)
  /\ IsFiniteSet(b.exceptions)
  /\ \A e \in b.exceptions : e.impact \in Nat
  /\ ExpectedAmounts(b)

LEMMA FiniteSides == IsFiniteSet(External) /\ External \subseteq Transactions
BY MatchingAssumption, FS_Subset DEF Transactions

(* The statements of a batch, one by one.                                   *)
StatedOf(b) == [t \in External |-> Stated(b.rows[t], SourceOf[t])]

LEMMA StatedOfIs ==
  ASSUME NEW b, Fits(b), b.parsed, SplitStatements
  PROVE  /\ Summable(StatedOf(b), External)
         /\ \A t \in External : StatedOf(b)[t] = Stated(b.rows[t], SourceOf[t])
         /\ \A t \in External : StatedOf(b)[t] = SignedAmount(b.txn[t])
<1>1. \A t \in External : StatedOf(b)[t] = Stated(b.rows[t], SourceOf[t])
  BY DEF StatedOf
<1>2. ASSUME NEW t \in External PROVE StatedOf(b)[t] = SignedAmount(b.txn[t])
                                      /\ StatedOf(b)[t] \in Int
  <2>1. /\ b.txn[t] = Canonical(b.rows[t], SourceOf[t])
        /\ Accepted(b.rows[t], SourceOf[t])
    BY FiniteSides DEF Fits, Parsed
  <2>2. Split(SourceOf[t])
    BY DEF SplitStatements, Split
  <2>3. SignedAmount(b.txn[t]) = Stated(b.rows[t], SourceOf[t])
    BY <2>1, <2>2, BookedAsStated
  <2>4. AmountOf(b.rows[t], SourceOf[t]) = Stated(b.rows[t], SourceOf[t])
    BY <2>1, <2>2, StatedAmount
  <2>5. AmountOf(b.rows[t], SourceOf[t]) \in Int
    BY <2>1, AmountOfType
  <2> QED BY <1>1, <2>3, <2>4, <2>5
<1> QED BY <1>1, <1>2, FiniteSides DEF Summable

LEMMA StatementIs ==
  ASSUME NEW b, Fits(b), b.parsed, SplitStatements, NEW S \in SUBSET External
  PROVE  /\ Statement(b, S) = SumFunctionOnSet(StatedOf(b), S)
         /\ SumOfSigned(b, S) = SumFunctionOnSet(StatedOf(b), S)
         /\ Summable(StatedOf(b), S)
<1> DEFINE f == StatedOf(b)
           e == [t \in S |-> Stated(b.rows[t], SourceOf[t])]
           g == [t \in S |-> SignedAmount(b.txn[t])]
<1>1. /\ Summable(f, S)
      /\ \A t \in S : f[t] = e[t] /\ f[t] = g[t]
  <2>1. /\ Summable(f, External)
        /\ \A t \in External : f[t] = Stated(b.rows[t], SourceOf[t])
        /\ \A t \in External : f[t] = SignedAmount(b.txn[t])
    BY StatedOfIs
  <2> HIDE DEF f
  <2> QED BY <2>1, FS_Subset DEF Summable
<1>2. /\ Statement(b, S) = SumFunction(e) /\ DOMAIN e = S
      /\ SumOfSigned(b, S) = SumFunction(g) /\ DOMAIN g = S
  BY DEF Statement, SumOfSigned
<1> HIDE DEF e, f, g
<1>3. SumFunctionOnSet(e, S) = SumFunctionOnSet(f, S)
  BY <1>1, SumSame
<1>4. SumFunctionOnSet(g, S) = SumFunctionOnSet(f, S)
  BY <1>1, SumSame
<1> QED BY <1>1, <1>2, <1>3, <1>4 DEF SumFunction, f

LEMMA SumOfNone ==
  ASSUME NEW b
  PROVE  Statement(b, {}) = 0 /\ SumOfSigned(b, {}) = 0
<1> DEFINE e == [t \in {} |-> Stated(b.rows[t], SourceOf[t])]
           g == [t \in {} |-> SignedAmount(b.txn[t])]
<1>1. /\ Statement(b, {}) = SumFunction(e) /\ DOMAIN e = {}
      /\ SumOfSigned(b, {}) = SumFunction(g) /\ DOMAIN g = {}
  BY DEF Statement, SumOfSigned
<1> HIDE DEF e, g
<1> QED BY <1>1, SumEmpty DEF SumFunction

(* The rows of a statement are booked, moved between accounts or left open. *)
MatchedTransfers(b) == {t \in ParsedExternal(b) \cap InMatch(b) : Transfer(b, t)}

LEMMA BatchAccounted ==
  ASSUME NEW b, Fits(b), SplitStatements
  PROVE  /\ {Statement(b, ParsedExternal(b)), ConfirmedCash(b),
             Statement(b, MatchedTransfers(b)),
             Statement(b, ParsedExternal(b) \cap LeftOpen(b))} \subseteq Int
         /\ Statement(b, ParsedExternal(b))
              = ConfirmedCash(b) + Statement(b, MatchedTransfers(b))
                + Statement(b, ParsedExternal(b) \cap LeftOpen(b))
         /\ AccountCash(b) = Statement(b, ParsedExternal(b) \ LeftOpen(b))
         /\ AccountCash(b) \in Int
<1>1. CASE ~b.parsed
  <2>1. ParsedExternal(b) = {} /\ InMatch(b) = {}
    BY <1>1 DEF ParsedExternal, InMatch, Fits
  <2>2. ParsedExternal(b) \cap LeftOpen(b) = {} /\ ParsedExternal(b) \ LeftOpen(b) = {}
        /\ MatchedTransfers(b) = {}
    BY <2>1 DEF MatchedTransfers
  <2>3. MatchedExternal(b) = {} /\ {t \in MatchedExternal(b) : ~Transfer(b, t)} = {}
    BY <2>1 DEF MatchedExternal
  <2>4. ConfirmedCash(b) = 0 /\ AccountCash(b) = 0
    BY <2>3, SumOfNone DEF ConfirmedCash, AccountCash
  <2> QED BY <2>1, <2>2, <2>4, SumOfNone
<1>2. CASE b.parsed
  <2> DEFINE f == StatedOf(b)
             Open == ParsedExternal(b) \cap LeftOpen(b)
             In == MatchedExternal(b)
             Booked == {t \in In : ~Transfer(b, t)}
             Sweeps == MatchedTransfers(b)
  <2>1. ParsedExternal(b) = External
    BY <1>2 DEF ParsedExternal
  <2>2. Open = External \ InMatch(b) /\ ParsedExternal(b) \ LeftOpen(b) = In
    BY <2>1 DEF LeftOpen, Fits, MatchedExternal
  <2>3. /\ External = In \cup Open /\ In \cap Open = {}
        /\ In = Booked \cup Sweeps /\ Booked \cap Sweeps = {}
        /\ In \subseteq External /\ Open \subseteq External
        /\ Booked \subseteq External /\ Sweeps \subseteq External
    BY <2>1, <2>2 DEF MatchedTransfers, MatchedExternal
  <2>4. /\ ConfirmedCash(b) = SumOfSigned(b, Booked) /\ AccountCash(b) = SumOfSigned(b, In)
    BY DEF ConfirmedCash, AccountCash
  <2> HIDE DEF f, Open, In, Booked, Sweeps
  <2>5. \A S \in SUBSET External : /\ Statement(b, S) = SumFunctionOnSet(f, S)
                                   /\ SumOfSigned(b, S) = SumFunctionOnSet(f, S)
                                   /\ Summable(f, S)
    BY <1>2, StatementIs DEF f
  <2>6. \A S \in SUBSET External : SumFunctionOnSet(f, S) \in Int
    BY <2>5, SumType
  <2>7. SumFunctionOnSet(f, External) = SumFunctionOnSet(f, In) + SumFunctionOnSet(f, Open)
    BY <2>3, <2>5, SumDisjoint
  <2>8. SumFunctionOnSet(f, In) = SumFunctionOnSet(f, Booked) + SumFunctionOnSet(f, Sweeps)
    BY <2>3, <2>5, SumDisjoint
  <2>9. /\ Statement(b, ParsedExternal(b)) = SumFunctionOnSet(f, External)
        /\ ConfirmedCash(b) = SumFunctionOnSet(f, Booked)
        /\ Statement(b, Sweeps) = SumFunctionOnSet(f, Sweeps)
        /\ Statement(b, Open) = SumFunctionOnSet(f, Open)
        /\ AccountCash(b) = SumFunctionOnSet(f, In)
        /\ Statement(b, ParsedExternal(b) \ LeftOpen(b)) = SumFunctionOnSet(f, In)
    BY <2>1, <2>2, <2>3, <2>4, <2>5
  <2>10. {SumFunctionOnSet(f, External), SumFunctionOnSet(f, Booked),
          SumFunctionOnSet(f, Sweeps), SumFunctionOnSet(f, Open), SumFunctionOnSet(f, In)}
           \subseteq Int
    BY <2>3, <2>6
  <2> QED BY <2>7, <2>8, <2>9, <2>10 DEF Open, Sweeps
<1> QED BY <1>1, <1>2 DEF Fits

-----------------------------------------------------------------------------
(* All batches of the client.                                               *)

AllFit(B) == IsFiniteSet(DOMAIN B) /\ \A n \in DOMAIN B : Fits(B[n])

LEMMA AllAccounted ==
  ASSUME NEW B, AllFit(B), SplitStatements
  PROVE  Over(B, LAMBDA b : Statement(b, ParsedExternal(b))) =
           Over(B, ConfirmedCash)
           + Over(B, LAMBDA b :
               Statement(b, {t \in ParsedExternal(b) \cap InMatch(b) : Transfer(b, t)}))
           + Over(B, LAMBDA b : Statement(b, ParsedExternal(b) \cap LeftOpen(b)))
<1> DEFINE I == DOMAIN B
           all == [n \in I |-> Statement(B[n], ParsedExternal(B[n]))]
           booked == [n \in I |-> ConfirmedCash(B[n])]
           sweeps == [n \in I |-> Statement(B[n], MatchedTransfers(B[n]))]
           open == [n \in I |-> Statement(B[n], ParsedExternal(B[n]) \cap LeftOpen(B[n]))]
           both == [n \in I |-> booked[n] + sweeps[n]]
<1>1. \A n \in I : /\ {all[n], booked[n], sweeps[n], open[n]} \subseteq Int
                   /\ all[n] = booked[n] + sweeps[n] + open[n]
  BY BatchAccounted DEF AllFit
<1>2. \A n \in I : both[n] = booked[n] + sweeps[n]
  OBVIOUS
<1>3. /\ Over(B, LAMBDA b : Statement(b, ParsedExternal(b))) = SumFunction(all)
      /\ Over(B, ConfirmedCash) = SumFunction(booked)
      /\ Over(B, LAMBDA b :
               Statement(b, {t \in ParsedExternal(b) \cap InMatch(b) : Transfer(b, t)}))
           = SumFunction(sweeps)
      /\ Over(B, LAMBDA b : Statement(b, ParsedExternal(b) \cap LeftOpen(b)))
           = SumFunction(open)
  BY DEF Over, MatchedTransfers
<1>4. DOMAIN all = I /\ DOMAIN booked = I /\ DOMAIN sweeps = I /\ DOMAIN open = I
  OBVIOUS
<1>5. IsFiniteSet(I)
  BY DEF AllFit
<1> HIDE DEF I, all, booked, sweeps, open, both
<1>6. Summable(booked, I) /\ Summable(sweeps, I) /\ Summable(open, I) /\ Summable(both, I)
  BY <1>1, <1>2, <1>5 DEF Summable
<1>7. SumFunctionOnSet(both, I) = SumFunctionOnSet(booked, I) + SumFunctionOnSet(sweeps, I)
  BY <1>2, <1>6, SumPlus
<1>8. SumFunctionOnSet(all, I) = SumFunctionOnSet(both, I) + SumFunctionOnSet(open, I)
  <2>1. \A n \in I : all[n] = both[n] + open[n]
    BY <1>1, <1>2
  <2> QED BY <2>1, <1>6, SumPlus
<1>9. /\ SumFunction(all) = SumFunctionOnSet(all, I)
      /\ SumFunction(booked) = SumFunctionOnSet(booked, I)
      /\ SumFunction(sweeps) = SumFunctionOnSet(sweeps, I)
      /\ SumFunction(open) = SumFunctionOnSet(open, I)
  BY <1>4 DEF SumFunction
<1>10. SumFunction(all) = SumFunction(booked) + SumFunction(sweeps) + SumFunction(open)
  BY <1>7, <1>8, <1>9
<1> QED BY <1>3, <1>10

BookedFor(B, a) == Over(B, LAMBDA b : IF b.account = a THEN AccountCash(b) ELSE 0)

StatedFor(B, a) ==
  Over(B, LAMBDA b :
    IF b.account = a THEN Statement(b, ParsedExternal(b) \ LeftOpen(b)) ELSE 0)

LEMMA AccountAccounted ==
  ASSUME NEW B, AllFit(B), SplitStatements, NEW a
  PROVE  BookedFor(B, a) = StatedFor(B, a)
<1> DEFINE f == [n \in DOMAIN B |-> IF B[n].account = a THEN AccountCash(B[n]) ELSE 0]
           e == [n \in DOMAIN B |-> IF B[n].account = a
                   THEN Statement(B[n], ParsedExternal(B[n]) \ LeftOpen(B[n])) ELSE 0]
<1>1. \A n \in DOMAIN B :
        AccountCash(B[n]) = Statement(B[n], ParsedExternal(B[n]) \ LeftOpen(B[n]))
  BY BatchAccounted DEF AllFit
<1>2. f = e
  BY <1>1
<1>3. BookedFor(B, a) = SumFunction(f) /\ StatedFor(B, a) = SumFunction(e)
  BY DEF Over, BookedFor, StatedFor
<1> HIDE DEF f, e
<1> QED BY <1>2, <1>3

-----------------------------------------------------------------------------
(* What is expected of the bank, and how far it may be off.                 *)

LEMMA ImpactsIs ==
  ASSUME NEW S, IsFiniteSet(S), \A e \in S : e.impact \in Nat,
         NEW w, \A e \in S : w[e] = e.impact
  PROVE  Summable(w, S) /\ Impacts(S) = SumFunctionOnSet(w, S)
<1> DEFINE f == [e \in S |-> e.impact]
<1>1. Impacts(S) = SumFunction(f) /\ DOMAIN f = S /\ \A e \in S : f[e] = w[e]
  BY DEF Impacts
<1> HIDE DEF f
<1>2. Summable(w, S)
  BY DEF Summable
<1>3. SumFunctionOnSet(f, S) = SumFunctionOnSet(w, S)
  BY <1>1, <1>2, SumSame
<1> QED BY <1>1, <1>2, <1>3 DEF SumFunction

LEMMA BatchExpected ==
  ASSUME NEW b, Fits(b),
         NEW s, \A e \in ExpectedMovements(b) : s[e] = SignedAmount(b.txn[e.about]),
         NEW w, \A e \in b.exceptions : w[e] = e.impact
  PROVE  /\ Summable(s, ExpectedMovements(b)) /\ Summable(w, ExpectedMovements(b))
         /\ \A e \in ExpectedMovements(b) : -w[e] <= s[e] /\ s[e] <= w[e]
         /\ {Impacts(Inflows(b)), Impacts(Outflows(b)), Unreconciled(b)} \subseteq Int
         /\ SumFunctionOnSet(s, ExpectedMovements(b)) = Impacts(Inflows(b)) - Impacts(Outflows(b))
         /\ 0 <= SumFunctionOnSet(w, ExpectedMovements(b))
         /\ SumFunctionOnSet(w, ExpectedMovements(b)) <= Unreconciled(b)
<1> DEFINE X == b.exceptions
           E == ExpectedMovements(b)
           In == Inflows(b)
           Out == Outflows(b)
<1>1. /\ E \subseteq X /\ In \cup Out = E /\ In \cap Out = {} /\ In \subseteq E /\ Out \subseteq E
      /\ Out = E \ In
      /\ IsFiniteSet(X) /\ \A e \in X : e.impact \in Nat
  BY DEF ExpectedMovements, Inflows, Outflows, Fits
<1>2. \A S \in SUBSET X : IsFiniteSet(S)
  BY <1>1, FS_Subset
<1>3. \A S \in SUBSET X : Summable(w, S) /\ Impacts(S) = SumFunctionOnSet(w, S)
  <2> TAKE S \in SUBSET X
  <2>1. /\ \A e \in S : e.impact \in Nat /\ w[e] = e.impact
        /\ IsFiniteSet(S)
    BY <1>1, <1>2
  <2> QED BY <2>1, ImpactsIs
<1>4. /\ \A e \in In : s[e] = w[e]
      /\ \A e \in Out : s[e] = -w[e]
  <2>1. \A e \in E : b.txn[e.about].amount = e.impact /\ w[e] = e.impact
    BY <1>1 DEF Fits, ExpectedAmounts
  <2>2. \A e \in In : b.txn[e.about].debitCredit = "CREDIT"
    BY DEF Inflows
  <2>3. \A e \in Out : b.txn[e.about].debitCredit # "CREDIT"
    BY DEF Inflows, Outflows
  <2> HIDE DEF E, In, Out
  <2> QED BY <1>1, <2>1, <2>2, <2>3 DEF SignedAmount, E
<1>5. \A e \in X : w[e] \in Nat
  BY <1>1
<1> HIDE DEF X, E, In, Out
<1>6. Summable(s, E)
  BY <1>1, <1>2, <1>4, <1>5 DEF Summable
<1>7. \A e \in E : -w[e] <= s[e] /\ s[e] <= w[e]
  BY <1>1, <1>4, <1>5
<1>8. SumFunctionOnSet(s, E) = SumFunctionOnSet(s, In) + SumFunctionOnSet(s, Out)
  BY <1>1, <1>6, SumDisjoint
<1>9. SumFunctionOnSet(s, In) = SumFunctionOnSet(w, In)
  BY <1>1, <1>3, <1>4, SumSame
<1>10. SumFunctionOnSet(s, Out) = -SumFunctionOnSet(w, Out)
  BY <1>1, <1>3, <1>4, SumNegative
<1>11. \A S \in SUBSET X : Impacts(S) \in Int
  BY <1>3, SumType
<1>12. SumFunctionOnSet(s, E) = Impacts(In) - Impacts(Out)
  <2>1. SumFunctionOnSet(s, E) = Impacts(In) + (-Impacts(Out))
    BY <1>1, <1>3, <1>8, <1>9, <1>10
  <2> QED BY <1>1, <1>11, <2>1
<1>13. 0 <= SumFunctionOnSet(w, E) /\ SumFunctionOnSet(w, E) <= Impacts(X)
  <2>1. Summable(w, X) /\ Impacts(X) = SumFunctionOnSet(w, X) /\ \A e \in X : w[e] >= 0
    BY <1>3, <1>5
  <2>2. SumFunctionOnSet(w, E) >= 0 /\ SumFunctionOnSet(w, E) <= SumFunctionOnSet(w, X)
    BY <1>1, <2>1, SumWithin
  <2>3. SumFunctionOnSet(w, E) \in Int
    BY <1>1, <1>3, SumType
  <2> QED BY <2>1, <2>2, <2>3
<1>14. Unreconciled(b) = Impacts(X)
  BY DEF Unreconciled, X
<1> QED
  BY <1>1, <1>3, <1>6, <1>7, <1>11, <1>12, <1>13, <1>14 DEF E, In, Out

(* Any part of the movements is as near to their sum as their weights sum.  *)
LEMMA PartWithin ==
  ASSUME NEW M, NEW s, NEW w, Summable(s, M), Summable(w, M),
         \A x \in M : -w[x] <= s[x] /\ s[x] <= w[x] /\ 0 <= w[x],
         NEW arrived \in SUBSET M
  PROVE  /\ SumFunctionOnSet(s, arrived) \in Int
         /\ SumFunctionOnSet(s, M) - SumFunctionOnSet(w, M) <= SumFunctionOnSet(s, arrived)
         /\ SumFunctionOnSet(s, arrived) <= SumFunctionOnSet(s, M) + SumFunctionOnSet(w, M)
<1> PICK rest : rest = M \ arrived
  OBVIOUS
<1>1. /\ arrived \cup rest = M /\ arrived \cap rest = {} /\ rest \in SUBSET M
      /\ Summable(s, rest) /\ Summable(w, rest) /\ Summable(s, arrived)
  BY FS_Subset DEF Summable
<1>2. SumFunctionOnSet(s, M) = SumFunctionOnSet(s, arrived) + SumFunctionOnSet(s, rest)
  BY <1>1, SumDisjoint
<1>3. /\ -SumFunctionOnSet(w, rest) <= SumFunctionOnSet(s, rest)
      /\ SumFunctionOnSet(s, rest) <= SumFunctionOnSet(w, rest)
  BY <1>1, SumBounded
<1>4. SumFunctionOnSet(w, rest) <= SumFunctionOnSet(w, M)
  <2>1. \A x \in M : w[x] >= 0
    BY DEF Summable
  <2> QED BY <1>1, <2>1, SumWithin
<1>5. /\ SumFunctionOnSet(s, M) \in Int /\ SumFunctionOnSet(s, arrived) \in Int
      /\ SumFunctionOnSet(s, rest) \in Int /\ SumFunctionOnSet(w, rest) \in Int
      /\ SumFunctionOnSet(w, M) \in Int
  BY <1>1, SumType
<1> QED BY <1>2, <1>3, <1>4, <1>5

(* Over all batches: what is expected, and the weight of it.                *)
AllConfirmed(B) == Over(B, ConfirmedCash)
AllInflows(B) == Over(B, LAMBDA b : Impacts(Inflows(b)))
AllOutflows(B) == Over(B, LAMBDA b : Impacts(Outflows(b)))
AllOpen(B) == Over(B, Unreconciled)
AllMissing(B) == UNION {{<<n, e>> : e \in ExpectedMovements(B[n])} : n \in DOMAIN B}

LEMMA AllExpected ==
  ASSUME NEW B, AllFit(B),
         NEW M, M = AllMissing(B),
         NEW s, \A x \in M : s[x] = SignedAmount(B[x[1]].txn[x[2].about]),
         NEW w, \A x \in M : w[x] = x[2].impact
  PROVE  /\ Summable(s, M) /\ Summable(w, M)
         /\ \A x \in M : -w[x] <= s[x] /\ s[x] <= w[x] /\ 0 <= w[x]
         /\ SumFunctionOnSet(s, M) = AllInflows(B) - AllOutflows(B)
         /\ SumFunctionOnSet(w, M) <= AllOpen(B)
         /\ {AllInflows(B), AllOutflows(B), AllOpen(B)} \subseteq Int
<1> DEFINE I == DOMAIN B
           E == [n \in I |-> ExpectedMovements(B[n])]
           in == [n \in I |-> Impacts(Inflows(B[n]))]
           out == [n \in I |-> Impacts(Outflows(B[n]))]
           open == [n \in I |-> Unreconciled(B[n])]
           sOf == [n \in I |-> [e \in E[n] |-> s[<<n, e>>]]]
           wOf == [n \in I |-> [e \in B[n].exceptions |-> e.impact]]
           net == [n \in I |-> SumFunctionOnSet(sOf[n], E[n])]
           weight == [n \in I |-> SumFunctionOnSet(wOf[n], E[n])]
           less == [n \in I |-> -out[n]]
<1>1. IsFiniteSet(I) /\ \A n \in I : Fits(B[n])
  BY DEF AllFit
<1>2. \A n \in I : E[n] = ExpectedMovements(B[n]) /\ E[n] \subseteq B[n].exceptions
  BY DEF ExpectedMovements
<1>3. \A n \in I : \A e \in E[n] : <<n, e>> \in M
  BY <1>2 DEF AllMissing
<1>4. \A x \in M : \E n \in I : \E e \in E[n] : x = <<n, e>>
  BY <1>2 DEF AllMissing
<1>5. \A n \in I : /\ \A e \in E[n] : /\ sOf[n][e] = SignedAmount(B[n].txn[e.about])
                                      /\ sOf[n][e] = s[<<n, e>>]
                                      /\ wOf[n][e] = w[<<n, e>>]
                   /\ \A e \in B[n].exceptions : wOf[n][e] = e.impact
  <2> TAKE n \in I
  <2>1. \A e \in B[n].exceptions : wOf[n][e] = e.impact
    OBVIOUS
  <2>2. ASSUME NEW e \in E[n] PROVE /\ s[<<n, e>>] = SignedAmount(B[n].txn[e.about])
                                    /\ w[<<n, e>>] = e.impact
    <3>1. <<n, e>> \in M /\ <<n, e>>[1] = n /\ <<n, e>>[2] = e
      BY <1>3, <2>2
    <3> QED BY <3>1
  <2>3. \A e \in E[n] : sOf[n][e] = s[<<n, e>>]
    OBVIOUS
  <2> HIDE DEF sOf, wOf, E
  <2> QED BY <1>2, <2>1, <2>2, <2>3
<1>6. /\ AllInflows(B) = SumFunction(in) /\ AllOutflows(B) = SumFunction(out)
      /\ AllOpen(B) = SumFunction(open)
      /\ DOMAIN in = I /\ DOMAIN out = I /\ DOMAIN open = I
  BY DEF Over, AllInflows, AllOutflows, AllOpen
<1>7. \A n \in I : /\ in[n] = Impacts(Inflows(B[n])) /\ out[n] = Impacts(Outflows(B[n]))
                   /\ open[n] = Unreconciled(B[n]) /\ less[n] = -out[n]
                   /\ net[n] = SumFunctionOnSet(sOf[n], E[n])
                   /\ weight[n] = SumFunctionOnSet(wOf[n], E[n])
  OBVIOUS
<1> HIDE DEF I, E, in, out, open, sOf, wOf, net, weight, less
<1>8. ASSUME NEW n \in I
      PROVE  /\ Summable(sOf[n], E[n]) /\ Summable(wOf[n], E[n])
             /\ \A e \in E[n] : -wOf[n][e] <= sOf[n][e] /\ sOf[n][e] <= wOf[n][e]
             /\ in[n] \in Int /\ out[n] \in Int /\ open[n] \in Int
             /\ net[n] = in[n] - out[n]
             /\ 0 <= weight[n] /\ weight[n] <= open[n]
  <2> PICK b, f, g : b = B[n] /\ f = sOf[n] /\ g = wOf[n]
    OBVIOUS
  <2>1. /\ Fits(b) /\ E[n] = ExpectedMovements(b)
        /\ \A e \in ExpectedMovements(b) : f[e] = SignedAmount(b.txn[e.about])
        /\ \A e \in b.exceptions : g[e] = e.impact
    BY <1>1, <1>2, <1>5
  <2>2. /\ Summable(f, E[n]) /\ Summable(g, E[n])
        /\ \A e \in E[n] : -g[e] <= f[e] /\ f[e] <= g[e]
        /\ {Impacts(Inflows(b)), Impacts(Outflows(b)), Unreconciled(b)} \subseteq Int
        /\ SumFunctionOnSet(f, E[n]) = Impacts(Inflows(b)) - Impacts(Outflows(b))
        /\ 0 <= SumFunctionOnSet(g, E[n]) /\ SumFunctionOnSet(g, E[n]) <= Unreconciled(b)
    BY <2>1, BatchExpected
  <2> QED BY <1>7, <2>2
<1>9. \A n \in I : /\ Summable(s, Tagged(n, E[n]))
                   /\ SumFunctionOnSet(s, Tagged(n, E[n])) = net[n]
  <2> TAKE n \in I
  <2> PICK f, S : f = sOf[n] /\ S = E[n]
    OBVIOUS
  <2>1. Summable(f, S) /\ \A e \in S : f[e] = s[<<n, e>>]
    BY <1>5, <1>8
  <2>2. IsFiniteSet(S) /\ \A e \in S : s[<<n, e>>] \in Int
    BY <2>1 DEF Summable
  <2>3. /\ Summable(s, Tagged(n, S))
        /\ SumFunctionOnSet(s, Tagged(n, S)) = SumFunctionOnSet(f, S)
    BY <2>1, <2>2, SumOfTagged
  <2> QED BY <2>3, <1>7
<1>10. \A n \in I : /\ Summable(w, Tagged(n, E[n]))
                    /\ SumFunctionOnSet(w, Tagged(n, E[n])) = weight[n]
  <2> TAKE n \in I
  <2> PICK f, S : f = wOf[n] /\ S = E[n]
    OBVIOUS
  <2>1. Summable(f, S) /\ \A e \in S : f[e] = w[<<n, e>>]
    BY <1>5, <1>8
  <2>2. IsFiniteSet(S) /\ \A e \in S : w[<<n, e>>] \in Int
    BY <2>1 DEF Summable
  <2>3. /\ Summable(w, Tagged(n, S))
        /\ SumFunctionOnSet(w, Tagged(n, S)) = SumFunctionOnSet(f, S)
    BY <2>1, <2>2, SumOfTagged
  <2> QED BY <2>3, <1>7
<1>11. M = AllTagged(I, E)
  BY <1>2 DEF I, AllMissing, AllTagged, Tagged
<1>12. /\ Summable(s, M) /\ Summable(net, I)
       /\ SumFunctionOnSet(s, M) = SumFunctionOnSet(net, I)
  <2>1. /\ Summable(s, AllTagged(I, E)) /\ Summable(net, I)
        /\ SumFunctionOnSet(s, AllTagged(I, E))
             = SumFunctionOnSet(net, I)
    BY <1>1, <1>9, SumOfPairs
  <2> QED BY <2>1, <1>11
<1>13. /\ Summable(w, M) /\ Summable(weight, I)
       /\ SumFunctionOnSet(w, M) = SumFunctionOnSet(weight, I)
  <2>1. /\ Summable(w, AllTagged(I, E)) /\ Summable(weight, I)
        /\ SumFunctionOnSet(w, AllTagged(I, E))
             = SumFunctionOnSet(weight, I)
    BY <1>1, <1>10, SumOfPairs
  <2> QED BY <2>1, <1>11
<1>14. /\ Summable(in, I) /\ Summable(out, I) /\ Summable(open, I) /\ Summable(less, I)
  BY <1>1, <1>7, <1>8 DEF Summable
<1>15. /\ SumFunction(in) = SumFunctionOnSet(in, I) /\ SumFunction(out) = SumFunctionOnSet(out, I)
       /\ SumFunction(open) = SumFunctionOnSet(open, I)
       /\ SumFunctionOnSet(in, I) \in Int /\ SumFunctionOnSet(out, I) \in Int
       /\ SumFunctionOnSet(open, I) \in Int
  BY <1>6, <1>14, SumType DEF SumFunction
<1>16. SumFunctionOnSet(net, I) = SumFunctionOnSet(in, I) - SumFunctionOnSet(out, I)
  <2>1. \A n \in I : net[n] = in[n] + less[n]
    BY <1>7, <1>8
  <2>2. SumFunctionOnSet(net, I) = SumFunctionOnSet(in, I) + SumFunctionOnSet(less, I)
    BY <2>1, <1>14, SumPlus
  <2>3. SumFunctionOnSet(less, I) = -SumFunctionOnSet(out, I)
    BY <1>7, <1>14, SumNegative
  <2> QED BY <2>2, <2>3, <1>15
<1>17. SumFunctionOnSet(weight, I) <= SumFunctionOnSet(open, I)
  <2>1. \A n \in I : -open[n] <= weight[n] /\ weight[n] <= open[n]
    BY <1>8, <1>13 DEF Summable
  <2> QED BY <2>1, <1>13, <1>14, SumBounded
<1>18. ASSUME NEW x \in M PROVE -w[x] <= s[x] /\ s[x] <= w[x] /\ 0 <= w[x]
  <2> PICK n \in I : \E e \in E[n] : x = <<n, e>>
    BY <1>4
  <2> PICK e \in E[n] : x = <<n, e>>
    OBVIOUS
  <2>1. sOf[n][e] = s[x] /\ wOf[n][e] = w[x]
    BY <1>5
  <2>2. e.impact \in Nat /\ wOf[n][e] = e.impact
    BY <1>1, <1>2, <1>5 DEF Fits
  <2> QED BY <2>1, <2>2, <1>8
<1> QED
  BY <1>6, <1>12, <1>13, <1>15, <1>16, <1>17, <1>18

-----------------------------------------------------------------------------
(* What holds of the batch being run, and of what the earlier ones left.    *)

Before == stage \in {"normalize", "failed"}

Classifying == stage \in {"settle", "closed"}

TxnFits ==
  \A t \in Transactions :
    /\ txn[t] = Canonical(rows[t], SourceOf[t])
    /\ Accepted(rows[t], SourceOf[t])

(* Whatever the passes have in common: none is lost, and in the end what is *)
(* matched is not in the pools.                                             *)
PoolsLeft ==
  /\ at \in 1..(Len(Plan) + 1)
  /\ IsFiniteSet(matches)
  /\ matches \subseteq MatchRecords
  /\ pool \cup AllMatched = Transactions
  /\ Matched => pool \cap AllMatched = {}
  /\ stage \in {"classify", "settle", "closed"} => Matched

ExceptionsFit ==
  /\ ~Classifying => exceptions = {}
  /\ IsFiniteSet(exceptions)
  /\ \A e \in exceptions : e.impact \in Nat
  /\ \A e \in exceptions : e.type = "MISSING_EXTERNAL_RECORD" =>
       e.about \in Transactions /\ txn[e.about].amount = e.impact
  /\ Classifying => External \cap {e.about : e \in exceptions} = External \ AllMatched

BatchFits ==
  /\ stage \in {"normalize", "failed", "match", "classify", "settle", "closed"}
  /\ rows \in PossibleRows
  /\ Before => matches = {}
  /\ ~Before => TxnFits
  /\ PoolsLeft
  /\ ExceptionsFit

BooksFit ==
  /\ \E S : books \in Seq(S)
  /\ \A n \in DOMAIN books : Fits(books[n])

LatestPosition ==
  /\ position.batch \in 0..Number
  /\ Reported => /\ stage = "closed"
                 /\ position = CashPosition(Considered)
                 /\ forecast = ForecastOf(position)

CashInv == BatchFits /\ BooksFit /\ LatestPosition

-----------------------------------------------------------------------------
(* The reconciliation of the batch.                                         *)

LEMMA TxnFitsRows ==
  ASSUME TxnFits
  PROVE  /\ RowsTyped
         /\ \A t \in Transactions : txn[t].amount \in Nat
<1>1. \A t \in Transactions : txn[t].amount \in Nat /\ txn[t].days["transaction_date"] \in Int
  BY CanonicalTypes DEF TxnFits
<1> QED BY <1>1 DEF RowsTyped

LEMMA PoolsLeftMatch ==
  ASSUME PoolsLeft, stage = "match", MatchingNext, UNCHANGED stage
  PROVE  PoolsLeft'
<1>1. ASSUME ~Matched, NEW S, NEW T, NEW pass \in 1..6,
             S \subseteq Internal, S # {}, T \subseteq External, T # {},
             matches' = matches \cup {[source |-> S, target |-> T, pass |-> pass]},
             UNCHANGED <<pool, at>>
      PROVE  PoolsLeft'
  <2> PICK new : new = [source |-> S, target |-> T, pass |-> pass]
    OBVIOUS
  <2>1. new \in MatchRecords /\ new.source \cup new.target = S \cup T
    BY <1>1 DEF MatchRecords
  <2>2. matches' = matches \cup {new}
    BY <1>1
  <2>3. AllMatched' = AllMatched \cup (S \cup T)
    <3>1. AllMatched' = UNION {m.source \cup m.target : m \in matches \cup {new}}
      BY <2>2 DEF AllMatched
    <3> QED BY <2>1, <3>1 DEF AllMatched
  <2>4. S \cup T \subseteq Transactions
    BY <1>1 DEF Transactions
  <2>5. IsFiniteSet(matches')
    BY <2>2, FS_AddElement DEF PoolsLeft
  <2>6. ~Matched' /\ at' = at /\ pool' = pool
    BY <1>1 DEF Matched
  <2>7. (pool \cup AllMatched)' = Transactions
    BY <2>3, <2>4, <2>6 DEF PoolsLeft
  <2> QED BY <2>1, <2>2, <2>5, <2>6, <2>7 DEF PoolsLeft
<1>2. ASSUME NEW u \in Internal, NEW e \in External, MatchPair(u, e) PROVE PoolsLeft'
  <2>1. Loop.pass \in 1..6
    BY <1>2, PlanAssumption DEF PoolsLeft, MatchPair, Matched, Loop
  <2>2. /\ ~Matched /\ UNCHANGED <<pool, at>>
        /\ matches' = matches \cup {[source |-> {u}, target |-> {e}, pass |-> Loop.pass]}
    BY <1>2 DEF MatchPair
  <2>3. {u} \subseteq Internal /\ {u} # {} /\ {e} \subseteq External /\ {e} # {}
    OBVIOUS
  <2> QED BY <1>1, <2>1, <2>2, <2>3
<1>3. ASSUME MatchGroup PROVE PoolsLeft'
  <2>1. PICK key \in GroupsToMatch :
          matches' = matches \cup {[source |-> Group(key, Internal),
                                    target |-> Group(key, External), pass |-> 6]}
    BY <1>3 DEF MatchGroup
  <2>2. ~Matched /\ UNCHANGED <<pool, at>>
    BY <1>3 DEF MatchGroup
  <2>3. /\ Group(key, Internal) # {} /\ Group(key, External) # {}
        /\ Group(key, Internal) \subseteq Internal /\ Group(key, External) \subseteq External
    BY DEF GroupsToMatch, Group
  <2> PICK S, T, pass :
         pass \in 1..6 /\ S = Group(key, Internal) /\ T = Group(key, External) /\ pass = 6
    OBVIOUS
  <2>4. matches' = matches \cup {[source |-> S, target |-> T, pass |-> pass]}
    BY <2>1
  <2> QED BY <1>1, <2>2, <2>3, <2>4
<1>4. ASSUME EndLoop PROVE PoolsLeft'
  <2> DEFINE samePass == at < Len(Plan) /\ Plan[at + 1].pass = Loop.pass
  <2>1. /\ ~Matched /\ at' = at + 1 /\ matches' = matches
        /\ pool' = IF samePass THEN pool ELSE pool \ AllMatched
    BY <1>4 DEF EndLoop, LoopOver
  <2>2. AllMatched' = AllMatched
    BY <2>1 DEF AllMatched
  <2>3. at \in 1..Len(Plan) /\ at' \in 1..(Len(Plan) + 1) /\ (Matched' => ~samePass)
    BY <2>1, PlanAssumption DEF PoolsLeft, Matched
  <2> HIDE DEF samePass
  <2> QED BY <2>1, <2>2, <2>3 DEF PoolsLeft
<1> QED BY <1>2, <1>3, <1>4 DEF MatchingNext

LEMMA ClassifyFits ==
  ASSUME RowsTyped, \A u \in Transactions : txn[u].amount \in Nat,
         NEW t \in Transactions, NEW S \in SUBSET Transactions, NEW type
  PROVE  /\ Classify(t, S, type).about = t
         /\ Classify(t, S, type).impact \in Nat
         /\ Classify(t, S, type).type = "MISSING_EXTERNAL_RECORD" =>
              Classify(t, S, type).impact = txn[t].amount
<1>1. \A k, r, i : /\ Draft(t, k, r, i).about = t /\ Draft(t, k, r, i).type = k
                   /\ Draft(t, k, r, i).impact = i
  BY DEF Draft
<1>2. CASE S = {}
  <2>1. Classify(t, S, type) = Draft(t, type, {}, txn[t].amount)
    BY <1>2 DEF Classify
  <2> QED BY <1>1, <2>1
<1>3. CASE S # {}
  <2> DEFINE near == Nearest(t, S)
             gap  == Gap(t, near)
             late == DaysApart(t, near, "transaction_date") > TimingLooseDateDays
  <2>1. near \in Transactions
    BY <1>3, NearestIsIn
  <2>2. gap \in Nat
    BY <2>1 DEF Gap, AbsDiff
  <2>3. Classify(t, S, type) =
          CASE gap = 0 /\ late  -> Draft(t, "TIMING_DIFFERENCE", {near}, 0)
            [] gap = 0 /\ ~late -> Draft(t, "COUNTERPARTY_MISMATCH", {near}, 0)
            [] gap > 0 /\ 10 * gap <= txn[t].amount ->
                 Draft(t, "AMOUNT_MISMATCH", {near}, gap)
            [] OTHER -> Draft(t, type, {}, txn[t].amount)
    BY <1>3 DEF Classify
  <2> HIDE DEF gap, late, near
  <2>4. \/ Classify(t, S, type) = Draft(t, "TIMING_DIFFERENCE", {near}, 0)
        \/ Classify(t, S, type) = Draft(t, "COUNTERPARTY_MISMATCH", {near}, 0)
        \/ Classify(t, S, type) = Draft(t, "AMOUNT_MISMATCH", {near}, gap)
        \/ Classify(t, S, type) = Draft(t, type, {}, txn[t].amount)
    BY <2>3
  <2> QED BY <1>1, <2>2, <2>4
<1> QED BY <1>2, <1>3

LEMMA DuplicatesFinite ==
  ASSUME NEW S \in SUBSET Transactions
  PROVE  IsFiniteSet(DuplicateDrafts(S))
<1> DEFINE f == [t \in Duplicates(S) |-> Draft(t, "DUPLICATE", Twins(t, S), txn[t].amount)]
<1>1. IsFiniteSet(Duplicates(S))
  BY MatchingAssumption, FS_Subset DEF Duplicates
<1>2. DOMAIN f = Duplicates(S) /\ {f[x] : x \in DOMAIN f} = DuplicateDrafts(S)
  BY DEF DuplicateDrafts
<1> HIDE DEF f
<1> QED BY <1>1, <1>2, ImageFinite

Drafts(S, T, type) == {Classify(t, T, type) : t \in S}

LEMMA DraftsFinite ==
  ASSUME NEW S \in SUBSET Transactions, NEW T, NEW type
  PROVE  IsFiniteSet(Drafts(S, T, type))
<1> DEFINE f == [t \in S |-> Classify(t, T, type)]
<1>1. IsFiniteSet(S)
  BY MatchingAssumption, FS_Subset
<1>2. DOMAIN f = S /\ {f[x] : x \in DOMAIN f} = Drafts(S, T, type)
  BY DEF Drafts
<1> HIDE DEF f
<1> QED BY <1>1, <1>2, ImageFinite

(* Each exception about a row left over has its amount or a difference; all *)
(* rows left over get one.                                                  *)
LEMMA IdentifyFits ==
  ASSUME PoolsLeft, TxnFits, IdentifyExceptions
  PROVE  ExceptionsFit'
<1> DEFINE UI == Unmatched(Internal)
           UE == Unmatched(External)
           SI == Single(Internal)
           SE == Single(External)
           DI == DuplicateDrafts(UI)
           DE == DuplicateDrafts(UE)
           LI == Drafts(SI, SE, "MISSING_EXTERNAL_RECORD")
           LE == Drafts(SE, SI, "MISSING_INTERNAL_RECORD")
<1>1. /\ exceptions' = DI \cup DE \cup LI \cup LE /\ stage' = "settle"
      /\ UNCHANGED <<txn, matches, pool>> /\ stage = "classify"
  BY DEF IdentifyExceptions, Drafts
<1>2. /\ RowsTyped /\ \A u \in Transactions : txn[u].amount \in Nat
  BY TxnFitsRows
<1>3. /\ pool = Transactions \ AllMatched
  BY <1>1 DEF PoolsLeft
<1>4. /\ UI \in SUBSET Transactions /\ UE \in SUBSET Transactions
      /\ SI \in SUBSET Transactions /\ SE \in SUBSET Transactions
      /\ UE = External \ AllMatched /\ UE \subseteq External /\ UI \cap External = {}
      /\ Duplicates(UI) \subseteq UI /\ Duplicates(UE) \subseteq UE
      /\ SI \subseteq UI /\ SE = UE \ Duplicates(UE)
  BY <1>3, MatchingAssumption DEF Unmatched, Single, Duplicates, Transactions
<1>5. /\ \A d \in DI : d.about \in Duplicates(UI) /\ d.type = "DUPLICATE"
                       /\ d.impact = txn[d.about].amount
      /\ \A d \in DE : d.about \in Duplicates(UE) /\ d.type = "DUPLICATE"
                       /\ d.impact = txn[d.about].amount
      /\ \A t \in Duplicates(UE) : \E d \in DE : d.about = t
  <2>1. \A t, r, i : /\ Draft(t, "DUPLICATE", r, i).about = t
                     /\ Draft(t, "DUPLICATE", r, i).type = "DUPLICATE"
                     /\ Draft(t, "DUPLICATE", r, i).impact = i
    BY DEF Draft
  <2>2. \A S : \A d \in DuplicateDrafts(S) : \E t \in Duplicates(S) :
          d = Draft(t, "DUPLICATE", Twins(t, S), txn[t].amount)
    BY DEF DuplicateDrafts
  <2>3. \A S : \A t \in Duplicates(S) :
          Draft(t, "DUPLICATE", Twins(t, S), txn[t].amount) \in DuplicateDrafts(S)
    BY DEF DuplicateDrafts
  <2> HIDE DEF UI, UE
  <2> QED BY <2>1, <2>2, <2>3
<1>6. /\ \A t \in SI : LET d == Classify(t, SE, "MISSING_EXTERNAL_RECORD") IN
           /\ d.about = t /\ d.impact \in Nat
           /\ d.type = "MISSING_EXTERNAL_RECORD" => d.impact = txn[t].amount
      /\ \A t \in SE : LET d == Classify(t, SI, "MISSING_INTERNAL_RECORD") IN
           /\ d.about = t /\ d.impact \in Nat
           /\ d.type = "MISSING_EXTERNAL_RECORD" => d.impact = txn[t].amount
  <2> HIDE DEF SI, SE
  <2> QED BY <1>2, <1>4, ClassifyFits
<1>7. /\ \A d \in LI : d.about \in SI /\ d.impact \in Nat
           /\ (d.type = "MISSING_EXTERNAL_RECORD" => d.impact = txn[d.about].amount)
      /\ \A d \in LE : d.about \in SE /\ d.impact \in Nat
           /\ (d.type = "MISSING_EXTERNAL_RECORD" => d.impact = txn[d.about].amount)
      /\ \A t \in SE : \E d \in LE : d.about = t
  <2> HIDE DEF SI, SE
  <2> QED BY <1>6 DEF Drafts
<1>8. IsFiniteSet(DI) /\ IsFiniteSet(DE) /\ IsFiniteSet(LI) /\ IsFiniteSet(LE)
  <2> HIDE DEF UI, UE, SI, SE
  <2> QED BY <1>4, DuplicatesFinite, DraftsFinite
<1> HIDE DEF UI, UE, SI, SE, DI, DE, LI, LE
<1>9. IsFiniteSet(exceptions')
  <2>1. IsFiniteSet(DI \cup DE)
    BY <1>8, FS_Union
  <2>2. IsFiniteSet(DI \cup DE \cup LI)
    BY <1>8, <2>1, FS_Union
  <2>3. IsFiniteSet(DI \cup DE \cup LI \cup LE)
    BY <1>8, <2>2, FS_Union
  <2> QED BY <2>3, <1>1
<1>10. \A e \in exceptions' :
         /\ e.impact \in Nat /\ e.about \in Transactions
         /\ e.type = "MISSING_EXTERNAL_RECORD" => e.impact = txn[e.about].amount
  <2> SUFFICES ASSUME NEW e \in DI \cup DE \cup LI \cup LE
               PROVE  /\ e.impact \in Nat /\ e.about \in Transactions
                      /\ e.type = "MISSING_EXTERNAL_RECORD" => e.impact = txn[e.about].amount
    BY <1>1
  <2>1. CASE e \in DI
    BY <2>1, <1>2, <1>4, <1>5
  <2>2. CASE e \in DE
    BY <2>2, <1>2, <1>4, <1>5
  <2>3. CASE e \in LI
    BY <2>3, <1>4, <1>7
  <2>4. CASE e \in LE
    BY <2>4, <1>4, <1>7
  <2> QED BY <2>1, <2>2, <2>3, <2>4
<1>11. External \cap {e.about : e \in exceptions'} = External \ AllMatched
  <2>1. \A e \in exceptions' : e.about \in External => e.about \in UE
    BY <1>1, <1>4, <1>5, <1>7
  <2>2. \A t \in UE : \E e \in exceptions' : e.about = t
    BY <1>1, <1>4, <1>5, <1>7
  <2> QED BY <2>1, <2>2, <1>4
<1>12. AllMatched' = AllMatched
  BY <1>1 DEF AllMatched
<1> QED BY <1>1, <1>9, <1>10, <1>11, <1>12 DEF ExceptionsFit, Classifying

(* A fee variance is about a movement in the books, never about one of the  *)
(* bank, and what it comes to is a difference.                              *)
LEMMA VarianceFits ==
  ASSUME RowsTyped, NEW m \in MatchRecords
  PROVE  /\ FeeVariance(m).about \in Internal /\ FeeVariance(m).impact \in Nat
         /\ FeeVariance(m).type = "FEE_VARIANCE"
<1>1. /\ m.source \in SUBSET Transactions /\ m.source # {} /\ m.target \in SUBSET Transactions
      /\ m.source \subseteq Internal
  BY DEF MatchRecords, Transactions
<1>2. First(m.source) \in Internal
  BY <1>1, FirstIsIn
<1>3. AbsDiff(Gross(m), Observed(m)) \in Nat
  <2>1. Gross(m) \in Int /\ Observed(m) \in Int
    BY <1>1, TotalAmountType DEF Gross, Observed
  <2> QED BY <2>1 DEF AbsDiff
<1> QED BY <1>2, <1>3 DEF FeeVariance, Draft

LEMMA SettlementsFit ==
  ASSUME PoolsLeft, TxnFits, ExceptionsFit, BuildSettlements
  PROVE  ExceptionsFit'
<1> DEFINE bad == {n \in matches : ToSettle(n) /\ ~Settle(n).explained}
           V == {FeeVariance(m) : m \in bad}
           f == [m \in bad |-> FeeVariance(m)]
<1>1. /\ exceptions' = exceptions \cup V /\ stage' = "closed" /\ stage = "settle"
      /\ UNCHANGED <<txn, matches, pool>>
  BY DEF BuildSettlements
<1>2. RowsTyped
  BY TxnFitsRows
<1>3. bad \subseteq matches /\ matches \subseteq MatchRecords
  BY DEF PoolsLeft
<1>4. IsFiniteSet(bad)
  BY <1>3, FS_Subset DEF PoolsLeft
<1> HIDE DEF bad
<1>5. \A e \in V : e.about \in Internal /\ e.impact \in Nat /\ e.type = "FEE_VARIANCE"
  BY <1>2, <1>3, VarianceFits
<1>6. IsFiniteSet(V)
  <2>1. DOMAIN f = bad /\ {f[x] : x \in DOMAIN f} = V
    OBVIOUS
  <2> HIDE DEF f, V
  <2>2. IsFiniteSet({f[x] : x \in DOMAIN f})
    BY <1>4, <2>1, ImageFinite
  <2> QED BY <2>1, <2>2
<1> HIDE DEF f, V
<1>7. IsFiniteSet(exceptions')
  BY <1>1, <1>6, FS_Union DEF ExceptionsFit
<1>8. AllMatched' = AllMatched
  BY <1>1 DEF AllMatched
<1>9. \A e \in exceptions' :
        /\ e.impact \in Nat
        /\ e.type = "MISSING_EXTERNAL_RECORD" =>
             e.about \in Transactions /\ txn[e.about].amount = e.impact
  BY <1>1, <1>5 DEF ExceptionsFit
<1>10. External \cap {e.about : e \in exceptions'} = External \ AllMatched
  <2>1. External \cap {e.about : e \in exceptions} = External \ AllMatched
    BY <1>1 DEF ExceptionsFit, Classifying
  <2>2. \A e \in V : e.about \notin External
    BY <1>5, MatchingAssumption
  <2> QED BY <1>1, <2>1, <2>2
<1> QED BY <1>1, <1>7, <1>8, <1>9, <1>10 DEF ExceptionsFit, Classifying

-----------------------------------------------------------------------------
(* Every step of the client's cash.                                         *)

LEMMA CommittedFits ==
  ASSUME BatchFits
  PROVE  Fits(Committed)
<1> PICK b : b = Committed
  OBVIOUS
<1>1. /\ b.txn = txn /\ b.rows = rows /\ b.exceptions = exceptions
      /\ b.parsed = (stage \notin {"normalize", "failed"})
      /\ b.classified = (stage \in {"settle", "closed"})
      /\ b.matches = IF stage = "match" THEN {} ELSE matches
  BY DEF Committed
<1>2. b.parsed \in BOOLEAN /\ (b.parsed <=> ~Before) /\ (b.classified <=> Classifying)
  BY <1>1 DEF Before, Classifying
<1>3. b.parsed => Parsed(b)
  BY <1>1, <1>2 DEF BatchFits, TxnFits, Parsed
<1>4. ~b.parsed => b.matches = {} /\ ~b.classified
  BY <1>1, <1>2 DEF BatchFits, Before, Classifying
<1>5. b.classified => External \cap {e.about : e \in b.exceptions} = External \ InMatch(b)
  <2> SUFFICES ASSUME Classifying
               PROVE  External \cap {e.about : e \in b.exceptions} = External \ InMatch(b)
    BY <1>2
  <2>1. b.matches = matches
    BY <1>1 DEF Classifying
  <2>2. InMatch(b) = AllMatched
    BY <2>1 DEF InMatch, AllMatched
  <2> QED BY <1>1, <2>2 DEF BatchFits, ExceptionsFit
<1>6. IsFiniteSet(b.exceptions) /\ \A e \in b.exceptions : e.impact \in Nat
  BY <1>1 DEF BatchFits, ExceptionsFit
<1>7. ExpectedAmounts(b)
  <2> SUFFICES ASSUME NEW e \in ExpectedMovements(b)
               PROVE  b.parsed /\ e.about \in Transactions /\ b.txn[e.about].amount = e.impact
    BY DEF ExpectedAmounts
  <2>1. e \in exceptions /\ e.type = "MISSING_EXTERNAL_RECORD"
    BY <1>1 DEF ExpectedMovements
  <2>2. Classifying
    BY <2>1 DEF BatchFits, ExceptionsFit
  <2> QED BY <1>1, <1>2, <2>1, <2>2 DEF BatchFits, ExceptionsFit, Classifying, Before
<1> QED BY <1>2, <1>3, <1>4, <1>5, <1>6, <1>7 DEF Fits

LEMMA ConsideredFits ==
  ASSUME BatchFits, BooksFit
  PROVE  /\ AllFit(Considered)
         /\ DOMAIN Considered = 1..(Len(books) + 1) /\ Len(books) \in Nat
         /\ \E S : Considered \in Seq(S)
<1>1. PICK S : books \in Seq(S)
  BY DEF BooksFit
<1> PICK b, T : b = Committed /\ T = S \cup {b}
  OBVIOUS
<1>2. Fits(b)
  BY CommittedFits
<1>3. books \in Seq(T) /\ b \in T
  BY <1>1
<1>4. /\ Append(books, b) \in Seq(T) /\ Len(books) \in Nat
      /\ DOMAIN Append(books, b) = 1..(Len(books) + 1)
      /\ DOMAIN books = 1..Len(books)
      /\ \A n \in 1..Len(books) : Append(books, b)[n] = books[n]
      /\ Append(books, b)[Len(books) + 1] = b
  BY <1>3
<1>5. \A n \in 1..(Len(books) + 1) : Fits(Append(books, b)[n])
  <2> TAKE n \in 1..(Len(books) + 1)
  <2>1. CASE n = Len(books) + 1
    BY <1>2, <1>4, <2>1
  <2>2. CASE n # Len(books) + 1
    <3>1. n \in 1..Len(books)
      BY <1>4, <2>2
    <3> QED BY <1>4, <3>1 DEF BooksFit
  <2> QED BY <2>1, <2>2
<1>6. IsFiniteSet(1..(Len(books) + 1))
  BY <1>4, FS_Interval
<1> QED BY <1>4, <1>5, <1>6 DEF Considered, AllFit

LEMMA PositionSame ==
  ASSUME UNCHANGED <<reconciliationVars, rows, books>>
  PROVE  /\ Number' = Number /\ Considered' = Considered
         /\ CashPosition(Considered)' = CashPosition(Considered)
<1>1. /\ UNCHANGED <<txn, matches, stage, exceptions, settlements, rows, books>>
  BY DEF reconciliationVars
<1>2. Number' = Number
  BY <1>1 DEF Number
<1>3. Committed' = Committed
  BY <1>1 DEF Committed, Number
<1>4. Considered' = Considered
  BY <1>1, <1>3 DEF Considered
<1>5. Accounts' = Accounts
  BY <1>2 DEF Accounts
<1> QED BY <1>2, <1>4, <1>5 DEF CashPosition, Over

LEMMA CashInvInit ==
  CashInit => CashInv
<1> SUFFICES ASSUME CashInit PROVE CashInv
  OBVIOUS
<1>1. AllMatched = {} /\ ~Matched
  BY PlanAssumption DEF CashInit, AllMatched, Matched
<1>2. PoolsLeft
  BY <1>1, PlanAssumption, FS_EmptySet DEF CashInit, PoolsLeft
<1>3. ExceptionsFit
  BY FS_EmptySet DEF CashInit, ExceptionsFit, Classifying
<1>4. BatchFits
  BY <1>2, <1>3 DEF CashInit, BatchFits, Before
<1>5. BooksFit
  <2>1. << >> \in Seq({})
    OBVIOUS
  <2> QED BY <2>1 DEF CashInit, BooksFit
<1>6. Number = 1 /\ position.batch = 0
  BY DEF CashInit, Number, NoPosition
<1>7. LatestPosition
  BY <1>6 DEF LatestPosition, Reported
<1> QED BY <1>4, <1>5, <1>7 DEF CashInv

LEMMA RowsReadable ==
  ASSUME rows \in PossibleRows, NEW t \in Transactions
  PROVE  NumbersReadable(rows[t], SourceOf[t])
<1>1. rows[t] \in RowsOf[SourceOf[t]]
  BY DEF PossibleRows
<1>2. SourceOf[t] \in DOMAIN DataSources \cap DOMAIN RowsOf
  BY CashAssumption
<1> QED BY <1>1, <1>2, CashAssumption

(* Nothing that the pools and the exceptions depend on has changed.         *)
LEMMA PartsSame ==
  ASSUME UNCHANGED <<txn, pool, at, matches, exceptions>>
  PROVE  /\ PoolsLeft /\ (stage' \in {"classify", "settle", "closed"} => Matched) => PoolsLeft'
         /\ ExceptionsFit /\ Classifying' = Classifying => ExceptionsFit'
         /\ rows' = rows /\ TxnFits => TxnFits'
<1>1. AllMatched' = AllMatched /\ Matched' = Matched
  BY DEF AllMatched, Matched
<1>2. ASSUME PoolsLeft, stage' \in {"classify", "settle", "closed"} => Matched PROVE PoolsLeft'
  BY <1>1, <1>2 DEF PoolsLeft
<1>3. ASSUME ExceptionsFit, Classifying' = Classifying PROVE ExceptionsFit'
  BY <1>1, <1>3 DEF ExceptionsFit
<1>4. ASSUME rows' = rows, TxnFits PROVE TxnFits'
  BY <1>4 DEF TxnFits
<1> QED BY <1>2, <1>3, <1>4

LEMMA NormalizeFits ==
  ASSUME BatchFits, Normalize
  PROVE  BatchFits'
<1>1. /\ stage = "normalize" /\ stage' = "match" /\ rows' = rows
      /\ UNCHANGED <<pool, at, matches, exceptions>>
      /\ txn' = [t \in Transactions |-> Canonical(rows[t], SourceOf[t])]
      /\ \A t \in Transactions : ~Rejected(rows[t], SourceOf[t])
  BY DEF Normalize, Keeps
<1>2. \A t \in Transactions : Accepted(rows[t], SourceOf[t])
  BY <1>1, RowsReadable DEF BatchFits, Accepted
<1>3. \A t \in Transactions : txn'[t] = Canonical(rows[t], SourceOf[t])
  BY <1>1
<1>4. TxnFits'
  BY <1>1, <1>2, <1>3 DEF TxnFits
<1>5. PoolsLeft'
  BY <1>1 DEF BatchFits, PoolsLeft, AllMatched, Matched
<1>6. exceptions = {} /\ exceptions' = {}
  BY <1>1 DEF BatchFits, ExceptionsFit, Classifying
<1>7. ExceptionsFit'
  BY <1>1, <1>6, FS_EmptySet DEF ExceptionsFit, Classifying
<1> QED BY <1>1, <1>4, <1>5, <1>7 DEF BatchFits, Before

LEMMA RejectFits ==
  ASSUME BatchFits, RejectRow
  PROVE  BatchFits'
<1>1. /\ stage = "normalize" /\ stage' = "failed" /\ rows' = rows
      /\ UNCHANGED <<txn, pool, at, matches, exceptions>>
  BY DEF RejectRow, Keeps
<1>2. Classifying' = Classifying
  BY <1>1 DEF Classifying
<1>3. PoolsLeft' /\ ExceptionsFit'
  BY <1>1, <1>2, PartsSame DEF BatchFits
<1> QED BY <1>1, <1>3 DEF BatchFits, Before

LEMMA ReconcileFits ==
  ASSUME BatchFits, Reconcile
  PROVE  BatchFits'
<1>1. rows' = rows /\ ReconciliationNext
  BY DEF Reconcile, Keeps
<1>2. CASE Match
  <2>1. /\ stage = "match" /\ stage' = stage /\ exceptions' = exceptions /\ MatchingNext
        /\ txn' = txn
    BY <1>2 DEF Match, outcomeVars, MatchingNext, MatchPair, MatchGroup, EndLoop
  <2>2. PoolsLeft'
    BY <2>1, PoolsLeftMatch DEF BatchFits
  <2>3. exceptions' = {}
    BY <2>1 DEF BatchFits, ExceptionsFit, Classifying
  <2>4. ExceptionsFit'
    BY <2>1, <2>3, FS_EmptySet DEF ExceptionsFit, Classifying
  <2>5. TxnFits'
    BY <1>1, <2>1 DEF BatchFits, Before, TxnFits
  <2> QED BY <1>1, <2>1, <2>2, <2>4, <2>5 DEF BatchFits, Before
<1>3. CASE FinishMatching
  <2>1. /\ stage = "match" /\ stage' = "classify" /\ Matched
        /\ UNCHANGED <<txn, pool, at, matches, exceptions>>
    BY <1>3 DEF FinishMatching
  <2>2. Classifying' = Classifying
    BY <2>1 DEF Classifying
  <2>3. PoolsLeft' /\ ExceptionsFit' /\ TxnFits'
    BY <1>1, <2>1, <2>2, PartsSame DEF BatchFits, Before
  <2> QED BY <1>1, <2>1, <2>3 DEF BatchFits, Before
<1>4. CASE IdentifyExceptions
  <2>1. /\ stage = "classify" /\ stage' = "settle"
        /\ UNCHANGED <<txn, pool, at, matches>>
    BY <1>4 DEF IdentifyExceptions
  <2>2. ExceptionsFit'
    BY <1>4, <2>1, IdentifyFits DEF BatchFits, Before
  <2>3. PoolsLeft' /\ TxnFits'
    BY <1>1, <2>1 DEF BatchFits, Before, PoolsLeft, TxnFits, AllMatched, Matched
  <2> QED BY <1>1, <2>1, <2>2, <2>3 DEF BatchFits, Before
<1>5. CASE BuildSettlements
  <2>1. /\ stage = "settle" /\ stage' = "closed"
        /\ UNCHANGED <<txn, pool, at, matches>>
    BY <1>5 DEF BuildSettlements
  <2>2. ExceptionsFit'
    BY <1>5, <2>1, SettlementsFit DEF BatchFits, Before
  <2>3. PoolsLeft' /\ TxnFits'
    BY <1>1, <2>1 DEF BatchFits, Before, PoolsLeft, TxnFits, AllMatched, Matched
  <2> QED BY <1>1, <2>1, <2>2, <2>3 DEF BatchFits, Before
<1> QED BY <1>1, <1>2, <1>3, <1>4, <1>5 DEF ReconciliationNext

LEMMA NextBatchFits ==
  ASSUME BatchFits, BooksFit, NextBatch
  PROVE  BatchFits' /\ BooksFit'
<1>1. /\ rows' \in PossibleRows /\ pool' = Transactions /\ at' = 1 /\ matches' = {}
      /\ stage' = "normalize" /\ exceptions' = {} /\ books' = Considered
  BY DEF NextBatch, Considered
<1>2. AllMatched' = {} /\ ~Matched'
  BY <1>1, PlanAssumption DEF AllMatched, Matched
<1>3. PoolsLeft'
  BY <1>1, <1>2, PlanAssumption, FS_EmptySet DEF PoolsLeft
<1>4. ExceptionsFit'
  BY <1>1, FS_EmptySet DEF ExceptionsFit, Classifying
<1>5. BatchFits'
  BY <1>1, <1>3, <1>4 DEF BatchFits, Before
<1>6. BooksFit'
  BY <1>1, ConsideredFits DEF BooksFit, AllFit
<1> QED BY <1>5, <1>6

LEMMA CashInvStep ==
  ASSUME CashInv, [CashNext]_cashVars
  PROVE  CashInv'
<1> USE DEF CashInv
<1>1. ASSUME Normalize \/ RejectRow \/ Reconcile PROVE CashInv'
  <2>1. BatchFits'
    BY <1>1, NormalizeFits, RejectFits, ReconcileFits
  <2>2. UNCHANGED <<books, position, forecast>> /\ stage # "closed"
    BY <1>1 DEF Normalize, RejectRow, Reconcile, Keeps, ReconciliationNext, Match,
                FinishMatching, IdentifyExceptions, BuildSettlements
  <2>3. BooksFit'
    BY <2>2 DEF BooksFit
  <2>4. ~Reported' /\ Number' = Number
    BY <2>2 DEF LatestPosition, Reported, Number
  <2>5. LatestPosition'
    BY <2>2, <2>4 DEF LatestPosition
  <2> QED BY <2>1, <2>3, <2>5
<1>2. ASSUME ComputeCash \/ UNCHANGED cashVars PROVE CashInv'
  <2>1. UNCHANGED <<reconciliationVars, rows, books>>
    BY <1>2 DEF ComputeCash, cashVars
  <2>2. UNCHANGED <<txn, pool, at, used, matches, stage, exceptions, settlements, rows, books>>
    BY <2>1 DEF reconciliationVars
  <2>3. /\ PoolsLeft' /\ ExceptionsFit' /\ (~Before => TxnFits')
    BY <2>2, PartsSame DEF BatchFits, PoolsLeft, Classifying
  <2>4. BatchFits'
    BY <2>2, <2>3 DEF BatchFits, Before
  <2>5. BooksFit'
    BY <2>2 DEF BooksFit
  <2>6. /\ Number' = Number /\ CashPosition(Considered)' = CashPosition(Considered)
    BY <2>1, PositionSame
  <2>7. Number \in Nat
    BY ConsideredFits DEF Number
  <2>8. LatestPosition'
    <3>1. CASE ComputeCash
      <4>1. /\ position' = CashPosition(Considered) /\ stage' = "closed"
            /\ forecast' = ForecastOf(CashPosition(Considered))
        BY <3>1, <2>2 DEF ComputeCash
      <4>2. position'.batch = Number
        BY <4>1 DEF CashPosition
      <4>3. position'.batch \in 0..Number
        BY <4>2, <2>7
      <4> QED BY <4>1, <4>3, <2>6 DEF LatestPosition
    <3>2. CASE UNCHANGED cashVars
      <4>1. UNCHANGED <<position, forecast, stage>>
        BY <3>2, <2>2 DEF cashVars
      <4>2. Reported' = Reported
        BY <4>1, <2>6 DEF Reported
      <4> QED BY <4>1, <4>2, <2>6 DEF LatestPosition
    <3> QED BY <1>2, <3>1, <3>2
  <2> QED BY <2>4, <2>5, <2>8
<1>3. ASSUME NextBatch PROVE CashInv'
  <2>1. BatchFits' /\ BooksFit'
    BY <1>3, NextBatchFits
  <2>2. books' = Considered /\ UNCHANGED <<position, forecast>>
    BY <1>3 DEF NextBatch, Considered
  <2>3. Number' = Number + 1 /\ Number \in Nat
    <3>1. /\ DOMAIN Considered = 1..(Len(books) + 1) /\ Len(books) \in Nat
          /\ \E S : Considered \in Seq(S)
      BY ConsideredFits
    <3>2. Len(Considered) = Len(books) + 1
      <4> PICK c : c = Considered
        OBVIOUS
      <4>1. Len(c) \in Nat /\ 1..Len(c) = 1..(Len(books) + 1)
        BY <3>1
      <4> QED BY <3>1, <4>1
    <3> QED BY <2>2, <3>1, <3>2 DEF Number
  <2>4. ~Reported' /\ position'.batch \in 0..Number'
    BY <2>2, <2>3 DEF LatestPosition, Reported
  <2> QED BY <2>1, <2>4 DEF LatestPosition
<1> QED BY <1>1, <1>2, <1>3 DEF CashNext

LEMMA CashInvAlways == CashSpec => []CashInv
<1>1. CashInit => CashInv
  BY CashInvInit
<1>2. CashInv /\ [CashNext]_cashVars => CashInv'
  BY CashInvStep
<1> QED BY <1>1, <1>2, PTL DEF CashSpec

(* The confirmed cash of a batch is a number, however its statements are    *)
(* written.                                                                 *)
LEMMA ConfirmedType ==
  ASSUME NEW b, Fits(b)
  PROVE  ConfirmedCash(b) \in Int
<1> DEFINE S == {t \in MatchedExternal(b) : ~Transfer(b, t)}
           g == [t \in S |-> SignedAmount(b.txn[t])]
<1>1. CASE ~b.parsed
  <2>1. S = {}
    BY <1>1 DEF MatchedExternal, InMatch, Fits
  <2> QED BY <2>1, SumOfNone DEF ConfirmedCash
<1>2. CASE b.parsed
  <2>1. S \subseteq External /\ IsFiniteSet(S)
    BY FiniteSides, FS_Subset DEF MatchedExternal
  <2>2. \A t \in S : SignedAmount(b.txn[t]) \in Int
    <3> TAKE t \in S
    <3>1. /\ b.txn[t] = Canonical(b.rows[t], SourceOf[t])
          /\ Accepted(b.rows[t], SourceOf[t])
      BY <1>2, <2>1, FiniteSides DEF Fits, Parsed
    <3>2. b.txn[t].amount \in Nat
      BY <3>1, CanonicalTypes
    <3> QED BY <3>2 DEF SignedAmount
  <2>3. ConfirmedCash(b) = SumFunction(g) /\ DOMAIN g = S
    BY DEF ConfirmedCash, SumOfSigned
  <2> HIDE DEF S
  <2>4. Summable(g, S)
    BY <2>1, <2>2 DEF Summable
  <2> HIDE DEF g
  <2> QED BY <2>3, <2>4, SumType DEF SumFunction
<1> QED BY <1>1, <1>2 DEF Fits

-----------------------------------------------------------------------------
(* When a bank's statements have a column for what comes in and one for     *)
(* what goes out, all their money is accounted for in every position that   *)
(* is computed, whatever the rows, the rules and the points at which the    *)
(* client's batches stopped (cash/service.py:60-104, field_mapper.py,       *)
(* exceptions/classifier.py).                                               *)
THEOREM StatementsAccounted ==
  SplitStatements => (CashSpec => []StatementAccountedFor)
<1> SUFFICES ASSUME SplitStatements PROVE CashSpec => []StatementAccountedFor
  OBVIOUS
<1>1. CashInv => StatementAccountedFor
  <2> SUFFICES ASSUME CashInv, Reported PROVE StatementAccountedFor
    BY DEF StatementAccountedFor
  <2>1. position = CashPosition(Considered)
    BY DEF CashInv, LatestPosition
  <2> PICK B : B = Considered
    OBVIOUS
  <2>2. AllFit(B)
    BY ConsideredFits DEF CashInv
  <2>3. /\ position.confirmed = Over(B, ConfirmedCash)
        /\ position.byAccount = [a \in Accounts |-> BookedFor(B, a)]
    BY <2>1 DEF CashPosition, BookedFor
  <2>4. Over(B, LAMBDA b : Statement(b, ParsedExternal(b))) =
          Over(B, ConfirmedCash)
          + Over(B, LAMBDA b :
              Statement(b, {t \in ParsedExternal(b) \cap InMatch(b) : Transfer(b, t)}))
          + Over(B, LAMBDA b : Statement(b, ParsedExternal(b) \cap LeftOpen(b)))
    BY <2>2, AllAccounted
  <2>5. \A a \in DOMAIN position.byAccount :
          position.byAccount[a] = BookedFor(B, a)
    BY <2>3
  <2>6. \A a \in DOMAIN position.byAccount :
          position.byAccount[a] = StatedFor(B, a)
    BY <2>2, <2>5, AccountAccounted
  <2> QED BY <2>3, <2>4, <2>6 DEF StatementAccountedFor, StatedFor
<1> QED BY <1>1, CashInvAlways, PTL

LEMMA ForecastBand ==
  ASSUME NEW p, NEW c \in Int, NEW i \in Int, NEW o \in Int, NEW u \in Int,
         p.confirmed = c, p.inflows = i, p.outflows = o, p.unreconciled = u
  PROVE  ForecastOf(p).low = c + i - o - u /\ ForecastOf(p).high = c + i - o + u
BY DEF ForecastOf

(* Whatever the configuration, the files and the number of batches: any of  *)
(* the movements still missing at the bank may arrive and any may stay away *)
(* -- the client's cash ends up between the low and the high estimate of    *)
(* its forecast (forecasting/service.py:27-36, cash/service.py:107-122).    *)
THEOREM BandHolds == CashSpec => []BandCoversOutcomes
<1>1. CashInv => BandCoversOutcomes
  <2> SUFFICES ASSUME CashInv, Reported, NEW arrived \in SUBSET Missing
               PROVE  LET cash == position.confirmed +
                            SumFunction([x \in arrived |->
                              SignedAmount(Considered[x[1]].txn[x[2].about])])
                      IN  forecast.low <= cash /\ cash <= forecast.high
    BY DEF BandCoversOutcomes
  <2>1. position = CashPosition(Considered) /\ forecast = ForecastOf(position)
    BY DEF CashInv, LatestPosition
  <2> PICK B, M : B = Considered /\ M = Missing
    OBVIOUS
  <2>2. AllFit(B)
    BY ConsideredFits DEF CashInv
  <2> PICK c, i, o, u : /\ c = AllConfirmed(B) /\ i = AllInflows(B)
                        /\ o = AllOutflows(B) /\ u = AllOpen(B)
    OBVIOUS
  <2> DEFINE s == [x \in M |-> SignedAmount(B[x[1]].txn[x[2].about])]
             w == [x \in M |-> x[2].impact]
             e == [x \in arrived |-> SignedAmount(B[x[1]].txn[x[2].about])]
  <2>3. /\ position.confirmed = c /\ position.inflows = i /\ position.outflows = o
        /\ position.unreconciled = u
    BY <2>1 DEF CashPosition, AllConfirmed, AllInflows, AllOutflows, AllOpen
  <2>4. M = AllMissing(B)
    BY DEF Missing, AllMissing
  <2>5. /\ \A x \in M : s[x] = SignedAmount(B[x[1]].txn[x[2].about])
        /\ \A x \in M : w[x] = x[2].impact
        /\ \A x \in arrived : e[x] = s[x]
        /\ DOMAIN e = arrived
    OBVIOUS
  <2>6. SumFunction([x \in arrived |-> SignedAmount(Considered[x[1]].txn[x[2].about])])
          = SumFunction(e)
    OBVIOUS
  <2>7. c \in Int
    <3> DEFINE f == [n \in DOMAIN B |-> ConfirmedCash(B[n])]
    <3>1. \A n \in DOMAIN B : ConfirmedCash(B[n]) \in Int
      BY <2>2, ConfirmedType DEF AllFit
    <3>2. Summable(f, DOMAIN B) /\ DOMAIN f = DOMAIN B
      BY <2>2, <3>1 DEF Summable, AllFit
    <3>3. c = SumFunction(f)
      BY DEF Over, AllConfirmed
    <3> HIDE DEF f
    <3> QED BY <3>2, <3>3, SumType DEF SumFunction
  <2> HIDE DEF s, w, e
  <2>8. /\ Summable(s, M) /\ Summable(w, M)
        /\ \A x \in M : -w[x] <= s[x] /\ s[x] <= w[x] /\ 0 <= w[x]
        /\ SumFunctionOnSet(s, M) = i - o
        /\ SumFunctionOnSet(w, M) <= u
        /\ {i, o, u} \subseteq Int
    BY <2>2, <2>4, <2>5, AllExpected
  <2>9. forecast.low = c + i - o - u /\ forecast.high = c + i - o + u
    BY <2>1, <2>3, <2>7, <2>8, ForecastBand
  <2>10. /\ SumFunctionOnSet(s, arrived) \in Int
         /\ SumFunctionOnSet(s, M) - SumFunctionOnSet(w, M) <= SumFunctionOnSet(s, arrived)
         /\ SumFunctionOnSet(s, arrived) <= SumFunctionOnSet(s, M) + SumFunctionOnSet(w, M)
    BY <2>8, PartWithin
  <2>11. SumFunction(e) = SumFunctionOnSet(s, arrived)
    <3>1. Summable(s, arrived)
      BY <2>8, FS_Subset DEF Summable
    <3>2. SumFunctionOnSet(e, arrived) = SumFunctionOnSet(s, arrived)
      BY <2>5, <3>1, SumSame
    <3> QED BY <2>5, <3>2 DEF SumFunction
  <2>12. SumFunctionOnSet(w, M) \in Int
    BY <2>8, SumType
  <2>13. \A k, total, weight \in Int :
           /\ total = i - o /\ weight <= u
           /\ total - weight <= k /\ k <= total + weight
           => c + i - o - u <= c + k /\ c + k <= c + i - o + u
    BY <2>7, <2>8
  <2>14. c + i - o - u <= c + SumFunction(e) /\ c + SumFunction(e) <= c + i - o + u
    <3>1. SumFunctionOnSet(s, M) \in Int
      BY <2>8, SumType
    <3> QED BY <2>8, <2>10, <2>11, <2>12, <2>13, <3>1
  <2> QED BY <2>3, <2>9, <2>6, <2>14
<1> QED BY <1>1, CashInvAlways, PTL
=============================================================================
