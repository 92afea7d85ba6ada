-------------------------------- MODULE MCCash -----------------------------
(* A small instance of Cash for TLC: a ledger, whose rows state debit or    *)
(* credit, and a bank statement with a column for each.                     *)
EXTENDS Cash, MCRows

NoRows == {}

Hyphen == 10

MCSpaces == {11}

MCRecased == [o \in {"uppercase", "lowercase"} |-> [c \in MCDigits \cup MCSpaces \cup {Hyphen} |-> c]]

MCIdentifierRules == ("UTR" :> <<"trim", "strip_non_alphanumeric">>)

NoValues == << >>

To(field, column) ==
  [column |-> column, field |-> field, required |-> FALSE, sign |-> "signed",
   type |-> NoText, values |-> NoValues]

LedgerColumns ==
  [mappings |-> <<[To("transaction_date", "posted") EXCEPT !.required = TRUE],
                    To("amount", "amount"), To("counterparty", "party"),
                    [To("debit_credit", "side") EXCEPT !.values = "Dr" :> "DEBIT" @@ "Cr" :> "CREDIT"],
                    [To("identifier", "utr") EXCEPT !.type = "UTR"],
                    [To("identifier", "settlement") EXCEPT !.type = "SETTLEMENT"]>>,
     priority |-> <<"UTR", "SETTLEMENT">>]

BankColumns ==
  [mappings |-> <<[To("transaction_date", "date") EXCEPT !.required = TRUE],
                    To("value_date", "valued"),
                    [To("amount", "withdrawal") EXCEPT !.sign = "debit_negative"],
                    [To("amount", "deposit") EXCEPT !.sign = "credit_positive"],
                    To("counterparty", "party"),
                    [To("identifier", "reference") EXCEPT !.type = "BANKREF"],
                    [To("identifier", "settlement") EXCEPT !.type = "SETTLEMENT"]>>,
     priority |-> <<"BANKREF">>]

MCDataSources == "LEDGER" :> LedgerColumns @@ "JOURNAL" :> LedgerColumns @@ "BANK" :> BankColumns

MCClassificationRules ==
  << [default |-> TRUE, when |-> [source |-> "", text |-> ""],
      set |-> [instrument_type |-> "NEFT"]],
     [default |-> FALSE, when |-> [source |-> "", text |-> "SWEEP"],
      set |-> [instrument_type |-> "NEFT", counterparty_type |-> "INTERNAL_ACCOUNT"]],
     [default |-> FALSE, when |-> [source |-> "BANK", text |-> "PG"],
      set |-> [instrument_type |-> "PG"]],
     [default |-> FALSE, when |-> [source |-> "", text |-> "UPI"],
      set |-> [instrument_type |-> "UPI"]] >>

Ledger(day, amount, side, utr, settlement, words) ==
  [cells |-> [posted |-> day, amount |-> amount, side |-> side, party |-> <<"acme">>,
              utr |-> utr, settlement |-> settlement],
   words |-> words]

Bank(day, withdrawal, deposit, reference, settlement, words) ==
  [cells |-> [date |-> day, withdrawal |-> withdrawal, deposit |-> deposit,
              party |-> <<"acme ltd">>, reference |-> reference, settlement |-> settlement],
   words |-> words]

MCRowsOf ==
  "LEDGER" :>
    {Ledger(<<1>>, <<10000>>, <<"Cr">>, <<1, Hyphen, 7>>, << >>, {"UPI"}),
     Ledger(<<1>>, <<10000>>, <<"Dr">>, << >>, << >>, {"SWEEP"}),
     Ledger(<<1>>, << >>, <<"Cr">>, << >>, << >>, {})}
  @@ "JOURNAL" :>
    {Ledger(<<3>>, <<-5000>>, << >>, << >>, <<5>>, {}),
     Ledger(<<1>>, <<10000>>, <<"Cr">>, <<1, Hyphen, 7>>, << >>, {"UPI"})}
  @@ "BANK" :>
    {Bank(<<1>>, << >>, <<9750>>, << >>, << >>, {"UPI", "PG"}),
     Bank(<<1>>, <<10000>>, << >>, << >>, << >>, {"SWEEP"}),
     Bank(<<2>>, <<-5300>>, <<300>>, << >>, <<5>>, {}),
     Bank(<<2>>, << >>, <<9400>>, <<1, 7>>, << >>, {"UPI"})}

MCSourceOf == i1 :> "LEDGER" @@ i2 :> "JOURNAL" @@ e1 :> "BANK" @@ e2 :> "BANK" @@ e3 :> "BANK"

TwoAccounts == <<"current", "">>

ASSUME StatementsAssumption == SplitStatements
=============================================================================
