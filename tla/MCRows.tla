------------------------------ MODULE MCRows -------------------------------
(* A configuration with a rule for every pass, and the rows its sources may *)
(* hold.  One unit is a rupee; the gateway's fee is 2%, the tax on it 18%,  *)
(* the commission 0.01% but at least 4, a levy on UPI 0.1%: of 10000, 9750  *)
(* is left.                                                                 *)
EXTENDS Integers, TLC

CONSTANTS i1, i2, e1, e2, e3

Undated == 0

MCInternal == {i1, i2}
MCExternal == {e1, e2, e3}
MCRank == i1 :> 1 @@ i2 :> 2 @@ e1 :> 3 @@ e2 :> 4 @@ e3 :> 5

MCDigits == 0..9

MCRateUnit == 10000

MCFeeRules ==
  [configured |-> TRUE, internal |-> "UPI", external |-> "PG",
   fee |-> 200, tax |-> 1800,
   commission |-> [rate |-> 1, minimum |-> 4, capped |-> TRUE, maximum |-> 20],
   charges |-> <<[basis |-> "GROSS", rate |-> 10, flat |-> 0,
                  instruments |-> {"UPI"}, enabled |-> TRUE]>>,
   rounding |-> 2, dateField |-> "transaction_date", days |-> 3]

MCLinkage ==
  <<[source |-> "UTR", target |-> "BANKREF", type |-> "DIRECT_EQUIVALENT"],
    [source |-> "NARRATION", target |-> "UTR", type |-> "DERIVED"]>>

Exactly(n) == [type |-> "absolute", value |-> n]

MCRules ==
  <<[pass |-> 4, id |-> "R4", conditions |->
       [tolerance |-> Exactly(0), dateField |-> "value_date", days |-> 2,
        instrument |-> "exact", threshold |-> 80]],
    [pass |-> 1, id |-> "R1", matchOn |->
       <<[left |-> "BANKREF", right |-> "UTR", comparison |-> "exact"],
         [left |-> "UTR", right |-> "NARRATION", comparison |-> "exact"]>>],
    [pass |-> 2, id |-> "R2", matchOn |->
       <<[left |-> "UTR", right |-> "BANKREF", comparison |-> "normalized_partial"],
         [left |-> "NARRATION", right |-> "UTR", comparison |-> "normalized_partial"]>>],
    [pass |-> 3, id |-> "R3", conditions |->
       [tolerance |-> [type |-> "percentage", value |-> 50],
        dateField |-> "transaction_date", days |-> 1, instrument |-> "any", threshold |-> 0]]>>

MCAggregation ==
  [configured |-> TRUE, type |-> "SETTLEMENT", tolerance |-> Exactly(6),
   dateField |-> "transaction_date", days |-> 3]

MCSimilarity == [p \in {"acme", "acme ltd", "zeta"} \X {"acme", "acme ltd", "zeta"} |->
  IF p[1] = p[2] THEN 100 ELSE IF "zeta" \in {p[1], p[2]} THEN 20 ELSE 85]

Row(type, ref, batch, amount, day, valued, party, instrument) ==
  [ids |-> (type :> ref) @@ ("SETTLEMENT" :> batch), reference |-> ref, amount |-> amount,
   days |-> [transaction_date |-> day, value_date |-> valued, settlement_date |-> Undated],
   party |-> party, instrument |-> instrument]

MCInternalContents ==
  {Row("UTR", <<1, 7>>, << >>, 10000, 1,  Undated, "acme", "UPI"),
   Row("UTR", <<0, 1, 7>>, << >>, 10000, 3,  Undated, "acme", "NEFT"),
   Row("UTR", << >>,    << >>, 10000, 1,  Undated, "acme", "UPI"),
   Row("UTR", << >>,    <<5>>, 5000,  1,  Undated, "zeta", "NEFT"),
   Row("UTR", << >>,    <<5>>, 4750,  2,  5, "acme", "UPI"),
   Row("UTR", << >>,    << >>, 10000, 14, 3, "acme", "NEFT"),
   Row("UTR", << >>,    << >>, 10000, 14, Undated, "zeta", "NEFT")}

MCExternalContents ==
  {Row("BANKREF", <<1, 7>>, << >>, 9750,  1, Undated, "acme ltd", "PG"),
   Row("NARRATION", <<1, 7>>, << >>, 9900,  3, Undated, "acme ltd", "NEFT"),
   Row("BANKREF", << >>, << >>, 9752,  2, Undated, "zeta", "PG"),
   Row("BANKREF", << >>, <<5>>, 9750,  3, Undated, "zeta", "NEFT"),
   Row("BANKREF", << >>, << >>, 10000, 2, 4, "acme ltd", "NEFT"),
   Row("BANKREF", << >>, <<5>>, 5000,  7, Undated, "acme", "UPI"),
   Row("BANKREF", << >>, <<5>>, 4753,  5, Undated, "zeta", "UPI")}
=============================================================================
