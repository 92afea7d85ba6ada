----------------------------- MODULE FeesAndTax ----------------------------
(***************************************************************************)
(* The fee and tax treatment of a client (tax/service.py): what a gross    *)
(* amount is reduced by.  Amounts are in the smallest currency unit, rates *)
(* are parts of RateUnit, and every product is rounded half up as it is    *)
(* made, which is where the lines of a settlement gain or lose a unit.     *)
(***************************************************************************)
EXTENDS Integers, Sequences, SequencesExt, FiniteSetsExt, Functions

CONSTANTS
  FeeRules,   \* tax_fee_rules of the configuration; the field "configured"
              \* is FALSE for a client that has none
  RateUnit    \* the number of rate units in the whole amount

ASSUME FeesAssumption ==
  /\ RateUnit \in Nat \ {0}
  /\ FeeRules.configured =>
       /\ {FeeRules.fee, FeeRules.tax, FeeRules.rounding} \subseteq Int
       /\ {FeeRules.commission.rate, FeeRules.commission.minimum} \subseteq Int
       /\ FeeRules.commission.capped => FeeRules.commission.maximum \in Int
       /\ IsFiniteSet(DOMAIN FeeRules.charges)
       /\ \A i \in DOMAIN FeeRules.charges :
            {FeeRules.charges[i].rate, FeeRules.charges[i].flat} \subseteq Int

Portion(amount, rate) == (2 * amount * rate + RateUnit) \div (2 * RateUnit)

Fee(gross) == Portion(gross, FeeRules.fee)

TaxOnFee(gross) == Portion(Fee(gross), FeeRules.tax)

(* A commission has a floor and may have a ceiling; a rule without rate and *)
(* floor charges nothing.                                                   *)
Commission(gross) ==
  LET c    == FeeRules.commission
      owed == Max({Portion(gross, c.rate), c.minimum})
  IN  CASE c.rate = 0 /\ c.minimum = 0 -> 0
        [] c.capped                    -> Min({owed, c.maximum})
        [] OTHER                       -> owed

BasisAmount(basis, gross) ==
  CASE basis = "FEE"          -> Fee(gross)
    [] basis = "FEE_PLUS_TAX" -> Fee(gross) + TaxOnFee(gross)
    [] OTHER                  -> gross

Applies(charge, instrument) ==
  /\ charge.enabled
  /\ charge.instruments = {} \/ instrument \in charge.instruments

StatutoryCharge(charge, gross, instrument) ==
  IF Applies(charge, instrument)
  THEN Portion(BasisAmount(charge.basis, gross), charge.rate) + charge.flat
  ELSE 0

(* A line of a breakdown; the levies are numbered as configured.            *)
Line(type, number, amount) == [type |-> type, number |-> number, amount |-> amount]

(* The commission and the levies that come to something.                    *)
ChargeLines(gross, instrument) ==
  {line \in {Line("COMMISSION", 0, Commission(gross))} \cup
            {Line("STATUTORY_CHARGE", i, StatutoryCharge(FeeRules.charges[i], gross, instrument)) :
               i \in DOMAIN FeeRules.charges} :
     line.amount # 0}

SumOf(lines) == SumFunction([line \in lines |-> line.amount])

(* calculate_fee_and_tax().net_amount                                       *)
Net(gross, instrument) ==
  gross - Fee(gross) - TaxOnFee(gross) - SumOf(ChargeLines(gross, instrument))
=============================================================================
