--------------------------- MODULE Reconciliation --------------------------
(***************************************************************************)
(* What process_batch() does with the transactions of a batch: match them, *)
(* classify what stays unmatched (exceptions/), break the matches down     *)
(* into settlements (settlement/service.py).                               *)
(***************************************************************************)
EXTENDS Matching

VARIABLES
  stage,        \* the next of the steps "match", "classify", "settle"; "closed"
  exceptions,   \* the open exceptions
  settlements

outcomeVars == <<stage, exceptions, settlements>>
reconciliationVars == <<txn, pool, at, used, matches, stage, exceptions, settlements>>

ReconciliationInit ==
  /\ MatchingInit
  /\ stage = "match"
  /\ exceptions = {}
  /\ settlements = {}

Match == stage = "match" /\ MatchingNext /\ UNCHANGED outcomeVars

FinishMatching ==
  /\ stage = "match" /\ Matched
  /\ stage' = "classify"
  /\ UNCHANGED <<txn, pool, at, used, matches, exceptions, settlements>>

-----------------------------------------------------------------------------
(* Classification of what no pass could match; the pools are what the last  *)
(* pass left.                                                               *)

Twins(t, S) ==
  {o \in S \ {t} : txn[o].reference # << >> /\ txn[o].reference = txn[t].reference}

Duplicates(S) == {t \in S : Twins(t, S) # {}}

Gap(t, o) == AbsDiff(txn[t].amount, txn[o].amount)

(* The first in the order of the pool among the closest in amount.          *)
Nearest(t, S) ==
  CHOOSE o \in S : \A p \in S :
    ~Precedes(<<Gap(t, p)>> \o Position(p), <<Gap(t, o)>> \o Position(o))

TimingLooseDateDays == 10

Draft(t, type, related, impact) ==
  [about |-> t, type |-> type, related |-> related, impact |-> impact]

Classify(t, S, missingType) ==
  IF S = {} THEN Draft(t, missingType, {}, txn[t].amount)
  ELSE LET near == Nearest(t, S)
           gap  == Gap(t, near)
           late == DaysApart(t, near, "transaction_date") > TimingLooseDateDays
       IN  CASE gap = 0 /\ late  -> Draft(t, "TIMING_DIFFERENCE", {near}, 0)
             [] gap = 0 /\ ~late -> Draft(t, "COUNTERPARTY_MISMATCH", {near}, 0)
             [] gap > 0 /\ 10 * gap <= txn[t].amount ->
                  Draft(t, "AMOUNT_MISMATCH", {near}, gap)
             [] OTHER -> Draft(t, missingType, {}, txn[t].amount)

DuplicateDrafts(S) ==
  {Draft(t, "DUPLICATE", Twins(t, S), txn[t].amount) : t \in Duplicates(S)}

Unmatched(side) == pool \cap side

(* Seeded fault: a duplicate is classified a second time on its own.        *)
Single_OrNot(side) == Unmatched(side)

Single(side) == Unmatched(side) \ Duplicates(Unmatched(side))

IdentifyExceptions ==
  /\ stage = "classify"
  /\ exceptions' =
       DuplicateDrafts(Unmatched(Internal)) \cup DuplicateDrafts(Unmatched(External))
       \cup {Classify(t, Single(External), "MISSING_EXTERNAL_RECORD") : t \in Single(Internal)}
       \cup {Classify(t, Single(Internal), "MISSING_INTERNAL_RECORD") : t \in Single(External)}
  /\ stage' = "settle"
  /\ UNCHANGED <<txn, pool, at, used, matches, settlements>>

-----------------------------------------------------------------------------
(* Settlement decomposition.                                                *)

RoundingTolerance == 1

Gross(m) == TotalAmount(m.source)
Observed(m) == TotalAmount(m.target)
Variance(m) == Gross(m) - Observed(m)

(* Seeded fault: a match by reference is never settled.                     *)
ToSettle_ByAmount(m) == m.pass \in {5, 6}

(* Matches by reference never looked at the amounts: they are settled when  *)
(* there is a gap.  Matches by amount are not settled.                      *)
ToSettle(m) ==
  \/ m.pass \in {5, 6}
  \/ m.pass \in {1, 2} /\ AbsDiff(Gross(m), Observed(m)) > RoundingTolerance

(* source_txns[0]: the links of a match are read back in the order in which *)
(* they were inserted, that of the pool.                                    *)
First(S) == CHOOSE t \in S : \A u \in S : ~Precedes(Position(u), Position(t))

Instrument(m) == txn[First(m.source)].instrument

(* Seeded fault: the charges disappear from the breakdown.                  *)
FeeComponents_NoCharges(m) ==
  {Line("FEE", 0, Fee(Gross(m))), Line("TAX_ON_FEE", 0, TaxOnFee(Gross(m)))}

(* _components_from_calculation(), which pass 5's stored calculation equals *)
FeeComponents(m) ==
  {Line("FEE", 0, Fee(Gross(m))), Line("TAX_ON_FEE", 0, TaxOnFee(Gross(m)))}
  \cup ChargeLines(Gross(m), Instrument(m))

FeesExplainGap(m) ==
  /\ FeeRules.configured
  /\ Variance(m) >= 0
  /\ AbsDiff(Observed(m), Net(Gross(m), Instrument(m))) <= FeeRules.rounding

Settlement(m, expected, components, explained) ==
  [match |-> m, gross |-> Gross(m), expected |-> expected, observed |-> Observed(m),
   components |-> components, explained |-> explained]

Settle(m) ==
  LET net   == Net(Gross(m), Instrument(m))
      small == AbsDiff(Gross(m), Observed(m)) <= RoundingTolerance
  IN  CASE m.pass = 5 ->
             Settlement(m, net, FeeComponents(m),
                        AbsDiff(net, Observed(m)) <= RoundingTolerance)
        [] m.pass # 5 /\ small -> Settlement(m, Gross(m), {}, TRUE)
        [] m.pass # 5 /\ ~small /\ FeesExplainGap(m) ->
             Settlement(m, net, FeeComponents(m), TRUE)
        [] OTHER ->
             Settlement(m, Gross(m), {Line("OTHER_DEDUCTION", 0, Variance(m))}, FALSE)

(* _raise_fee_variance_exception()                                          *)
FeeVariance(m) ==
  Draft(First(m.source), "FEE_VARIANCE", (m.source \cup m.target) \ {First(m.source)},
        AbsDiff(Gross(m), Observed(m)))

BuildSettlements ==
  /\ stage = "settle"
  /\ settlements' = {Settle(m) : m \in {n \in matches : ToSettle(n)}}
  /\ exceptions' = exceptions \cup
       {FeeVariance(m) : m \in {n \in matches : ToSettle(n) /\ ~Settle(n).explained}}
  /\ stage' = "closed"
  /\ UNCHANGED <<txn, pool, at, used, matches>>

ReconciliationNext ==
  \/ Match
  \/ FinishMatching
  \/ IdentifyExceptions
  \/ BuildSettlements

ReconciliationSpec == ReconciliationInit /\ [][ReconciliationNext]_reconciliationVars

-----------------------------------------------------------------------------
(* Properties                                                               *)

(* Everything derived speaks of the rows of this batch: pools and matches,  *)
(* the exceptions of what is left in the pools, the settlements of matches. *)
MatchRecords ==
  [source : (SUBSET Internal) \ {{}}, target : (SUBSET External) \ {{}}, pass : 1..6]

Classified == {e \in exceptions : e.type # "FEE_VARIANCE"}

ReconciliationTypeOK ==
  /\ pool \subseteq Transactions
  /\ at \in 1..(Len(Plan) + 1)
  /\ used \subseteq pool
  /\ matches \subseteq MatchRecords
  /\ stage \in {"match", "classify", "settle", "closed"}
  /\ \A e \in Classified : e.about \in pool
  /\ \A s \in settlements : s.match \in matches

(* A transaction is money once: whatever the passes, their rules and the    *)
(* order of the rows, no transaction is in two matches (engine.py,          *)
(* _shrink_pools() and the used sets of the passes).                        *)
EachMatchedOnce ==
  \A m, n \in matches : m # n => (m.source \cup m.target) \cap (n.source \cup n.target) = {}

(* Every transaction of a batch whose exceptions are identified is          *)
(* accounted for exactly once: it is in a match, or it is what exactly one  *)
(* classified exception is about (classifier.py, classify_remaining()).     *)
EachAccountedOnce ==
  stage \in {"settle", "closed"} =>
    \A t \in Transactions :
      IF \E m \in matches : t \in m.source \cup m.target
      THEN \A e \in Classified : e.about # t
      ELSE Cardinality({e \in Classified : e.about = t}) = 1

(* Stronger evidence goes first: two transactions that a loop accepts as a  *)
(* pair are not both left to later loops -- when it is over, one of them is *)
(* in a match of its pass or of an earlier one.  The orientation of the     *)
(* identifiers is taken either way here, whatever the pools looked like     *)
(* (engine.py:49-72, base.py, resolve_condition_sides()).                   *)
AcceptableEitherWay(loop, u, e) ==
  IF loop.pass \in {1, 2}
  THEN /\ Linked(loop)
       /\ \E sides \in {<<loop.on.left, loop.on.right>>, <<loop.on.right, loop.on.left>>} :
            LET ref == Reference(u, sides[1])  other == Reference(e, sides[2])
            IN  /\ ref # << >> /\ other # << >>
                /\ IF loop.pass = 1 THEN ref = other
                   ELSE Suffix(ref) = Suffix(other) /\ PartialMatch(ref, other)
  ELSE Acceptable(loop, u, e)

TakenBy(pass, t) == \E m \in matches : m.pass <= pass /\ t \in m.source \cup m.target

StrongerEvidenceFirst ==
  \A i \in 1..(at - 1), u \in Internal, e \in External :
    i <= Len(Plan) /\ AcceptableEitherWay(Plan[i], u, e)
      => TakenBy(Plan[i].pass, u) \/ TakenBy(Plan[i].pass, e)

Tolerated ==
  IF FeeRules.configured THEN Max({RoundingTolerance, FeeRules.rounding})
                         ELSE RoundingTolerance

(* A settlement adds up: gross less the recorded components is the observed *)
(* net, up to what the matching or the fee rules were told to tolerate      *)
(* (settlement/service.py:170-248; tax/service.py:88-139).                  *)
SettlementsAddUp ==
  \A s \in settlements :
    AbsDiff(s.gross - SumOf(s.components), s.observed) <= Tolerated

(* No gap is absorbed silently: when the batch is closed, a match by        *)
(* reference, by fees or by group whose two sides differ has a settlement   *)
(* with lines for the gap, and either it is explained or a FEE_VARIANCE     *)
(* exception names all its transactions (settlement/service.py, module      *)
(* docstring and 251-270).                                                  *)
GapsAnswered ==
  stage = "closed" =>
    \A m \in matches :
      m.pass \notin {3, 4} /\ AbsDiff(Gross(m), Observed(m)) > RoundingTolerance =>
        \E s \in settlements :
          /\ s.match = m
          /\ s.components # {}
          /\ ~s.explained => \E e \in exceptions :
               e.type = "FEE_VARIANCE" /\ {e.about} \cup e.related = m.source \cup m.target
=============================================================================
