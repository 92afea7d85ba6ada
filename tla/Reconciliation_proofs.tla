------------------------ MODULE Reconciliation_proofs ----------------------
(***************************************************************************)
(* Proofs about Reconciliation, for any rows, any configuration with one   *)
(* rule per pass and any order of the ids.                                 *)
(*                                                                         *)
(* The pools and the matches are tied by an invariant that says more than  *)
(* the properties: between two shrinkings of the pools, the matched        *)
(* transactions that are still in them are exactly the used ones.          *)
(***************************************************************************)
EXTENDS ReconciliationSummary, FiniteInduction, SequenceTheorems

PoolsAndMatches ==
  /\ pool \subseteq Transactions
  /\ used \subseteq pool
  /\ at \in 1..(Len(Plan) + 1)
  /\ matches \subseteq MatchRecords
  /\ pool \cup AllMatched = Transactions
  /\ pool \cap AllMatched = used
  /\ Matched => used = {}
  /\ EachMatchedOnce

(* The pair that a loop forms next, and the groups of pass 6, are new to    *)
(* every earlier match: adding either keeps the invariant.                  *)
LEMMA NewMatch ==
  ASSUME PoolsAndMatches, ~Matched,
         NEW S, NEW T,
         S \subseteq Internal, S # {}, T \subseteq External, T # {},
         S \cup T \subseteq pool, (S \cup T) \cap used = {},
         matches' = matches \cup {[source |-> S, target |-> T, pass |-> Loop.pass]},
         used' = used \cup (S \cup T),
         UNCHANGED <<pool, at>>
  PROVE  PoolsAndMatches'
<1> DEFINE new == [source |-> S, target |-> T, pass |-> Loop.pass]
<1>1. new \in MatchRecords
  <2>1. Loop.pass \in 1..6
    BY PlanAssumption DEF PoolsAndMatches, Matched, Loop
  <2> QED BY <2>1 DEF MatchRecords
<1>2. AllMatched' = AllMatched \cup (S \cup T)
  <2>1. AllMatched' = UNION {m.source \cup m.target : m \in matches \cup {new}}
    BY DEF AllMatched
  <2>2. new.source \cup new.target = S \cup T
    OBVIOUS
  <2> HIDE DEF new
  <2> QED BY <2>1, <2>2 DEF AllMatched
<1>3. (S \cup T) \cap AllMatched = {}
  BY DEF PoolsAndMatches
<1>4. EachMatchedOnce'
  <2> SUFFICES ASSUME NEW m \in matches', NEW n \in matches', m # n
               PROVE  (m.source \cup m.target) \cap (n.source \cup n.target) = {}
    BY DEF EachMatchedOnce
  <2>1. \A o \in matches : o.source \cup o.target \subseteq AllMatched
    BY DEF AllMatched
  <2>2. CASE m \in matches /\ n \in matches
    BY <2>2 DEF PoolsAndMatches, EachMatchedOnce
  <2>3. CASE m = new /\ n \in matches
    BY <2>3, <2>1, <1>3
  <2>4. CASE n = new /\ m \in matches
    BY <2>4, <2>1, <1>3
  <2> QED BY <2>2, <2>3, <2>4
<1>5. (pool \cup AllMatched)' = Transactions /\ (pool \cap AllMatched)' = used'
  BY <1>2 DEF PoolsAndMatches
<1> QED
  BY <1>1, <1>4, <1>5 DEF PoolsAndMatches, Matched

LEMMA PoolsAndMatchesInit ==
  MatchingInit => PoolsAndMatches
<1> SUFFICES ASSUME MatchingInit PROVE PoolsAndMatches
  OBVIOUS
<1>1. AllMatched = {}
  BY DEF AllMatched, MatchingInit
<1> QED
  BY <1>1, PlanAssumption DEF MatchingInit, PoolsAndMatches, Matched, EachMatchedOnce

LEMMA PoolsAndMatchesStep ==
  ASSUME OneRulePerPass, PoolsAndMatches, MatchingNext
  PROVE  PoolsAndMatches'
<1>1. ASSUME NEW u \in Internal, NEW e \in External, MatchPair(u, e)
      PROVE  PoolsAndMatches'
  <2>1. u \in pool \ used /\ e \in pool \ used
    BY <1>1 DEF MatchPair, Free, Candidates
  <2>2. ~Matched /\ UNCHANGED <<pool, at>> /\ used' = used \cup ({u} \cup {e})
    BY <1>1 DEF MatchPair
  <2>3. matches' = matches \cup {[source |-> {u}, target |-> {e}, pass |-> Loop.pass]}
    BY <1>1 DEF MatchPair
  <2>4. {u} \subseteq Internal /\ {e} \subseteq External /\ {u} # {} /\ {e} # {}
        /\ {u} \cup {e} \subseteq pool /\ ({u} \cup {e}) \cap used = {}
    BY <2>1
  <2> QED BY <2>2, <2>3, <2>4, NewMatch
<1>2. ASSUME MatchGroup PROVE PoolsAndMatches'
  <2>1. PICK key \in GroupsToMatch :
          /\ matches' = matches \cup {[source |-> Group(key, Internal),
                                       target |-> Group(key, External), pass |-> 6]}
          /\ used' = used \cup Group(key, Transactions)
    BY <1>2 DEF MatchGroup
  <2>2. Group(key, Transactions) = Group(key, Internal) \cup Group(key, External)
    BY DEF Group, Transactions
  <2>3. Group(key, Internal) # {} /\ Group(key, External) # {}
        /\ Group(key, Transactions) \cap used = {}
    BY DEF GroupsToMatch
  <2>4. Group(key, Internal) \subseteq Internal /\ Group(key, External) \subseteq External
        /\ Group(key, Transactions) \subseteq pool
    BY DEF Group
  <2>5. ~Matched /\ UNCHANGED <<pool, at>> /\ Loop.pass = 6
    BY <1>2 DEF MatchGroup
  <2> QED BY <2>1, <2>2, <2>3, <2>4, <2>5, NewMatch
<1>3. ASSUME EndLoop PROVE PoolsAndMatches'
  <2> DEFINE samePass == at < Len(Plan) /\ Plan[at + 1].pass = Loop.pass
             sameRule == samePass /\ Plan[at + 1].rule = Loop.rule
  <2>1. /\ ~Matched /\ at' = at + 1 /\ UNCHANGED matches
        /\ used' = IF sameRule THEN used ELSE {}
        /\ pool' = IF samePass THEN pool ELSE pool \ AllMatched
    BY <1>3 DEF EndLoop, LoopOver
  <2>2. AllMatched' = AllMatched /\ EachMatchedOnce'
    BY <2>1 DEF AllMatched, EachMatchedOnce, PoolsAndMatches
  <2>3. at \in 1..Len(Plan) /\ at' \in 1..(Len(Plan) + 1)
    BY <2>1, PlanAssumption DEF PoolsAndMatches, Matched
  <2>4. CASE samePass
    <3>1. at \in 1..(Len(Plan) - 1)
      BY <2>3, <2>4, PlanAssumption
    <3>2. sameRule
      BY <2>4, <3>1 DEF OneRulePerPass, Loop
    <3>3. ~Matched'
      BY <2>1, <3>1, PlanAssumption DEF Matched
    <3> QED BY <2>1, <2>2, <2>3, <2>4, <3>2, <3>3 DEF PoolsAndMatches
  <2>5. CASE ~samePass
    <3>1. used' = {} /\ pool' = pool \ AllMatched
      BY <2>1, <2>5
    <3> QED BY <2>1, <2>2, <2>3, <3>1 DEF PoolsAndMatches
  <2> QED BY <2>4, <2>5
<1> QED
  BY <1>1, <1>2, <1>3 DEF MatchingNext

-----------------------------------------------------------------------------
(* What is left in the pools and what is said about it.                     *)

(* Exactly one of the classified exceptions is about t.                     *)
OneAbout(t) == \E e : {x \in Classified : x.about = t} = {e}

Accounting ==
  /\ PoolsAndMatches
  /\ stage \in {"match", "classify", "settle", "closed"}
  /\ stage \in {"match", "classify"} => exceptions = {}
  /\ stage # "match" => Matched
  /\ \A e \in Classified : e.about \in pool
  /\ \A s \in settlements : s.match \in matches
  /\ stage \in {"settle", "closed"} => \A t \in pool : OneAbout(t)

LEMMA ClassifyFields ==
  ASSUME NEW t, NEW S, NEW type, type # "FEE_VARIANCE"
  PROVE  Classify(t, S, type).about = t /\ Classify(t, S, type).type # "FEE_VARIANCE"
<1> DEFINE near == Nearest(t, S)
<1>1. \A p, r, i : Draft(t, p, r, i).about = t /\ Draft(t, p, r, i).type = p
  BY DEF Draft
<1> QED
  BY <1>1 DEF Classify

LEMMA DuplicateFields ==
  ASSUME NEW S, NEW d \in DuplicateDrafts(S)
  PROVE  d.about \in Duplicates(S) /\ d.type # "FEE_VARIANCE"
         /\ d = Draft(d.about, "DUPLICATE", Twins(d.about, S), txn[d.about].amount)
<1>1. PICK t \in Duplicates(S) : d = Draft(t, "DUPLICATE", Twins(t, S), txn[t].amount)
  BY DEF DuplicateDrafts
<1>2. d.about = t /\ d.type = "DUPLICATE"
  BY <1>1 DEF Draft
<1> QED BY <1>1, <1>2

(* A transaction that is left over is on one side only, and there it is a   *)
(* duplicate or single: it gets one draft.                                  *)
LEMMA OneDraftEach ==
  ASSUME Accounting, IdentifyExceptions
  PROVE  /\ \A e \in Classified' : e.about \in pool
         /\ \A t \in pool : OneAbout(t)'
<1> DEFINE UI == Unmatched(Internal)
           UE == Unmatched(External)
           SI == Single(Internal)
           SE == Single(External)
           CI(t) == Classify(t, SE, "MISSING_EXTERNAL_RECORD")
           CE(t) == Classify(t, SI, "MISSING_INTERNAL_RECORD")
           D(t, S) == Draft(t, "DUPLICATE", Twins(t, S), txn[t].amount)
           DI == DuplicateDrafts(UI)
           DE == DuplicateDrafts(UE)
           LI == {CI(t) : t \in SI}
           LE == {CE(t) : t \in SE}
<1>1. exceptions' = DI \cup DE \cup LI \cup LE
  BY DEF IdentifyExceptions
<1>2. /\ UI \subseteq Internal /\ UE \subseteq External /\ UI \cup UE = pool
      /\ Duplicates(UI) \subseteq UI /\ Duplicates(UE) \subseteq UE
      /\ SI = UI \ Duplicates(UI) /\ SE = UE \ Duplicates(UE)
      /\ Internal \cap External = {}
  BY MatchingAssumption DEF Accounting, PoolsAndMatches, Transactions, Unmatched, Duplicates, Single
<1>3. \A t : CI(t).about = t /\ CI(t).type # "FEE_VARIANCE"
             /\ CE(t).about = t /\ CE(t).type # "FEE_VARIANCE"
  BY ClassifyFields
<1>4. \A d \in DI : d.about \in Duplicates(UI) /\ d.type # "FEE_VARIANCE" /\ d = D(d.about, UI)
  BY DuplicateFields
<1>5. \A d \in DE : d.about \in Duplicates(UE) /\ d.type # "FEE_VARIANCE" /\ d = D(d.about, UE)
  BY DuplicateFields
<1>6. /\ \A d \in LI : d.about \in SI /\ d.type # "FEE_VARIANCE" /\ d = CI(d.about)
      /\ \A d \in LE : d.about \in SE /\ d.type # "FEE_VARIANCE" /\ d = CE(d.about)
  BY <1>3
<1>7. Classified' = DI \cup DE \cup LI \cup LE
  <2> HIDE DEF DI, DE, LI, LE
  <2> QED BY <1>1, <1>4, <1>5, <1>6 DEF Classified
<1>8. /\ \A t \in Duplicates(UI) : D(t, UI) \in DI /\ D(t, UI).about = t
      /\ \A t \in Duplicates(UE) : D(t, UE) \in DE /\ D(t, UE).about = t
  BY DEF DuplicateDrafts, Draft
<1>9. /\ \A t \in SI : CI(t) \in LI
      /\ \A t \in SE : CE(t) \in LE
  OBVIOUS
<1> HIDE DEF UI, UE, SI, SE, CI, CE, D, DI, DE, LI, LE
<1>10. \A e \in Classified' : e.about \in pool
  BY <1>2, <1>4, <1>5, <1>6, <1>7
<1>11. ASSUME NEW t \in pool PROVE OneAbout(t)'
  <2> DEFINE About == {x \in Classified' : x.about = t}
  <2>1. CASE t \in Duplicates(UI)
    <3>1. About = {D(t, UI)}
      BY <2>1, <1>2, <1>4, <1>5, <1>6, <1>7, <1>8
    <3> QED BY <3>1 DEF OneAbout
  <2>2. CASE t \in Duplicates(UE)
    <3>1. About = {D(t, UE)}
      BY <2>2, <1>2, <1>4, <1>5, <1>6, <1>7, <1>8
    <3> QED BY <3>1 DEF OneAbout
  <2>3. CASE t \in SI
    <3>1. About = {CI(t)}
      BY <2>3, <1>2, <1>3, <1>4, <1>5, <1>6, <1>7, <1>9
    <3> QED BY <3>1 DEF OneAbout
  <2>4. CASE t \in SE
    <3>1. About = {CE(t)}
      BY <2>4, <1>2, <1>3, <1>4, <1>5, <1>6, <1>7, <1>9
    <3> QED BY <3>1 DEF OneAbout
  <2> QED BY <2>1, <2>2, <2>3, <2>4, <1>2
<1> QED BY <1>10, <1>11

LEMMA SettleKeepsMatch ==
  ASSUME NEW m
  PROVE  Settle(m).match = m
<1>1. \A x, c, b : Settlement(m, x, c, b).match = m
  BY DEF Settlement
<1> QED BY <1>1 DEF Settle

LEMMA AccountingInit ==
  ReconciliationInit => Accounting
<1> SUFFICES ASSUME ReconciliationInit PROVE Accounting
  OBVIOUS
<1>1. PoolsAndMatches
  BY PoolsAndMatchesInit DEF ReconciliationInit
<1> QED
  BY <1>1 DEF ReconciliationInit, Accounting, Classified

LEMMA AccountingStep ==
  ASSUME OneRulePerPass, Accounting, [ReconciliationNext]_reconciliationVars
  PROVE  Accounting'
<1>1. CASE Match
  <2>1. PoolsAndMatches' /\ UNCHANGED outcomeVars
    BY <1>1, PoolsAndMatchesStep DEF Accounting, Match
  <2>2. stage = "match" /\ exceptions' = {}
    BY <1>1, <2>1 DEF Match, Accounting, outcomeVars
  <2>3. matches \subseteq matches'
    BY <1>1 DEF Match, MatchingNext, MatchPair, MatchGroup, EndLoop
  <2> QED BY <2>1, <2>2, <2>3 DEF Accounting, outcomeVars, Classified
<1>2. CASE FinishMatching
  <2>1. PoolsAndMatches' /\ Matched'
    BY <1>2 DEF FinishMatching, Accounting, PoolsAndMatches, Matched, AllMatched, EachMatchedOnce
  <2> QED BY <1>2, <2>1 DEF FinishMatching, Accounting, Classified
<1>3. CASE IdentifyExceptions
  <2>1. PoolsAndMatches' /\ Matched' /\ pool' = pool
    BY <1>3 DEF IdentifyExceptions, Accounting, PoolsAndMatches, Matched, AllMatched, EachMatchedOnce
  <2>2. (\A e \in Classified' : e.about \in pool) /\ (\A t \in pool : OneAbout(t)')
    BY <1>3, OneDraftEach
  <2> QED BY <1>3, <2>1, <2>2 DEF IdentifyExceptions, Accounting
<1>4. CASE BuildSettlements
  <2>1. PoolsAndMatches' /\ Matched' /\ pool' = pool /\ matches' = matches
    BY <1>4 DEF BuildSettlements, Accounting, PoolsAndMatches, Matched, AllMatched, EachMatchedOnce
  <2>2. \A m : FeeVariance(m).type = "FEE_VARIANCE"
    BY DEF FeeVariance, Draft
  <2>3. Classified' = Classified
    BY <1>4, <2>2 DEF BuildSettlements, Classified
  <2>4. \A s \in settlements' : s.match \in matches
    BY <1>4, SettleKeepsMatch DEF BuildSettlements
  <2>5. \A t : OneAbout(t)' <=> OneAbout(t)
    BY <2>3 DEF OneAbout
  <2> QED BY <1>4, <2>1, <2>3, <2>4, <2>5 DEF BuildSettlements, Accounting
<1>5. CASE UNCHANGED reconciliationVars
  BY <1>5 DEF reconciliationVars, Accounting, PoolsAndMatches, Matched, AllMatched,
              EachMatchedOnce, Classified, OneAbout
<1> QED
  BY <1>1, <1>2, <1>3, <1>4, <1>5 DEF ReconciliationNext

LEMMA AccountingAlways ==
  OneRulePerPass => (ReconciliationSpec => []Accounting)
<1> SUFFICES ASSUME OneRulePerPass PROVE ReconciliationSpec => []Accounting
  OBVIOUS
<1>1. ReconciliationInit => Accounting
  BY AccountingInit
<1>2. Accounting /\ [ReconciliationNext]_reconciliationVars => Accounting'
  BY AccountingStep
<1> QED BY <1>1, <1>2, PTL DEF ReconciliationSpec

-----------------------------------------------------------------------------
(* In every configuration with one rule per pass, everything derived from a *)
(* batch speaks of its own rows, and what a rule has used is still in the   *)
(* pools (engine.py:31-85, exceptions/classifier.py, settlement/service.py).*)
THEOREM ReconciliationTypeCorrect ==
  OneRulePerPass => (ReconciliationSpec => []ReconciliationTypeOK)
<1>1. Accounting => ReconciliationTypeOK
  BY DEF Accounting, PoolsAndMatches, ReconciliationTypeOK
<1> QED BY <1>1, AccountingAlways, PTL

(* With one rule per pass, no transaction is ever in two matches, whatever  *)
(* the rows, the references they share, the fees and the order of the ids   *)
(* (engine.py:31-85).                                                       *)
THEOREM MatchedOnce ==
  OneRulePerPass => (ReconciliationSpec => []EachMatchedOnce)
<1>1. Accounting => EachMatchedOnce
  BY DEF Accounting, PoolsAndMatches
<1> QED BY <1>1, AccountingAlways, PTL

(* With one rule per pass, every transaction of a classified batch is in a  *)
(* match or has exactly one classified exception of its own: none is lost   *)
(* between the matcher and the classifier, none is reported twice           *)
(* (exceptions/classifier.py:17-116, exceptions/service.py:40-75).          *)
THEOREM AccountedOnce ==
  OneRulePerPass => (ReconciliationSpec => []EachAccountedOnce)
<1>1. Accounting => EachAccountedOnce
  <2> SUFFICES ASSUME Accounting, stage \in {"settle", "closed"}, NEW t \in Transactions
               PROVE  IF \E m \in matches : t \in m.source \cup m.target
                      THEN \A e \in Classified : e.about # t
                      ELSE Cardinality({e \in Classified : e.about = t}) = 1
    BY DEF EachAccountedOnce
  <2>1. (\E m \in matches : t \in m.source \cup m.target) <=> t \in AllMatched
    BY DEF AllMatched
  <2>2. pool \cup AllMatched = Transactions /\ pool \cap AllMatched = {}
    BY DEF Accounting, PoolsAndMatches
  <2>3. CASE t \in AllMatched
    BY <2>1, <2>2, <2>3 DEF Accounting
  <2>4. CASE t \notin AllMatched
    <3>1. PICK e : {x \in Classified : x.about = t} = {e}
      BY <2>2, <2>4 DEF Accounting, OneAbout
    <3> QED BY <2>1, <2>4, <3>1, FS_Singleton
  <2> QED BY <2>3, <2>4
<1> QED BY <1>1, AccountingAlways, PTL

-----------------------------------------------------------------------------
(* Amounts.                                                                 *)

RowsTyped ==
  \A t \in Transactions :
    txn[t].amount \in Int /\ txn[t].days["transaction_date"] \in Int

LEMMA TotalAmountType ==
  ASSUME RowsTyped, NEW S \in SUBSET Transactions
  PROVE  TotalAmount(S) \in Int
<1> DEFINE f == [t \in S |-> txn[t].amount]
<1>1. DOMAIN f = S /\ Summable(f, S)
  BY MatchingAssumption, FS_Subset DEF RowsTyped, Summable
<1>2. SumFunctionOnSet(f, S) \in Int
  <2> HIDE DEF f
  <2> QED BY <1>1, SumType
<1> QED BY <1>1, <1>2 DEF TotalAmount, SumFunction

LEMMA TotalAmountOfOne ==
  ASSUME RowsTyped, NEW t \in Transactions
  PROVE  TotalAmount({t}) = txn[t].amount
<1> DEFINE f == [u \in {t} |-> txn[u].amount]
<1>1. DOMAIN f = {t} /\ f[t] = txn[t].amount /\ f[t] \in Int
  BY DEF RowsTyped
<1>2. SumFunctionOnSet(f, {t}) = f[t]
  <2> HIDE DEF f
  <2> QED BY <1>1, SumOfOne
<1> QED BY <1>1, <1>2 DEF TotalAmount, SumFunction

LEMMA EarlierPosition ==
  ASSUME NEW t, NEW u
  PROVE  Precedes(Position(t), Position(u)) <=>
           \/ txn[t].days["transaction_date"] < txn[u].days["transaction_date"]
           \/ /\ txn[t].days["transaction_date"] = txn[u].days["transaction_date"]
              /\ Rank[t] < Rank[u]
<1>1. DOMAIN Position(t) = {1, 2} /\ 1..0 = {} /\ 1..1 = {1}
  BY DEF Position
<1> QED BY <1>1 DEF Precedes, Position

(* The links of a match have a first one.                                   *)
LEMMA FirstIsIn ==
  ASSUME RowsTyped, NEW S \in SUBSET Transactions, S # {}
  PROVE  First(S) \in S
<1> DEFINE before == {p \in S \X S : Precedes(Position(p[1]), Position(p[2]))}
<1>1. \A t, u \in S : <<t, u>> \in before <=> Precedes(Position(t), Position(u))
  OBVIOUS
<1>2. \A t \in S : txn[t].days["transaction_date"] \in Int /\ Rank[t] \in Int
  BY MatchingAssumption DEF RowsTyped
<1>3. \A t \in S : <<t, t>> \notin before
  BY <1>1, <1>2, EarlierPosition
<1>4. \A t, u, v \in S : <<t, u>> \in before /\ <<u, v>> \in before => <<t, v>> \in before
  BY <1>1, <1>2, EarlierPosition
<1>5. \E t \in S : \A u \in S : <<u, t>> \notin before
  <2>1. IsFiniteSet(S)
    BY MatchingAssumption, FS_Subset
  <2> HIDE DEF before
  <2> QED BY <1>3, <1>4, <2>1, FirstOf
<1>6. \E t \in S : \A u \in S : ~Precedes(Position(u), Position(t))
  BY <1>1, <1>5
<1> QED BY <1>6 DEF First

(* The largest and the smallest of two numbers.                             *)
LEMMA OfTwo ==
  ASSUME NEW x \in Int, NEW y \in Int
  PROVE  /\ Max({x, y}) \in {x, y} /\ x <= Max({x, y}) /\ y <= Max({x, y})
         /\ Min({x, y}) \in {x, y}
<1>1. \E z \in {x, y} : \A w \in {x, y} : z >= w
  <2>1. CASE x <= y
    BY <2>1
  <2>2. CASE ~(x <= y)
    BY <2>2
  <2> QED BY <2>1, <2>2
<1>2. \E z \in {x, y} : \A w \in {x, y} : z <= w
  <2>1. CASE x <= y
    BY <2>1
  <2>2. CASE ~(x <= y)
    BY <2>2
  <2> QED BY <2>1, <2>2
<1>3. Max({x, y}) \in {x, y} /\ \A w \in {x, y} : Max({x, y}) >= w
  BY <1>1 DEF Max
<1>4. Min({x, y}) \in {x, y}
  BY <1>2 DEF Min
<1>5. x <= Max({x, y}) /\ y <= Max({x, y})
  BY <1>3
<1> QED BY <1>3, <1>4, <1>5

LEMMA PortionType ==
  ASSUME NEW amount \in Int, NEW rate \in Int
  PROVE  Portion(amount, rate) \in Int
<1>1. RateUnit \in Int /\ 2 * RateUnit > 0 /\ 2 * RateUnit \in Int
  BY FeesAssumption
<1>2. 2 * amount * rate + RateUnit \in Int
  BY <1>1
<1> QED BY <1>1, <1>2 DEF Portion

LEMMA FeeTypes ==
  ASSUME FeeRules.configured, NEW gross \in Int, NEW instrument
  PROVE  /\ Fee(gross) \in Int /\ TaxOnFee(gross) \in Int /\ Commission(gross) \in Int
         /\ \A i \in DOMAIN FeeRules.charges :
              StatutoryCharge(FeeRules.charges[i], gross, instrument) \in Int
<1>1. Fee(gross) \in Int
  BY FeesAssumption, PortionType DEF Fee
<1>2. TaxOnFee(gross) \in Int
  BY <1>1, FeesAssumption, PortionType DEF TaxOnFee
<1>3. Commission(gross) \in Int
  <2> DEFINE c == FeeRules.commission
             owed == Max({Portion(gross, c.rate), c.minimum})
  <2>1. c.rate \in Int /\ c.minimum \in Int /\ (c.capped => c.maximum \in Int)
    BY FeesAssumption
  <2>2. Portion(gross, c.rate) \in Int
    BY <2>1, PortionType
  <2>3. owed \in Int
    <3>1. owed \in {Portion(gross, c.rate), c.minimum}
      BY <2>1, <2>2, OfTwo
    <3> QED BY <2>1, <2>2, <3>1
  <2>4. c.capped => Min({owed, c.maximum}) \in Int
    <3> HIDE DEF owed
    <3> SUFFICES ASSUME c.capped PROVE Min({owed, c.maximum}) \in Int
      OBVIOUS
    <3>1. Min({owed, c.maximum}) \in {owed, c.maximum}
      BY <2>1, <2>3, OfTwo
    <3> QED BY <2>1, <2>3, <3>1
  <2>5. Commission(gross) =
          CASE c.rate = 0 /\ c.minimum = 0 -> 0
            [] c.capped                    -> Min({owed, c.maximum})
            [] OTHER                       -> owed
    BY DEF Commission
  <2> HIDE DEF owed
  <2> QED BY <2>3, <2>4, <2>5
<1>4. ASSUME NEW i \in DOMAIN FeeRules.charges
      PROVE  StatutoryCharge(FeeRules.charges[i], gross, instrument) \in Int
  <2> DEFINE charge == FeeRules.charges[i]
  <2>1. charge.rate \in Int /\ charge.flat \in Int
    BY FeesAssumption
  <2> HIDE DEF charge
  <2>2. BasisAmount(charge.basis, gross) \in Int
    BY <1>1, <1>2 DEF BasisAmount
  <2>3. Portion(BasisAmount(charge.basis, gross), charge.rate) \in Int
    BY <2>1, <2>2, PortionType
  <2>4. StatutoryCharge(charge, gross, instrument) \in Int
    BY <2>1, <2>3 DEF StatutoryCharge
  <2> QED BY <2>4 DEF charge
<1> QED BY <1>1, <1>2, <1>3, <1>4

Lines(S) == IsFiniteSet(S) /\ \A line \in S : line.amount \in Int

LEMMA SumOfType ==
  ASSUME NEW S, Lines(S)
  PROVE  SumOf(S) \in Int
<1> DEFINE f == [line \in S |-> line.amount]
<1>1. DOMAIN f = S /\ Summable(f, S)
  BY DEF Lines, Summable
<1>2. SumFunctionOnSet(f, S) \in Int
  <2> HIDE DEF f
  <2> QED BY <1>1, SumType
<1> QED BY <1>1, <1>2 DEF SumOf, SumFunction

LEMMA SumOfMore ==
  ASSUME NEW S, Lines(S), NEW new, new \notin S, new.amount \in Int
  PROVE  Lines(S \cup {new}) /\ SumOf(S \cup {new}) = new.amount + SumOf(S)
<1> DEFINE T == S \cup {new}
           f == [line \in T |-> line.amount]
           g == [line \in S |-> line.amount]
<1>1. Lines(T)
  BY FS_AddElement DEF Lines
<1>2. DOMAIN f = T /\ Summable(f, T) /\ f[new] = new.amount
  BY <1>1 DEF Lines, Summable
<1>3. DOMAIN g = S /\ Summable(g, S) /\ \A line \in S : f[line] = g[line]
  BY DEF Lines, Summable
<1>4. T \ {new} = S /\ new \in T
  OBVIOUS
<1>5. SumOf(T) = SumFunctionOnSet(f, T) /\ SumOf(S) = SumFunctionOnSet(g, S)
  BY <1>2, <1>3 DEF SumOf, SumFunction
<1> HIDE DEF f, g, T
<1>6. SumFunctionOnSet(f, T) = f[new] + SumFunctionOnSet(f, T \ {new})
  BY <1>2, <1>4, SumSplit
<1>7. SumFunctionOnSet(f, S) = SumFunctionOnSet(g, S)
  BY <1>3, SumSame
<1> QED BY <1>1, <1>2, <1>4, <1>5, <1>6, <1>7 DEF T

LEMMA SumOfNothing == Lines({}) /\ SumOf({}) = 0
<1> DEFINE f == [line \in {} |-> line.amount]
<1>1. DOMAIN f = {}
  OBVIOUS
<1>2. SumFunctionOnSet(f, {}) = 0
  <2> HIDE DEF f
  <2> QED BY SumEmpty
<1>3. Lines({})
  BY FS_EmptySet DEF Lines
<1> QED BY <1>1, <1>2, <1>3 DEF SumOf, SumFunction

LEMMA LineFields ==
  ASSUME NEW type, NEW number, NEW amount
  PROVE  Line(type, number, amount).type = type /\ Line(type, number, amount).amount = amount
BY DEF Line

LEMMA ChargeLinesType ==
  ASSUME FeeRules.configured, NEW gross \in Int, NEW instrument
  PROVE  /\ Lines(ChargeLines(gross, instrument))
         /\ \A line \in ChargeLines(gross, instrument) :
              line.type \in {"COMMISSION", "STATUTORY_CHARGE"}
<1> DEFINE commission == Line("COMMISSION", 0, Commission(gross))
           levy(i) == Line("STATUTORY_CHARGE", i,
                           StatutoryCharge(FeeRules.charges[i], gross, instrument))
           levies == {levy(i) : i \in DOMAIN FeeRules.charges}
<1>1. Commission(gross) \in Int
      /\ \A i \in DOMAIN FeeRules.charges :
           StatutoryCharge(FeeRules.charges[i], gross, instrument) \in Int
  BY FeeTypes
<1>2. commission.amount \in Int /\ commission.type = "COMMISSION"
  BY <1>1, LineFields
<1>3. \A i \in DOMAIN FeeRules.charges :
        levy(i).amount \in Int /\ levy(i).type = "STATUTORY_CHARGE"
  BY <1>1, LineFields
<1>4. IsFiniteSet({commission} \cup levies)
  <2>1. IsFiniteSet(DOMAIN FeeRules.charges)
    BY FeesAssumption
  <2>2. IsFiniteSet(levies)
    <3> DEFINE table == [i \in DOMAIN FeeRules.charges |-> levy(i)]
    <3>1. levies = {table[i] : i \in DOMAIN FeeRules.charges}
      OBVIOUS
    <3> HIDE DEF levies, table
    <3>2. DOMAIN table = DOMAIN FeeRules.charges
      BY DEF table
    <3> QED BY <2>1, <3>1, <3>2, ImageFinite
  <2>3. IsFiniteSet({commission})
    BY FS_Singleton
  <2> QED BY <2>2, <2>3, FS_Union
<1>5. ChargeLines(gross, instrument) \subseteq {commission} \cup levies
  BY DEF ChargeLines
<1>6. \A line \in {commission} \cup levies :
        line.amount \in Int /\ line.type \in {"COMMISSION", "STATUTORY_CHARGE"}
  <2> HIDE DEF commission, levy
  <2> QED BY <1>2, <1>3
<1> HIDE DEF commission, levies
<1>7. IsFiniteSet(ChargeLines(gross, instrument))
  BY <1>4, <1>5, FS_Subset
<1> QED BY <1>5, <1>6, <1>7 DEF Lines

(* The recorded fee, tax and charges are what the net is short of the gross.*)
LEMMA BreakdownAddsUp ==
  ASSUME FeeRules.configured, NEW gross \in Int, NEW instrument
  PROVE  LET lines == {Line("FEE", 0, Fee(gross)), Line("TAX_ON_FEE", 0, TaxOnFee(gross))}
                      \cup ChargeLines(gross, instrument)
         IN  SumOf(lines) \in Int /\ Net(gross, instrument) \in Int
             /\ gross - SumOf(lines) = Net(gross, instrument)
<1> DEFINE charges == ChargeLines(gross, instrument)
           fee == Line("FEE", 0, Fee(gross))
           tax == Line("TAX_ON_FEE", 0, TaxOnFee(gross))
<1>1. Lines(charges) /\ \A line \in charges : line.type \in {"COMMISSION", "STATUTORY_CHARGE"}
  BY ChargeLinesType
<1>2. Fee(gross) \in Int /\ TaxOnFee(gross) \in Int
  BY FeeTypes
<1>3. fee.type = "FEE" /\ tax.type = "TAX_ON_FEE"
      /\ fee.amount = Fee(gross) /\ tax.amount = TaxOnFee(gross)
  BY LineFields
<1> HIDE DEF fee, tax, charges
<1>4. tax \notin charges /\ fee \notin charges /\ fee # tax
  BY <1>1, <1>3
<1>5. Lines(charges \cup {tax}) /\ SumOf(charges \cup {tax}) = TaxOnFee(gross) + SumOf(charges)
  BY <1>1, <1>2, <1>3, <1>4, SumOfMore
<1>6. SumOf((charges \cup {tax}) \cup {fee}) = Fee(gross) + SumOf(charges \cup {tax})
  BY <1>2, <1>3, <1>4, <1>5, SumOfMore
<1>7. (charges \cup {tax}) \cup {fee} = {fee, tax} \cup charges
  OBVIOUS
<1>8. SumOf(charges) \in Int
  BY <1>1, SumOfType
<1>9. Net(gross, instrument) = gross - Fee(gross) - TaxOnFee(gross) - SumOf(charges)
  BY DEF Net, charges
<1>10. SumOf({fee, tax} \cup charges) = Fee(gross) + (TaxOnFee(gross) + SumOf(charges))
  BY <1>5, <1>6, <1>7
<1>11. /\ SumOf({fee, tax} \cup charges) \in Int
       /\ Net(gross, instrument) \in Int
       /\ gross - SumOf({fee, tax} \cup charges) = Net(gross, instrument)
  BY <1>2, <1>8, <1>9, <1>10
<1> QED BY <1>11 DEF fee, tax, charges

-----------------------------------------------------------------------------
(* What is known of the matches and their settlements, with any number of   *)
(* rules per pass.                                                          *)

FeesExplain(m) ==
  \E u \in Internal, e \in External :
    m.source = {u} /\ m.target = {e} /\ ExplainedByFees(u, e)

Formed ==
  /\ RowsTyped
  /\ pool \subseteq Transactions
  /\ at \in 1..(Len(Plan) + 1)
  /\ matches \subseteq MatchRecords
  /\ \A m \in matches : m.pass = 5 => FeesExplain(m)

Settled ==
  /\ stage # "closed" => settlements = {}
  /\ stage = "closed" =>
       /\ settlements = {Settle(m) : m \in {n \in matches : ToSettle(n)}}
       /\ \A m \in matches : ToSettle(m) /\ ~Settle(m).explained => FeeVariance(m) \in exceptions

LEMMA SettlingInit ==
  ReconciliationInit => Formed /\ Settled
<1> SUFFICES ASSUME ReconciliationInit PROVE Formed /\ Settled
  OBVIOUS
<1>1. RowsTyped
  <2>1. \A t \in Internal : txn[t] \in InternalContents
    BY DEF ReconciliationInit, MatchingInit
  <2>2. \A t \in External : txn[t] \in ExternalContents
    BY DEF ReconciliationInit, MatchingInit
  <2> QED BY <2>1, <2>2, MatchingAssumption DEF RowsTyped, Transactions
<1> QED BY <1>1, PlanAssumption DEF ReconciliationInit, MatchingInit, Formed, Settled

(* A new match keeps the shape of the matches.                              *)
LEMMA FormedMore ==
  ASSUME Formed, ~Matched, UNCHANGED <<txn, pool, at>>,
         NEW S \in SUBSET Internal, NEW T \in SUBSET External, S # {}, T # {},
         matches' = matches \cup {[source |-> S, target |-> T, pass |-> Loop.pass]},
         Loop.pass = 5 => FeesExplain([source |-> S, target |-> T, pass |-> Loop.pass])
  PROVE  Formed'
<1> DEFINE new == [source |-> S, target |-> T, pass |-> Loop.pass]
<1>1. new \in MatchRecords /\ new.pass = Loop.pass
  <2>1. Loop.pass \in 1..6
    BY PlanAssumption DEF Formed, Matched, Loop
  <2> QED BY <2>1 DEF MatchRecords
<1>2. \A m : FeesExplain(m)' <=> FeesExplain(m)
  BY DEF FeesExplain, ExplainedByFees, DaysApart, DateOf
<1>3. RowsTyped'
  BY DEF Formed, RowsTyped
<1> HIDE DEF new
<1> QED BY <1>1, <1>2, <1>3 DEF Formed, new

LEMMA FormedStep ==
  ASSUME Formed, [ReconciliationNext]_reconciliationVars
  PROVE  Formed'
<1>1. ASSUME NEW u \in Internal, NEW e \in External, MatchPair(u, e)
      PROVE  Formed'
  <2>1. ~Matched /\ UNCHANGED <<txn, pool, at>> /\ Acceptable(Loop, u, e)
    BY <1>1 DEF MatchPair, Candidates
  <2>2. matches' = matches \cup {[source |-> {u}, target |-> {e}, pass |-> Loop.pass]}
    BY <1>1 DEF MatchPair
  <2>3. Loop.pass = 5 => ExplainedByFees(u, e)
    BY <2>1 DEF Acceptable
  <2>4. Loop.pass = 5 =>
          FeesExplain([source |-> {u}, target |-> {e}, pass |-> Loop.pass])
    BY <2>3 DEF FeesExplain
  <2> QED BY <2>1, <2>2, <2>4, FormedMore
<1>2. ASSUME MatchGroup PROVE Formed'
  <2>1. PICK key \in GroupsToMatch :
          matches' = matches \cup {[source |-> Group(key, Internal),
                                    target |-> Group(key, External), pass |-> 6]}
    BY <1>2 DEF MatchGroup
  <2>2. /\ Group(key, Internal) \in SUBSET Internal /\ Group(key, Internal) # {}
        /\ Group(key, External) \in SUBSET External /\ Group(key, External) # {}
    BY DEF GroupsToMatch, Group
  <2>3. ~Matched /\ UNCHANGED <<txn, pool, at>> /\ Loop.pass = 6
    BY <1>2 DEF MatchGroup
  <2> QED BY <2>1, <2>2, <2>3, FormedMore
<1>3. ASSUME EndLoop PROVE Formed'
  <2>1. /\ ~Matched /\ at' = at + 1 /\ UNCHANGED <<txn, matches>> /\ pool' \subseteq pool
    BY <1>3 DEF EndLoop, LoopOver
  <2>2. at' \in 1..(Len(Plan) + 1)
    BY <2>1, PlanAssumption DEF Formed, Matched
  <2>3. \A m : FeesExplain(m)' <=> FeesExplain(m)
    BY <2>1 DEF FeesExplain, ExplainedByFees, DaysApart, DateOf
  <2>4. RowsTyped'
    BY <2>1 DEF Formed, RowsTyped
  <2> QED BY <2>1, <2>2, <2>3, <2>4 DEF Formed
<1>4. CASE UNCHANGED <<txn, pool, at, matches>>
  <2>1. \A m : FeesExplain(m)' <=> FeesExplain(m)
    BY <1>4 DEF FeesExplain, ExplainedByFees, DaysApart, DateOf
  <2>2. RowsTyped'
    BY <1>4 DEF Formed, RowsTyped
  <2> QED BY <1>4, <2>1, <2>2 DEF Formed
<1>5. CASE ReconciliationNext
  BY <1>1, <1>2, <1>3, <1>4, <1>5 DEF ReconciliationNext, Match, MatchingNext,
     FinishMatching, IdentifyExceptions, BuildSettlements
<1> QED BY <1>4, <1>5 DEF reconciliationVars

(* What the settlement of a match is computed from are its rows.            *)
LEMMA SettledByRows ==
  ASSUME UNCHANGED txn, NEW m
  PROVE  /\ Settle(m)' = Settle(m) /\ ToSettle(m)' = ToSettle(m)
         /\ FeeVariance(m)' = FeeVariance(m)
<1>1. /\ Gross(m)' = Gross(m) /\ Observed(m)' = Observed(m) /\ Variance(m)' = Variance(m)
      /\ Instrument(m)' = Instrument(m) /\ First(m.source)' = First(m.source)
  BY DEF Gross, Observed, Variance, TotalAmount, Instrument, First, Position
<1>2. FeeComponents(m)' = FeeComponents(m) /\ FeesExplainGap(m)' = FeesExplainGap(m)
  BY <1>1 DEF FeeComponents, FeesExplainGap
<1>3. ToSettle(m)' = ToSettle(m) /\ FeeVariance(m)' = FeeVariance(m)
  BY <1>1 DEF ToSettle, FeeVariance
<1>4. \A x, c, b : Settlement(m, x, c, b)' = Settlement(m, x, c, b)
  BY <1>1 DEF Settlement
<1>5. Settle(m)' = Settle(m)
  BY <1>1, <1>2, <1>4 DEF Settle
<1> QED BY <1>3, <1>5

LEMMA SettledStep ==
  ASSUME Settled, stage \in {"match", "classify", "settle", "closed"},
         [ReconciliationNext]_reconciliationVars
  PROVE  Settled'
<1>1. CASE BuildSettlements
  <2>1. /\ settlements' = {Settle(m) : m \in {n \in matches : ToSettle(n)}}
        /\ exceptions' = exceptions \cup
             {FeeVariance(m) : m \in {n \in matches : ToSettle(n) /\ ~Settle(n).explained}}
        /\ stage' = "closed" /\ UNCHANGED <<txn, matches>>
    BY <1>1 DEF BuildSettlements
  <2>2. \A m : Settle(m)' = Settle(m) /\ ToSettle(m)' = ToSettle(m)
               /\ FeeVariance(m)' = FeeVariance(m)
    BY <2>1, SettledByRows
  <2>3. \A m \in matches : ToSettle(m) /\ ~Settle(m).explained => FeeVariance(m) \in exceptions'
    BY <2>1
  <2> QED BY <2>1, <2>2, <2>3 DEF Settled
<1>2. CASE UNCHANGED reconciliationVars
  <2>1. \A m : Settle(m)' = Settle(m) /\ ToSettle(m)' = ToSettle(m)
               /\ FeeVariance(m)' = FeeVariance(m)
    BY <1>2, SettledByRows DEF reconciliationVars
  <2> QED BY <1>2, <2>1 DEF reconciliationVars, Settled
<1>3. CASE Match \/ FinishMatching \/ IdentifyExceptions
  <2>1. stage # "closed" /\ stage' # "closed" /\ settlements' = settlements
    BY <1>3 DEF Match, FinishMatching, IdentifyExceptions, outcomeVars
  <2> QED BY <2>1 DEF Settled
<1> QED BY <1>1, <1>2, <1>3 DEF ReconciliationNext

Settling ==
  /\ stage \in {"match", "classify", "settle", "closed"}
  /\ Formed
  /\ Settled

LEMMA SettlingAlways == ReconciliationSpec => []Settling
<1>1. ReconciliationInit => Settling
  BY SettlingInit DEF Settling, ReconciliationInit
<1>2. Settling /\ [ReconciliationNext]_reconciliationVars => Settling'
  <2> SUFFICES ASSUME Settling, [ReconciliationNext]_reconciliationVars PROVE Settling'
    OBVIOUS
  <2>1. stage' \in {"match", "classify", "settle", "closed"}
    BY DEF Settling, ReconciliationNext, Match, FinishMatching, IdentifyExceptions,
           BuildSettlements, reconciliationVars, outcomeVars
  <2>2. Formed' /\ Settled'
    BY FormedStep, SettledStep DEF Settling
  <2> QED BY <2>1, <2>2 DEF Settling
<1> QED BY <1>1, <1>2, PTL DEF ReconciliationSpec

LEMMA MatchAmounts ==
  ASSUME Formed, NEW m \in matches
  PROVE  /\ Gross(m) \in Int /\ Observed(m) \in Int /\ Variance(m) \in Int
         /\ AbsDiff(Gross(m), Observed(m)) \in Int
         /\ m.pass \in 1..6 /\ First(m.source) \in m.source
<1>1. /\ m.source \in SUBSET Transactions /\ m.source # {}
      /\ m.target \in SUBSET Transactions /\ m.pass \in 1..6
  BY DEF Formed, MatchRecords, Transactions
<1>2. Gross(m) \in Int /\ Observed(m) \in Int
  BY <1>1, TotalAmountType DEF Formed, Gross, Observed
<1>3. First(m.source) \in m.source
  BY <1>1, FirstIsIn DEF Formed
<1> QED BY <1>1, <1>2, <1>3 DEF Variance, AbsDiff

(* The four ways in which a match is settled.                               *)
LEMMA SettleCases ==
  ASSUME NEW m
  PROVE  LET small == AbsDiff(Gross(m), Observed(m)) <= RoundingTolerance
             s     == Settle(m)
         IN  /\ s.match = m /\ s.gross = Gross(m) /\ s.observed = Observed(m)
             /\ m.pass = 5 => s.components = FeeComponents(m)
             /\ m.pass # 5 /\ small => s.components = {} /\ s.explained
             /\ m.pass # 5 /\ ~small /\ FeesExplainGap(m) =>
                  s.components = FeeComponents(m) /\ s.explained
             /\ m.pass # 5 /\ ~small /\ ~FeesExplainGap(m) =>
                  s.components = {Line("OTHER_DEDUCTION", 0, Variance(m))}
<1> DEFINE small == AbsDiff(Gross(m), Observed(m)) <= RoundingTolerance
           net == Net(Gross(m), Instrument(m))
           s == Settle(m)
           Fields(r, c, b) == /\ r.match = m /\ r.gross = Gross(m) /\ r.observed = Observed(m)
                              /\ r.components = c /\ r.explained = b
<1> HIDE DEF small
<1>1. CASE m.pass = 5
  <2>1. Settle(m) = Settlement(m, net, FeeComponents(m),
                               AbsDiff(net, Observed(m)) <= RoundingTolerance)
    BY <1>1 DEF Settle
  <2>2. Fields(s, FeeComponents(m), s.explained)
    <3> HIDE DEF net
    <3> QED BY <2>1 DEF Settlement
  <2> QED BY <1>1, <2>2 DEF small
<1>2. CASE m.pass # 5 /\ small
  <2>1. Settle(m) = Settlement(m, Gross(m), {}, TRUE)
    BY <1>2 DEF Settle, small
  <2>2. Fields(s, {}, TRUE)
    BY <2>1 DEF Settlement
  <2> QED BY <1>2, <2>2 DEF small
<1>3. CASE m.pass # 5 /\ ~small /\ FeesExplainGap(m)
  <2>1. Settle(m) = Settlement(m, net, FeeComponents(m), TRUE)
    BY <1>3 DEF Settle, small
  <2>2. Fields(s, FeeComponents(m), TRUE)
    <3> HIDE DEF net
    <3> QED BY <2>1 DEF Settlement
  <2> QED BY <1>3, <2>2 DEF small
<1>4. CASE m.pass # 5 /\ ~small /\ ~FeesExplainGap(m)
  <2>1. Settle(m) = Settlement(m, Gross(m), {Line("OTHER_DEDUCTION", 0, Variance(m))}, FALSE)
    BY <1>4 DEF Settle, small
  <2>2. Fields(s, {Line("OTHER_DEDUCTION", 0, Variance(m))}, FALSE)
    BY <2>1 DEF Settlement
  <2> QED BY <1>4, <2>2 DEF small
<1> QED BY <1>1, <1>2, <1>3, <1>4 DEF small

(* No gap is absorbed silently, in any configuration and for any rows: when *)
(* the batch is closed, a match by reference, by fees or by group whose two *)
(* sides differ has a settlement with lines for the gap, and an unexplained *)
(* one has an exception that names all its transactions                     *)
(* (settlement/service.py:172-304).                                         *)
THEOREM NoGapUnanswered == ReconciliationSpec => []GapsAnswered
<1>1. Settling => GapsAnswered
  <2> SUFFICES ASSUME Settling, stage = "closed", NEW m \in matches, m.pass \notin {3, 4},
                      AbsDiff(Gross(m), Observed(m)) > RoundingTolerance
               PROVE  \E s \in settlements :
                        /\ s.match = m
                        /\ s.components # {}
                        /\ ~s.explained => \E e \in exceptions :
                             e.type = "FEE_VARIANCE"
                             /\ {e.about} \cup e.related = m.source \cup m.target
    BY DEF GapsAnswered
  <2>1. /\ m.pass \in 1..6 /\ AbsDiff(Gross(m), Observed(m)) \in Int
        /\ First(m.source) \in m.source
    BY MatchAmounts DEF Settling
  <2>2. ~(AbsDiff(Gross(m), Observed(m)) <= RoundingTolerance)
    BY <2>1 DEF RoundingTolerance
  <2>3. ToSettle(m)
    BY <2>1 DEF ToSettle
  <2>4. Settle(m) \in settlements
    BY <2>3 DEF Settling, Settled
  <2>5. Settle(m).match = m /\ Settle(m).components # {}
    <3>1. FeeComponents(m) # {}
      BY DEF FeeComponents
    <3> QED BY <2>2, <3>1, SettleCases
  <2>6. ~Settle(m).explained => FeeVariance(m) \in exceptions
    BY <2>3 DEF Settling, Settled
  <2>7. FeeVariance(m).type = "FEE_VARIANCE"
        /\ {FeeVariance(m).about} \cup FeeVariance(m).related = m.source \cup m.target
    BY <2>1 DEF FeeVariance, Draft
  <2> QED BY <2>4, <2>5, <2>6, <2>7
<1> QED BY <1>1, SettlingAlways, PTL

(* A settlement adds up, in any configuration and for any rows: gross less  *)
(* the recorded components is the observed net, up to what the matching or  *)
(* the fee rules were told to tolerate (settlement/service.py:170-248;      *)
(* tax/service.py:88-139).                                                  *)
THEOREM SettlementsBalance == ReconciliationSpec => []SettlementsAddUp
<1>1. ASSUME Formed, NEW m \in matches
      PROVE  AbsDiff(Settle(m).gross - SumOf(Settle(m).components), Settle(m).observed)
               <= Tolerated
  <2> DEFINE s == Settle(m)
             G == Gross(m)
             O == Observed(m)
             net == Net(G, Instrument(m))
             small == AbsDiff(G, O) <= RoundingTolerance
  <2> SUFFICES AbsDiff(s.gross - SumOf(s.components), s.observed) <= Tolerated
    OBVIOUS
  <2>1. /\ G \in Int /\ O \in Int /\ Variance(m) \in Int /\ Variance(m) = G - O
        /\ AbsDiff(G, O) \in Int
    BY <1>1, MatchAmounts DEF Variance
  <2>2. /\ s.gross = G /\ s.observed = O
        /\ m.pass = 5 => s.components = FeeComponents(m)
        /\ m.pass # 5 /\ small => s.components = {}
        /\ m.pass # 5 /\ ~small /\ FeesExplainGap(m) => s.components = FeeComponents(m)
        /\ m.pass # 5 /\ ~small /\ ~FeesExplainGap(m) =>
             s.components = {Line("OTHER_DEDUCTION", 0, Variance(m))}
    BY SettleCases
  <2>3. Tolerated \in Int /\ RoundingTolerance <= Tolerated /\ 0 <= Tolerated
        /\ (FeeRules.configured => FeeRules.rounding <= Tolerated /\ FeeRules.rounding \in Int)
    <3>1. CASE FeeRules.configured
      <4>1. FeeRules.rounding \in Int /\ RoundingTolerance \in Int
        BY <3>1, FeesAssumption DEF RoundingTolerance
      <4>2. /\ Max({RoundingTolerance, FeeRules.rounding}) \in {RoundingTolerance, FeeRules.rounding}
            /\ RoundingTolerance <= Max({RoundingTolerance, FeeRules.rounding})
            /\ FeeRules.rounding <= Max({RoundingTolerance, FeeRules.rounding})
        BY <4>1, OfTwo
      <4>3. Tolerated = Max({RoundingTolerance, FeeRules.rounding})
        BY <3>1 DEF Tolerated
      <4> QED BY <4>1, <4>2, <4>3 DEF RoundingTolerance
    <3>2. CASE ~FeeRules.configured
      BY <3>2 DEF Tolerated, RoundingTolerance
    <3> QED BY <3>1, <3>2
  <2>4. FeeRules.configured => net \in Int /\ G - SumOf(FeeComponents(m)) = net
    BY <2>1, BreakdownAddsUp DEF FeeComponents
  <2>5. ASSUME FeeRules.configured, s.components = FeeComponents(m),
               AbsDiff(net, O) <= FeeRules.rounding \/ AbsDiff(O, net) <= FeeRules.rounding
        PROVE  AbsDiff(s.gross - SumOf(s.components), s.observed) <= Tolerated
    <3>1. s.gross - SumOf(s.components) = net
      BY <2>2, <2>4, <2>5
    <3>2. AbsDiff(net, O) = AbsDiff(O, net) /\ AbsDiff(net, O) \in Int
      <4> HIDE DEF net, O, G, s
      <4> QED BY <2>1, <2>4, <2>5 DEF AbsDiff
    <3> HIDE DEF net, O, G, s
    <3> QED BY <2>2, <2>3, <2>5, <3>1, <3>2
  <2>6. CASE m.pass = 5
    <3>1. PICK u \in Internal, e \in External :
            m.source = {u} /\ m.target = {e} /\ ExplainedByFees(u, e)
      BY <1>1, <2>6 DEF Formed, FeesExplain
    <3>2. G = txn[u].amount /\ O = txn[e].amount
      BY <1>1, <3>1, TotalAmountOfOne DEF Formed, Gross, Observed, Transactions
    <3>3. Instrument(m) = txn[u].instrument
      <4>1. First(m.source) = u
        BY <1>1, <3>1, MatchAmounts
      <4> QED BY <4>1 DEF Instrument
    <3>4. FeeRules.configured /\ AbsDiff(net, O) <= FeeRules.rounding
      BY <3>1, <3>2, <3>3 DEF ExplainedByFees
    <3> HIDE DEF net, O, G, s
    <3> QED BY <2>2, <2>5, <2>6, <3>4
  <2>7. CASE m.pass # 5 /\ small
    <3>1. SumOf(s.components) = 0
      BY <2>2, <2>7, SumOfNothing
    <3>2. s.gross - SumOf(s.components) = G
      BY <2>1, <2>2, <3>1
    <3> HIDE DEF net, O, G, s
    <3> QED BY <2>1, <2>2, <2>3, <2>7, <3>2 DEF RoundingTolerance
  <2>8. CASE m.pass # 5 /\ ~small /\ FeesExplainGap(m)
    <3>1. FeeRules.configured /\ AbsDiff(O, net) <= FeeRules.rounding
      BY <2>8 DEF FeesExplainGap
    <3> HIDE DEF net, O, G, s, small
    <3> QED BY <2>2, <2>5, <2>8, <3>1
  <2>9. CASE m.pass # 5 /\ ~small /\ ~FeesExplainGap(m)
    <3> DEFINE line == Line("OTHER_DEDUCTION", 0, Variance(m))
    <3>1. line.amount = Variance(m)
      BY LineFields
    <3>2. SumOf({} \cup {line}) = Variance(m) + 0
      <4> HIDE DEF line
      <4>1. line \notin {} /\ line.amount \in Int
        BY <2>1, <3>1
      <4> QED BY <3>1, <4>1, SumOfMore, SumOfNothing
    <3>3. s.components = {} \cup {line}
      BY <2>2, <2>9
    <3>4. s.gross - SumOf(s.components) = O
      <4> HIDE DEF net, O, G, s, line
      <4> QED BY <2>1, <2>2, <3>2, <3>3
    <3>5. AbsDiff(O, O) = 0
      BY <2>1 DEF AbsDiff
    <3> HIDE DEF net, O, G, s
    <3> QED BY <2>2, <2>3, <3>4, <3>5
  <2> HIDE DEF small
  <2> QED BY <2>6, <2>7, <2>8, <2>9
<1>2. Settling => SettlementsAddUp
  <2> SUFFICES ASSUME Settling, NEW s \in settlements
               PROVE  AbsDiff(s.gross - SumOf(s.components), s.observed) <= Tolerated
    BY DEF SettlementsAddUp
  <2>1. PICK m \in matches : s = Settle(m)
    BY DEF Settling, Settled
  <2> QED BY <1>1, <2>1 DEF Settling
<1> QED BY <1>2, SettlingAlways, PTL

-----------------------------------------------------------------------------
(* The issues of the summary.                                               *)

Connected(G) ==
  \A H \in (SUBSET G) \ {{}, G} : AffectedRecords(H) \cap AffectedRecords(G \ H) # {}

(* What the grouping has reached when it has gone through the transactions  *)
(* in S.                                                                    *)
Grouped(groups, S) ==
  /\ UNION groups = exceptions
  /\ {} \notin groups
  /\ \A G, H \in groups : G \cap H # {} => G = H
  /\ \A t \in S : \A G, H \in groups :
       G \cap ExceptionsByTxn(t) # {} /\ H \cap ExceptionsByTxn(t) # {} => G = H
  /\ \A G \in groups : Connected(G)

LEMMA AffectedMore ==
  ASSUME NEW G, NEW H, G \subseteq H
  PROVE  AffectedRecords(G) \subseteq AffectedRecords(H)
BY DEF AffectedRecords

LEMMA AffectedBy ==
  ASSUME NEW t, NEW G, NEW e \in G, e \in ExceptionsByTxn(t)
  PROVE  t \in AffectedRecords(G)
BY DEF AffectedRecords, ExceptionsByTxn

(* Groups that each hold together and all name one transaction hold         *)
(* together when they become one.                                           *)
LEMMA MergeConnected ==
  ASSUME NEW t, NEW M, \A G \in M : Connected(G) /\ G \cap ExceptionsByTxn(t) # {}
  PROVE  Connected(UNION M)
<1> SUFFICES ASSUME NEW H \in (SUBSET UNION M) \ {{}, UNION M}
             PROVE  AffectedRecords(H) \cap AffectedRecords((UNION M) \ H) # {}
  BY DEF Connected
<1>1. CASE \E G \in M : G \cap H # {} /\ G \ H # {}
  <2>1. PICK G \in M : G \cap H # {} /\ G \ H # {}
    BY <1>1
  <2>2. G \cap H \in (SUBSET G) \ {{}, G} /\ G \ (G \cap H) = G \ H
    BY <2>1
  <2>3. AffectedRecords(G \cap H) \cap AffectedRecords(G \ H) # {}
    BY <2>2 DEF Connected
  <2>4. AffectedRecords(G \cap H) \subseteq AffectedRecords(H)
    <3>1. G \cap H \subseteq H
      OBVIOUS
    <3> QED BY <3>1, AffectedMore
  <2>5. AffectedRecords(G \ H) \subseteq AffectedRecords((UNION M) \ H)
    <3>1. G \ H \subseteq (UNION M) \ H
      BY <2>1
    <3> QED BY <3>1, AffectedMore
  <2> QED BY <2>3, <2>4, <2>5
<1>2. CASE \A G \in M : G \cap H = {} \/ G \subseteq H
  <2>1. PICK e \in H : TRUE
    OBVIOUS
  <2>2. PICK G \in M : e \in G
    BY <2>1
  <2>3. PICK f \in (UNION M) \ H : TRUE
    OBVIOUS
  <2>4. PICK K \in M : f \in K
    BY <2>3
  <2>5. G \subseteq H /\ K \subseteq (UNION M) \ H
    BY <1>2, <2>1, <2>2, <2>3, <2>4
  <2>6. PICK x \in G : x \in ExceptionsByTxn(t)
    BY <2>2
  <2>7. PICK y \in K : y \in ExceptionsByTxn(t)
    BY <2>4
  <2>8. t \in AffectedRecords(H)
    BY <2>5, <2>6, AffectedBy
  <2>9. t \in AffectedRecords((UNION M) \ H)
    BY <2>5, <2>7, AffectedBy
  <2> QED BY <2>8, <2>9
<1> QED BY <1>1, <1>2

LEMMA UnionGroups ==
  ASSUME NEW S, NEW t \in S, NEW groups, Grouped(groups, S \ {t})
  PROVE  Grouped(Union(t, groups), S)
<1> DEFINE X(u) == ExceptionsByTxn(u)
           M == {G \in groups : G \cap X(t) # {}}
<1>1. CASE M = {}
  <2>1. Union(t, groups) = groups
    BY <1>1 DEF Union
  <2>2. \A G \in groups : G \cap X(t) = {}
    BY <1>1
  <2> HIDE DEF X, M
  <2>3. \A u \in S : \A G, H \in groups : G \cap X(u) # {} /\ H \cap X(u) # {} => G = H
    BY <2>2 DEF Grouped, X
  <2> QED BY <2>1, <2>3 DEF Grouped, X
<1>2. CASE M # {}
  <2> DEFINE all == UNION M
  <2>1. all # {} /\ M \subseteq groups /\ {} \notin groups
    BY <1>2 DEF Grouped
  <2>2. Union(t, groups) = (groups \ M) \cup {all}
    BY <2>1 DEF Union
  <2>3. \A G \in groups \ M : G \cap X(t) = {}
    OBVIOUS
  <2>4. Connected(all)
    <3>1. \A G \in M : Connected(G) /\ G \cap ExceptionsByTxn(t) # {}
      BY <2>1 DEF Grouped
    <3> HIDE DEF M
    <3> QED BY <3>1, MergeConnected
  <2>5. UNION ((groups \ M) \cup {all}) = exceptions
    <3> HIDE DEF M
    <3>1. UNION groups = exceptions
      BY DEF Grouped
    <3>2. UNION ((groups \ M) \cup {all}) = (UNION (groups \ M)) \cup UNION M
      OBVIOUS
    <3>3. (UNION (groups \ M)) \cup UNION M = UNION groups
      BY <2>1
    <3> QED BY <3>1, <3>2, <3>3
  <2>6. \A G \in groups \ M : G \cap all = {}
    <3> HIDE DEF M
    <3> QED BY <2>1 DEF Grouped
  <2>7. ASSUME NEW u \in S, NEW G \in groups \ M, G \cap X(u) # {}, all \cap X(u) # {}
        PROVE  FALSE
    <3>1. u # t
      BY <2>3, <2>7
    <3>2. PICK H \in M : H \cap X(u) # {}
      BY <2>7
    <3>3. H = G
      BY <2>1, <2>7, <3>1, <3>2 DEF Grouped
    <3> QED BY <3>2, <3>3
  <2>8. ASSUME NEW u \in S, NEW G \in groups \ M, NEW H \in groups \ M,
               G \cap X(u) # {}, H \cap X(u) # {}
        PROVE  G = H
    <3>1. u # t
      BY <2>3, <2>8
    <3> QED BY <2>8, <3>1 DEF Grouped
  <2> HIDE DEF M, all, X
  <2>9. \A G, H \in (groups \ M) \cup {all} : G \cap H # {} => G = H
    BY <2>6 DEF Grouped
  <2>10. \A u \in S : \A G, H \in (groups \ M) \cup {all} :
           G \cap X(u) # {} /\ H \cap X(u) # {} => G = H
    BY <2>7, <2>8
  <2>11. \A G \in (groups \ M) \cup {all} : Connected(G) /\ G # {}
    BY <2>1, <2>4 DEF Grouped
  <2> QED BY <2>2, <2>5, <2>9, <2>10, <2>11 DEF Grouped, X
<1> QED BY <1>1, <1>2

LEMMA GroupedAtFirst == Grouped({{e} : e \in exceptions}, {})
<1> DEFINE groups == {{e} : e \in exceptions}
<1>1. \A G \in groups : \E e \in exceptions : G = {e}
  OBVIOUS
<1>2. UNION groups = exceptions
  OBVIOUS
<1>3. \A G \in groups : Connected(G) /\ G # {}
  <2> SUFFICES ASSUME NEW e \in exceptions PROVE Connected({e})
    BY <1>1
  <2>1. (SUBSET {e}) \ {{}, {e}} = {}
    OBVIOUS
  <2> QED BY <2>1 DEF Connected
<1>4. \A G, H \in groups : G \cap H # {} => G = H
  OBVIOUS
<1> HIDE DEF groups
<1> QED BY <1>2, <1>3, <1>4 DEF Grouped, groups

(* The fold goes through all transactions, in whatever order.               *)
LEMMA IssuesGrouped == Grouped(IssueGroups, Transactions)
<1> DEFINE D == Transactions
           V == SUBSET SUBSET exceptions
           base == {{e} : e \in exceptions}
           step == [p \in D \X V |-> Union(p[1], p[2])]
           table == CHOOSE g : g = [s \in SUBSET D |->
             IF s = {} THEN base
             ELSE Union(CHOOSE x \in s : TRUE, g[s \ {CHOOSE x \in s : TRUE}])]
<1>1. IsFiniteSet(D)
  BY MatchingAssumption
<1>2. \A t \in D : \A groups \in V : Union(t, groups) \in V
  BY DEF Union
<1>3. Folding(D, V, base, step)
  BY <1>1, <1>2 DEF Folding
<1>4. PICK g \in [SUBSET D -> V] : FoldsTo(D, base, step, g)
  <2> HIDE DEF D, V, base, step
  <2> QED BY <1>3, FoldExists
<1>5. \A s \in SUBSET D : s # {} => step[<<Pick(s), g[s \ {Pick(s)}]>>] = Union(Pick(s), g[s \ {Pick(s)}])
  BY PickIsIn
<1>6. g = [s \in SUBSET D |->
             IF s = {} THEN base
             ELSE Union(CHOOSE x \in s : TRUE, g[s \ {CHOOSE x \in s : TRUE}])]
  <2> HIDE DEF step, base, V
  <2> QED BY <1>4, <1>5 DEF FoldsTo, Pick
<1>7. table = [s \in SUBSET D |->
             IF s = {} THEN base
             ELSE Union(CHOOSE x \in s : TRUE, table[s \ {CHOOSE x \in s : TRUE}])]
  <2> HIDE DEF base
  <2> QED BY <1>6
<1>8. IssueGroups = table[D]
  BY DEF IssueGroups, FoldSet, MapThenFoldSet
<1> HIDE DEF table, step, base, V
<1>9. \A s \in SUBSET D :
        /\ s = {} => table[s] = base
        /\ s # {} => table[s] = Union(Pick(s), table[s \ {Pick(s)}]) /\ Pick(s) \in s
  BY <1>7, PickIsIn DEF Pick
<1> DEFINE Good == {s \in SUBSET D : Grouped(table[s], s)}
<1>10. ASSUME NEW s \in SUBSET D, \A x \in s : s \ {x} \in Good
       PROVE  s \in Good
  <2>1. CASE s = {}
    BY <1>9, <2>1, GroupedAtFirst DEF base
  <2>2. CASE s # {}
    <3>1. table[s] = Union(Pick(s), table[s \ {Pick(s)}]) /\ Pick(s) \in s
      BY <1>9, <2>2
    <3>2. Grouped(table[s \ {Pick(s)}], s \ {Pick(s)})
      BY <1>10, <3>1
    <3> QED BY <3>1, <3>2, UnionGroups
  <2> QED BY <2>1, <2>2
<1>11. \A s \in SUBSET D : s \in Good
  <2> HIDE DEF Good, D
  <2> QED BY <1>1, <1>10, SubsetInductionAll
<1> QED BY <1>8, <1>11

LEMMA PairExtended ==
  ASSUME NEW a, NEW b, NEW c
  PROVE <<a>> \o <<b, c>> = <<a, b, c>>
<1> DEFINE s == <<a>>
           t == <<b, c>>
           u == <<a, b, c>>
           U == {a, b, c}
<1>1. s \in Seq(U) /\ t \in Seq(U) /\ u \in Seq(U) /\ Len(s) = 1 /\ Len(t) = 2 /\ Len(u) = 3
  OBVIOUS
<1>2. s[1] = a /\ t[1] = b /\ t[2] = c /\ u[1] = a /\ u[2] = b /\ u[3] = c OBVIOUS
<1> HIDE DEF s, t, u, U
<1>3. s \o t \in Seq(U) /\ Len(s \o t) = 3 /\ \A i \in 1..3 : (s \o t)[i] = IF i <= 1 THEN s[i] ELSE t[i-1]
  <2>1. s \o t \in Seq(U)
    BY <1>1, ConcatProperties
  <2>2. Len(s \o t) = Len(s) + Len(t)
    BY <1>1, ConcatProperties
  <2>3. \A i \in 1 .. Len(s) + Len(t) : (s \o t)[i] = IF i <= Len(s) THEN s[i] ELSE t[i - Len(s)]
    BY <1>1, ConcatProperties
  <2>4. Len(s) + Len(t) = 3 /\ Len(s) = 1
    BY <1>1
  <2> QED BY <2>1, <2>2, <2>3, <2>4
<1>4. (s \o t)[1] = a /\ (s \o t)[2] = b /\ (s \o t)[3] = c
  BY <1>3, <1>2
<1>5. \A i \in 1..3 : (s \o t)[i] = u[i]
  <2>1. 1..3 = {1, 2, 3}
    OBVIOUS
  <2> QED BY <1>4, <1>2, <2>1
<1>6. s \o t = u
  BY <1>1, <1>3, <1>5, SeqEqual
<1> QED BY <1>6 DEF s, t, u

LEMMA TriplePrecedes ==
  ASSUME NEW a, NEW b, NEW c, NEW d, NEW e, NEW f
  PROVE Precedes(<<a, b, c>>, <<d, e, f>>) <=>
     \/ a < d
     \/ a = d /\ b < e
     \/ a = d /\ b = e /\ c < f
<1> DEFINE x == <<a, b, c>>
           y == <<d, e, f>>
<1>1. /\ DOMAIN x = 1..3
      /\ x[1] = a /\ x[2] = b /\ x[3] = c /\ y[1] = d /\ y[2] = e /\ y[3] = f
  OBVIOUS
<1> HIDE DEF x, y
<1>3. Precedes(x, y) <=> \E i \in 1..3 : x[i] < y[i] /\ \A j \in 1..(i - 1) : x[j] = y[j]
  BY <1>1 DEF Precedes
<1>4. 1..(1-1) = {} /\ 1..(2-1) = {1} /\ 1..(3-1) = {1,2} /\ 1..3 = {1,2,3}
  OBVIOUS
<1>5. Precedes(x, y) <=> \/ x[1] < y[1] 
                         \/ x[2] < y[2] /\ x[1] = y[1]
                         \/ x[3] < y[3] /\ x[1] = y[1] /\ x[2] = y[2]
  BY <1>3, <1>4
<1> QED BY <1>5, <1>1 DEF x, y


LEMMA EarlierGap ==
  ASSUME NEW t, NEW p, NEW o
  PROVE  Precedes(<<Gap(t, p)>> \o Position(p), <<Gap(t, o)>> \o Position(o)) <=>
           \/ Gap(t, p) < Gap(t, o)
           \/ /\ Gap(t, p) = Gap(t, o)
              /\ txn[p].days["transaction_date"] < txn[o].days["transaction_date"]
           \/ /\ Gap(t, p) = Gap(t, o)
              /\ txn[p].days["transaction_date"] = txn[o].days["transaction_date"]
              /\ Rank[p] < Rank[o]
<1>1. \A q : <<Gap(t, q)>> \o Position(q)
               = <<Gap(t, q), txn[q].days["transaction_date"], Rank[q]>>
  BY PairExtended DEF Position
<1> DEFINE a == Gap(t, p)   b == txn[p].days["transaction_date"]   c == Rank[p]
           d == Gap(t, o)   e == txn[o].days["transaction_date"]   f == Rank[o]
<1>2. /\ <<Gap(t, p)>> \o Position(p) = <<a, b, c>>
      /\ <<Gap(t, o)>> \o Position(o) = <<d, e, f>>
  BY <1>1
<1> HIDE DEF a, b, c, d, e, f
<1>3. Precedes(<<a, b, c>>, <<d, e, f>>) <=>
        \/ a < d
        \/ a = d /\ b < e
        \/ a = d /\ b = e /\ c < f
  BY TriplePrecedes
<1> QED BY <1>2, <1>3 DEF a, b, c, d, e, f

LEMMA NearestIsIn ==
  ASSUME RowsTyped, NEW t \in Transactions, NEW S \in SUBSET Transactions, S # {}
  PROVE  Nearest(t, S) \in S
<1> DEFINE before == {p \in S \X S : Precedes(<<Gap(t, p[1])>> \o Position(p[1]),
                                              <<Gap(t, p[2])>> \o Position(p[2]))}
<1>1. \A p, o \in S : <<p, o>> \in before <=>
        Precedes(<<Gap(t, p)>> \o Position(p), <<Gap(t, o)>> \o Position(o))
  OBVIOUS
<1>2. \A p \in S : /\ txn[p].days["transaction_date"] \in Int /\ Rank[p] \in Int
                   /\ Gap(t, p) \in Int
  BY MatchingAssumption DEF RowsTyped, Gap, AbsDiff
<1>3. \A p \in S : <<p, p>> \notin before
  BY <1>1, <1>2, EarlierGap
<1>4. \A p, o, q \in S : <<p, o>> \in before /\ <<o, q>> \in before => <<p, q>> \in before
  BY <1>1, <1>2, EarlierGap
<1>5. \E o \in S : \A p \in S : <<p, o>> \notin before
  <2>1. IsFiniteSet(S)
    BY MatchingAssumption, FS_Subset
  <2> HIDE DEF before
  <2> QED BY <1>3, <1>4, <2>1, FirstOf
<1>6. \E o \in S : \A p \in S :
        ~Precedes(<<Gap(t, p)>> \o Position(p), <<Gap(t, o)>> \o Position(o))
  BY <1>1, <1>5
<1> QED BY <1>6 DEF Nearest

RecordsKnown == \A e \in exceptions : Records(e) \subseteq Transactions

LEMMA DraftRecords ==
  ASSUME NEW t, NEW type, NEW related, NEW impact
  PROVE  Records(Draft(t, type, related, impact)) = {t} \cup related
BY DEF Records, Draft

LEMMA ClassifyRecords ==
  ASSUME RowsTyped, NEW t \in Transactions, NEW S \in SUBSET Transactions, NEW type
  PROVE  Records(Classify(t, S, type)) \subseteq Transactions
<1>1. CASE S = {}
  <2>1. Classify(t, S, type) = Draft(t, type, {}, txn[t].amount)
    BY <1>1 DEF Classify
  <2> QED BY <2>1, DraftRecords
<1>2. CASE S # {}
  <2> DEFINE near == Nearest(t, S)
  <2>1. near \in Transactions
    BY <1>2, NearestIsIn
  <2>2. \E k, related, impact :
          related \in {{}, {near}} /\ Classify(t, S, type) = Draft(t, k, related, impact)
    <3> DEFINE gap == Gap(t, near)
               late == DaysApart(t, near, "transaction_date") > TimingLooseDateDays
    <3>1. Classify(t, S, type) =
            CASE gap = 0 /\ late  -> Draft(t, "TIMING_DIFFERENCE", {near}, 0)
              [] gap = 0 /\ ~late -> Draft(t, "COUNTERPARTY_MISMATCH", {near}, 0)
              [] gap > 0 /\ 10 * gap <= txn[t].amount ->
                   Draft(t, "AMOUNT_MISMATCH", {near}, gap)
              [] OTHER -> Draft(t, type, {}, txn[t].amount)
      BY <1>2 DEF Classify
    <3> HIDE DEF gap, late, near
    <3> QED BY <3>1
  <2> HIDE DEF near
  <2> QED BY <2>1, <2>2, DraftRecords
<1> QED BY <1>1, <1>2

LEMMA RecordsKnownStep ==
  ASSUME RecordsKnown, Formed, [ReconciliationNext]_reconciliationVars
  PROVE  RecordsKnown'
<1>1. CASE UNCHANGED exceptions
  BY <1>1 DEF RecordsKnown, Records
<1>2. CASE IdentifyExceptions
  <2> DEFINE UI == Unmatched(Internal)
             UE == Unmatched(External)
             SI == Single(Internal)
             SE == Single(External)
  <2>1. /\ UI \in SUBSET Transactions /\ UE \in SUBSET Transactions
        /\ SI \in SUBSET Transactions /\ SE \in SUBSET Transactions
    BY DEF Unmatched, Single, Transactions
  <2>2. exceptions' = DuplicateDrafts(UI) \cup DuplicateDrafts(UE)
          \cup {Classify(t, SE, "MISSING_EXTERNAL_RECORD") : t \in SI}
          \cup {Classify(t, SI, "MISSING_INTERNAL_RECORD") : t \in SE}
    BY <1>2 DEF IdentifyExceptions
  <2> HIDE DEF UI, UE, SI, SE
  <2>3. \A S \in SUBSET Transactions : \A d \in DuplicateDrafts(S) : Records(d) \subseteq Transactions
    <3> SUFFICES ASSUME NEW S \in SUBSET Transactions, NEW d \in DuplicateDrafts(S)
                 PROVE  Records(d) \subseteq Transactions
      OBVIOUS
    <3>1. PICK t \in Duplicates(S) : d = Draft(t, "DUPLICATE", Twins(t, S), txn[t].amount)
      BY DEF DuplicateDrafts
    <3>2. t \in S /\ Twins(t, S) \subseteq S
      BY DEF Duplicates, Twins
    <3> QED BY <3>1, <3>2, DraftRecords
  <2>4. \A t \in SI : Records(Classify(t, SE, "MISSING_EXTERNAL_RECORD")) \subseteq Transactions
    BY <2>1, ClassifyRecords DEF Formed
  <2>5. \A t \in SE : Records(Classify(t, SI, "MISSING_INTERNAL_RECORD")) \subseteq Transactions
    BY <2>1, ClassifyRecords DEF Formed
  <2>6. \A e \in exceptions' : Records(e) \subseteq Transactions
    BY <2>1, <2>2, <2>3, <2>4, <2>5
  <2> QED BY <2>6 DEF RecordsKnown, Records
<1>3. CASE BuildSettlements
  <2>1. \A m \in matches : Records(FeeVariance(m)) \subseteq Transactions
    <3> SUFFICES ASSUME NEW m \in matches PROVE Records(FeeVariance(m)) \subseteq Transactions
      OBVIOUS
    <3>1. m.source \subseteq Transactions /\ m.target \subseteq Transactions
      BY DEF Formed, MatchRecords, Transactions
    <3>2. First(m.source) \in m.source
      BY MatchAmounts
    <3> QED BY <3>1, <3>2, DraftRecords DEF FeeVariance
  <2>2. \A e \in exceptions' : Records(e) \subseteq Transactions
    BY <1>3, <2>1 DEF BuildSettlements, RecordsKnown
  <2> QED BY <2>2 DEF RecordsKnown, Records
<1> QED BY <1>1, <1>2, <1>3 DEF ReconciliationNext, Match, FinishMatching, outcomeVars,
                                reconciliationVars

(* The issues of a summary are the classes of "shares a record with": they  *)
(* divide the open exceptions, no record is in two of them, and none falls  *)
(* into parts without a common record -- for any exceptions the classifier  *)
(* and the settlements raise, and in whatever order the transactions are    *)
(* gone through (batches/summary.py:88-119).                                *)
THEOREM IssuesAreClasses == ReconciliationSpec => []RecordsInOneIssue
<1>1. RecordsKnown => RecordsInOneIssue
  <2> SUFFICES ASSUME RecordsKnown PROVE RecordsInOneIssue
    OBVIOUS
  <2>1. Grouped(IssueGroups, Transactions)
    BY IssuesGrouped
  <2>2. ASSUME NEW G \in IssueGroups, NEW H \in IssueGroups, G # H,
               NEW t \in AffectedRecords(G), t \in AffectedRecords(H)
        PROVE  FALSE
    <3>1. PICK e \in G : t \in Records(e)
      BY DEF AffectedRecords
    <3>2. PICK f \in H : t \in Records(f)
      BY <2>2 DEF AffectedRecords
    <3>3. e \in exceptions /\ f \in exceptions
      BY <2>1 DEF Grouped
    <3>4. t \in Transactions
      BY <3>1, <3>3 DEF RecordsKnown
    <3>5. e \in G \cap ExceptionsByTxn(t) /\ f \in H \cap ExceptionsByTxn(t)
      BY <3>1, <3>2, <3>3 DEF ExceptionsByTxn
    <3> QED BY <2>1, <2>2, <3>4, <3>5 DEF Grouped
  <2>3. UNION IssueGroups = exceptions
        /\ \A G \in IssueGroups : \A H \in (SUBSET G) \ {{}, G} :
             AffectedRecords(H) \cap AffectedRecords(G \ H) # {}
    BY <2>1 DEF Grouped, Connected
  <2> QED BY <2>2, <2>3 DEF RecordsInOneIssue
<1>2. ReconciliationInit => RecordsKnown
  BY DEF ReconciliationInit, RecordsKnown
<1>3. RecordsKnown /\ Settling /\ [ReconciliationNext]_reconciliationVars => RecordsKnown'
  BY RecordsKnownStep DEF Settling
<1> QED BY <1>1, <1>2, <1>3, SettlingAlways, PTL DEF ReconciliationSpec

-----------------------------------------------------------------------------
(* Stronger evidence first.                                                 *)

(* What is unmatched is in the pools and unused, and every match so far     *)
(* belongs to a pass that the plan has already come to.                     *)
Ordered ==
  /\ at \in 1..(Len(Plan) + 1)
  /\ \A t \in Internal : txn[t] \in InternalContents
  /\ \A t \in External : txn[t] \in ExternalContents
  /\ \A t \in Transactions \ AllMatched : t \in pool
  /\ used \subseteq AllMatched
  /\ \A m \in matches :
       m.pass \in 1..6 /\ \E i \in 1..Len(Plan) : i <= at /\ m.pass <= Plan[i].pass

(* Both ways round, an acceptable pair of the pools is found acceptable.    *)
LEMMA RoundFound ==
  ASSUME OneWayRound, Ordered, ~Matched,
         NEW u \in Internal \cap pool, NEW e \in External \cap pool,
         AcceptableEitherWay(Loop, u, e)
  PROVE  Acceptable(Loop, u, e)
<1>1. CASE Loop.pass \notin {1, 2}
  BY <1>1 DEF AcceptableEitherWay
<1>2. CASE Loop.pass \in {1, 2}
  <2> DEFINE left == Loop.on.left   right == Loop.on.right
  <2>1. PICK sides \in {<<left, right>>, <<right, left>>} :
          LET ref == Reference(u, sides[1])  other == Reference(e, sides[2])
          IN  /\ ref # << >> /\ other # << >>
              /\ IF Loop.pass = 1 THEN ref = other
                 ELSE Suffix(ref) = Suffix(other) /\ PartialMatch(ref, other)
    BY <1>2 DEF AcceptableEitherWay
  <2>2. \A t, type : Reference(t, type) # << >> <=> type \in Carried(txn[t].ids)
    BY DEF Reference, Carried
  <2>3. /\ \A t \in Internal : \A type : type \in Carried(txn[t].ids) => Carry(InternalContents, type)
        /\ \A t \in External : \A type : type \in Carried(txn[t].ids) => Carry(ExternalContents, type)
    BY DEF Ordered, Carried, Carry
  <2>4. \/ left = right
        \/ ~ /\ Carry(InternalContents, left) /\ Carry(ExternalContents, right)
             /\ Carry(InternalContents, right) /\ Carry(ExternalContents, left)
    <3>1. at \in 1..Len(Plan)
      BY PlanAssumption DEF Ordered, Matched
    <3> QED BY <1>2, <3>1 DEF OneWayRound, Loop
  <2>5. sides[1] \in Carried(txn[u].ids) /\ sides[2] \in Carried(txn[e].ids)
    BY <2>1, <2>2
  <2>6. Sides(Loop.on) = sides
    <3>1. CASE sides = <<left, right>>
      <4>1. left \in Carried(txn[u].ids) /\ right \in Carried(txn[e].ids)
        BY <2>5, <3>1
      <4> QED BY <4>1, <3>1 DEF Sides
    <3>2. CASE sides = <<right, left>>
      <4>1. right \in Carried(txn[u].ids) /\ left \in Carried(txn[e].ids)
        BY <2>5, <3>2
      <4>2. Carry(InternalContents, right) /\ Carry(ExternalContents, left)
        BY <4>1, <2>3
      <4>3. CASE left = right
        BY <4>3, <3>2 DEF Sides
      <4>4. CASE left # right
        <5>1. ~ /\ \E t \in pool \cap Internal : left \in Carried(txn[t].ids)
                /\ \E t \in pool \cap External : right \in Carried(txn[t].ids)
          BY <4>2, <4>4, <2>3, <2>4
        <5> QED BY <5>1, <3>2 DEF Sides
      <4> QED BY <4>3, <4>4
    <3> QED BY <3>1, <3>2
  <2>7. SameReference(Loop, u, e)
    BY <2>1, <2>6 DEF SameReference
  <2>8. Linked(Loop)
    BY <1>2 DEF AcceptableEitherWay
  <2> QED BY <1>2, <2>7, <2>8 DEF Acceptable
<1> QED BY <1>1, <1>2

(* A match that is added can only add to what a pass has taken.             *)
LEMMA TakenStays ==
  ASSUME matches \subseteq matches', NEW pass, NEW t, TakenBy(pass, t)
  PROVE  TakenBy(pass, t)'
BY DEF TakenBy

(* Whether a pair is acceptable does not depend on how far the engine is.   *)
LEMMA AcceptableStays ==
  ASSUME UNCHANGED txn, NEW loop, NEW u, NEW e
  PROVE  AcceptableEitherWay(loop, u, e)' <=> AcceptableEitherWay(loop, u, e)
<1>1. CASE loop.pass \in {1, 2}
  <2>1. \A t, type : Reference(t, type)' = Reference(t, type)
    BY DEF Reference
  <2> QED BY <1>1, <2>1 DEF AcceptableEitherWay
<1>2. CASE loop.pass \notin {1, 2}
  <2>1. Acceptable(loop, u, e)' <=> Acceptable(loop, u, e)
    BY <1>2 DEF Acceptable, SameAmountAndDate, SameParty, ExplainedByFees, DaysApart, DateOf
  <2> QED BY <1>2, <2>1 DEF AcceptableEitherWay
<1> QED BY <1>1, <1>2

LEMMA OrderedMatch ==
  ASSUME Ordered, ~Matched, StrongerEvidenceFirst, UNCHANGED <<txn, pool, at>>,
         NEW m, matches' = matches \cup {m}, m.pass = Loop.pass,
         used' = used \cup m.source \cup m.target
  PROVE  Ordered' /\ StrongerEvidenceFirst'
<1>1. AllMatched' = AllMatched \cup (m.source \cup m.target)
  BY DEF AllMatched
<1>2. \A n \in matches' :
        n.pass \in 1..6 /\ \E i \in 1..Len(Plan) : i <= at /\ n.pass <= Plan[i].pass
  <2>1. at \in 1..Len(Plan) /\ m.pass <= Plan[at].pass /\ m.pass \in 1..6
    BY PlanAssumption DEF Ordered, Matched, Loop
  <2>2. at <= at
    BY <2>1
  <2> QED BY <2>1, <2>2 DEF Ordered
<1>3. Ordered'
  BY <1>1, <1>2 DEF Ordered
<1>4. StrongerEvidenceFirst'
  <2> SUFFICES ASSUME NEW i \in 1..(at - 1), NEW u \in Internal, NEW e \in External,
                      i <= Len(Plan), AcceptableEitherWay(Plan[i], u, e)'
               PROVE  (TakenBy(Plan[i].pass, u) \/ TakenBy(Plan[i].pass, e))'
    BY DEF StrongerEvidenceFirst
  <2>1. AcceptableEitherWay(Plan[i], u, e)
    BY AcceptableStays
  <2>2. TakenBy(Plan[i].pass, u) \/ TakenBy(Plan[i].pass, e)
    BY <2>1 DEF StrongerEvidenceFirst
  <2> QED BY <2>2, TakenStays
<1> QED BY <1>3, <1>4

LEMMA OrderedEnd ==
  ASSUME OneWayRound, Ordered, StrongerEvidenceFirst, EndLoop
  PROVE  Ordered' /\ StrongerEvidenceFirst'
<1> DEFINE samePass == at < Len(Plan) /\ Plan[at + 1].pass = Loop.pass
           sameRule == samePass /\ Plan[at + 1].rule = Loop.rule
<1>1. /\ ~Matched /\ at' = at + 1 /\ UNCHANGED <<txn, matches>>
      /\ used' = IF sameRule THEN used ELSE {}
      /\ pool' = IF samePass THEN pool ELSE pool \ AllMatched
      /\ \A u \in Free(Internal) : Candidates(u) = {}
  BY DEF EndLoop, LoopOver
<1>2. at \in 1..Len(Plan) /\ Len(Plan) \in Nat
  BY <1>1, PlanAssumption DEF Ordered, Matched
<1>3. AllMatched' = AllMatched
  BY <1>1 DEF AllMatched
<1>4. Ordered'
  <2>1. used' \subseteq used /\ pool \ AllMatched \subseteq pool'
    BY <1>1
  <2>2. \A i \in 1..Len(Plan) : i <= at => i <= at'
    BY <1>1, <1>2
  <2>3. at' \in 1..(Len(Plan) + 1)
    BY <1>1, <1>2
  <2> HIDE DEF sameRule, samePass
  <2>4. \A m \in matches' :
          m.pass \in 1..6 /\ \E i \in 1..Len(Plan) : i <= at' /\ m.pass <= Plan[i].pass
    BY <1>1, <2>2 DEF Ordered
  <2> QED BY <1>1, <1>3, <2>1, <2>3, <2>4 DEF Ordered
<1>5. ASSUME NEW u \in Internal, NEW e \in External, AcceptableEitherWay(Loop, u, e)
      PROVE  TakenBy(Loop.pass, u) \/ TakenBy(Loop.pass, e)
  <2>1. \A t \in AllMatched : TakenBy(Loop.pass, t)
    <3> SUFFICES ASSUME NEW m \in matches, NEW t \in m.source \cup m.target
                 PROVE  TakenBy(Loop.pass, t)
      BY DEF AllMatched
    <3>1. PICK i \in 1..Len(Plan) : i <= at /\ m.pass <= Plan[i].pass
      BY DEF Ordered
    <3>2. Plan[i].pass <= Plan[at].pass /\ Plan[i].pass \in 1..6 /\ Plan[at].pass \in 1..6
      BY <1>2, <3>1, PlanAssumption
    <3>3. m.pass <= Plan[at].pass
      <4>1. m.pass \in 1..6
        BY DEF Ordered
      <4> QED BY <3>1, <3>2, <4>1
    <3> QED BY <3>3 DEF TakenBy, Loop
  <2>2. SUFFICES ASSUME u \notin AllMatched, e \notin AllMatched PROVE FALSE
    BY <2>1
  <2>3. u \in Free(Internal) /\ e \in Free(External)
    BY <2>2 DEF Ordered, Transactions, Free
  <2>4. Acceptable(Loop, u, e)
    <3>1. u \in Internal \cap pool /\ e \in External \cap pool
      BY <2>3 DEF Free
    <3> QED BY <1>1, <1>5, <3>1, RoundFound
  <2> QED BY <1>1, <2>3, <2>4 DEF Candidates
<1>6. StrongerEvidenceFirst'
  <2> SUFFICES ASSUME NEW i \in 1..(at' - 1), NEW u \in Internal, NEW e \in External,
                      i <= Len(Plan), AcceptableEitherWay(Plan[i], u, e)'
               PROVE  (TakenBy(Plan[i].pass, u) \/ TakenBy(Plan[i].pass, e))'
    BY DEF StrongerEvidenceFirst
  <2>1. AcceptableEitherWay(Plan[i], u, e)
    BY <1>1, AcceptableStays
  <2>2. i \in 1..(at - 1) \/ i = at
    BY <1>1, <1>2
  <2>3. TakenBy(Plan[i].pass, u) \/ TakenBy(Plan[i].pass, e)
    BY <2>1, <2>2, <1>5 DEF StrongerEvidenceFirst, Loop
  <2> QED BY <1>1, <2>3, TakenStays
<1> QED BY <1>4, <1>6

(* Two transactions that the rules of a pass accept as a pair are never     *)
(* both left to weaker evidence, provided the identifiers of a condition    *)
(* are not carried both ways round (engine.py:49-72, base.py:9-25).         *)
THEOREM StrongerFirst ==
  OneWayRound => (ReconciliationSpec => []StrongerEvidenceFirst)
<1> SUFFICES ASSUME OneWayRound PROVE ReconciliationSpec => []StrongerEvidenceFirst
  OBVIOUS
<1> DEFINE Inv == Ordered /\ StrongerEvidenceFirst
<1>1. ReconciliationInit => Inv
  <2> SUFFICES ASSUME ReconciliationInit PROVE Inv
    OBVIOUS
  <2>1. AllMatched = {} /\ at = 1 /\ used = {} /\ pool = Transactions /\ matches = {}
    BY DEF ReconciliationInit, MatchingInit, AllMatched
  <2>2. Ordered
    BY <2>1, PlanAssumption DEF Ordered, ReconciliationInit, MatchingInit
  <2>3. StrongerEvidenceFirst
    BY <2>1 DEF StrongerEvidenceFirst
  <2> QED BY <2>2, <2>3
<1>2. Inv /\ [ReconciliationNext]_reconciliationVars => Inv'
  <2> SUFFICES ASSUME Inv, [ReconciliationNext]_reconciliationVars PROVE Inv'
    OBVIOUS
  <2>1. ASSUME NEW u \in Internal, NEW e \in External, MatchPair(u, e) PROVE Inv'
    <3> DEFINE m == [source |-> {u}, target |-> {e}, pass |-> Loop.pass]
    <3>1. /\ m.pass = Loop.pass /\ m.source = {u} /\ m.target = {e}
          /\ matches' = matches \cup {m} /\ used' = used \cup {u, e}
          /\ ~Matched /\ UNCHANGED <<txn, pool, at>>
      BY <2>1 DEF MatchPair
    <3>2. used' = used \cup m.source \cup m.target
      BY <3>1
    <3> HIDE DEF m
    <3> QED BY <3>1, <3>2, OrderedMatch
  <2>2. ASSUME MatchGroup PROVE Inv'
    <3>1. PICK key \in GroupsToMatch :
            /\ matches' = matches \cup {[source |-> Group(key, Internal),
                                         target |-> Group(key, External), pass |-> 6]}
            /\ used' = used \cup Group(key, Transactions)
      BY <2>2 DEF MatchGroup
    <3> DEFINE m == [source |-> Group(key, Internal), target |-> Group(key, External), pass |-> 6]
    <3>2. Group(key, Transactions) = Group(key, Internal) \cup Group(key, External)
      BY DEF Group, Transactions
    <3>3. /\ m.pass = 6 /\ m.source = Group(key, Internal) /\ m.target = Group(key, External)
      OBVIOUS
    <3>4. Loop.pass = 6 /\ ~Matched /\ UNCHANGED <<txn, pool, at>>
      BY <2>2 DEF MatchGroup
    <3>5. matches' = matches \cup {m}
      BY <3>1
    <3>6. used' = used \cup m.source \cup m.target
      BY <3>1, <3>2, <3>3
    <3> HIDE DEF m
    <3> QED BY <3>3, <3>4, <3>5, <3>6, OrderedMatch
  <2>3. CASE EndLoop
    BY <2>3, OrderedEnd
  <2>4. CASE UNCHANGED <<txn, pool, at, used, matches>>
    <3>1. Ordered'
      BY <2>4 DEF Ordered, AllMatched
    <3>2. StrongerEvidenceFirst'
      <4> SUFFICES ASSUME NEW i \in 1..(at - 1), NEW u \in Internal, NEW e \in External,
                          i <= Len(Plan), AcceptableEitherWay(Plan[i], u, e)'
                   PROVE  (TakenBy(Plan[i].pass, u) \/ TakenBy(Plan[i].pass, e))'
        BY <2>4 DEF StrongerEvidenceFirst
      <4>1. AcceptableEitherWay(Plan[i], u, e)
        BY <2>4, AcceptableStays
      <4> QED BY <4>1, <2>4, TakenStays DEF StrongerEvidenceFirst
    <3> QED BY <3>1, <3>2
  <2> HIDE DEF Inv
  <2> QED BY <2>1, <2>2, <2>3, <2>4
          DEF ReconciliationNext, Match, MatchingNext, FinishMatching, IdentifyExceptions,
              BuildSettlements, reconciliationVars
<1>3. Inv => StrongerEvidenceFirst
  OBVIOUS
<1> HIDE DEF Inv
<1> QED BY <1>1, <1>2, <1>3, PTL DEF ReconciliationSpec
=============================================================================
