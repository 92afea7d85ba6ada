------------------------------ MODULE Matching -----------------------------
(***************************************************************************)
(* The deterministic matching engine (reconciliation/engine.py, passes/).  *)
(* The transactions of a batch form two pools.  The engine runs a plan of  *)
(* loops: one for each condition of each rule of passes 1 and 2, one for   *)
(* each rule of passes 3 and 4, one for pass 5 and one for pass 6.  A loop *)
(* goes through the internal pool in the order of the batch and pairs each *)
(* transaction with the best external one that is acceptable and not yet   *)
(* used.  When the last rule of a pass is done, what it matched leaves the *)
(* pools.                                                                  *)
(*                                                                         *)
(* References are sequences of characters, << >> for a missing or an empty *)
(* one; dates are days; amounts are not negative (normalization stores the *)
(* absolute value and keeps the sign as debit or credit).                  *)
(***************************************************************************)
EXTENDS FeesAndTax, FiniteSets

CONSTANTS
  Internal, External,    \* the transactions of the batch, by their source's role
  InternalContents,      \* what the rows of an internal source may say
  ExternalContents,
  Rank,                  \* order of the transaction ids
  Rules,                 \* matching_rules of the configuration
  Linkage,               \* identifier_linkage
  Aggregation,           \* aggregation_rules, or [configured |-> FALSE]
  Similarity,            \* token_sort_ratio of two counterparty texts, in percent
  SuffixLen,             \* length of the suffix pass 2 indexes references by
  Digits,                \* the characters that are digits, 0 among them
  NoDay                  \* an optional date that a row does not carry

Transactions == Internal \cup External

ASSUME MatchingAssumption ==
  /\ Internal \cap External = {}
  /\ SuffixLen \in Nat \ {0}
  /\ IsFiniteSet(Transactions)
  /\ \A t \in Transactions : Rank[t] \in Int
  /\ \A t, u \in Transactions : Rank[t] = Rank[u] => t = u
  /\ \A row \in InternalContents \cup ExternalContents :
       row.amount \in Nat /\ row.days["transaction_date"] \in Int

(* Rules of the passes that are not in PASS_DISPATCH are ignored.  A rule   *)
(* of pass 3 or 4 without conditions matches nothing; here it is left out.  *)
RulesOfPass(p) == SelectSeq(Rules, LAMBDA rule : rule.pass = p)

LoopsOf(rule) ==
  IF rule.pass \in {1, 2}
  THEN [i \in DOMAIN rule.matchOn |->
          [pass |-> rule.pass, rule |-> rule.id, on |-> rule.matchOn[i]]]
  ELSE <<[pass |-> rule.pass, rule |-> rule.id, if |-> rule.conditions]>>

Plan ==
  FlattenSeq([p \in 1..4 |->
    FlattenSeq([i \in DOMAIN RulesOfPass(p) |-> LoopsOf(RulesOfPass(p)[i])])])
  \o <<[pass |-> 5, rule |-> "PASS5_FEE_TAX_EXPLAINED"],
       [pass |-> 6, rule |-> "PASS6_AGGREGATION"]>>

ASSUME PlanAssumption ==
  /\ Len(Plan) \in Nat \ {0}
  /\ \A i \in 1..Len(Plan) : Plan[i].pass \in 1..6
  /\ \A i, j \in 1..Len(Plan) : i <= j => Plan[i].pass <= Plan[j].pass

(* The schema lets a configuration have several rules of one pass; they all *)
(* get the pools of the pass.                                               *)
OneRulePerPass ==
  \A i \in 1..(Len(Plan) - 1) :
    Plan[i].pass = Plan[i + 1].pass => Plan[i].rule = Plan[i + 1].rule

(* Which of the two identifiers of a condition is the internal one is a     *)
(* fact about the client's data sources.                                    *)
Carry(contents, type) ==
  \E row \in contents : type \in DOMAIN row.ids /\ row.ids[type] # << >>

OneWayRound ==
  \A i \in 1..Len(Plan) : Plan[i].pass \in {1, 2} =>
    LET left == Plan[i].on.left  right == Plan[i].on.right
    IN  left = right
        \/ ~ /\ Carry(InternalContents, left) /\ Carry(ExternalContents, right)
             /\ Carry(InternalContents, right) /\ Carry(ExternalContents, left)

VARIABLES
  txn,       \* the rows of the transactions
  pool,      \* transactions no earlier pass has matched
  at,        \* index in Plan of the loop being run
  used,      \* transactions the rule being run has matched
  matches    \* the match candidates so far

matchingVars == <<txn, pool, at, used, matches>>

MatchingInit ==
  /\ txn \in [Transactions -> InternalContents \cup ExternalContents]
  /\ \A t \in Internal : txn[t] \in InternalContents
  /\ \A t \in External : txn[t] \in ExternalContents
  /\ pool = Transactions
  /\ at = 1
  /\ used = {}
  /\ matches = {}

Loop == Plan[at]
Matched == at > Len(Plan)

-----------------------------------------------------------------------------
(* What makes two transactions acceptable to each other.                    *)

AbsDiff(x, y) == IF x < y THEN y - x ELSE x - y

DateOf(t, field) ==
  IF txn[t].days[field] = NoDay THEN txn[t].days["transaction_date"]
                                ELSE txn[t].days[field]

DaysApart(t, u, field) == AbsDiff(DateOf(t, field), DateOf(u, field))

(* A percentage is one of the internal amount, in units of 1/100 percent.   *)
WithinTolerance(base, other, tolerance) ==
  IF tolerance.type = "percentage"
  THEN 10000 * AbsDiff(base, other) <= base * tolerance.value
  ELSE AbsDiff(base, other) <= tolerance.value

(* The first rule about the two identifier types, in either direction.      *)
LinkageRules(on) ==
  {i \in DOMAIN Linkage :
     {Linkage[i].source, Linkage[i].target} = {on.left, on.right}}

Linked(loop) ==
  /\ LinkageRules(loop.on) # {}
  /\ IF loop.pass = 1
     THEN /\ loop.on.comparison = "exact"
          /\ Linkage[Min(LinkageRules(loop.on))].type = "DIRECT_EQUIVALENT"
     ELSE loop.on.comparison = "normalized_partial"

Carried(ids) == {type \in DOMAIN ids : ids[type] # << >>}

(* Seeded fault: the left type is taken for the internal one.               *)
Sides_AsWritten(on) == <<on.left, on.right>>

(* Which of the two types is the internal one is read off the pools.  When  *)
(* neither way fits them, the second one links nothing.                     *)
Sides(on) ==
  IF /\ \E t \in pool \cap Internal : on.left  \in Carried(txn[t].ids)
     /\ \E t \in pool \cap External : on.right \in Carried(txn[t].ids)
  THEN <<on.left, on.right>>
  ELSE <<on.right, on.left>>

Reference(t, type) ==
  IF type \in DOMAIN txn[t].ids THEN txn[t].ids[type] ELSE << >>

Suffix(ref) == SubSeq(ref, Max({1, Len(ref) - SuffixLen + 1}), Len(ref))

Within(ref, other) ==
  \E i \in 0..(Len(other) - Len(ref)) :
     SubSeq(other, i + 1, i + Len(ref)) = ref

DigitsNoLeadingZeros(ref) ==
  LET digits      == SelectSeq(ref, LAMBDA c : c \in Digits)
      significant == {i \in DOMAIN digits : digits[i] # 0}
  IN  IF significant = {} THEN digits
      ELSE SubSeq(digits, Min(significant), Len(digits))

PartialMatch(ref, other) ==
  \/ Within(ref, other)
  \/ Within(other, ref)
  \/ DigitsNoLeadingZeros(ref) = DigitsNoLeadingZeros(other)

SameReference(loop, u, e) ==
  LET ref   == Reference(u, Sides(loop.on)[1])
      other == Reference(e, Sides(loop.on)[2])
  IN  /\ ref # << >> /\ other # << >>
      /\ IF loop.pass = 1 THEN ref = other
         ELSE Suffix(ref) = Suffix(other) /\ PartialMatch(ref, other)

(* Passes 3 and 4.                                                          *)
SameAmountAndDate(conditions, u, e) ==
  /\ WithinTolerance(txn[u].amount, txn[e].amount, conditions.tolerance)
  /\ DaysApart(u, e, conditions.dateField) <= conditions.days

SameParty(conditions, u, e) ==
  /\ conditions.instrument = "exact" => txn[u].instrument = txn[e].instrument
  /\ Similarity[txn[u].party, txn[e].party] >= conditions.threshold

(* Pass 5.                                                                  *)
ExplainedByFees(u, e) ==
  /\ FeeRules.configured
  /\ txn[u].instrument = FeeRules.internal
  /\ txn[e].instrument = FeeRules.external
  /\ AbsDiff(Net(txn[u].amount, txn[u].instrument), txn[e].amount) <= FeeRules.rounding
  /\ DaysApart(u, e, FeeRules.dateField) <= FeeRules.days

Acceptable(loop, u, e) ==
  \/ loop.pass \in {1, 2} /\ Linked(loop) /\ SameReference(loop, u, e)
  \/ loop.pass = 3 /\ SameAmountAndDate(loop.if, u, e)
  \/ loop.pass = 4 /\ SameAmountAndDate(loop.if, u, e) /\ SameParty(loop.if, u, e)
  \/ loop.pass = 5 /\ ExplainedByFees(u, e)

-----------------------------------------------------------------------------
(* Which pair is formed next.                                               *)

(* Lexicographic order of equally long tuples of numbers.                   *)
Precedes(x, y) ==
  \E i \in DOMAIN x : x[i] < y[i] /\ \A j \in 1..(i - 1) : x[j] = y[j]

(* The order in which load_transaction_views() lists the rows.              *)
Position(t) == <<txn[t].days["transaction_date"], Rank[t]>>

(* The smaller, the better is e for u.  The passes that compare amounts     *)
(* scan the external pool in the order of amounts.                          *)
Preference(loop, u, e) ==
  CASE loop.pass \in {1, 2} -> Position(e)
    [] loop.pass = 3 -> <<DaysApart(u, e, loop.if.dateField), txn[e].amount>> \o Position(e)
    [] loop.pass = 4 -> <<-Similarity[txn[u].party, txn[e].party], txn[e].amount>> \o Position(e)
    [] loop.pass = 5 -> <<DaysApart(u, e, FeeRules.dateField), txn[e].amount>> \o Position(e)
    [] OTHER -> << >>

Free(side) == (pool \cap side) \ used

Candidates(u) == {e \in Free(External) : Acceptable(Loop, u, e)}

(* The external pool only shrinks during a loop, so an internal transaction *)
(* the loop has passed over never gets a candidate again: the next pair is  *)
(* always that of the first one that has a candidate.                       *)
MatchPair(u, e) ==
  /\ ~Matched
  /\ u \in Free(Internal)
  /\ e \in Candidates(u)
  /\ \A v \in Free(Internal) : Candidates(v) # {} => ~Precedes(Position(v), Position(u))
  /\ \A f \in Candidates(u) : ~Precedes(Preference(Loop, u, f), Preference(Loop, u, e))
  /\ matches' = matches \cup {[source |-> {u}, target |-> {e}, pass |-> Loop.pass]}
  /\ used' = used \cup {u, e}
  /\ UNCHANGED <<txn, pool, at>>

(* Pass 6: the transactions that carry one aggregation reference.           *)
Group(key, side) == {t \in pool \cap side : Reference(t, Aggregation.type) = key}

TotalAmount(S) == SumFunction([t \in S |-> txn[t].amount])

SumsMatch(S, T) ==
  /\ WithinTolerance(TotalAmount(S), TotalAmount(T), Aggregation.tolerance)
  /\ \E t \in S, u \in T : DaysApart(t, u, Aggregation.dateField) <= Aggregation.days

GroupsToMatch ==
  {key \in {Reference(t, Aggregation.type) : t \in pool} \ {<< >>} :
     /\ Group(key, Internal) # {} /\ Group(key, External) # {}
     /\ Group(key, Transactions) \cap used = {}
     /\ SumsMatch(Group(key, Internal), Group(key, External))}

MatchGroup ==
  /\ ~Matched
  /\ Loop.pass = 6 /\ Aggregation.configured
  /\ \E key \in GroupsToMatch :
       /\ matches' = matches \cup {[source |-> Group(key, Internal),
                                    target |-> Group(key, External), pass |-> 6]}
       /\ used' = used \cup Group(key, Transactions)
  /\ UNCHANGED <<txn, pool, at>>

LoopOver ==
  /\ ~Matched
  /\ \A u \in Free(Internal) : Candidates(u) = {}
  /\ Loop.pass = 6 /\ Aggregation.configured => GroupsToMatch = {}

AllMatched == UNION {m.source \cup m.target : m \in matches}

(* Seeded fault: what a pass matched stays in the pools.                    *)
EndLoop_PoolsKept ==
  LoopOver /\ used' = {} /\ at' = at + 1 /\ UNCHANGED <<txn, pool, matches>>

(* Seeded fault: the used sets outlive the rule they belong to.             *)
EndLoop_UsedKept ==
  LoopOver /\ pool' = pool \ AllMatched /\ at' = at + 1 /\ UNCHANGED <<txn, used, matches>>

(* The conditions of one rule share the transactions it has used; the rules *)
(* of one pass share the pools.                                             *)
EndLoop ==
  /\ LoopOver
  /\ LET samePass == at < Len(Plan) /\ Plan[at + 1].pass = Loop.pass
         sameRule == samePass /\ Plan[at + 1].rule = Loop.rule
     IN  /\ used' = IF sameRule THEN used ELSE {}
         /\ pool' = IF samePass THEN pool ELSE pool \ AllMatched
  /\ at' = at + 1
  /\ UNCHANGED <<txn, matches>>

MatchingNext ==
  \/ \E u \in Internal, e \in External : MatchPair(u, e)
  \/ MatchGroup
  \/ EndLoop

MatchingSpec == MatchingInit /\ [][MatchingNext]_matchingVars
=============================================================================
