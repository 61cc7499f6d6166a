---------------------------- MODULE Equivalence ----------------------------
(***************************************************************************)
(* Contract equivalence (equivalence/): candidates of a scan, the twelve   *)
(* dimensions of a pair, their aggregation with hard flags, the storage of *)
(* assessments and outcome mappings by content hash, and the classes.      *)
(* Texts are sets of words.  A rule snapshot is kept with its analysis;    *)
(* markets, events and outcomes are read as they are now.  Rules arrive    *)
(* in any order of their times, return, and are analysed again.            *)
(***************************************************************************)
EXTENDS DeskBase, FiniteSets, SequencesExt

CONSTANTS
  Contracts,        \* the markets, in the order of a scan: venue, title, event, outcomes
  Updates,          \* what a venue may list later instead
  RuleTerms,        \* what a rule snapshot may say, with what its analysis finds
  MinCandidate,     \* min_candidate_score
  MinClassScore,    \* min_score of a class
  MaxPairs,         \* max_pairs
  LastDay,          \* bound: the days of a rule or an assessment
  MaxTerms,         \* bound: rule snapshots
  MaxPairCalls      \* bound: assessments and scans

VARIABLES
  contracts,        \* markets, events and outcomes as they are now
  eqRules,          \* rule snapshots: market, at, terms
  eqRows,           \* market_equivalence_assessments: what was found, of whom, as of when
  eqMappings,       \* outcome_equivalence_mappings
  candidates,       \* equivalence_candidates
  classes,          \* equivalence_classes
  paired,           \* what the last call was asked and what it answered
  pairCalls         \* calls so far
equivalenceVars == <<contracts, eqRules, eqRows, eqMappings, candidates, classes, paired, pairCalls>>

-----------------------------------------------------------------------------
Markets == DOMAIN Contracts
Listings == Range(Contracts) \cup Updates
Days == 0 .. LastDay
ASSUME ContractsAssumption ==
  /\ Markets \subseteq Int /\ IsFiniteSet(Markets) /\ LastDay \in Nat
  /\ \A c \in Listings :
       /\ IsFiniteSet(c.title) /\ IsFiniteSet(c.labels)
       /\ c.event # None => IsFiniteSet(c.event)
ASSUME TermsAssumption ==
  /\ None \notin RuleTerms
  /\ \A p \in RuleTerms :
       /\ IsFiniteSet(p.source) /\ IsFiniteSet(p.authority) /\ IsFiniteSet(p.disputes)
       /\ IsFiniteSet(p.subject) /\ IsFiniteSet(p.condition) /\ p.ambiguity \in 0 .. 100
ASSUME ScanAssumption == MinCandidate \in Int /\ MinClassScore \in Int /\ MaxPairs \in Nat

\* token_jaccard_score
Alike(a, b) ==
  IF a = {} \/ b = {} THEN 0 ELSE HalfEven(100 * Cardinality(a \cap b), Cardinality(a \cup b))

\* get_latest_rule_snapshot_asof
RulesOf(m) == {r \in eqRules : r.market = m}
FaultyRuleAsOf(m, t) == NewestOf(RulesOf(m))
RuleAsOf(m, t) == NewestOf({r \in RulesOf(m) : r.at <= t})
TermsIn(rule) == IF rule = None THEN None ELSE rule.terms

\* the rule that terms are the analysis of: known sources decide the rest
RuleIn(terms) == [terms EXCEPT !.source = terms.own, !.ambiguity = 0]

Field(terms, name, missing) == IF terms = None THEN missing ELSE terms[name]

-----------------------------------------------------------------------------
(* The dimensions of a pair.                                               *)
Dimension(score, reason, flags) == [score |-> score, reasons |-> {reason}, flags |-> flags]

TitleSimilarity(l, r) ==
  LET score == Alike(l.title, r.title)
  IN  Dimension(score, IF score >= 80 THEN "TITLE_HIGH_SIMILARITY"
                       ELSE IF score >= 50 THEN "TITLE_PARTIAL_SIMILARITY"
                       ELSE "TITLE_LOW_SIMILARITY", {})

Category(c) == IF c.event = None THEN None ELSE c.category
SameCategory(l, r) == Category(l) # None /\ Category(l) = Category(r)

EventIdentity(l, r) ==
  LET score == Clamp(HalfEven(7 * Alike(l.event, r.event) + 2 * Alike(l.title, r.title)
                                + (IF SameCategory(l, r) THEN 100 ELSE 0), 10))
  IN  IF l.event = None \/ r.event = None THEN Dimension(30, "EVENT_DATA_MISSING", {})
      ELSE [score |-> score, flags |-> {},
            reasons |-> {IF score >= 70 THEN "EVENT_TITLE_ALIGNED" ELSE "EVENT_IDENTITY_WEAK"}
                          \cup (IF SameCategory(l, r) THEN {"EVENT_CATEGORY_MATCH"} ELSE {})]

YesNo(contract) == contract.labels = {"yes", "no"}

OutcomeStructure(l, r) ==
  LET overlap == IF l.labels = {} \/ r.labels = {} THEN 20 ELSE Alike(l.labels, r.labels)
  IN  IF l.kind # r.kind
      THEN Dimension(IF YesNo(l) /\ YesNo(r) THEN 45 ELSE 20, "MARKET_TYPE_MISMATCH", {})
      ELSE IF YesNo(l) /\ YesNo(r) THEN Dimension(95, "BINARY_YES_NO_OUTCOMES_ALIGNED", {})
      ELSE Dimension(overlap, IF overlap >= 60 THEN "OUTCOME_LABEL_OVERLAP"
                              ELSE "OUTCOME_STRUCTURE_WEAK", {})

InverseTerms == {"fail", "fails", "fewer", "less", "no", "not", "under", "without"}
Negated(contract) == contract.title \cap InverseTerms # {}
Mapping(left, right, relation, score) ==
  [left |-> left, right |-> right, relation |-> relation, score |-> score]

\* map_outcomes: yes/no crosswise when one title alone is negated, else the same label
MapOutcomes(l, r) ==
  IF YesNo(l) /\ YesNo(r)
  THEN IF Negated(l) # Negated(r)
       THEN {Mapping("yes", "no", "INVERSE", 90), Mapping("no", "yes", "INVERSE", 90)}
       ELSE {Mapping("yes", "yes", "SAME", 100), Mapping("no", "no", "SAME", 100)}
  ELSE {IF label \in r.labels THEN Mapping(label, label, "PARTIAL", 100)
        ELSE Mapping(label, None, "UNKNOWN", 0) : label \in l.labels}

OutcomeMapping(mappings) ==
  IF mappings = {} THEN 20
  ELSE HalfEven(SumFunction([m \in mappings |-> m.score]), Cardinality(mappings))

PredicateSimilarity(p, q) ==
  IF p = None \/ q = None THEN Dimension(25, "PREDICATE_MISSING", {})
  ELSE LET score == Clamp((IF p.type = q.type THEN 35 ELSE 0)
                           + (IF p.comparator = q.comparator THEN 20 ELSE 0)
                           + HalfEven(Alike(p.subject, q.subject), 5)
                           + HalfEven(Alike(p.condition, q.condition), 4))
       IN  Dimension(score, IF score >= 70 THEN "PREDICATE_ALIGNED"
                            ELSE "PREDICATE_WEAK_ALIGNMENT", {})

\* _score_text_alignment
Alignment(a, b, name) ==
  IF a = {} \/ b = {} THEN Dimension(30, name \o "_MISSING_OR_WEAK", {"insufficient"})
  ELSE IF a = b THEN Dimension(100, name \o "_ALIGNED", {})
  ELSE IF Alike(a, b) < 50 THEN Dimension(Alike(a, b), name \o "_MISMATCH", {name})
  ELSE Dimension(Alike(a, b), name \o "_MISSING_OR_WEAK", {})

VenueAuthorities == {{"kalshi"}, {"polymarket"}}

SettlementAuthority(a, b) ==
  IF a # b /\ {a, b} \subseteq VenueAuthorities
  THEN Dimension(65, "VENUE_SPECIFIC_SETTLEMENT_AUTHORITY", {})
  ELSE Alignment(a, b, "SETTLEMENT_AUTHORITY")

Temporal(p, q) ==
  LET a == Field(p, "deadline", None)
      b == Field(q, "deadline", None)
  IN  IF a = None \/ b = None THEN Dimension(35, "TEMPORAL_DATA_MISSING", {"insufficient"})
      ELSE IF a = b THEN Dimension(100, "DEADLINE_EXACT_MATCH", {})
      ELSE IF a.day = b.day
      THEN Dimension(IF p.zone # None /\ q.zone # None THEN 75 ELSE 60, "DEADLINE_DATE_MATCH", {})
      ELSE Dimension(15, "DEADLINE_MISMATCH", {"DEADLINE"})

Threshold(p, q) ==
  IF p = None \/ q = None THEN Dimension(35, "THRESHOLD_DATA_MISSING", {})
  ELSE IF p.threshold = None /\ q.threshold = None
  THEN Dimension(80, "NO_EXPLICIT_THRESHOLD_ON_EITHER_SIDE", {})
  ELSE IF p.threshold = None \/ q.threshold = None
  THEN Dimension(30, "THRESHOLD_MISSING_ON_ONE_SIDE", {"THRESHOLD"})
  ELSE IF p.threshold # q.threshold THEN Dimension(20, "THRESHOLD_MISMATCH", {"THRESHOLD"})
  ELSE IF p.comparator = q.comparator THEN Dimension(100, "THRESHOLD_ALIGNED", {})
  ELSE Dimension(70, "THRESHOLD_VALUE_UNIT_MATCH_COMPARATOR_DIFFERS", {})

Timezone(a, b) ==
  IF a = None /\ b = None THEN Dimension(45, "TIMEZONE_MISSING_BOTH", {"insufficient"})
  ELSE IF a = None \/ b = None THEN Dimension(30, "TIMEZONE_MISSING_ONE_SIDE", {})
  ELSE IF a = b THEN Dimension(100, "TIMEZONE_ALIGNED", {})
  ELSE Dimension(20, "TIMEZONE_MISMATCH", {"TIMEZONE"})

AmbiguityCompatibility(p, q) ==
  LET highest == Greater(p.ambiguity, q.ambiguity)
      apart == highest - Lesser(p.ambiguity, q.ambiguity)
  IN  IF p = None \/ q = None THEN Dimension(35, "AMBIGUITY_ASSESSMENT_MISSING", {"insufficient"})
      ELSE IF highest >= 80 THEN Dimension(20, "HIGH_AMBIGUITY", {"ambiguous"})
      ELSE IF highest >= 50 THEN Dimension(Greater(30, 75 - apart), "MODERATE_AMBIGUITY", {})
      ELSE Dimension(Greater(70, 100 - apart), "LOW_AMBIGUITY_COMPATIBLE", {})

VenueRules(p, q) ==
  IF p = None \/ q = None THEN Dimension(35, "RULE_SNAPSHOT_MISSING", {"insufficient"})
  ELSE IF p.disputes = {} /\ q.disputes = {} THEN Dimension(60, "DISPUTE_LANGUAGE_NOT_SPECIFIED", {})
  ELSE LET score == Alike(p.disputes, q.disputes)
       IN  Dimension(score, IF score >= 70 THEN "VENUE_RULE_TERMS_ALIGNED"
                            ELSE "VENUE_RULE_TERMS_DIFFER", {})

Dimensions(l, r, p, q) ==
  [title |-> TitleSimilarity(l, r), event |-> EventIdentity(l, r),
   structure |-> OutcomeStructure(l, r), predicate |-> PredicateSimilarity(p, q),
   source |-> Alignment(Field(p, "source", {}), Field(q, "source", {}), "RESOLUTION_SOURCE"),
   authority |-> SettlementAuthority(Field(p, "authority", {}), Field(q, "authority", {})),
   temporal |-> Temporal(p, q), threshold |-> Threshold(p, q),
   timezone |-> Timezone(Field(p, "zone", None), Field(q, "zone", None)),
   ambiguity |-> AmbiguityCompatibility(p, q), rules |-> VenueRules(p, q)]

-----------------------------------------------------------------------------
(* aggregate_equivalence_dimensions.                                       *)
Weights ==
  [title |-> 8, event |-> 8, structure |-> 10, predicate |-> 12, source |-> 10, authority |-> 7,
   temporal |-> 10, threshold |-> 10, timezone |-> 5, ambiguity |-> 5, rules |-> 5]
OutcomeWeight == 10
EvidenceDimensions == {"predicate", "source", "temporal", "threshold", "ambiguity"}
HardMismatches == {"RESOLUTION_SOURCE", "SETTLEMENT_AUTHORITY", "DEADLINE", "THRESHOLD"}

Weighted(dimensions, mappings) ==
  HalfEven(SumFunction([d \in DOMAIN Weights |-> Weights[d] * dimensions[d].score])
             + OutcomeWeight * OutcomeMapping(mappings), 100)

PairConfidence(dimensions, flags) ==
  LET mean == HalfEven(SumFunction([d \in EvidenceDimensions |-> dimensions[d].score]), 5)
      cap(n, flag, most) == IF flag \in flags THEN Lesser(n, most) ELSE n
  IN  cap(cap(mean, "insufficient", 55), "ambiguous", 45)

Status(score, flags) ==
  IF flags \cap HardMismatches # {} THEN "NOT_EQUIVALENT"
  ELSE IF flags \cap {"ambiguous", "insufficient"} # {} THEN "NEEDS_REVIEW"
  ELSE IF score >= 85 THEN "EQUIVALENT"
  ELSE IF score >= 70 THEN "NEAR_EQUIVALENT"
  ELSE IF score >= 50 THEN "RELATED"
  ELSE "NOT_EQUIVALENT"

Permission ==
  [EQUIVALENT |-> "COMPARABLE", NEAR_EQUIVALENT |-> "COMPARABLE_WITH_HAIRCUT",
   RELATED |-> "MANUAL_REVIEW", NEEDS_REVIEW |-> "MANUAL_REVIEW",
   NOT_EQUIVALENT |-> "DO_NOT_COMPARE"]
Comparable == {"COMPARABLE", "COMPARABLE_WITH_HAIRCUT"}

\* what compute_assessment_output_hash covers, and so what the id of a row stands for
Aggregate(dimensions, mappings) ==
  LET flags == UNION {dimensions[d].flags : d \in DOMAIN dimensions}
      score == Weighted(dimensions, mappings)
      status == Status(score, flags)
  IN  [status |-> status, permission |-> Permission[status], flags |-> flags,
       score |-> IF status = "NOT_EQUIVALENT" THEN Lesser(score, 45) ELSE score,
       confidence |-> PairConfidence(dimensions, flags),
       reasons |-> UNION {dimensions[d].reasons : d \in DOMAIN dimensions}]

\* what an assessment reads, and what it finds in it
Basis(l, r, t) ==
  [left |-> contracts[l], right |-> contracts[r],
   leftRule |-> RuleAsOf(l, t), rightRule |-> RuleAsOf(r, t)]
FoundIn(b) ==
  Aggregate(Dimensions(b.left, b.right, TermsIn(b.leftRule), TermsIn(b.rightRule)),
            MapOutcomes(b.left, b.right))
\* the same, asked the other way round
Mirrored(b) ==
  [left |-> b.right, right |-> b.left, leftRule |-> b.rightRule, rightRule |-> b.leftRule]

-----------------------------------------------------------------------------
(* Storage: an equal comparison of any pair is answered again unless the   *)
(* call is forced, and then takes its row.  A row remembers what it was    *)
(* made from.                                                              *)
Kept(tables, row, force) ==
  LET rows == {old \in tables.rows : old.found = row.found}
      stored == CHOOSE old \in rows : TRUE
      mappings == {[found |-> row.found, left |-> row.left, right |-> row.right, mapping |-> m] :
                     m \in MapOutcomes(row.basis.left, row.basis.right)}
  IN  IF rows # {} /\ ~force THEN [tables EXCEPT !.answers = Append(@, stored)]
      ELSE [rows |-> (tables.rows \ rows) \cup {row},
            mappings |-> tables.mappings \cup mappings,
            answers |-> Append(tables.answers, row)]

RowFor(l, r, t, b) == [found |-> FoundIn(b), left |-> l, right |-> r, at |-> t, basis |-> b]
Stored(tables, l, r, t, force) == Kept(tables, RowFor(l, r, t, Basis(l, r, t)), force)

Tables == [rows |-> eqRows, mappings |-> eqMappings, answers |-> <<>>]

\* the candidate of a pair, and its score: 85% of the titles', 10 for shared terms, 5 for
\* the category
CandidateOf(l, r) ==
  [title |-> Alike(l.title, r.title), shared |-> l.title \cap r.title,
   category |-> SameCategory(l, r)]
CandidateScore(c) ==
  LET shared == IF c.shared # {} THEN 10 ELSE 0
  IN  Lesser(100, HalfEven(85 * c.title + 100 * (shared + (IF c.category THEN 5 ELSE 0)), 100))
CandidateOfPair(p) == CandidateOf(contracts[p[1]], contracts[p[2]])

Before(p, q) == p[1] < q[1] \/ (p[1] = q[1] /\ p[2] < q[2])

\* the promising ones of the first MaxPairs pairs of two venues
ScanPairs ==
  LET pairs == {p \in Markets \X Markets : p[1] < p[2] /\ contracts[p[1]].venue # contracts[p[2]].venue}
      taken == {p \in pairs : Cardinality({q \in pairs : Before(q, p)}) < MaxPairs}
  IN  {p \in taken : CandidateScore(CandidateOfPair(p)) >= MinCandidate}

\* the tables after each pair of a list
StoredAll(pairs, t, force) ==
  LET after[i \in 0 .. Len(pairs)] ==
        IF i = 0 THEN Tables ELSE Stored(after[i - 1], pairs[i][1], pairs[i][2], t, force)
  IN  after[Len(pairs)]

-----------------------------------------------------------------------------
(* build_equivalence_classes.                                              *)
Eligible(rows, t) ==
  {row \in rows : row.at <= t /\ row.found.score >= MinClassScore /\ row.found.permission \in Comparable}

Pair(row) == {row.left, row.right}

\* one component: no set closed under the edges separates the two
Joined(m, n, edges) ==
  \A markets \in SUBSET Markets :
    (m \in markets /\ \A e \in edges : e \cap markets # {} => e \subseteq markets) => n \in markets

\* of a pair's rows the last one listed stands for it: the oldest
Oldest(rows) == CHOOSE row \in rows : \A other \in rows : row.at <= other.at

ClassOf(members, eligible, t) ==
  LET used == {Oldest({row \in eligible : Pair(row) = e}) :
                 e \in {Pair(row) : row \in {r \in eligible : Pair(r) \subseteq members}}}
      permissions == {row.found.permission : row \in used}
  IN  [at |-> t, markets |-> members, found |-> {row.found : row \in used},
       permission |-> IF permissions = {"COMPARABLE"} THEN "COMPARABLE"
                      ELSE "COMPARABLE_WITH_HAIRCUT"]

ClassesOf(rows, t) ==
  LET eligible == Eligible(rows, t)
      edges == {Pair(row) : row \in eligible}
  IN  {ClassOf({n \in Markets : Joined(m, n, edges)}, eligible, t) : m \in UNION edges}

-----------------------------------------------------------------------------
UpdateContract(m, c) ==
  /\ c.venue = contracts[m].venue
  /\ c # contracts[m]
  /\ contracts' = [contracts EXCEPT ![m] = c]
  /\ UNCHANGED <<eqRules, eqRows, eqMappings, candidates, classes, paired, pairCalls>>

\* a rule is stored unless the newest one says the same, dated like its payload was captured;
\* one that returns moves and keeps its analysis
CaptureTerms(m, terms, at) ==
  LET newest == NewestOf(RulesOf(m))
      same == {r \in RulesOf(m) : RuleIn(r.terms) = RuleIn(terms)}
  IN  /\ newest # None => newest \notin same
      /\ Cardinality(eqRules \ same) < MaxTerms
      /\ \A r \in RulesOf(m) : r.at # at
      /\ eqRules' = (eqRules \ same) \cup
           {[market |-> m, at |-> at,
             terms |-> IF same = {} THEN terms ELSE (CHOOSE r \in same : TRUE).terms]}
      /\ UNCHANGED <<contracts, eqRows, eqMappings, candidates, classes, paired, pairCalls>>

\* a forced analysis after a source was learnt: it may name the source that the rule does
\* not, and then has no code more (Resolution's StaleAnalysesOnlyStricter)
AnalyzeAgain(rule, terms) ==
  /\ RuleIn(terms) = RuleIn(rule.terms)
  /\ terms # rule.terms
  /\ rule.terms.own = {} /\ terms.source # {} /\ terms.ambiguity <= rule.terms.ambiguity
  /\ eqRules' = (eqRules \ {rule}) \cup {[rule EXCEPT !.terms = terms]}
  /\ UNCHANGED <<contracts, eqRows, eqMappings, candidates, classes, paired, pairCalls>>

PairCall ==
  /\ pairCalls < MaxPairCalls
  /\ pairCalls' = pairCalls + 1
  /\ UNCHANGED <<contracts, eqRules>>

\* assess_market_equivalence
StoreTables(tables) == eqRows' = tables.rows /\ eqMappings' = tables.mappings

AnswerPair(tables, l, r, t) ==
  /\ StoreTables(tables)
  /\ paired' = [left |-> l, right |-> r, at |-> t, answer |-> tables.answers[1]]

AssessPair(l, r, t, force) ==
  /\ PairCall
  /\ l # r
  /\ AnswerPair(Stored(Tables, l, r, t, force), l, r, t)
  /\ UNCHANGED <<candidates, classes>>

\* summarize_equivalence_run: counts what the scan was answered, row by row: a pair that was
\* answered with another pair's row counts under that pair's markets
ScanSummary(answers, built) ==
  LET of(permission) == {i \in DOMAIN answers : answers[i].found.permission = permission}
  IN  [assessments |-> Len(answers), classes |-> Cardinality(built),
       permissions |-> [p \in Range(Permission) |-> Cardinality(of(p))],
       comparable |-> Cardinality(UNION {of(p) : p \in Comparable}),
       scores |-> SumFunction([i \in DOMAIN answers |-> answers[i].found.score]),
       markets |-> Cardinality(UNION {Pair(answers[i]) : i \in DOMAIN answers})]

\* run_equivalence_scan: candidates, their assessments and the classes in one transaction
StoreScan(tables, t) ==
  /\ StoreTables(tables)
  /\ classes' = classes \cup ClassesOf(tables.rows, t)
  /\ paired' = ScanSummary(tables.answers, ClassesOf(tables.rows, t))

Scan(t, force) ==
  /\ PairCall
  /\ candidates' =
       candidates \cup {[pair |-> p, at |-> t, candidate |-> CandidateOfPair(p)] : p \in ScanPairs}
  /\ \E order \in SetToSeqs(ScanPairs) :
       /\ \A i, j \in DOMAIN order : i < j => Before(order[i], order[j])
       /\ StoreScan(StoredAll(order, t, force), t)

EquivalenceInit ==
  /\ contracts = [m \in Markets |-> Contracts[m]]
  /\ eqRules = {} /\ eqRows = {} /\ eqMappings = {} /\ candidates = {} /\ classes = {}
  /\ paired = None /\ pairCalls = 0

EquivalenceNext ==
  \/ \E m \in Markets, c \in Listings : UpdateContract(m, c)
  \/ \E m \in Markets, terms \in RuleTerms, at \in Days : CaptureTerms(m, terms, at)
  \/ \E rule \in eqRules, terms \in RuleTerms : AnalyzeAgain(rule, terms)
  \/ \E l, r \in Markets, t \in Days, force \in BOOLEAN : AssessPair(l, r, t, force)
  \/ \E t \in Days, force \in BOOLEAN : Scan(t, force)

EquivalenceSpec == EquivalenceInit /\ [][EquivalenceNext]_equivalenceVars

-----------------------------------------------------------------------------
\* the rows as the models declare them
EquivalenceRow(row) ==
  /\ row.left # row.right /\ row.at \in Days
  /\ row.found.status \in DOMAIN Permission /\ row.found.permission = Permission[row.found.status]
  /\ row.found.score \in 0 .. 100 /\ row.found.confidence \in 0 .. 100
MappingRow(m) ==
  m.mapping.relation \in {"SAME", "INVERSE", "PARTIAL", "UNKNOWN"} /\ m.mapping.score \in 0 .. 100
CandidateRow(c) ==
  /\ c.at \in Days /\ c.pair[1] # c.pair[2]
  /\ CandidateScore(c.candidate) \in MinCandidate .. 100
ClassRow(c) ==
  /\ c.at \in Days /\ Cardinality(c.markets) > 1 /\ c.permission \in Comparable
  /\ \A found \in c.found : found.score \in MinClassScore .. 100
ScanSummaryRow(s) ==
  /\ s.assessments = SumFunction(s.permissions) /\ s.comparable <= s.assessments
  /\ s.scores \in 0 .. 100 * s.assessments /\ s.markets <= Cardinality(Markets)

\* A comparison has one row, every row's pair is of two markets and its mappings exist.
EquivalenceTypeOK ==
  /\ \A row, other \in eqRows : row.found = other.found => row = other
  /\ \A m \in eqMappings : MappingRow(m)
  /\ \A c \in candidates : CandidateRow(c)
  /\ \A c \in classes : ClassRow(c)
  /\ paired # None /\ "markets" \in DOMAIN paired => ScanSummaryRow(paired)
  /\ \A row \in eqRows :
       /\ EquivalenceRow(row)
       /\ \A m \in MapOutcomes(row.basis.left, row.basis.right) :
            [found |-> row.found, left |-> row.left, right |-> row.right, mapping |-> m] \in eqMappings

\* A pair that may be compared was found so on rules of both sides, captured by the as-of
\* time, with the same deadline day and threshold, sources that mostly agree and no high
\* ambiguity, whatever the rules, their analyses and the markets are by now
\* (aggregation.py:209, service.py:72).
ComparableTermsAgree ==
  \A row \in eqRows : row.found.permission \in Comparable =>
    LET p == TermsIn(row.basis.leftRule)
        q == TermsIn(row.basis.rightRule)
    IN  /\ p # None /\ q # None
        /\ row.basis.leftRule.at <= row.at /\ row.basis.rightRule.at <= row.at
        /\ p.deadline # None /\ q.deadline # None /\ p.deadline.day = q.deadline.day
        /\ p.threshold = q.threshold
        /\ Alike(p.source, q.source) >= 50
        /\ p.ambiguity < 80 /\ q.ambiguity < 80

\* Which market is called the left one changes nothing for two yes/no markets: asked the
\* other way round, the comparison, and with it the id, is the same (dimensions.py).
SidesDoNotMatter ==
  \A row \in eqRows :
    YesNo(row.basis.left) /\ YesNo(row.basis.right) => FoundIn(Mirrored(row.basis)) = row.found

\* The classes that would be built now share no market, and two markets with an eligible
\* assessment are in the same one (service.py:398).
ClassesSeparateMarkets ==
  \A t \in Days :
    LET built == ClassesOf(eqRows, t)
    IN  /\ \A c, d \in built : c # d => c.markets \cap d.markets = {}
        /\ \A row \in Eligible(eqRows, t) : \E c \in built : Pair(row) \subseteq c.markets

\* An equivalence assessment permits a comparison only of terms that agreed when it was made,
\* is the same for either order of the markets, and the classes built from the stored
\* assessments separate the markets.
EquivalenceSound ==
  /\ EquivalenceTypeOK /\ ComparableTermsAgree /\ SidesDoNotMatter /\ ClassesSeparateMarkets
=============================================================================
