------------------------------ MODULE Integrity ------------------------------
(***************************************************************************)
(* Fast-lane integrity analyses (integrity/) over market data: a feature   *)
(* snapshot as of a timestamp, the signals it triggers, their aggregation, *)
(* and the storage by content hash.  Fractions are percents, rounded away  *)
(* from what would trigger a signal (all thresholds are whole percents).   *)
(***************************************************************************)
EXTENDS MarketData

CONSTANTS
  Lookback,         \* lookback_seconds
  Thresholds,       \* the record of DEFAULT_THRESHOLDS
  MaxAnalyses       \* bound: analyses

ASSUME IntegrityAssumption ==
  /\ Lookback \in Nat /\ MaxAnalyses \in Nat
  /\ Thresholds \in
       [wide : Int, widening : Int, collapse : Int, jumpWarning : Int, jumpError : Int,
        coupling : Int, freshness : Int, imbalance : Int]

VARIABLES
  diffs,            \* rule_snapshot_diffs: market, the two rules, created_at
  assessments,      \* integrity_assessments rows
  answer,           \* what the last analysis returned
  analyses          \* analyses so far
integrityVars == <<diffs, assessments, answer, analyses>>

-----------------------------------------------------------------------------
(* The feature snapshot.                                                   *)
Minus(x, y) == IF x = None \/ y = None THEN None ELSE x - y
Magnitude(x) == IF x = None THEN None ELSE Greater(x, -x)
PercentChange(x, y) == IF x = None \/ y = None \/ y = 0 THEN None ELSE -((-(100 * (x - y))) \div y)

FaultyPreviousOf(rows, m, t, latest) ==
  LET before == LatestAsOf(rows, m, t - Lookback)
  IN  IF latest = None THEN None
      ELSE IF before # None THEN before ELSE LatestOf(AsOf(rows, m, t) \ {latest})

\* the newest row of the time before the lookback, else the newest other one
PreviousOf(rows, m, t, latest) ==
  LET before == LatestAsOf(rows, m, t - Lookback)
  IN  IF latest = None THEN None
      ELSE IF before # None /\ before # latest THEN before
      ELSE LatestOf(AsOf(rows, m, t) \ {latest})

BookOf(row) == IF row = None THEN None ELSE Content(row)
FromBook(row, F(_)) == IF row = None THEN None ELSE F(Content(row))
PriceOf(row) == IF row = None THEN None ELSE PriceValue(row)
MidOf(price, liquidity) == IF PriceOf(price) # None THEN PriceOf(price) ELSE FromBook(liquidity, Mid)

RuleChangeAge(m, t) ==
  LET known == {d \in diffs : d.market = m /\ d.at <= t}
  IN  IF known = {} THEN None ELSE t - (CHOOSE d \in known : \A e \in known : e.at <= d.at).at

LatestReport(m, t) ==
  LET known == {r \in reports : r.market = m /\ r.at <= t}
  IN  IF known = {} THEN None ELSE CHOOSE r \in known : \A q \in known : q.at <= r.at

Features(m, t) ==
  LET price == LatestAsOf(priceRows, m, t)
      oldPrice == PreviousOf(priceRows, m, t, price)
      liquidity == LatestAsOf(liquidityRows, m, t)
      oldLiquidity == PreviousOf(liquidityRows, m, t, liquidity)
      book == BookOf(liquidity)
      priceChange == Minus(PriceOf(price), PriceOf(oldPrice))
      midChange == Minus(MidOf(price, liquidity), MidOf(oldPrice, oldLiquidity))
      report == LatestReport(m, t)
      ruleAge == RuleChangeAge(m, t)
  IN  [market |-> m, asof |-> t,
       rows |-> <<price, oldPrice, liquidity, oldLiquidity>>,
       empty |-> book # None /\ EmptyBook(book),
       crossed |-> book # None /\ CrossedBook(book),
       oneSided |-> book # None /\ ~EmptyBook(book) /\ ~TwoSided(book),
       spread |-> FromBook(liquidity, SpreadOf),
       spreadChange |-> Minus(FromBook(liquidity, SpreadOf), FromBook(oldLiquidity, SpreadOf)),
       depthChange |-> PercentChange(FromBook(liquidity, DepthOf), FromBook(oldLiquidity, DepthOf)),
       move |-> Magnitude(IF priceChange # None THEN priceChange ELSE midChange),
       fresh |-> Freshness(t, price, liquidity),
       imbalance |-> FromBook(liquidity, BookImbalance),
       quality |-> IF report = None THEN None ELSE report.report.score,
       ruleChanged |-> ruleAge # None /\ ruleAge <= Lookback]

-----------------------------------------------------------------------------
(* The signals of a feature snapshot.                                      *)
HintRank == [NONE |-> 0, ALLOW_SMALLER_SIZE |-> 1, PASSIVE_ONLY |-> 2, MANUAL_REVIEW |-> 3,
             NO_TRADE |-> 4]
SeverityRank == [INFO |-> 0, WARNING |-> 1, ERROR |-> 2, CRITICAL |-> 3]

Signal(name, severity, score, hint) ==
  [name |-> name, severity |-> severity, score |-> score, hint |-> hint]
When(condition, signal) == IF condition THEN {signal} ELSE {}
AtLeast(value, bound) == value # None /\ value >= bound
AtMost(value, bound) == value # None /\ value <= bound
Below(value, bound) == value # None /\ value < bound

BookSignals(f) ==
  When(f.empty, Signal("EMPTY_BOOK", "CRITICAL", 100, "NO_TRADE"))
  \cup When(f.crossed, Signal("CROSSED_BOOK", "CRITICAL", 100, "NO_TRADE"))
  \cup When(f.oneSided /\ ~f.empty, Signal("ONE_SIDED_BOOK", "ERROR", 75, "PASSIVE_ONLY"))
  \cup When(AtLeast(f.imbalance, Thresholds.imbalance),
            Signal("EXTREME_BOOK_IMBALANCE", "WARNING", 55, "ALLOW_SMALLER_SIZE"))

SpreadSignals(f) ==
  IF ~AtLeast(f.spread, Thresholds.wide) THEN {}
  ELSE {IF AtLeast(f.spread, 2 * Thresholds.wide)
        THEN Signal("WIDE_SPREAD", "ERROR", 75, "PASSIVE_ONLY")
        ELSE Signal("WIDE_SPREAD", "WARNING", 55, "PASSIVE_ONLY")}

WideningSignals(f) ==
  IF ~AtLeast(f.spreadChange, Thresholds.widening) THEN {}
  ELSE {IF AtLeast(f.spreadChange, 2 * Thresholds.widening)
        THEN Signal("SPREAD_WIDENING", "WARNING", 65, "PASSIVE_ONLY")
        ELSE Signal("SPREAD_WIDENING", "WARNING", 50, "ALLOW_SMALLER_SIZE")}

DepthSignals(f) ==
  IF ~AtMost(f.depthChange, Thresholds.collapse) THEN {}
  ELSE {Signal("DEPTH_COLLAPSE", "ERROR", IF f.depthChange <= -75 THEN 85 ELSE 70, "PASSIVE_ONLY")}

PriceSignals(f) ==
  IF ~AtLeast(f.move, Thresholds.jumpWarning) THEN {}
  ELSE {IF AtLeast(f.move, Thresholds.jumpError)
        THEN Signal("PRICE_JUMP", "ERROR", 75, "MANUAL_REVIEW")
        ELSE Signal("PRICE_JUMP", "WARNING", 55, "ALLOW_SMALLER_SIZE")}

\* stale only beyond the threshold, severely from twice the threshold on
FreshnessSignals(f) ==
  IF ~AtLeast(f.fresh, Thresholds.freshness + 1) THEN {}
  ELSE {IF AtLeast(f.fresh, 2 * Thresholds.freshness)
        THEN Signal("STALE_MARKET_DATA", "ERROR", 80, "MANUAL_REVIEW")
        ELSE Signal("STALE_MARKET_DATA", "WARNING", 55, "ALLOW_SMALLER_SIZE")}

QualitySignals(f) ==
  IF ~Below(f.quality, 70) THEN {}
  ELSE {IF f.quality < 20 THEN Signal("LOW_DATA_QUALITY", "CRITICAL", 95, "NO_TRADE")
        ELSE IF f.quality < 40 THEN Signal("LOW_DATA_QUALITY", "ERROR", 75, "MANUAL_REVIEW")
        ELSE Signal("LOW_DATA_QUALITY", "WARNING", 50, "ALLOW_SMALLER_SIZE")}

\* the coupling is severe from a fixed move of a tenth on
RuleSignals(f) ==
  When(f.ruleChanged, Signal("RULE_CHANGED_RECENTLY", "WARNING", 55, "MANUAL_REVIEW"))
  \cup IF ~(f.ruleChanged /\ AtLeast(f.move, Thresholds.coupling)) THEN {}
       ELSE {IF AtLeast(f.move, 10)
             THEN Signal("RULE_CHANGE_PRICE_COUPLING", "ERROR", 85, "NO_TRADE")
             ELSE Signal("RULE_CHANGE_PRICE_COUPLING", "ERROR", 70, "MANUAL_REVIEW")}

Signals(f) ==
  BookSignals(f) \cup SpreadSignals(f) \cup WideningSignals(f) \cup DepthSignals(f)
    \cup PriceSignals(f) \cup FreshnessSignals(f) \cup QualitySignals(f) \cup RuleSignals(f)

-----------------------------------------------------------------------------
(* Aggregation: three maxima, taken separately.                            *)
MostOf(values, rank, least) ==
  IF values = {} THEN least
  ELSE CHOOSE v \in values : \A w \in values : rank[w] <= rank[v]
ActionHint(signals) == MostOf({s.hint : s \in signals}, HintRank, "NONE")
Severity(signals) == MostOf({s.severity : s \in signals}, SeverityRank, "INFO")
RiskScore(signals) ==
  IF signals = {} THEN 0
  ELSE (CHOOSE s \in signals : \A r \in signals : r.score <= s.score).score

\* compute_assessment_output_hash: the ids of the signals, which name their feature, and
\* what follows from them; neither the market nor the timestamp
AssessmentId(f, signals) == {<<f, s.name>> : s \in signals}

Assessment(f) ==
  LET signals == Signals(f)
  IN  [id |-> AssessmentId(f, signals), market |-> f.market, asof |-> f.asof,
       feature |-> f, signals |-> signals, hint |-> ActionHint(signals), severity |-> Severity(signals),
       risk |-> RiskScore(signals)]

Saved(stored, returned, force) ==
  (assessments \ (IF force THEN stored ELSE {})) \cup {returned}

\* analyze_market_integrity_details
StoreAssessment(made, force) ==
  LET stored == {a \in assessments : a.id = made.id}
      returned == IF stored # {} /\ ~force THEN CHOOSE a \in stored : TRUE ELSE made
  IN  /\ assessments' = Saved(stored, returned, force)
      /\ answer' = [made |-> made, returned |-> returned,
                     book |-> LatestAsOf(books, made.market, made.asof)]

Analyze(m, t, force) ==
  /\ analyses < MaxAnalyses
  /\ analyses' = analyses + 1
  /\ StoreAssessment(Assessment(Features(m, t)), force)
  /\ UNCHANGED <<marketVars, diffs>>

\* the corpus compares the newest two rules of the market, once unless forced; the
\* comparison is dated by the newer one
PreviousRuleOf(m) ==
  LET earlier == {r \in catalog : r.market = m} \ {NewestRule(m)}
  IN  CHOOSE r \in earlier :
        \A q \in earlier : q.at < r.at \/ (q.at = r.at /\ q.rule <= r.rule)

CompareRules(m, force) ==
  LET diff == [market |-> m, from |-> PreviousRuleOf(m).rule, to |-> NewestRule(m).rule,
               at |-> NewestRule(m).at]
      stored == {d \in diffs : d.market = m /\ d.from = diff.from /\ d.to = diff.to}
  IN  /\ Cardinality({r \in catalog : r.market = m}) > 1
      /\ diffs' = IF stored # {} /\ ~force THEN diffs ELSE (diffs \ stored) \cup {diff}
      /\ UNCHANGED <<marketVars, assessments, answer, analyses>>

IntegrityInit ==
  /\ MarketInit
  /\ diffs = {} /\ assessments = {} /\ answer = None /\ analyses = 0

IntegrityNext ==
  \/ MarketNext /\ UNCHANGED integrityVars
  \/ \E m \in DeskMarkets, t \in 0 .. instant, force \in BOOLEAN : Analyze(m, t, force)
  \/ \E m \in DeskMarkets, force \in BOOLEAN : CompareRules(m, force)

IntegritySpec == IntegrityInit /\ [][IntegrityNext]_<<marketVars, integrityVars>>

-----------------------------------------------------------------------------
\* One row of each content hash, with the outputs in range.
IntegrityTypeOK ==
  /\ analyses \in 0 .. MaxAnalyses
  /\ \A a, b \in assessments : a.id = b.id => a = b
  /\ \A a \in assessments :
       a.market \in DeskMarkets /\ a.risk \in 0 .. 100 /\ a.hint \in DOMAIN HintRank

\* The three maxima agree although they are taken separately: a critical assessment
\* forbids trading, an error restricts it, and no risk means no hint (aggregation.py:49).
MaximaAgree ==
  \A a \in assessments :
    /\ a.severity = "CRITICAL" => a.hint = "NO_TRADE" /\ a.risk >= 95
    /\ a.severity = "ERROR" => HintRank[a.hint] >= 2 /\ a.risk >= 70
    /\ a.severity = "WARNING" => HintRank[a.hint] \in 1 .. 3 /\ a.risk \in 50 .. 65
    /\ a.risk = 0 <=> a.hint = "NONE"

\* f is at least as bad as g in everything a signal looks at.
NoBetter(x, y) == y = None \/ (x # None /\ x >= y)
AtLeastAsBad(f, g) ==
  /\ (g.empty => f.empty) /\ (g.crossed => f.crossed) /\ (g.oneSided => f.oneSided \/ f.empty)
  /\ NoBetter(f.spread, g.spread) /\ NoBetter(f.spreadChange, g.spreadChange)
  /\ (g.depthChange = None \/ (f.depthChange # None /\ f.depthChange <= g.depthChange))
  /\ NoBetter(f.move, g.move) /\ NoBetter(f.fresh, g.fresh) /\ NoBetter(f.imbalance, g.imbalance)
  /\ (g.quality = None \/ (f.quality # None /\ f.quality <= g.quality))
  /\ (g.ruleChanged => f.ruleChanged)

\* Worse market data never lead to a softer hint or a lower risk: no signal of a worse
\* snapshot hides a stricter one of a better snapshot (signals.py:41).
WorseNeverSofter ==
  \A a, b \in assessments :
    AtLeastAsBad(a.feature, b.feature) =>
      HintRank[a.hint] >= HintRank[b.hint] /\ a.risk >= b.risk

\* A change is measured against another row, of an earlier or the same time.
ChangesHaveABase ==
  \A a \in assessments, i \in {1, 3} :
    LET rows == a.feature.rows
    IN  rows[i + 1] # None => RowPrecedes(rows[i + 1], rows[i])

\* An analysis that found something answers with the assessment of the market and time
\* it was asked for; a clean one may answer with another's (integrity/models.py:250).
FindingsAreOwn ==
  answer # None =>
    /\ answer.returned.signals = answer.made.signals
    /\ answer.made.signals # {} => answer.returned = answer.made

\* An integrity assessment is of its own data: its summary agrees with its signals, worse data
\* find more, and a change is measured against an earlier row.
IntegritySound ==
  IntegrityTypeOK /\ MaximaAgree /\ WorseNeverSofter /\ ChangesHaveABase /\ FindingsAreOwn
=============================================================================
