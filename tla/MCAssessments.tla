---------------------------- MODULE MCAssessments ----------------------------
(***************************************************************************)
(* What the desk derives from stored rows: market data, integrity, the     *)
(* resolution corpus, equivalence and divergence.  A behaviour is of one   *)
(* part, chosen at the start; the others stay as they are.                 *)
(***************************************************************************)
EXTENDS Integrity, Resolution, Equivalence, Divergence, TLC

CONSTANTS agency, council

VARIABLE part
vars == <<part, marketVars, integrityVars, resolutionVars, equivalenceVars, divergenceVars>>

-----------------------------------------------------------------------------
MCCaptures ==
  <<Book(48 :> 10, 52 :> 10), Book(44 :> 3, 56 :> 1), Book(54 :> 4, 80 :> 40),
    Book(<<>>, 60 :> 20), Book(<<>>, <<>>), Book(62 :> 5, 58 :> 5), History(104),
    Book(37 :> 3, 63 :> 1)>>
MCThresholds ==
  [wide |-> 10, widening |-> 5, collapse |-> -50, jumpWarning |-> 5, jumpError |-> 10,
   coupling |-> 5, freshness |-> 1, imbalance |-> 80]

\* rows of every kind, in time, as late as can be or derived belatedly
Recording ==
  \/ \E m \in DeskMarkets, at \in {0, instant} :
       \/ \E rule \in 1 .. MaxRules : IngestCatalog(m, rule, at)
       \/ \E c \in {1, 3, 4, 5, 6, 7} :
            CaptureHistory(m, c, at) \/ \E derive \in BOOLEAN : CaptureBook(m, c, at, derive)
       \/ ComputeQuality(m, at)
  \/ \E m \in DeskMarkets : DeriveMarketData(m)
  \/ MarketTick

\* over fewer captures and one rule change: an analysis, and one that may look back or be forced
Analysing ==
  \/ /\ UNCHANGED integrityVars /\ analyses < MaxAnalyses
     /\ \E m \in DeskMarkets :
          \/ \E rule \in 1 .. MaxRules : analyses = 0 /\ IngestCatalog(m, rule, instant)
          \/ \E c \in {2, 8} : CaptureBook(m, c, instant, TRUE)
          \/ ComputeQuality(m, instant) \/ MarketTick
  \/ \E m \in DeskMarkets : Analyze(m, instant, FALSE)
  \/ \E m \in DeskMarkets, t \in 0 .. instant, force \in BOOLEAN : analyses = 1 /\ Analyze(m, t, force)
  \/ \E m \in DeskMarkets : diffs = {} /\ analyses = 0 /\ CompareRules(m, FALSE)

-----------------------------------------------------------------------------
Phrases ==
  {"at least", "below", "by date", "by month", "between", "between and", "before",
   "before the end of", "according to", "official sources", "source of truth", "settled by",
   "5 PM ET", "10 percent", "deadline", "and/or", "various sources", "reports", "soon", "around",
   "approximately", "expected", "anticipated", "undefined", "if unclear", "materially",
   "may resolve", "revised", "final", "authorities", "candidate or company", "at the discretion",
   "dispute", "appeal", "cancellation not specified", "data unavailable", "manual review",
   "override", "resolves yes", agency}
Texts == {{}} \cup {{p, q} : p \in Phrases, q \in Phrases}
\* with and without line breaks, where they can matter
Lines(t) == {{}, t \cap (SingleSpaced \cup {"settled by"})}
Wordings ==
  UNION {{Rule(t, s, None, z, w) : s \in {None, agency}, z \in {None, "UTC"}, w \in Lines(t)} : t \in Texts}
Plain == {"by date", "at least", "10 percent", "resolves yes"}
Loose == {"before the end of", "various sources", "settled by", "if unclear"}
MCRules ==
  {Rule(Plain, agency, "venue", "UTC", {}), Rule(Plain, agency, "venue", "UTC", {"at least"}),
   Rule(Plain, agency, "venue", None, {"resolves yes"}),
   Rule(Loose, None, None, None, {}), Rule(Loose, None, None, None, {"before the end of"}),
   Rule({"soon", "reports", council}, None, None, None, {})}
\* rules captured in any order of their times; a verdict is asked last
Studying ==
  \/ \E c \in RuleContents, at \in 1 .. MaxCaptured : CaptureRule(c, at)
  \/ \E name \in SourceNames : LearnSource(name)
  \/ \E rule \in rules, force \in BOOLEAN : AnalyzeRule(rule, force)
  \/ \E force \in BOOLEAN : DiffLatestTwo(force)
  \/ \E book \in DOMAIN LiquidityRisk, hint \in Hints :
       corpusCalls = MaxCorpusCalls - 1 /\ captured < MaxCaptured /\ RecomputeVerdict(book, hint)
\* every text of at most two phrases, analysed once
Wording ==
  \/ \E c \in Wordings : captured = 0 /\ CaptureRule(c, 1)
  \/ \E name \in SourceNames : captured = 1 /\ LearnSource(name)
  \/ \E rule \in rules : corpusCalls = 0 /\ AnalyzeRule(rule, FALSE)

-----------------------------------------------------------------------------
Full ==
  [own |-> {"noaa", "report"}, source |-> {"noaa", "report"}, authority |-> {"kalshi"},
   deadline |-> [day |-> 1, hour |-> 1], zone |-> "ET", threshold |-> [value |-> 1, unit |-> "in"],
   comparator |-> "gte", subject |-> {"rain"}, condition |-> {"falls"}, type |-> "threshold",
   ambiguity |-> 10, disputes |-> {"appeal"}]
From(source) == [Full EXCEPT !.own = source, !.source = source]
Near == From({"noaa", "report", "city"})
Far == [From({"city", "report"}) EXCEPT !.disputes = {}]
\* a rule without a source, before and after the one it names is learnt
Unnamed == [From({}) EXCEPT !.ambiguity = 55]
Learnt == [Unnamed EXCEPT !.source = {"noaa", "report"}, !.ambiguity = 30]
MCTerms ==
  {Full, Near, Far, Unnamed, Learnt,
   [Full EXCEPT !.deadline = [day |-> 1, hour |-> 2], !.zone = "UTC", !.authority = {"polymarket"}],
   [Full EXCEPT !.threshold = None, !.comparator = None],
   [Full EXCEPT !.ambiguity = 60, !.comparator = "lt"],
   [Full EXCEPT !.ambiguity = 85, !.zone = None, !.deadline = [day |-> 2, hour |-> 1]]}
Contract(venue, title) ==
  [venue |-> venue, title |-> title, event |-> {"rain", "nyc"}, category |-> "weather",
   labels |-> {"yes", "no"}, kind |-> "binary"]
MCContracts ==
  <<Contract("kalshi", {"rain", "nyc"}), Contract("kalshi", {"not", "rain", "nyc"}),
    Contract("polymarket", {"rain", "nyc"})>>
MCUpdates ==
  {[Contract("polymarket", {"snow"}) EXCEPT !.event = None],
   [Contract("polymarket", {"rain"}) EXCEPT !.labels = {"yes", "later"}]}

\* every two terms, assessed once
Matching ==
  \/ \E m \in {2, 3}, terms \in RuleTerms :
       RulesOf(m) = {} /\ (m = 3 => RulesOf(2) # {}) /\ CaptureTerms(m, terms, 1)
  \/ \E c \in Listings : eqRules = {} /\ UpdateContract(3, c)
  \/ \E rule \in eqRules, terms \in RuleTerms : pairCalls = 0 /\ AnalyzeAgain(rule, terms)
  \/ \E t \in {0, 1} : pairCalls = 0 /\ RulesOf(3) # {} /\ AssessPair(2, 3, t, FALSE)

\* the tables and the classes of three markets over a few terms, in any order of their days
Grouping ==
  \/ \E m \in Markets, at \in {1, 2} : CaptureTerms(m, IF m = 1 THEN Near ELSE Full, at)
  \/ CaptureTerms(3, Unnamed, 1)
  \/ \E rule \in eqRules : AnalyzeAgain(rule, Learnt)
  \/ \E c \in Updates : Cardinality(eqRules) = MaxTerms /\ UpdateContract(3, c)
  \/ \E t \in {1, 2} :
       \/ \E p \in {<<1, 3>>, <<3, 2>>, <<2, 1>>} : AssessPair(p[1], p[2], t, TRUE)
       \/ \E force \in BOOLEAN : Scan(t, force)

-----------------------------------------------------------------------------
DepthBook(mid, spread, depth) ==
  [mid |-> mid, bid |-> mid - spread \div 2, ask |-> mid + spread \div 2, spread |-> spread,
   depth |-> depth]
Price(price, mid, spread) ==
  [price |-> price, mid |-> mid, bid |-> None, ask |-> None, spread |-> spread]
Reading(price, liquidity, score, stale, risk) ==
  [price |-> price, liquidity |-> liquidity, risk |-> risk,
   quality |-> IF score = None THEN None ELSE [score |-> score, stale |-> stale]]
MCReadings ==
  {Reading(Price(50, 50, 2), DepthBook(50, 2, 9), 90, FALSE, 10),
   Reading(Price(0, 54, None), DepthBook(54, 12, 1), None, FALSE, None),
   Reading(None, [mid |-> None, bid |-> 58, ask |-> None, spread |-> None, depth |-> 3],
           60, FALSE, 70),
   Reading(Price(38, None, None), None, 30, TRUE, None),
   Reading(Price(61, 61, 2), DepthBook(61, 2, 9), 100, FALSE, 10)}
PairRow(id, l, r, permission, relation) ==
  [id |-> id, left |-> l, right |-> r, permission |-> permission, relation |-> relation]
MCPairRows ==
  {PairRow(1, "a", "b", "COMPARABLE", "SAME"), PairRow(1, "b", "a", "COMPARABLE", "SAME"),
   PairRow(2, "a", "b", "COMPARABLE_WITH_HAIRCUT", "INVERSE"),
   PairRow(3, "b", "a", "MANUAL_REVIEW", "SAME"), PairRow(4, "a", "b", "DO_NOT_COMPARE", None)}

\* every reading of both sides and every row; what arrives late, moves or is forced comes after
\* a first analysis
Watching ==
  \/ \E m \in Sides, reading \in Readings, at \in Moments :
       /\ Cardinality(dvReadings) < 2 /\ Cardinality(dvPairs) < 2 /\ (comparisons = 0 => at = 1)
       /\ Read(m, reading, at)
  \/ \E row \in PairRows, at \in Moments :
       /\ IF comparisons = 0 THEN dvPairs = {} /\ at = 1
          ELSE dvPairs # {} /\ (Cardinality(dvReadings) + Cardinality(dvPairs) < 3
                                  \/ \E p \in dvPairs : p.row.id = row.id)
       /\ Relate(row, at)
  \/ \E p \in dvPairs, t \in Moments, force \in BOOLEAN :
       (comparisons = 0 => ~force) /\ ComparePair(p, t, force)
  \/ \E m \in Sides, force \in BOOLEAN : comparisons = 1 /\ CompareMarket(m, LastMoment, force)
  \/ \E ms \in {{}, {"a"}} : comparisons = 1 /\ CompareRun(ms, LastMoment, FALSE)

\* two comparable rows of a pair that stays apart
Persisting ==
  \/ \E m \in Sides, reading \in {r \in Readings : r.quality = None \/ r.quality.score > 80}, at \in Moments :
       (comparisons = 0 => at = 1) /\ Read(m, reading, at)
  \/ \E row \in {r \in PairRows : MayCompare(r)}, at \in Moments :
       (comparisons = 0 => at = 1) /\ Relate(row, at)
  \/ \E p \in dvPairs, t \in Moments : ComparePair(p, t, FALSE)

-----------------------------------------------------------------------------
Parts == {"market", "integrity", "texts", "corpus", "terms", "tables", "divergence", "persistence"}
Init == /\ part \in Parts
        /\ IntegrityInit /\ ResolutionInit /\ EquivalenceInit /\ DivergenceInit

Marketing ==
  /\ UNCHANGED <<resolutionVars, equivalenceVars, divergenceVars>>
  /\ \/ part = "market" /\ Recording /\ UNCHANGED integrityVars
     \/ part = "integrity" /\ Analysing
Resolving ==
  /\ UNCHANGED <<marketVars, integrityVars, equivalenceVars, divergenceVars>>
  /\ \/ part = "texts" /\ Wording
     \/ part = "corpus" /\ verdict = None /\ corpusCalls < MaxCorpusCalls /\ Studying
Pairing ==
  /\ UNCHANGED <<marketVars, integrityVars, resolutionVars, divergenceVars>>
  /\ \/ part = "terms" /\ Matching
     \/ part = "tables" /\ pairCalls < MaxPairCalls /\ Grouping
Diverging ==
  /\ UNCHANGED <<marketVars, integrityVars, resolutionVars, equivalenceVars>>
  /\ comparisons < MaxComparisons
  /\ \/ part = "divergence" /\ Watching
     \/ part = "persistence" /\ Persisting

Next == UNCHANGED part /\ (Marketing \/ Resolving \/ Pairing \/ Diverging)
Spec == Init /\ [][Next]_vars
=============================================================================
