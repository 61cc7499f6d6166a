------------------------------ MODULE Resolution ------------------------------
(***************************************************************************)
(* The resolution corpus (resolution/) and the trust verdict built on it   *)
(* (scoring/), for one market: rule snapshots are captured, parsed into a  *)
(* predicate and assessed for ambiguity against the sources known at that  *)
(* moment, compared, and scored.  A rule text is the set of its phrases: a *)
(* pattern of the code is the set of phrases it matches.  A line may break *)
(* inside a phrase: most patterns of several words want single spaces.     *)
(***************************************************************************)
EXTENDS DeskBase, FiniteSets, Functions

CONSTANTS
  RuleContents,     \* the rules the venue may publish
  SourceNames,      \* canonical names of resolution sources
  RuleRecurs,       \* may a venue return to an earlier rule?
  MaxCaptured,      \* bound: rule snapshots captured, and the last time of one
  MaxCorpusCalls    \* bound: analyses, comparisons and verdicts

ASSUME ResolutionAssumption ==
  /\ RuleRecurs \in BOOLEAN /\ MaxCaptured \in Nat /\ MaxCorpusCalls \in Nat
  /\ None \notin {"begun in text", "named in text"}

VARIABLES
  captured,         \* rule snapshots stored so far, counting those that moved
  rules,            \* market_rule_snapshots: content and captured_at
  known,            \* resolution_sources
  parses,           \* resolution_predicates and ambiguity_assessments, by snapshot
  ruleDiffs,        \* rule_snapshot_diffs
  verdict,          \* the last trust verdict, with what it was built from
  corpusCalls
resolutionVars == <<captured, rules, known, parses, ruleDiffs, verdict, corpusCalls>>

\* wrapped: the phrases of the text in which a line breaks
Rule(text, source, authority, zone, wrapped) ==
  [text |-> text, source |-> source, authority |-> authority, zone |-> zone, wrapped |-> wrapped]
Has(text, phrases) == text \cap phrases # {}

\* the phrases whose patterns want single spaces, those of other phrases read over any
\* whitespace or are one word, as the name of a source is; and what is left of a broken one
SingleSpaced ==
  {"at least", "before the end of", "between and", "according to", "official sources",
   "source of truth", "various sources", "candidate or company", "if unclear", "may resolve",
   "at the discretion", "data unavailable", "manual review", "resolves yes",
   "cancellation not specified"}
Remains ==
  {<<"before the end of", "before">>, <<"between and", "between">>, <<"official sources", "official">>,
   <<"source of truth", "source">>, <<"candidate or company", "or">>}

\* a line that breaks at "end of" breaks the phrase around it
Broken(c) ==
  {p \in c.text \cap SingleSpaced :
     p \in c.wrapped \/ (p = "before the end of" /\ "end of" \in c.wrapped)}
\* the phrases that a search of the whole text finds
Words(c) ==
  (c.text \ Broken(c)) \cup {r[2] : r \in {q \in Remains : q[1] \in Broken(c)}}
HoldingIn(table) == {name \in DOMAIN table : table[name]}

-----------------------------------------------------------------------------
(* parse_resolution_predicate.                                             *)
First(names) == CHOOSE n \in names : TRUE
Comparators == {"at least", "below", "by date", "by month", "between", "between and", "before",
                "before the end of"}
FaultySourceNamed(c, names) ==
  names # {} /\ (IF c.source # None THEN c.source = First(names) ELSE First(names) \in Words(c))
SourceNamed(c, names) == IF c.source # None THEN c.source \in names ELSE Has(Words(c), names)
SourceText(c, names) ==
  c.source # None \/ Has(Words(c), names)
    \/ Has(Words(c), {"according to", "official sources", "official", "source of truth"})
\* the name ends with its line
AuthorityOf(c) == IF c.authority # None THEN c.authority
                  ELSE IF "settled by" \notin c.text THEN None
                  ELSE IF "settled by" \in c.wrapped THEN "begun in text" ELSE "named in text"
ZoneOf(c) == IF c.zone # None THEN c.zone ELSE IF "5 PM ET" \in c.text THEN "ET" ELSE None

Confidence(c, names) ==
  45 + (IF Has(Words(c), Comparators) THEN 10 ELSE 0)
     + (IF "10 percent" \in c.text THEN 12 ELSE 0)
     + (IF Has(c.text, {"by date", "between and"}) THEN 10 ELSE 0)
     + (IF SourceText(c, names) THEN 13 ELSE 0)
     + (IF AuthorityOf(c) # None THEN 10 ELSE 0)

PredicateType(text) ==
  IF Has(text, {"at least", "below"}) THEN "SCALAR_THRESHOLD"
  ELSE IF Has(text, {"between", "between and"}) THEN "RANGE"
  ELSE IF Has(text, {"before", "before the end of", "by date", "by month", "deadline"})
       THEN "DATE_DEADLINE"
  ELSE "BINARY_EVENT"

Predicate(c, names) ==
  IF c.text = {}
  THEN [status |-> "FAILED", type |-> "UNKNOWN", source |-> FALSE, zone |-> None,
        authority |-> None, threshold |-> FALSE]
  ELSE [status |-> IF Confidence(c, names) >= 75 THEN "PARSED" ELSE "PARTIAL",
        type |-> PredicateType(Words(c)), source |-> SourceNamed(c, names), zone |-> ZoneOf(c),
        authority |-> AuthorityOf(c), threshold |-> "10 percent" \in c.text]

-----------------------------------------------------------------------------
(* assess_rule_ambiguity: the codes that hold, their points and dimensions. *)
\* "by" counts as a deadline wherever it stands
Deadline(text) ==
  Has(text, {"before", "by date", "by month", "deadline", "before the end of", "settled by"})

VagueTiming == {"soon", "around", "approximately", "expected", "anticipated"}

SourceCodes(c, p) ==
  HoldingIn([MISSING_RESOLUTION_SOURCE |-> c.source = None /\ ~p.source,
             MULTIPLE_POSSIBLE_SOURCES |->
               Has(Words(c), {"and/or", "various sources", "official sources"}),
             SOURCE_DESCRIBED_AS_REPORTS |-> "reports" \in Words(c),
             NON_CANONICAL_SOURCE |-> "official sources" \in Words(c) /\ c.source = None])

TemporalCodes(c, zone) ==
  LET noZone == c.zone = None /\ zone = None
  IN  HoldingIn([MISSING_TIMEZONE |-> Deadline(Words(c)) /\ noZone,
                 VAGUE_DEADLINE |-> Has(Words(c), VagueTiming),
                 RELATIVE_TIME_WORDING |-> Has(Words(c), {"soon", "before the end of"}),
                 MONTH_WITHOUT_DAY |-> "by month" \in Words(c),
                 DEADLINE_WITHOUT_TIME |-> Deadline(Words(c)) /\ "5 PM ET" \notin Words(c),
                 BEFORE_END_OF_WITHOUT_TIMEZONE |-> "before the end of" \in Words(c) /\ noZone])

DefinitionCodes(text) ==
  HoldingIn([UNDEFINED_KEY_TERM |-> Has(text, {"undefined", "if unclear"}),
             SUBJECTIVE_WORDING |-> "materially" \in text,
             VAGUE_CONDITION |-> Has(text, {"may resolve", "expected", "anticipated"}),
             DEPENDS_ON_INTERPRETATION |-> "if unclear" \in text])

MeasurementCodes(text, threshold) ==
  HoldingIn([MISSING_MEASUREMENT_METHOD |->
               threshold /\ ~Has(text, {"according to", "source of truth", "source"}),
             PRELIMINARY_OR_REVISED_DATA_AMBIGUITY |-> "revised" \in text,
             UNSPECIFIED_DATA_REVISION_POLICY |->
               threshold /\ "revised" \in text /\ "final" \notin text])

ActorCodes(text) ==
  HoldingIn([AMBIGUOUS_ACTOR |-> "authorities" \in text,
             MULTIPLE_ACTORS |-> "candidate or company" \in text,
             ACTOR_ROLE_UNCLEAR |-> "at the discretion" \in text])

ThresholdCodes(text) ==
  HoldingIn([APPROXIMATE_THRESHOLD |-> Has(text, {"around", "approximately"}),
             RANGE_ENDPOINT_AMBIGUITY |-> "between" \in text /\ "between and" \notin text])

DisputeCodes(text) ==
  HoldingIn([MISSING_DISPUTE_PROCESS |->
               Has(text, {"dispute", "appeal", "if unclear"}) /\ "final" \notin text,
             APPEAL_PROCESS_UNSPECIFIED |->
               Has(text, {"dispute", "if unclear"}) /\ "appeal" \notin text,
             VENUE_FINAL_DECISION_UNCLEAR |-> Has(text, {"at the discretion", "if unclear"})])

ExceptionalCodes(text) ==
  HoldingIn([CANCELLATION_NOT_SPECIFIED |-> "cancellation not specified" \in text,
             DATA_UNAVAILABLE_NOT_SPECIFIED |-> "data unavailable" \in text])

VenueCodes(c, authority) ==
  HoldingIn([SETTLEMENT_AUTHORITY_MISSING |-> c.authority = None /\ authority = None,
             MANUAL_REVIEW_UNCLEAR |-> "manual review" \in Words(c),
             VENUE_RULE_OVERRIDE_UNCLEAR |-> "override" \in Words(c)])

AmbiguityCodes(c, p) ==
  UNION {SourceCodes(c, p), TemporalCodes(c, p.zone), DefinitionCodes(Words(c)),
         MeasurementCodes(Words(c), p.threshold), ActorCodes(Words(c)), ThresholdCodes(Words(c)),
         DisputeCodes(Words(c)), ExceptionalCodes(Words(c)), VenueCodes(c, p.authority)}

Points ==
  [MISSING_RESOLUTION_SOURCE |-> 30, MULTIPLE_POSSIBLE_SOURCES |-> 20,
   SOURCE_DESCRIBED_AS_REPORTS |-> 15, NON_CANONICAL_SOURCE |-> 15, MISSING_TIMEZONE |-> 25,
   VAGUE_DEADLINE |-> 20, RELATIVE_TIME_WORDING |-> 15, MONTH_WITHOUT_DAY |-> 20,
   DEADLINE_WITHOUT_TIME |-> 10, BEFORE_END_OF_WITHOUT_TIMEZONE |-> 20, UNDEFINED_KEY_TERM |-> 20,
   SUBJECTIVE_WORDING |-> 20, VAGUE_CONDITION |-> 15, DEPENDS_ON_INTERPRETATION |-> 15,
   MISSING_MEASUREMENT_METHOD |-> 15, PRELIMINARY_OR_REVISED_DATA_AMBIGUITY |-> 15,
   UNSPECIFIED_DATA_REVISION_POLICY |-> 10, AMBIGUOUS_ACTOR |-> 15, MULTIPLE_ACTORS |-> 15,
   ACTOR_ROLE_UNCLEAR |-> 15, APPROXIMATE_THRESHOLD |-> 20, RANGE_ENDPOINT_AMBIGUITY |-> 20,
   MISSING_DISPUTE_PROCESS |-> 20, APPEAL_PROCESS_UNSPECIFIED |-> 15,
   VENUE_FINAL_DECISION_UNCLEAR |-> 15, CANCELLATION_NOT_SPECIFIED |-> 10,
   DATA_UNAVAILABLE_NOT_SPECIFIED |-> 15, SETTLEMENT_AUTHORITY_MISSING |-> 25,
   MANUAL_REVIEW_UNCLEAR |-> 15, VENUE_RULE_OVERRIDE_UNCLEAR |-> 15]

AmbiguityDimensions ==
  [source |-> {"MISSING_RESOLUTION_SOURCE", "MULTIPLE_POSSIBLE_SOURCES",
               "SOURCE_DESCRIBED_AS_REPORTS", "NON_CANONICAL_SOURCE"},
   temporal |-> {"MISSING_TIMEZONE", "VAGUE_DEADLINE", "RELATIVE_TIME_WORDING",
                 "MONTH_WITHOUT_DAY", "DEADLINE_WITHOUT_TIME", "BEFORE_END_OF_WITHOUT_TIMEZONE"},
   definition |-> {"UNDEFINED_KEY_TERM", "SUBJECTIVE_WORDING", "VAGUE_CONDITION",
                   "DEPENDS_ON_INTERPRETATION"},
   measurement |-> {"MISSING_MEASUREMENT_METHOD", "PRELIMINARY_OR_REVISED_DATA_AMBIGUITY",
                    "UNSPECIFIED_DATA_REVISION_POLICY"},
   actor |-> {"AMBIGUOUS_ACTOR", "MULTIPLE_ACTORS", "ACTOR_ROLE_UNCLEAR"},
   threshold |-> {"APPROXIMATE_THRESHOLD", "RANGE_ENDPOINT_AMBIGUITY"},
   dispute |-> {"MISSING_DISPUTE_PROCESS", "APPEAL_PROCESS_UNSPECIFIED",
                "VENUE_FINAL_DECISION_UNCLEAR"},
   exceptional |-> {"CANCELLATION_NOT_SPECIFIED", "DATA_UNAVAILABLE_NOT_SPECIFIED"},
   venue |-> {"SETTLEMENT_AUTHORITY_MISSING", "MANUAL_REVIEW_UNCLEAR",
              "VENUE_RULE_OVERRIDE_UNCLEAR"}]

DimensionScores(codes) ==
  [d \in DOMAIN AmbiguityDimensions |->
     Lesser(100, SumFunctionOnSet(Points, codes \cap AmbiguityDimensions[d]))]

\* round(max * 0.6 + average * 0.4) of the nine dimensions
OverallAmbiguity(codes) ==
  LET scores == DimensionScores(codes)
      largest == CHOOSE s \in Range(scores) : \A r \in Range(scores) : r <= s
  IN  (54 * largest + 4 * SumFunction(scores) + 45) \div 90

-----------------------------------------------------------------------------
(* score_resolution_risk and build_trust_verdict.                          *)
RiskPoints ==
  [missing_raw_rule_text |-> 70, missing_resolution_source |-> 20,
   missing_settlement_authority |-> 15, soon |-> 12, around |-> 10, approximately |-> 10,
   expected |-> 10, anticipated |-> 10, by_month_without_date |-> 18,
   end_of_period_without_timezone |-> 15, multiple_possible_resolution_sources |-> 15]

RiskReasons(c) ==
  HoldingIn(
    [missing_raw_rule_text |-> c.text = {},
     missing_resolution_source |-> c.source = None,
     missing_settlement_authority |-> c.authority = None,
     soon |-> "soon" \in Words(c), around |-> "around" \in Words(c),
     approximately |-> "approximately" \in Words(c), expected |-> "expected" \in Words(c),
     anticipated |-> "anticipated" \in Words(c), by_month_without_date |-> "by month" \in Words(c),
     end_of_period_without_timezone |-> "before the end of" \in Words(c) /\ c.zone = None,
     multiple_possible_resolution_sources |->
       Has(Words(c), {"and/or", "various sources", "reports", "candidate or company", "or"})])

RiskOfRule(c) == Lesser(100, SumFunctionOnSet(RiskPoints, RiskReasons(c)))
\* the newest rule's risk, at least the overall ambiguity when there is an assessment
ResolutionRisk(rule, codes) ==
  LET risk == IF rule = None THEN 100 ELSE RiskOfRule(rule.content)
  IN  IF codes = None THEN risk ELSE Greater(risk, OverallAmbiguity(codes))

LiquidityRisk == [missing |-> 90, one_sided |-> 80, wide |-> 70, tight |-> 10]
ActionRank ==
  [ALLOW |-> 0, ALLOW_SMALLER_SIZE |-> 1, PASSIVE_ONLY |-> 2, MANUAL_REVIEW |-> 3, NO_TRADE |-> 4]

BaseAction(risk, book) ==
  IF risk >= 80 THEN "NO_TRADE"
  ELSE IF risk >= 50 \/ book = "missing" THEN "MANUAL_REVIEW"
  ELSE IF LiquidityRisk[book] >= 70 THEN "PASSIVE_ONLY"
  ELSE "ALLOW"

Hints == {"NONE"} \cup (DOMAIN ActionRank \ {"ALLOW"})

\* a hint of the integrity assessment only tightens
IntegrityAction(action, hint) ==
  IF hint = "NO_TRADE" THEN "NO_TRADE"
  ELSE IF hint = "MANUAL_REVIEW" /\ action # "NO_TRADE" THEN "MANUAL_REVIEW"
  ELSE IF hint = "PASSIVE_ONLY" /\ action \in {"ALLOW", "ALLOW_SMALLER_SIZE"} THEN "PASSIVE_ONLY"
  ELSE IF hint = "ALLOW_SMALLER_SIZE" /\ action = "ALLOW" THEN "ALLOW_SMALLER_SIZE"
  ELSE action

-----------------------------------------------------------------------------
(* diff_rule_snapshots.                                                    *)
\* the terms a text has of what a pattern looks for
DeadlineTerms(c) ==
  HoldingIn([by |-> Has(c.text, {"by date", "by month", "settled by"}),
             before |-> Has(Words(c), {"before", "before the end of"}),
             end_of |-> "before the end of" \in c.text /\ "end of" \notin c.wrapped,
             deadline |-> "deadline" \in c.text, february |-> "between and" \in c.text,
             march |-> "by month" \in c.text, april |-> "by date" \in c.text,
             may |-> "may resolve" \in c.text])
FaultyThresholdTerms(c) ==
  c.text \cap {"below", "10 percent", "5 PM ET", "by date", "between and"}
ThresholdTerms(c) ==
  (c.text \cap {"below", "10 percent", "5 PM ET", "by date", "between and"})
    \cup (Words(c) \cap {"at least"})
DisputeTerms(text) == text \cap {"dispute", "appeal", "manual review", "final"}

ChangeFlags(c, d) ==
  HoldingIn(
    [RESOLUTION_SOURCE_CHANGED |-> c.source # d.source,
     SETTLEMENT_AUTHORITY_CHANGED |-> c.authority # d.authority,
     TIMEZONE_CHANGED |-> c.zone # d.zone,
     DEADLINE_CHANGED |-> DeadlineTerms(c) # DeadlineTerms(d),
     THRESHOLD_CHANGED |-> ThresholdTerms(c) # ThresholdTerms(d),
     DISPUTE_PROCESS_CHANGED |-> DisputeTerms(c.text) # DisputeTerms(d.text),
     OUTCOME_DEFINITION_CHANGED |-> ("resolves yes" \in Words(c)) # ("resolves yes" \in Words(d)),
     ONLY_WHITESPACE_OR_FORMATTING |-> c.wrapped # d.wrapped /\ c.text = d.text,
     MATERIAL_RULE_TEXT_CHANGE |-> c.text # d.text])

-----------------------------------------------------------------------------
LatestRule == NewestOf(rules)
PreviousRule == NewestOf(rules \ {LatestRule})
ParseOf(c) == {p \in parses : p.content = c}
LatestParse == NewestOf(parses)

\* ingestion stores the rule unless the newest one has its hash, dated like its payload was
\* captured; the id is a hash of the content, so an earlier rule that returns moves
CaptureRule(c, at) ==
  /\ captured < MaxCaptured
  /\ rules # {} => LatestRule.content # c
  /\ RuleRecurs \/ \A r \in rules : r.content # c
  /\ \A r \in rules : r.at # at
  /\ captured' = captured + 1
  /\ rules' = {r \in rules : r.content # c} \cup {[content |-> c, at |-> at]}
  /\ UNCHANGED <<known, parses, ruleDiffs, verdict, corpusCalls>>

LearnSource(name) ==
  /\ name \notin known
  /\ known' = known \cup {name}
  /\ UNCHANGED <<captured, rules, parses, ruleDiffs, verdict, corpusCalls>>

Analysis(rule) ==
  [content |-> rule.content, at |-> rule.at, predicate |-> Predicate(rule.content, known),
   codes |-> AmbiguityCodes(rule.content, Predicate(rule.content, known))]

SaveParse(p) == parses' = (parses \ ParseOf(p.content)) \cup {p}

\* analyze_rule_snapshot: a stored analysis is answered again unless forced
AnalyzeRule(rule, force) ==
  /\ corpusCalls < MaxCorpusCalls
  /\ corpusCalls' = corpusCalls + 1
  /\ IF ParseOf(rule.content) # {} /\ ~force THEN UNCHANGED parses ELSE SaveParse(Analysis(rule))
  /\ UNCHANGED <<captured, rules, known, ruleDiffs, verdict>>

\* diff_rule_snapshots: kept by the pair, dated by the newer snapshot
RuleDiff(from, to) ==
  [pair |-> [from |-> from.content, to |-> to.content], at |-> to.at,
   flags |-> ChangeFlags(from.content, to.content)]

DiffLatestTwo(force) ==
  LET diff == RuleDiff(PreviousRule, LatestRule)
      stored == {d \in ruleDiffs : d.pair = diff.pair}
  IN  /\ Cardinality(rules) > 1
      /\ corpusCalls < MaxCorpusCalls
      /\ corpusCalls' = corpusCalls + 1
      /\ ruleDiffs' =
           IF stored # {} /\ ~force THEN ruleDiffs
           ELSE (ruleDiffs \ stored) \cup {diff}
      /\ UNCHANGED <<captured, rules, known, parses, verdict>>

RecomputeVerdict(book, hint) ==
  LET stored == IF LatestRule = None THEN {} ELSE ParseOf(LatestRule.content)
      codes == IF stored = {} THEN None ELSE (CHOOSE p \in stored : TRUE).codes
      risk == ResolutionRisk(LatestRule, codes)
  IN  /\ corpusCalls < MaxCorpusCalls
      /\ corpusCalls' = corpusCalls + 1
      /\ verdict' = [risk |-> risk, book |-> book, hint |-> hint,
                     action |-> IntegrityAction(BaseAction(risk, book), hint)]
      /\ UNCHANGED <<captured, rules, known, parses, ruleDiffs>>

ResolutionInit ==
  /\ captured = 0 /\ rules = {} /\ known = {} /\ parses = {} /\ ruleDiffs = {}
  /\ verdict = None /\ corpusCalls = 0

ResolutionNext ==
  \/ \E c \in RuleContents, at \in 1 .. MaxCaptured : CaptureRule(c, at)
  \/ \E name \in SourceNames : LearnSource(name)
  \/ \E rule \in rules, force \in BOOLEAN : AnalyzeRule(rule, force)
  \/ \E force \in BOOLEAN : DiffLatestTwo(force)
  \/ \E book \in DOMAIN LiquidityRisk, hint \in Hints :
       RecomputeVerdict(book, hint)

ResolutionSpec == ResolutionInit /\ [][ResolutionNext]_resolutionVars

-----------------------------------------------------------------------------
\* A snapshot has one analysis, dated like a rule was when it was analysed.
ResolutionTypeOK ==
  /\ \A p, q \in parses : p.content = q.content => p = q
  /\ \A d, e \in ruleDiffs : d.pair = e.pair => d = e
  /\ \A p \in parses : p.at \in 1 .. MaxCaptured /\ OverallAmbiguity(p.codes) \in 0 .. 100

\* The latest analysis of the market is of its newest rule as soon as that is analysed,
\* in whatever order snapshots are analysed (repositories.py:594), if no rule returns.
LatestAnalysisIsCurrent ==
  (LatestRule # None /\ ParseOf(LatestRule.content) # {}) =>
    LatestParse.content = LatestRule.content

\* A stored analysis that a newly known source would change errs on the strict side: it
\* has every code of a fresh one (service.py:52).
StaleAnalysesOnlyStricter ==
  \A p \in parses :
    LET fresh == AmbiguityCodes(p.content, Predicate(p.content, known))
    IN  fresh \subseteq p.codes /\ OverallAmbiguity(fresh) <= OverallAmbiguity(p.codes)

\* A comparison that reports at most formatting is of rules with the same terms: although a
\* line break hides phrases from the patterns, it cannot change what kind of predicate it is,
\* its zone, threshold or authority, nor the risk but for its sources and the end of a period
\* (diff.py:20, 119, parser.py:15, 48, resolution_risk.py:30, 77).
FormattingKeepsTerms ==
  \A d \in ruleDiffs :
    d.flags \subseteq {"ONLY_WHITESPACE_OR_FORMATTING"} =>
      LET p == Predicate(d.pair.from, known)
          q == Predicate(d.pair.to, known)
          excepted == {"multiple_possible_resolution_sources", "end_of_period_without_timezone"}
      IN  /\ p.type = q.type /\ p.zone = q.zone /\ p.threshold = q.threshold
          /\ p.authority = None <=> q.authority = None
          /\ RiskReasons(d.pair.from) \ excepted = RiskReasons(d.pair.to) \ excepted

\* The two scorers do not contradict each other: a timing, source or authority reason of
\* the risk score is a code of the analysis too, unless the text supplies what the
\* field lacks (resolution_risk.py:12, ambiguity.py:79).
ScorersAgree ==
  \A p \in parses :
    LET reasons == RiskReasons(p.content)
    IN  /\ reasons \cap {"soon", "around", "approximately", "expected", "anticipated"} # {}
             <=> "VAGUE_DEADLINE" \in p.codes
        /\ "by_month_without_date" \in reasons <=> "MONTH_WITHOUT_DAY" \in p.codes
        /\ "missing_resolution_source" \notin reasons => "MISSING_RESOLUTION_SOURCE" \notin p.codes
        /\ ("end_of_period_without_timezone" \in reasons /\ p.predicate.zone = None)
             <=> "BEFORE_END_OF_WITHOUT_TIMEZONE" \in p.codes

\* A verdict is at least as strict as each of its inputs asks for (trust_verdict.py:45).
VerdictKeepsStrictest ==
  verdict # None =>
    LET asked(condition, action) ==
          condition => ActionRank[verdict.action] >= ActionRank[action]
    IN  /\ asked(verdict.risk >= 80, "NO_TRADE")
        /\ asked(verdict.risk >= 50 \/ verdict.book = "missing", "MANUAL_REVIEW")
        /\ asked(LiquidityRisk[verdict.book] >= 70, "PASSIVE_ONLY")
        /\ verdict.hint # "NONE" => asked(TRUE, verdict.hint)

\* The readings of a rule's text agree with each other, with the rule that is current and with
\* the verdict built on them.
ResolutionSound ==
  /\ ResolutionTypeOK /\ LatestAnalysisIsCurrent /\ StaleAnalysesOnlyStricter
  /\ FormattingKeepsTerms /\ ScorersAgree /\ VerdictKeepsStrictest
=============================================================================
