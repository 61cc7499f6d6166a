------------------------------ MODULE Research ------------------------------
(***************************************************************************)
(* Strategy research (research/): features, signals and proposals of the   *)
(* default strategies, the evaluation of a proposal by the gate and in the *)
(* paper book, and research runs over a grid of times, markets and         *)
(* strategies.  A run is taken one grid step at a time while other rows    *)
(* arrive, some of them late for their time.  A run that raises is rolled  *)
(* back whole and leaves nothing, so it is no action here.                 *)
(*                                                                         *)
(* What the gate decides is PreTradeGate's: here it is any action at least *)
(* as strict as the trust verdict, the same one for the same inputs.       *)
(* Equivalence and paper features are stored but no strategy reads them.   *)
(***************************************************************************)
EXTENDS Scenario

CONSTANTS
  Lives,            \* [market -> [from, to]]: created and closed, of those in the table
  Strategies,       \* the names of the strategies, in the order runs take them
  GateActions,      \* actions the gate may answer
  MaxProposals, MaxResearchCalls     \* bounds

VARIABLES
  features,         \* research_feature_snapshots of market data and resolution, whose rows
                    \* change in place
  signals,          \* research_signals
  proposals,        \* research_intent_proposals
  decisions,        \* pretrade_decisions
  traces,           \* research_decision_traces
  run,              \* the research run under way
  finished          \* research_runs with their summaries
researchVars == <<features, signals, proposals, decisions, traces, run, finished>>

-----------------------------------------------------------------------------
\* a forced analysis of a rule keeps its id: a verdict built again has the id of the one built
\* before it, and takes its row
RebuiltVerdict(m, t) == [NewVerdict(m, t) EXCEPT !.n = BuiltVerdict(m, t).n]
WithVerdict(verdict) == {r \in rows : r.n # verdict.n} \cup {verdict}
\* the gate takes any verdict of exactly its time
GateVerdict(m, t) ==
  LET old == Latest("verdict", m, t)
  IN  IF old # None /\ old.at = t THEN old ELSE RebuiltVerdict(m, t)

LatestDecision(m, t) ==
  LET S == {d \in decisions : d.market = m /\ d.at <= t}
  IN  IF S = {} THEN None
      ELSE CHOOSE d \in S : \A e \in S \ {d} : e.at < d.at \/ (e.at = d.at /\ e.gen < d.gen)

-----------------------------------------------------------------------------
Field(row, name) == IF row = None THEN None ELSE row.content[name]
Number(row) == IF row = None THEN {} ELSE {row.n}

\* features: one per source, found again by its market, its time and its row ids
FeatureOf(source, m, t, refs, value) ==
  [source |-> source, market |-> m, at |-> t, refs |-> refs, value |-> value]
QualityFeature(m, t) ==
  LET quality == Latest("quality", m, t)
  IN  FeatureOf("MARKET_DATA", m, t, Number(quality), Field(quality, "score"))
TrustFeature(m, t) ==
  LET verdict == Latest("verdict", m, t)
  IN  FeatureOf("RESOLUTION", m, t, Number(verdict) \cup Number(Latest("rule", m, t)),
                Field(verdict, "action"))
SameFeature(f, g) == [f EXCEPT !.value = None] = [g EXCEPT !.value = None]
Feature(new, force) ==
  LET old == {f \in features : SameFeature(f, new)}
  IN  IF force \/ old = {} THEN new ELSE CHOOSE f \in old : TRUE
\* what was built from no row has nothing that could change, and is not kept
FeaturesAfter(m, t, force) ==
  LET built == {f \in {Feature(QualityFeature(m, t), force), Feature(TrustFeature(m, t), force)} :
                  f.refs # {}}
  IN  {f \in features : \A g \in built : ~SameFeature(f, g)} \cup built

LowerSide(m, t) ==
  \E d \in AsOf("divergence", m, t) :
    d.content.status \in {"WATCH", "MATERIAL_DIVERGENCE"} /\ d.content.lower = m

MarketFeature(m, t, force) ==
  LET f == Feature(QualityFeature(m, t), force) IN [quality |-> f.value, refs |-> f.refs]
ResolutionFeature(m, t, force) ==
  LET f == Feature(TrustFeature(m, t), force) IN [trust |-> f.value, refs |-> f.refs]
IntegrityFeature(m, t) ==
  LET integrity == Latest("integrity", m, t)
  IN  [hint |-> Field(integrity, "hint"), risk |-> Field(integrity, "risk"), refs |-> Number(integrity)]
DivergenceFeature(m, t) ==
  LET divergences == AsOf("divergence", m, t)
  IN  [statuses |-> {d.content.status : d \in divergences}, lower |-> LowerSide(m, t),
       refs |-> {d.n : d \in divergences}]
PretradeFeature(m, t) ==
  LET decision == LatestDecision(m, t)
  IN  [pretrade |-> IF decision = None THEN None ELSE decision.action, refs |-> Number(decision)]
\* scenario_feature_values: all of its scores, or none at all
ScenarioValues(feature) == IF feature = None THEN None ELSE feature.artifact.payload
ScenarioFeature(m, t) ==
  LET feature == LatestFeature(m, t)
  IN  [scenario |-> ScenarioValues(feature), refs |-> Number(feature)]

\* every value the strategies read, and the ids of the rows behind them
Merged(built) ==
  [refs |-> UNION {f.refs : f \in Range(built)}]
    @@ built[1] @@ built[2] @@ built[3] @@ built[4] @@ built[5] @@ built[6]
Values(m, t, force) ==
  Merged(<<MarketFeature(m, t, force), ResolutionFeature(m, t, force), IntegrityFeature(m, t),
           DivergenceFeature(m, t), PretradeFeature(m, t), ScenarioFeature(m, t)>>)

-----------------------------------------------------------------------------
\* strategies.py: a signal's type and reasons, and the intent proposed, if any
\* default_research_strategy_definitions
Definition(family, context, paper) ==
  [family |-> family, context |-> context, pretrade |-> paper, paper |-> paper, intent |-> "RESEARCH_ONLY"]
Definitions ==
  [baseline |-> Definition("BASELINE", "RESEARCH", TRUE),
   trust |-> Definition("TRUST_VERDICT_FILTER", "RESEARCH", TRUE),
   integrity |-> Definition("INTEGRITY_FILTER", "RESEARCH", TRUE),
   divergence |-> Definition("DIVERGENCE_RESEARCH", "CROSS_VENUE_COMPARISON", TRUE),
   composite |-> Definition("COMPOSITE_RULE_BASED", "RESEARCH", TRUE),
   scenario |-> Definition("CUSTOM", "RESEARCH", FALSE)]

Signalled(type, reasons, intent) == [type |-> type, reasons |-> reasons, intent |-> intent]

TrustAllows(v) == v.trust \in {"ALLOW", "ALLOW_SMALLER_SIZE"}
TrustFilter(v) ==
  CASE TrustAllows(v) -> Signalled("FILTER_ALLOW", {"TRUST_VERDICT_ALLOWED"}, "RESEARCH_ONLY")
    [] v.trust = "PASSIVE_ONLY" -> Signalled("WATCH", {"TRUST_VERDICT_PASSIVE_ONLY"}, "PASSIVE_LIMIT")
    [] v.trust = None -> Signalled("REVIEW_ONLY", {"NO_TRUST_VERDICT"}, None)
    [] OTHER -> Signalled("FILTER_BLOCK", {"TRUST_VERDICT_BLOCKED"}, None)

IntegrityFilter(v) ==
  CASE v.hint = None -> Signalled("REVIEW_ONLY", {"MISSING_INTEGRITY_ASSESSMENT"}, None)
    [] v.hint \in {"NO_TRADE", "MANUAL_REVIEW"} ->
         Signalled("FILTER_BLOCK", {"INTEGRITY_ACTION_HINT_BLOCKED"}, None)
    [] OTHER -> Signalled(IF v.risk < 50 THEN "FILTER_ALLOW" ELSE "WATCH", {"INTEGRITY_CONTEXT_PASSED"},
                          IF v.hint = "PASSIVE_ONLY" THEN "PASSIVE_LIMIT" ELSE "RESEARCH_ONLY")

NeedsReview(v) == v.statuses \cap {"NEEDS_REVIEW", "DO_NOT_COMPARE"} # {}
DivergenceHypothesis(v) ==
  CASE NeedsReview(v) -> Signalled("REVIEW_ONLY", {"DIVERGENCE_CONTEXT_REQUIRES_REVIEW"}, None)
    [] v.statuses \cap {"WATCH", "MATERIAL_DIVERGENCE"} = {} ->
         Signalled("PASS", {"NO_RESEARCH_DIVERGENCE_CONTEXT"}, None)
    [] ~v.lower -> Signalled("REVIEW_ONLY", {"LOWER_SIDE_UNDETERMINED"}, None)
    [] OTHER -> Signalled("HYPOTHETICAL_INTENT", {"DIVERGENCE_RESEARCH_HYPOTHESIS"}, "RESEARCH_ONLY")

\* what is missing blocks nothing, but for the verdict
Blockers(v) ==
  (IF TrustAllows(v) THEN {} ELSE {"TRUST_VERDICT_NOT_ALLOWED"})
  \cup (IF v.quality # None /\ v.quality < 70 THEN {"MARKET_DATA_QUALITY_BELOW_THRESHOLD"} ELSE {})
  \cup (IF AtLeast(v.risk, 50) THEN {"INTEGRITY_RISK_ABOVE_THRESHOLD"} ELSE {})
  \cup (IF v.pretrade = "NO_TRADE" THEN {"LATEST_PRETRADE_NO_TRADE"} ELSE {})
  \cup (IF NeedsReview(v) THEN {"DIVERGENCE_CONTEXT_BLOCKED"} ELSE {})
Composite(v) ==
  IF Blockers(v) # {} THEN Signalled("REVIEW_ONLY", Blockers(v), None)
  ELSE Signalled("FILTER_ALLOW", {"COMPOSITE_CONSERVATIVE_PASSED"}, "RESEARCH_ONLY")

ScenarioRisky(payload) ==
  \E name \in {"uncertainty", "narrative", "shock", "polarization"} : AtLeast(ScoreOf(payload, name), 70)
ScenarioWatched(payload) ==
  /\ AtLeast(ScoreOf(payload, "confidence"), 55)
  /\ \A name \in {"narrative", "shock", "polarization"} : ~AtLeast(ScoreOf(payload, name), 51)
ScenarioContext(v) ==
  CASE v.scenario = None -> Signalled("REVIEW_ONLY", {"NO_SCENARIO_FEATURE"}, None)
    [] ScenarioRisky(v.scenario) -> Signalled("REVIEW_ONLY", {"SCENARIO_CONTEXT_REQUIRES_REVIEW"}, None)
    [] ScenarioWatched(v.scenario) -> Signalled("WATCH", {"SCENARIO_CONTEXT_WATCH"}, None)
    [] OTHER -> Signalled("REVIEW_ONLY", {"SCENARIO_CONTEXT_INCONCLUSIVE"}, None)

Outcome(strategy, v) ==
  CASE strategy = "baseline" -> Signalled("REVIEW_ONLY", {"BASELINE_RESEARCH_ONLY"}, "RESEARCH_ONLY")
    [] strategy = "trust" -> TrustFilter(v)
    [] strategy = "integrity" -> IntegrityFilter(v)
    [] strategy = "divergence" -> DivergenceHypothesis(v)
    [] strategy = "composite" -> Composite(v)
    [] strategy = "scenario" -> ScenarioContext(v)

-----------------------------------------------------------------------------
\* a signal's id hashes the feature values, the hash it is found by only their ids
NewSignal(strategy, m, t, v) ==
  LET o == Outcome(strategy, v)
  IN  [strategy |-> strategy, market |-> m, at |-> t, type |-> o.type, reasons |-> o.reasons,
       refs |-> v.refs, quality |-> v.quality, trust |-> v.trust]
SameSignal(s, r) ==
  [s EXCEPT !.quality = None, !.trust = None] = [r EXCEPT !.quality = None, !.trust = None]
SignalsAfter(new, force) ==
  IF ~force /\ \E s \in signals : SameSignal(s, new) THEN signals ELSE signals \cup {new}

\* a proposal is found by what it proposes: no time and no signal
NewProposal(strategy, m, t, v) ==
  [signal |-> NewSignal(strategy, m, t, v), intent |-> Outcome(strategy, v).intent]
SameContent(p, q) ==
  p.signal.market = q.signal.market /\ p.signal.reasons = q.signal.reasons /\ p.intent = q.intent
\* Faulty: a forced run too is handed what is stored.
FaultyProposed(new, force) ==
  LET old == {p \in proposals : SameContent(p, new)}
  IN  IF old = {} THEN new ELSE CHOOSE p \in old : TRUE
Proposed(new, force) ==
  LET old == {p \in proposals : SameContent(p, new)}
  IN  IF force \/ old = {} THEN new ELSE CHOOSE p \in old : TRUE

Proposes(strategy, v) == Outcome(strategy, v).intent # None

\* _generate for one strategy
Generated(new, force) == IF new.intent = None THEN {} ELSE {Proposed(new, force)}
StoreGenerated(new, m, t, force) ==
  /\ features' = FeaturesAfter(m, t, force)
  /\ signals' = SignalsAfter(new.signal, force)
  /\ proposals' = proposals \cup Generated(new, force)
Generate(strategy, m, t, force) ==
  StoreGenerated(NewProposal(strategy, m, t, Values(m, t, force)), m, t, force)

-----------------------------------------------------------------------------
\* the gate's answer to an intent, stored under what it was decided from
DecisionKey(intent, m, t, verdict) ==
  [intent |-> intent, market |-> m, at |-> t, quality |-> Field(Latest("quality", m, t), "score"),
   risk |-> verdict.content.risk,
   refs |-> VerdictInputs(m, t) \cup Number(Latest("quality", m, t)) \cup {verdict.n}]
Decided(key) == {d \in decisions : \A f \in DOMAIN key : d[f] = key[f]}
GateAnswers(key, verdict) ==
  IF Decided(key) # {} THEN {d.action : d \in Decided(key)}
  ELSE {a \in GateActions : Strictness(a) >= Strictness(verdict.content.action)}
NewDecision(key, action) ==
  key @@ [action |-> action, gen |-> stamp + 2,
          n |-> IF Decided(key) = {} THEN stamp + 2 ELSE (CHOOSE d \in Decided(key) : TRUE).n]

CheckIntent(key, verdict, action) ==
  /\ action \in GateAnswers(key, verdict)
  /\ decisions' = (decisions \ Decided(key)) \cup {NewDecision(key, action)}
  /\ stamp' = stamp + 2

\* evaluate_research_proposal: the proposal's own time, and the paper order of this run
PaperAllowed(p, paper, action) ==
  paper /\ Definitions[p.signal.strategy].paper /\ action \notin {"NO_TRADE", "MANUAL_REVIEW"}
TraceKey(t) == [proposal |-> t.proposal, decision |-> t.decision, order |-> t.order, fills |-> t.fills]
NewTrace(p, runId, action, decision, order, fills) ==
  [proposal |-> p, decision |-> decision, order |-> order, fills |-> fills, run |-> runId, action |-> action]
Point(t) == [strategy |-> t.proposal.signal.strategy, market |-> t.proposal.signal.market,
             at |-> t.proposal.signal.at]
TracesAfter(trace) == {t \in traces : TraceKey(t) # TraceKey(trace)} \cup {trace}

Judged(p, key, verdict, runId, order, action, fills) ==
  /\ CheckIntent(key, verdict, action)
  /\ rows' = WithVerdict(verdict)
  /\ fills # 0 => order # None
  /\ traces' = TracesAfter(NewTrace(p, runId, action, NewDecision(key, action).n, order, fills))
EvaluateOn(verdict, p, runId, paper, action, fills) ==
  Judged(p, DecisionKey(p, p.signal.market, p.signal.at, verdict), verdict, runId,
         IF PaperAllowed(p, paper, action) THEN runId ELSE None, action, fills)
Evaluate(p, runId, paper, action, fills) ==
  EvaluateOn(GateVerdict(p.signal.market, p.signal.at), p, runId, paper, action, fills)

-----------------------------------------------------------------------------
Idle == run = None
Window(from, to, every) == [i \in 1 .. ((to - from) \div every + 1) |-> from + (i - 1) * every]
Listed(ms, from, to) == {m \in ms : Lives[m].from <= to /\ Lives[m].to >= from}

\* times, then markets, then strategies
Grid(ms, times, strategies) ==
  LET markets == SetToSeq(ms)
      width == Len(strategies)
  IN  [i \in 1 .. (Len(times) * Len(markets) * width) |->
        [at |-> times[(i - 1) \div (Len(markets) * width) + 1],
         market |-> markets[(((i - 1) \div width) % Len(markets)) + 1],
         strategy |-> strategies[((i - 1) % width) + 1]]]

\* more than max_steps is refused before anything is stored
BeginResearch(ms, from, to, every, strategies, maxSteps, force, paper) ==
  /\ Idle /\ Len(finished) < MaxResearchCalls
  /\ from <= to
  /\ Len(Window(from, to, every)) * Cardinality(Listed(ms, from, to)) * Len(strategies) <= maxSteps
  /\ run' = [id |-> Len(finished) + 1, force |-> force, paper |-> paper,
             left |-> Grid(Listed(ms, from, to), Window(from, to, every), strategies),
             asked |-> {}, drawn |-> 0, checks |-> 0, fills |-> 0, errors |-> 0]
  /\ UNCHANGED <<rows, stamp, features, signals, proposals, decisions, traces, finished>>

Stepped(count, tooMany, asks, fills) ==
  [run EXCEPT !.left = Tail(@), !.errors = IF tooMany THEN @ + 1 ELSE @,
              !.drawn = IF tooMany THEN @ ELSE @ + count, !.checks = IF tooMany THEN @ ELSE @ + count,
              !.fills = @ + fills,
              !.asked = IF asks THEN @ \cup {Head(run.left)} ELSE @]

\* one step of the grid; over the limit its rows are stored but nothing is evaluated
Advance(answers, tooMany, asks) ==
  IF answers = {} \/ tooMany
  THEN /\ run' = Stepped(Cardinality(answers), tooMany, asks, 0)
       /\ UNCHANGED <<rows, stamp, decisions, traces>>
  ELSE \E p \in answers, action \in GateActions, fills \in {0, 1} :
         /\ run' = Stepped(Cardinality(answers), tooMany, asks, fills)
         /\ Evaluate(p, run.id, run.paper, action, fills)
StepOn(g, new) ==
  /\ StoreGenerated(new, g.market, g.at, run.force)
  /\ Advance(Generated(new, run.force),
             run.drawn + Cardinality(Generated(new, run.force)) > MaxProposals,
             Proposes(g.strategy, Values(g.market, g.at, TRUE)))
ResearchStep ==
  /\ ~Idle /\ run.left # <<>>
  /\ LET g == Head(run.left)
     IN  StepOn(g, NewProposal(g.strategy, g.market, g.at, Values(g.market, g.at, run.force)))
  /\ UNCHANGED finished

\* attribution.py: the summary and the groups are built from the traces stored for the
\* run, the counters of the run from what its steps returned
TracesOf(id) == {t \in traces : t.run = id}
FillsOf(T) == SumFunction([t \in T |-> t.fills])
ResearchSummary(T) ==
  [points |-> {Point(t) : t \in T}, steps |-> Cardinality(T),
   proposals |-> Cardinality({t.proposal : t \in T}),
   passed |-> Cardinality({t \in T : t.action \notin {"NO_TRADE", "MANUAL_REVIEW"}}),
   orders |-> Cardinality({t \in T : t.order # None}), fills |-> FillsOf(T)]
Grouped(T, field) ==
  [key \in {Point(t)[field] : t \in T} |->
     LET S == {t \in T : Point(t)[field] = key} IN [traces |-> Cardinality(S), fills |-> FillsOf(S)]]
Attribution(T) ==
  [strategies |-> Grouped(T, "strategy"), markets |-> Grouped(T, "market"),
   actions |-> [a \in {t.action : t \in T} |-> Cardinality({t \in T : t.action = a})]]
FinishResearch ==
  /\ ~Idle /\ run.left = <<>>
  /\ finished' = Append(finished,
       [id |-> run.id, force |-> run.force, asked |-> run.asked, checks |-> run.checks, fills |-> run.fills,
        summary |-> ResearchSummary(TracesOf(run.id)), attribution |-> Attribution(TracesOf(run.id)),
        status |-> IF run.errors = 0 THEN "COMPLETED" ELSE "PARTIAL"])
  /\ run' = None
  /\ UNCHANGED <<rows, stamp, features, signals, proposals, decisions, traces>>

\* calls outside runs
GenerateAlone(strategy, m, t, force) ==
  /\ Idle /\ Cardinality(signals) < MaxResearchCalls
  /\ Generate(strategy, m, t, force)
  /\ UNCHANGED <<rows, stamp, decisions, traces, run, finished>>
EvaluateAlone(p, action) ==
  /\ Idle /\ Cardinality(decisions) < MaxResearchCalls
  /\ Evaluate(p, None, FALSE, action, 0)
  /\ UNCHANGED <<features, signals, proposals, run, finished>>

\* market data computes a report again under its id
RecomputeQuality(row, content) ==
  /\ row.kind = "quality" /\ row.content # content
  /\ rows' = (rows \ {row}) \cup {[row EXCEPT !.content = content]}
  /\ UNCHANGED <<stamp, seeds, artifacts, snapshots, imports>>
\* analyze_rule_snapshot, forced: the rule's assessment is replaced under its id, by one of the
\* sources known by then
AnalyseAgain(row, risk) ==
  /\ row.kind = "rule" /\ row.content.risk # risk
  /\ rows' = (rows \ {row})
               \cup {[row EXCEPT !.content = [risk |-> risk, analyses |-> @.analyses + 1]]}
  /\ UNCHANGED <<stamp, seeds, artifacts, snapshots, imports>>

\* the shape of the rows
FeatureRow ==
  [source : {"MARKET_DATA"}, market : DOMAIN Lives, at : Times, refs : SUBSET (1 .. stamp), value : 0 .. 100]
    \cup [source : {"RESOLUTION"}, market : DOMAIN Lives, at : Times, refs : SUBSET (1 .. stamp),
          value : Range(Actions) \cup {None}]
ProposalRow == [signal : signals, intent : {"RESEARCH_ONLY", "PASSIVE_LIMIT"}]
RunIds == (1 .. MaxResearchCalls) \cup {None}
TraceRow ==
  [proposal : proposals, decision : {d.n : d \in decisions}, order : RunIds, fills : {0, 1}, run : RunIds,
   action : Range(Actions)]
GridPoint == [at : Times, market : DOMAIN Lives, strategy : Range(Strategies)]
RunRow ==
  [id : RunIds, force : BOOLEAN, paper : BOOLEAN, left : Seq(GridPoint), asked : SUBSET GridPoint,
   drawn : 0 .. MaxProposals, checks : 0 .. MaxProposals, fills : Nat, errors : Nat]
SummaryRow ==
  [points : SUBSET GridPoint, steps : Nat, proposals : Nat, passed : Nat, orders : Nat, fills : Nat]
AttributionKeys == [strategies : SUBSET Range(Strategies), markets : SUBSET DOMAIN Lives,
                    actions : SUBSET Range(Actions)]

\* a row is stored under its id; what the models demand of a signal, a proposal and a run
FeatureTable ==
  \A f, g \in features : SameFeature(f, g) => f = g
TraceTable == \A t, u \in traces : TraceKey(t) = TraceKey(u) => t = u
SignalRow(s) ==
  /\ s.strategy \in DOMAIN Definitions /\ s.market \in DOMAIN Lives /\ s.at \in Times
  /\ s.reasons # {} /\ s.refs \subseteq 1 .. stamp
  /\ s.type \in {"FILTER_ALLOW", "FILTER_BLOCK", "WATCH", "REVIEW_ONLY", "PASS", "HYPOTHETICAL_INTENT"}
Proposal(p) ==
  /\ p.intent = Definitions[p.signal.strategy].intent \/ p.intent = "PASSIVE_LIMIT"
  /\ Definitions[p.signal.strategy].pretrade
Finished(i) ==
  LET r == finished[i]
  IN  r.id = i /\ r.checks >= r.fills /\ Cardinality(r.asked) >= r.checks
SummaryCounts(s) ==
  /\ s.proposals <= s.steps /\ s.passed <= s.steps /\ s.orders <= s.passed /\ s.fills <= s.orders
AttributionCounts(report, steps) ==
  LET traced(groups) == SumFunction([g \in DOMAIN groups |-> groups[g].traces])
  IN  /\ traced(report.strategies) = steps /\ traced(report.markets) = steps
      /\ SumFunction(report.actions) = steps

ResearchInit ==
  /\ features = {} /\ signals = {} /\ proposals = {} /\ decisions = {} /\ traces = {}
  /\ run = None /\ finished = <<>>

-----------------------------------------------------------------------------
\* Rows and decisions are told apart by when they were stored, a trace is of a stored decision,
\* and a proposal is for research or rests passively.
ResearchTypeOK ==
  /\ \A r \in rows : r.at \in Times /\ r.n \in 1 .. stamp
  /\ \A r, q \in rows : r.n = q.n => r = q
  /\ \A d, e \in decisions : d.n = e.n => d = e
  /\ seeds \subseteq SeedRow /\ artifacts \subseteq ArtifactRow /\ snapshots \subseteq SnapshotRow
  /\ Range(imports) \subseteq ImportRow /\ \A r \in Range(imports) : Run(r)
  /\ \A r \in Range(imports) : r.mode = "SPEC" => SpecRow(r)
  /\ ArtifactTable /\ SnapshotTable /\ \A f \in snapshots : Snapshot(f)
  /\ FeatureTable /\ TraceTable /\ \A s \in signals : SignalRow(s)
  /\ \A p \in proposals : Proposal(p)
  /\ features \subseteq FeatureRow /\ proposals \subseteq ProposalRow /\ traces \subseteq TraceRow
  /\ run = None \/ run \in RunRow
  /\ \A i \in DOMAIN finished : Finished(i)
  /\ \A r \in Range(finished) :
       /\ r.summary \in SummaryRow /\ SummaryCounts(r.summary)
       /\ AttributionCounts(r.attribution, r.summary.steps)
       /\ [f \in DOMAIN r.attribution |-> DOMAIN r.attribution[f]] \in AttributionKeys

(* A forced run that completes has, when its summary is built, a trace for *)
(* every step of its grid at which a strategy proposed something from what *)
(* was then known, and for no other step.                                  *)
ForcedRunsCoverTheGrid ==
  \A i \in DOMAIN finished :
    finished[i].force /\ finished[i].status = "COMPLETED" => finished[i].summary.points = finished[i].asked

(* The counters of a run are of what its steps returned, its summary and   *)
(* attribution of the traces stored under it, which have no run in their   *)
(* id: the stored ones are never more, and after a forced run both agree.  *)
ReportsCountTheRun ==
  \A i \in DOMAIN finished :
    LET r == finished[i]
        groups == r.attribution.strategies
    IN  /\ r.summary.steps <= r.checks /\ r.summary.fills <= r.fills
        /\ r.force =>
             /\ r.summary.steps = r.checks /\ r.summary.passed <= r.summary.proposals
             /\ SumFunction([g \in DOMAIN groups |-> groups[g].fills]) = r.fills

(* The conservative strategy proposes nothing that the filters it combines *)
(* would stop: the trust filter proposes too, no divergence asks for a     *)
(* review, and an assessed market passes the integrity filter.             *)
CompositeNeverBeatsItsParts ==
  \A v \in {Values(m, t, TRUE) : m \in DOMAIN Lives, t \in Times} :
    Proposes("composite", v) =>
      /\ Outcome("trust", v).type = "FILTER_ALLOW"
      /\ "DIVERGENCE_CONTEXT_REQUIRES_REVIEW" \notin Outcome("divergence", v).reasons
      /\ v.hint # None => Proposes("integrity", v)

(* A signal rests only on rows of its time or earlier, whatever was stored *)
(* by then about later times.                                              *)
SignalsReadNothingLater ==
  \A s \in signals :
    /\ \A r \in rows : r.n \in s.refs => r.at <= s.at
    /\ \A d \in decisions : d.n \in s.refs => d.at <= s.at

(* The codes a feature is stored with and the scenario strategy agree on   *)
(* what needs a review, each from thresholds of its own.                   *)
FlaggedIffReviewed ==
  \A f \in snapshots :
    (RiskCodes(f.artifact.payload) # {}) = ScenarioRisky(f.artifact.payload)

\* From a seed to a report every row answers what it was asked for: imports and features of
\* their own market and time, signals of their past, runs over their whole grid.
ResearchSound ==
  /\ ResearchTypeOK /\ ForcedImportsAnswerTheRequest /\ FixtureFeaturesMatchSeeds
  /\ ForcedRunsCoverTheGrid /\ ReportsCountTheRun /\ CompositeNeverBeatsItsParts
  /\ SignalsReadNothingLater /\ FlaggedIffReviewed
=============================================================================
