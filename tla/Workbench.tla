------------------------------ MODULE Workbench ------------------------------
(***************************************************************************)
(* The desk workbench (workbench/): review priorities, the review queue,   *)
(* decision and comparison cards, status updates with their notes, and     *)
(* runs that build them all.  The rows it reads are stored by the rest of  *)
(* the desk and stay, but for quality reports, which may be recomputed.    *)
(***************************************************************************)
EXTENDS DeskBase, FiniteSets, Sequences, Functions, TLC

CONSTANTS
  DeskMarket,       \* markets
  Known,            \* those with a row in the market table
  EvidenceKinds,    \* kinds of the rows stored here
  Contents,         \* [kind -> contents such a row may have]
  GapSets,          \* sets of gaps a coverage report may find
  Statuses,         \* review statuses an operator sets
  Reviewers,        \* requests under way at once
  LastHour, MaxEvidence, MaxCoverages, MaxDeskCalls   \* bounds

Hours == 0 .. LastHour

VARIABLES
  hour,             \* the clock
  evidence,         \* rows: kind, market, available_at, content
  coverages,        \* coverage reports with their gaps, in the order of creation
  items,            \* market_review_queue_items by id
  cards,            \* market_decision_cards by input hash
  comparisons,      \* cross_venue_comparison_cards by id
  notes,            \* desk_review_notes
  reviewing,        \* [reviewer -> what a status update read and will write]
  deskRuns,         \* workbench_runs
  deskCalls         \* calls so far: the order of generated_at
workbenchVars ==
  <<hour, evidence, coverages, items, cards, comparisons, notes, reviewing, deskRuns, deskCalls>>

-----------------------------------------------------------------------------
\* scoring.py: the codes that only speak of data
DataQualityOnly ==
  {"LOW_DATA_QUALITY", "MISSING_QUALITY_REPORT", "STALE_MARKET_DATA", "MISSING_RULE_SNAPSHOT",
   "MISSING_ORDERBOOK", "MISSING_PRICE_SNAPSHOT", "MISSING_LIQUIDITY_SNAPSHOT",
   "MISSING_MARKET_DATA_QUALITY", "LOW_MARKET_DATA_QUALITY"}
OnlyDataQuality(codes) == codes # {} /\ codes \subseteq DataQualityOnly

GapBase(type) ==
  CASE type = "MISSING_RULE_SNAPSHOT" -> 12
    [] type \in {"MISSING_ORDERBOOK", "MISSING_PRICE_SNAPSHOT", "MISSING_LIQUIDITY_SNAPSHOT"} -> 15
    [] type = "MISSING_QUALITY_REPORT" -> 18
    [] type = "NORMALIZATION_ERROR" -> 20
    [] OTHER -> 8
GapPoints(gap) ==
  Greater(GapBase(gap.type),
    CASE gap.severity = "CRITICAL" -> 35 [] gap.severity = "ERROR" -> 25
      [] gap.severity = "WARNING" -> 15 [] OTHER -> 0)
GapTotal(found) == FoldFunction(+, 0, [g \in found |-> GapPoints(g.gap)])

LowQuality(context) == context.quality # None /\ context.quality.score < 50
MediumQuality(context) == context.quality # None /\ context.quality.score \in 50 .. 69

DataIntegrity(context) == context.integrity # None /\ OnlyDataQuality(context.integrity.codes)
HardIntegrity(context) ==
  /\ context.integrity # None /\ ~DataIntegrity(context)
  /\ \/ context.integrity.hint = "NO_TRADE" \/ context.integrity.severity = "CRITICAL"
     \/ context.integrity.risk >= 90
SoftIntegrity(context) ==
  /\ context.integrity # None /\ ~HardIntegrity(context)
  /\ \/ context.integrity.hint \in {"NO_TRADE", "MANUAL_REVIEW"}
     \/ context.integrity.severity = "ERROR" \/ context.integrity.risk >= 70
WarnedIntegrity(context) ==
  /\ context.integrity # None /\ ~HardIntegrity(context) /\ ~SoftIntegrity(context)
  /\ context.integrity.risk >= 50

\* what one divergence assessment asks for
DivergenceReason(d) ==
  IF d.status = "DO_NOT_COMPARE" \/ d.hint = "DO_NOT_COMPARE" THEN "DIVERGENCE_DO_NOT_COMPARE"
  ELSE IF d.status = "NEEDS_REVIEW" \/ d.hint = "MANUAL_REVIEW" THEN "DIVERGENCE_NEEDS_REVIEW"
  ELSE IF d.status = "MATERIAL_DIVERGENCE" \/ d.score >= 70 THEN "DIVERGENCE_MATERIAL"
  ELSE IF d.status = "WATCH" THEN "DIVERGENCE_REVIEW" ELSE None
DivergenceReasons(context) == {DivergenceReason(d) : d \in context.divergences} \ {None}

\* a no-trade whose blockers are not only an integrity hint that sparse data explains
HardPretrade(context) ==
  /\ context.pretrade # None /\ context.pretrade.action = "NO_TRADE"
  /\ context.pretrade.blockers # {}
  /\ context.pretrade.blockers \subseteq {"INTEGRITY_ACTION_HINT_NO_TRADE"} => ~DataIntegrity(context)
PretradeReasons(context) ==
  IF context.pretrade = None THEN {}
  ELSE CASE context.pretrade.action = "NO_TRADE" -> {"PRETRADE_BLOCKED"}
         [] context.pretrade.action = "MANUAL_REVIEW" -> {"PRETRADE_MANUAL_REVIEW"}
         [] context.pretrade.action \in {"PASSIVE_ONLY", "ALLOW_SMALLER_SIZE"} -> {"PRETRADE_CONSTRAINED"}
         [] OTHER -> {}

ReviewSignals(context) ==
  {s \in context.signals :
     \/ s.content.type \in {"HYPOTHETICAL_INTENT", "FILTER_BLOCK", "REVIEW_ONLY", "WATCH"}
     \/ s.content.bias \in {"BLOCK", "REVIEW_ONLY"}}
RiskyScenario(context) ==
  context.scenario # None /\ \E score \in context.scenario : score >= 70

\* _component keeps the most points of a component's occurrences
MostPoints(S) == IF S = {} THEN 0 ELSE CHOOSE p \in S : \A q \in S : p >= q
Components(context) ==
  [data_gaps |-> Lesser(GapTotal(context.gaps), 35),
   data_quality |-> IF context.quality = None THEN 20
                    ELSE IF LowQuality(context) THEN 30 ELSE IF MediumQuality(context) THEN 12 ELSE 0,
   integrity |-> IF HardIntegrity(context) THEN 85
                 ELSE IF SoftIntegrity(context) THEN (IF DataIntegrity(context) THEN 65 ELSE 70)
                 ELSE IF WarnedIntegrity(context) THEN 30 ELSE 0,
   divergence |-> MostPoints({CASE r = "DIVERGENCE_DO_NOT_COMPARE" -> 85 [] r = "DIVERGENCE_REVIEW" -> 35
                                [] OTHER -> 70 : r \in DivergenceReasons(context)}),
   pretrade |-> MostPoints({CASE r = "PRETRADE_BLOCKED" -> IF HardPretrade(context) THEN 90 ELSE 75
                              [] r = "PRETRADE_MANUAL_REVIEW" -> 70 [] OTHER -> 35 : r \in PretradeReasons(context)}),
   research |-> Lesser(18 * Cardinality(ReviewSignals(context)), 35),
   scenario |-> IF RiskyScenario(context) THEN 15 ELSE 0]

ContextReasons(context) ==
  {g.gap.type : g \in context.gaps}
  \cup (IF context.quality = None THEN {"MISSING_QUALITY_REPORT"}
        ELSE IF LowQuality(context) THEN {"LOW_DATA_QUALITY"}
        ELSE IF MediumQuality(context) THEN {"MEDIUM_DATA_QUALITY"} ELSE {})
  \cup (IF HardIntegrity(context) \/ SoftIntegrity(context) THEN {"INTEGRITY_HIGH_RISK"}
        ELSE IF WarnedIntegrity(context) THEN {"INTEGRITY_REVIEW"} ELSE {})
  \cup DivergenceReasons(context) \cup PretradeReasons(context)
  \cup (IF ReviewSignals(context) # {} THEN {"RESEARCH_SIGNAL_REVIEW"} ELSE {})
  \cup (IF RiskyScenario(context) THEN {"SCENARIO_CONTEXT_REVIEW"} ELSE {})

HardEscalators(context) ==
  (IF HardIntegrity(context) THEN {"INTEGRITY_HIGH_RISK"} ELSE {})
  \cup (DivergenceReasons(context) \cap {"DIVERGENCE_DO_NOT_COMPARE"})
  \cup (IF HardPretrade(context) THEN {"PRETRADE_HARD_BLOCK"} ELSE {})

Inactive(context) == context.pretrade = None /\ context.signals = {} /\ context.divergences = {}
Dampeners(context, reasons) ==
  (IF \E g \in context.gaps : g.gap.emptyRule THEN {"PUBLIC_DETAIL_RULE_TEXT_EMPTY"} ELSE {})
  \cup (IF SoftIntegrity(context) /\ DataIntegrity(context)
        THEN {"INTEGRITY_FROM_DATA_QUALITY_ONLY"} ELSE {})
  \cup (IF (context.quality = None \/ LowQuality(context)) /\ Inactive(context)
        THEN {"NO_ACTIVE_REVIEW_CONTEXT"} ELSE {})
  \cup (IF OnlyDataQuality(reasons) THEN {"DATA_GAP_ONLY_CONTEXT"} ELSE {})
  \cup (IF reasons = {"STALE_MARKET_DATA"} THEN {"STALE_ONLY_CONTEXT"} ELSE {})
Dampening(context) == Lesser(20, 5 * Cardinality(Dampeners(context, ContextReasons(context))))

\* only a hard escalator makes an item critical
Dampened(total, context) == Greater(0, total - Dampening(context))
Capped(score, context) ==
  IF HardEscalators(context) # {} THEN Greater(score, 85) ELSE Lesser(score, 84)
Priority(context) ==
  Capped(Dampened(Lesser(FoldFunction(+, 0, Components(context)), 100), context), context)

ShownReasons(reasons, context) ==
  IF reasons = {} THEN {"NO_REVIEW_SIGNAL"}
  ELSE reasons \cup (IF Priority(context) < 20 THEN {"WATCH_MARKET"} ELSE {})
ReasonCodes(context) == ShownReasons(ContextReasons(context), context)

RecommendedAction(codes) ==
  CASE codes \cap {"PRETRADE_BLOCKED", "PRETRADE_MANUAL_REVIEW"} # {} -> "REVIEW_PRETRADE_BLOCK"
    [] codes \cap {"DIVERGENCE_REVIEW", "DIVERGENCE_MATERIAL", "DIVERGENCE_NEEDS_REVIEW",
                   "DIVERGENCE_DO_NOT_COMPARE"} # {} -> "REVIEW_DIVERGENCE"
    [] codes \cap {"INTEGRITY_REVIEW", "INTEGRITY_HIGH_RISK"} # {} -> "REVIEW_INTEGRITY"
    [] codes \cap ((DataQualityOnly \ {"MISSING_QUALITY_REPORT", "MISSING_MARKET_DATA_QUALITY",
                                       "LOW_MARKET_DATA_QUALITY"})) # {} -> "REVIEW_DATA_GAP"
    [] codes \cap {"RESEARCH_SIGNAL_REVIEW", "RESEARCH_PRETRADE_BLOCKED"} # {} -> "REVIEW_RESEARCH_SIGNAL"
    [] "NO_RULE_SNAPSHOT" \in codes -> "REVIEW_CONTRACT"
    [] "WATCH_MARKET" \in codes -> "WATCH_ONLY"
    [] OTHER -> "NO_ACTION"

-----------------------------------------------------------------------------
\* the rows of a market as of t; a divergence names both its markets
About(row, m) == IF row.kind \in {"divergence", "equivalence"} THEN m \in row.market ELSE m = row.market
Rows(kind, m, t) == {row \in evidence : row.kind = kind /\ About(row, m) /\ row.at <= t}
NewestContent(kind, m, t) ==
  LET rows == Rows(kind, m, t)
  IN  IF rows = {} THEN None
      ELSE (CHOOSE row \in rows : \A other \in rows : other.at <= row.at).content
NewestRow(kind, m, t) ==
  LET rows == Rows(kind, m, t) IN {row \in rows : \A other \in rows : other.at <= row.at}
\* a recomputed quality report keeps its id
RowId(row) == IF row.kind = "quality" THEN [row EXCEPT !.content = None] ELSE row

\* evidence.py: the last report created among those as of t or before; only a report of
\* another single market is passed over
FaultyApplicable(m, t) == {i \in DOMAIN coverages : coverages[i].asof <= t}
Applicable(m, t) ==
  LET fits == {i \in DOMAIN coverages : coverages[i].asof <= t /\ coverages[i].market \in {None, m}}
  IN  {i \in fits : \A j \in fits : j <= i}
GapsOf(m, t) ==
  UNION {{[report |-> i, gap |-> g] : g \in {x \in coverages[i].gaps : x.market = m}} :
           i \in Applicable(m, t)}

\* divergences are not reduced to the newest one of each pair
ContextOf(m, t) ==
  [quality |-> NewestContent("quality", m, t), integrity |-> NewestContent("integrity", m, t),
   divergences |-> {row.content : row \in Rows("divergence", m, t)},
   pretrade |-> NewestContent("pretrade", m, t),
   signals |-> Rows("signal", m, t), gaps |-> GapsOf(m, t),
   scenario |-> NewestContent("scenario", m, t)]

\* the ids an item rests on: a scenario is not among them, a card names it
ItemRefs(m, t) ==
  UNION {{RowId(row) : row \in NewestRow(kind, m, t)} : kind \in {"quality", "integrity", "pretrade"}}
  \cup UNION {{RowId(row) : row \in Rows(kind, m, t)} : kind \in {"equivalence", "divergence", "signal"}}
  \cup GapsOf(m, t)
CardRefs(m, t) == ItemRefs(m, t) \cup NewestRow("scenario", m, t)

ItemKey(m, t) ==
  [market |-> m, asof |-> t, codes |-> ReasonCodes(ContextOf(m, t)), refs |-> ItemRefs(m, t)]
NewItem(context) ==
  [score |-> Priority(context), escalators |-> HardEscalators(context),
   status |-> "NEW", history |-> <<>>, generated |-> deskCalls]
CardKey(m, t) == [market |-> m, asof |-> t, refs |-> CardRefs(m, t)]
Card(context, codes) ==
  [score |-> Priority(context), codes |-> codes, action |-> RecommendedAction(codes)]
NewCard(context) == Card(context, ReasonCodes(context))

\* an existing row is returned as it is unless the build is forced; a forced one replaces it
Built(table, keys, force) == {key \in keys : key \notin DOMAIN table \/ force}
QueueAfter(ms, t, force) ==
  [k \in Built(items, {ItemKey(m, t) : m \in ms}, force) |-> NewItem(ContextOf(k.market, t))] @@ items
CardsAfter(ms, t, force) ==
  [k \in Built(cards, {CardKey(m, t) : m \in ms \cap Known}, force) |->
     NewCard(ContextOf(k.market, t))] @@ cards

\* a comparison card of an equivalence row: its divergence, and an action that never looks
\* at the permission, whose value is compared with a word it cannot have
LatestDivergence(row, t) ==
  LET rows == {d \in evidence : d.kind = "divergence" /\ d.market = row.market /\ d.at <= t}
  IN  {d \in rows : \A other \in rows : other.at <= d.at}
ComparisonKey(row, t) == [equivalence |-> row, divergence |-> LatestDivergence(row, t), asof |-> t]
NewComparison(row, t) ==
  [markets |-> row.market,
   action |-> RecommendedAction(IF LatestDivergence(row, t) # {} THEN {"DIVERGENCE_REVIEW"}
                                ELSE {"DIVERGENCE_NEEDS_REVIEW"})]
ComparisonsAfter(rows, t, force) ==
  [k \in Built(comparisons, {ComparisonKey(row, t) : row \in rows}, force) |->
     NewComparison(k.equivalence, t)] @@ comparisons

-----------------------------------------------------------------------------
DeskCall == deskCalls < MaxDeskCalls /\ deskCalls' = deskCalls + 1

BuildQueue(ms, t, force) ==
  /\ DeskCall
  /\ items' = QueueAfter(ms, t, force)
  /\ UNCHANGED <<hour, evidence, coverages, cards, comparisons, notes, reviewing, deskRuns>>

BuildDecisionCard(m, t, force) ==
  /\ m \in Known
  /\ DeskCall
  /\ cards' = CardsAfter({m}, t, force)
  /\ UNCHANGED <<hour, evidence, coverages, items, comparisons, notes, reviewing, deskRuns>>

BuildComparisonCard(row, t, force) ==
  /\ row.kind = "equivalence" /\ row.at <= t
  /\ DeskCall
  /\ comparisons' = ComparisonsAfter({row}, t, force)
  /\ UNCHANGED <<hour, evidence, coverages, items, cards, notes, reviewing, deskRuns>>

\* update_queue_item_status: the item is read, and with its note written back at the commit;
\* another request may commit in between
BeginReview(r, key, status, noted) ==
  /\ reviewing[r] = None
  /\ DeskCall
  /\ reviewing' = [reviewing EXCEPT ![r] =
       [key |-> key, item |-> items[key], entry |-> [status |-> status, note |-> IF noted THEN deskCalls ELSE None]]]
  /\ UNCHANGED <<hour, evidence, coverages, items, cards, comparisons, notes, deskRuns>>
CommitReview(r) ==
  /\ reviewing[r] # None
  /\ LET review == reviewing[r]
     IN  /\ items' = [items EXCEPT ![review.key] =
              [review.item EXCEPT !.status = review.entry.status,
                                  !.history = Append(review.item.history, review.entry)]]
         /\ notes' = IF review.entry.note = None THEN notes
                     ELSE notes \cup {[id |-> review.entry.note, item |-> review.key, status |-> review.entry.status]}
  /\ reviewing' = [reviewing EXCEPT ![r] = None]
  /\ UNCHANGED <<hour, evidence, coverages, cards, comparisons, deskRuns, deskCalls>>

PairRows(ms, t) ==
  {row \in evidence : row.kind = "equivalence" /\ row.market \cap ms # {} /\ row.at <= t}

\* priority_bucket
Bucket(score) ==
  CASE score >= 85 -> "CRITICAL" [] score >= 70 -> "HIGH" [] score >= 45 -> "MEDIUM"
    [] score >= 20 -> "LOW" [] OTHER -> "INFO"
CountBy(table, keys, Field(_)) ==
  [v \in {Field(table[k]) : k \in keys} |-> Cardinality({k \in keys : Field(table[k]) = v})]

\* _summary_for_run: counts the rows a build answered with, which may be of an earlier run
RunSummary(ms, queue, built, pairs) ==
  [items |-> Cardinality(queue), cards |-> Cardinality(built), comparisons |-> Cardinality(pairs),
   buckets |-> CountBy(items', queue, LAMBDA item : Bucket(item.score)),
   actions |-> CountBy(cards', built, LAMBDA card : card.action),
   reasons |-> [code \in UNION {k.codes : k \in queue} |-> Cardinality({k \in queue : code \in k.codes})],
   markets |-> Cardinality(ms)]

\* run_workbench: the queue, the cards and the comparison cards of the run's markets; a
\* market without a row counts as an error of its card and has an item all the same
RunWorkbench(ms, t, force, queue, withCards, compare) ==
  LET errors == IF withCards THEN Cardinality(ms \ Known) ELSE 0
  IN  /\ DeskCall
      /\ items' = IF queue THEN QueueAfter(ms, t, force) ELSE items
      /\ cards' = IF withCards THEN CardsAfter(ms, t, force) ELSE cards
      /\ comparisons' = IF compare THEN ComparisonsAfter(PairRows(ms, t), t, force) ELSE comparisons
      /\ deskRuns' = deskRuns \cup
           {[id |-> deskCalls, markets |-> ms, asof |-> t, errors |-> errors,
             status |-> IF errors > 0 THEN "PARTIAL" ELSE "COMPLETED",
             queues |-> IF queue THEN Cardinality(ms) ELSE 0,
             cards |-> IF withCards THEN Cardinality(ms \cap Known) ELSE 0,
             summary |-> RunSummary(ms, IF queue THEN {ItemKey(m, t) : m \in ms} ELSE {},
                                    IF withCards THEN {CardKey(m, t) : m \in ms \cap Known} ELSE {},
                                    IF compare THEN {ComparisonKey(row, t) : row \in PairRows(ms, t)}
                                    ELSE {})]}
      /\ UNCHANGED <<hour, evidence, coverages, notes, reviewing>>

\* the rest of the desk stores a row or recomputes a quality report
StoreEvidence(kind, m, content) ==
  /\ Cardinality(evidence) < MaxEvidence
  /\ kind \in {"quality", "integrity", "pretrade", "scenario"} =>
       ~\E row \in Rows(kind, m, hour) : row.at = hour
  /\ evidence' = evidence \cup {[kind |-> kind, market |-> m, at |-> hour, content |-> content]}
  /\ UNCHANGED <<hour, coverages, items, cards, comparisons, notes, reviewing, deskRuns, deskCalls>>
RecomputeQuality(row, content) ==
  /\ row.kind = "quality" /\ content # row.content
  /\ evidence' = (evidence \ {row}) \cup {[row EXCEPT !.content = content]}
  /\ UNCHANGED <<hour, coverages, items, cards, comparisons, notes, reviewing, deskRuns, deskCalls>>
ReportCoverage(market, covers, t, gaps) ==
  /\ Len(coverages) < MaxCoverages
  /\ coverages' = Append(coverages, [market |-> market, covers |-> covers, asof |-> t,
                                     gaps |-> {g \in gaps : g.market \in covers}])
  /\ UNCHANGED <<hour, evidence, items, cards, comparisons, notes, reviewing, deskRuns, deskCalls>>
DeskTick ==
  /\ hour < LastHour /\ hour' = hour + 1
  /\ UNCHANGED <<evidence, coverages, items, cards, comparisons, notes, reviewing, deskRuns, deskCalls>>

\* list_latest_market_review_queue_items: the item of each market generated last, and of
\* those the ones still open
LatestItem(m) ==
  LET own == {k \in DOMAIN items : k.market = m}
  IN  {k \in own : \A other \in own : items[other].generated <= items[k].generated}
Closed == {"RESOLVED", "DISMISSED"}
ActiveQueue == {k \in UNION {LatestItem(m) : m \in DeskMarket} : items[k].status \notin Closed}

ScoredAtLeast(ks, points) == {k \in ks : items[k].score >= points}
\* summarize_queue: what the active queue holds, by bucket and reason
QueueSummary ==
  [total |-> Cardinality(ActiveQueue), critical |-> Cardinality(ScoredAtLeast(ActiveQueue, 85)),
   high |-> Cardinality(ScoredAtLeast(ActiveQueue, 70) \ ScoredAtLeast(ActiveQueue, 85)),
   reasons |-> UNION {k.codes : k \in ActiveQueue},
   escalators |-> UNION {items[k].escalators : k \in ActiveQueue}]
\* the gaps of the report created last; when it has none, those detected last, and whatever
\* else ended when they did
StatusGaps ==
  LET found == {i \in DOMAIN coverages : coverages[i].gaps # {}}
      newest == {i \in found : \A j \in found : j <= i}
      of(reports) == UNION {{[report |-> i, gap |-> g] : g \in coverages[i].gaps} : i \in reports}
  IN  IF Len(coverages) \in found THEN of({Len(coverages)})
      ELSE of({i \in found : \E n \in newest : coverages[i].asof = coverages[n].asof})
\* get_status: counts what is open itself, from the newest item of every market
DeskStatus ==
  LET latest == UNION {LatestItem(m) : m \in DeskMarket}
      active == {k \in latest : items[k].status \notin Closed}
  IN  [active |-> Cardinality(active), reviewed |-> [s \in {items[k].status : k \in latest} |->
         Cardinality({k \in latest : items[k].status = s})],
       critical |-> Cardinality(ScoredAtLeast(active, 85)),
       high |-> Cardinality(ScoredAtLeast(active, 70) \ ScoredAtLeast(active, 85)),
       reasons |-> UNION {k.codes : k \in active},
       escalators |-> UNION {items[k].escalators : k \in active}, gaps |-> StatusGaps]

WorkbenchInit ==
  /\ hour = 0 /\ evidence = {} /\ coverages = <<>> /\ items = <<>> /\ cards = <<>>
  /\ comparisons = <<>> /\ notes = {} /\ reviewing = [r \in Reviewers |-> None]
  /\ deskRuns = {} /\ deskCalls = 0

-----------------------------------------------------------------------------
MarketTimes == {<<m, t>> : m \in DeskMarket, t \in 0 .. hour}
ContextsNow == {ContextOf(x[1], x[2]) : x \in MarketTimes}

\* the rows as the models declare them
Actions == {"REVIEW_PRETRADE_BLOCK", "REVIEW_DIVERGENCE", "REVIEW_INTEGRITY", "REVIEW_DATA_GAP",
            "REVIEW_RESEARCH_SIGNAL", "REVIEW_CONTRACT", "WATCH_ONLY", "NO_ACTION"}
ItemRow(k) ==
  LET item == items[k]
  IN  /\ k.market \in DeskMarket /\ k.asof \in Hours /\ k.codes # {}
      /\ item.score \in 0 .. 100 /\ item.status \in Statuses \cup {"NEW"}
      /\ item.escalators # {} => Bucket(item.score) = "CRITICAL"
CardRow(k) ==
  LET card == cards[k]
  IN  /\ k.market \in Known /\ k.asof \in Hours /\ card.score \in 0 .. 100
      /\ card.action \in Actions /\ card.action = RecommendedAction(card.codes)
ComparisonRow(k) ==
  /\ comparisons[k].markets = k.equivalence.market /\ comparisons[k].action \in Actions
  /\ \A d \in k.divergence : d.market = k.equivalence.market
NoteRow(note) ==
  /\ note.item \in DOMAIN items /\ note.status \in Statuses
  /\ \A other \in notes : other.id = note.id => other = note
DeskRunRow(run) ==
  /\ run.errors + run.cards \in {0, Cardinality(run.markets)}
  /\ run.status = IF run.errors > 0 THEN "PARTIAL" ELSE "COMPLETED"
RunSummaryRow(run) ==
  LET total(counts) == FoldFunction(+, 0, counts)
  IN  /\ run.summary.items = run.queues /\ run.summary.cards = run.cards
      /\ total(run.summary.buckets) = run.summary.items
      /\ total(run.summary.actions) = run.summary.cards
      /\ \A code \in DOMAIN run.summary.reasons : run.summary.reasons[code] \in 1 .. run.summary.items
QueueSummaryRow(summary) ==
  /\ summary.total \in 0 .. Cardinality(DOMAIN items)
  /\ summary.critical + summary.high <= summary.total
  /\ summary.escalators # {} => summary.critical > 0
StatusRow(status) ==
  /\ status.active <= FoldFunction(+, 0, status.reviewed)
  /\ status.critical + status.high <= status.active
  /\ \A g \in status.gaps : g.report \in DOMAIN coverages /\ g.gap \in coverages[g.report].gaps

\* Rows keep their shape; a row's status is the one its last review wrote.
WorkbenchTypeOK ==
  /\ hour \in Hours /\ deskCalls \in 0 .. MaxDeskCalls
  /\ \A row \in evidence : row.kind \in EvidenceKinds /\ row.at \in Hours
  /\ \A k \in DOMAIN items :
       /\ ItemRow(k)
       /\ items[k].status = IF items[k].history = <<>> THEN "NEW"
                            ELSE items[k].history[Len(items[k].history)].status
  /\ \A k \in DOMAIN cards : CardRow(k)
  /\ \A k \in DOMAIN comparisons : ComparisonRow(k)
  /\ \A run \in deskRuns : DeskRunRow(run) /\ RunSummaryRow(run)
  /\ \A note \in notes : NoteRow(note)
  /\ QueueSummaryRow(QueueSummary) /\ StatusRow(DeskStatus)

\* Sparse data, however much of it is missing, never makes a market critical: that takes a
\* pair that must not be compared, an integrity finding about more than data, or a
\* no-trade with a blocker of its own (scoring.py:399, docs/desk_workbench.md:122).
CriticalMeansBlocked ==
  \A c \in ContextsNow :
    Priority(c) >= 85 =>
      \/ \E d \in c.divergences : "DO_NOT_COMPARE" \in {d.status, d.hint}
      \/ c.integrity # None /\ ~(c.integrity.codes \subseteq DataQualityOnly)
      \/ c.integrity # None /\ c.integrity.codes = {}
      \/ /\ c.pretrade # None /\ c.pretrade.action = "NO_TRADE" /\ c.pretrade.blockers # {}
         /\ c.integrity = None \/ c.pretrade.blockers # {"INTEGRITY_ACTION_HINT_NO_TRADE"}

\* What must be reviewed by hand reaches HIGH whatever else is known: no dampener, alone or
\* with others, takes off more than the rows it comes with have added (scoring.py:395).
ReviewsReachHigh ==
  \A c \in ContextsNow :
    \/ c.pretrade # None /\ c.pretrade.action \in {"NO_TRADE", "MANUAL_REVIEW"}
    \/ \E d \in c.divergences : d.status \in {"NEEDS_REVIEW", "MATERIAL_DIVERGENCE"}
    => Priority(c) >= 70

\* the context with less in it
Fewer(c) ==
  {[c EXCEPT !.pretrade = None], [c EXCEPT !.scenario = None]}
  \cup {[c EXCEPT !.divergences = @ \ {d}] : d \in c.divergences}
  \cup {[c EXCEPT !.signals = @ \ {s}] : s \in c.signals}
  \cup {[c EXCEPT !.gaps = @ \ {g}] : g \in {y \in c.gaps : ~y.gap.emptyRule}}

\* A further decision, divergence, signal, scenario or gap never lowers a market's
\* priority, unless the gap says that the venue publishes no rule text (scoring.py:134).
MoreContextNeverSofter ==
  \A c \in ContextsNow : \A less \in Fewer(c) : Priority(less) <= Priority(c)

\* A critical market sends the operator to what made it critical, never to a data gap, a
\* signal or nothing (scoring.py:64).
CriticalIsActionable ==
  \A c \in ContextsNow :
    Priority(c) >= 85 =>
      RecommendedAction(ReasonCodes(c)) \in
        {"REVIEW_PRETRADE_BLOCK", "REVIEW_DIVERGENCE", "REVIEW_INTEGRITY"}

\* The item the queue returns for a market carries the score of what is stored now: its
\* id holds enough that a row found again is not stale, although it names neither the
\* score nor the scenario, and a quality report may be rewritten under its id
\* (queues.py:116).
ItemScoresAreTheirs ==
  \A k \in {ItemKey(x[1], x[2]) : x \in MarketTimes} \cap DOMAIN items :
    /\ items[k].score = Priority(ContextOf(k.market, k.asof))
    /\ items[k].escalators = HardEscalators(ContextOf(k.market, k.asof))

\* No gap counts for a market once a later report that covers it is there (evidence.py:19).
ClosedGapsStayClosed ==
  \A x \in MarketTimes : \A g \in GapsOf(x[1], x[2]) :
    ~\E j \in DOMAIN coverages :
       j > g.report /\ coverages[j].asof <= x[2] /\ x[1] \in coverages[j].covers

\* A queue that is built again without force, alone or by a run, takes no review back
\* (queues.py:128).
UnforcedBuildsKeepReviews ==
  [][(/\ deskCalls' # deskCalls /\ items' # items
      /\ \E t \in 0 .. hour, ms \in SUBSET DeskMarket :
           BuildQueue(ms, t, FALSE) \/ RunWorkbench(ms, t, FALSE, TRUE, TRUE, TRUE)) =>
       \A k \in DOMAIN items : k \in DOMAIN items' /\ items'[k] = items[k]]_workbenchVars

\* The daily status and the queue summary count the same open items, although each leaves the
\* closed ones out by itself: an item that was closed does not uncover an older one of its
\* market, and no market is counted twice (service.py:322, repositories.py:3427).
SummaryAgreesWithStatus ==
  /\ QueueSummary.total = DeskStatus.active
  /\ QueueSummary.critical = DeskStatus.critical /\ QueueSummary.high = DeskStatus.high
  /\ QueueSummary.reasons = DeskStatus.reasons /\ QueueSummary.escalators = DeskStatus.escalators
  /\ FoldFunction(+, 0, DeskStatus.reviewed) = Cardinality({k.market : k \in DOMAIN items})

\* The queue shows what the evidence asks for: the bucket follows from blockers, reviews and
\* points, an item carries the evidence of its own time, both summaries count it once, and no
\* review is taken back.
WorkbenchSound ==
  /\ [](/\ WorkbenchTypeOK /\ CriticalMeansBlocked /\ ReviewsReachHigh /\ MoreContextNeverSofter
        /\ CriticalIsActionable /\ ItemScoresAreTheirs /\ ClosedGapsStayClosed
        /\ SummaryAgreesWithStatus)
  /\ UnforcedBuildsKeepReviews
=============================================================================
