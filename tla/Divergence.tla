----------------------------- MODULE Divergence -----------------------------
(***************************************************************************)
(* Cross-venue divergence (divergence/): the aligned snapshot of a pair as *)
(* of a timestamp, its signals, their aggregation and the storage by       *)
(* content hash.  Prices are ticks of a cent; what market data, integrity  *)
(* and equivalence have stored is external: parts of a reading of a market *)
(* and a row of a pair, each available from its own moment, whenever it    *)
(* arrives.  Signal rows are not kept: nothing reads them back.            *)
(***************************************************************************)
EXTENDS DeskBase, FiniteSets, SequencesExt

CONSTANTS
  Readings,           \* what is known of a market: price, liquidity, quality, risk
  PairRows,           \* equivalence assessments: id, left, right, permission, relation
  AlarmWindow,        \* persistence_lookback_seconds
  MinPersistence,     \* persistence_min_count
  PreviousLimit,      \* limit of the earlier assessments read: 1000
  LastMoment,         \* bound: the moments rows and analyses are of
  MaxReadings,        \* bound: readings and pair rows
  MaxComparisons      \* bound: analyses

\* a value, and a price in ticks when there is one
Ticks == Int \cup {None}
\* rows as their models declare them: what is compared with a threshold is a number
ReadingRow(r) ==
  /\ r.price # None => \A name \in {"price", "mid", "bid", "ask", "spread"} : r.price[name] \in Ticks
  /\ r.liquidity # None =>
       \A name \in {"mid", "bid", "ask", "spread", "depth"} : r.liquidity[name] \in Ticks
  /\ r.quality # None => r.quality.score \in Ticks /\ r.quality.stale \in BOOLEAN
  /\ r.risk \in Ticks
ASSUME ReadingsAssumption == \A r \in Readings : ReadingRow(r)
ASSUME DivergenceAssumption ==
  /\ None \notin Int \cup {"left", "right", "both"} /\ AlarmWindow \in Nat
  /\ MinPersistence \in Nat \ {0} /\ LastMoment \in Nat

VARIABLES
  dvReadings,         \* market, at, the parts stored together
  dvPairs,            \* pair rows: at, row
  dvSnapshots,        \* cross_venue_divergence_snapshots
  dvAssessments,      \* cross_venue_divergence_assessments
  dvAnswers,          \* what the last call answered
  dvAlarms,           \* history: every alarm an analysis raised
  comparisons         \* analyses so far
divergenceVars ==
  <<dvReadings, dvPairs, dvSnapshots, dvAssessments, dvAnswers, dvAlarms, comparisons>>

-----------------------------------------------------------------------------
Moments == 1 .. LastMoment
Sides == {row.left : row \in PairRows} \cup {row.right : row \in PairRows}
PartNames == {"price", "liquidity", "quality", "risk"}

\* get_latest_price_snapshot_asof and its likes: each part has its own newest row
PartAsOf(m, name, t) ==
  LET rows == {r \in dvReadings : r.market = m /\ r.at <= t /\ r.reading[name] # None}
  IN  IF rows = {} THEN None ELSE NewestOf(rows).reading[name]
ReadingAsOf(m, t) ==
  [price |-> PartAsOf(m, "price", t), liquidity |-> PartAsOf(m, "liquidity", t),
   quality |-> PartAsOf(m, "quality", t), risk |-> PartAsOf(m, "risk", t)]

Part(row, name) == IF row = None THEN None ELSE row[name]
Either(x, y) == IF x # None THEN x ELSE y
Apart(x, y) == IF x = None \/ y = None THEN None ELSE x - y
Size(x) == IF x = None THEN None ELSE Greater(x, -x)
Reaches(x, bound) == x # None /\ x >= bound
Under(x, bound) == x # None /\ x < bound

\* `or`: a price of zero is taken for a missing one
LastPrice(r) ==
  IF Part(r.price, "price") \in {None, 0} THEN Part(r.price, "mid") ELSE r.price.price
\* a quote of the price row, else of the liquidity row
Quote(r, name) == Either(Part(r.price, name), Part(r.liquidity, name))
MidPrice(r) == Either(Quote(r, "mid"), LastPrice(r))

Aligned(x, relation) ==
  IF x = None \/ relation \notin {"SAME", "INVERSE"} THEN None
  ELSE IF relation = "SAME" THEN x ELSE 100 - x

FaultyAlignedQuotes(bid, ask, relation) == [bid |-> Aligned(bid, relation), ask |-> Aligned(ask, relation)]

\* the complement's bid is what is left of the ask
AlignedQuotes(bid, ask, relation) ==
  IF relation = "INVERSE" THEN [bid |-> Aligned(ask, relation), ask |-> Aligned(bid, relation)]
  ELSE [bid |-> Aligned(bid, relation), ask |-> Aligned(ask, relation)]

IsStale(r) == r.quality # None /\ r.quality.stale
OneSided(r) == r.liquidity # None /\ (r.liquidity.bid = None \/ r.liquidity.ask = None)

Weakness(r) ==
  LET score == Part(r.quality, "score")
      points(condition, n) == IF condition THEN n ELSE 0
      none == r.liquidity # None /\ r.liquidity.bid = None /\ r.liquidity.ask = None
  IN  (IF score = None THEN 20 ELSE points(score < 40, 40) + points(score \in 40 .. 69, 20))
        + points(Reaches(r.risk, 70), 30)
        + (IF r.liquidity = None THEN 20
           ELSE IF none THEN 35
           ELSE IF OneSided(r) THEN 25
           ELSE points(Reaches(r.liquidity.spread, 10), 15))
        + points(Part(r.liquidity, "depth") = 0, 10)

SideOf(left, right) ==
  IF left /\ right THEN "both" ELSE IF left THEN "left" ELSE IF right THEN "right" ELSE None

WeakerSide(a, b) == IF a = 0 /\ b = 0 THEN None ELSE SideOf(a >= b, b >= a)

-----------------------------------------------------------------------------
(* build_divergence_snapshot: the values and flags its output hash covers. *)
Shallow(depths) == None \notin depths /\ \E d \in depths : d <= 1
BothOf(x, y) == IF None \in {x, y} THEN None ELSE x + y
SnapshotBetween(l, r, row, midGap, combined) ==
  [permission |-> row.permission, midGap |-> midGap,
   priceGap |-> Apart(LastPrice(l), Aligned(LastPrice(r), row.relation)),
   reference |-> MidPrice(l), combined |-> combined,
   \* twice the spread-adjusted gap
   adjusted |-> IF combined = None \/ midGap = None THEN None
                ELSE Greater(0, 2 * Size(midGap) - combined),
   noPrice |-> LastPrice(l) = None \/ Aligned(LastPrice(r), row.relation) = None,
   noLiquidity |-> l.liquidity = None \/ r.liquidity = None,
   shallow |-> Shallow({Part(l.liquidity, "depth"), Part(r.liquidity, "depth")}),
   stale |-> SideOf(IsStale(l), IsStale(r)), weaker |-> WeakerSide(Weakness(l), Weakness(r)),
   qualities |-> <<Part(l.quality, "score"), Part(r.quality, "score")>>,
   risky |-> Reaches(l.risk, 70) \/ Reaches(r.risk, 70),
   wide |-> Reaches(Quote(l, "spread"), 10) \/ Reaches(Quote(r, "spread"), 10),
   oneSided |-> OneSided(l) \/ OneSided(r)]
SnapshotWith(l, r, row) ==
  SnapshotBetween(l, r, row, Apart(MidPrice(l), Aligned(MidPrice(r), row.relation)),
                  BothOf(Quote(l, "spread"), Quote(r, "spread")))
\* what an analysis reads of the two markets
BasisOf(row, t) == [left |-> ReadingAsOf(row.left, t), right |-> ReadingAsOf(row.right, t)]
SnapshotIn(basis, row) == SnapshotWith(basis.left, basis.right, row)
SnapshotOf(row, t) == SnapshotIn(BasisOf(row, t), row)

Qualities(s) == ToSet(s.qualities) \ {None}
LowQuality(s) == \E q \in Qualities(s) : q < 70
MayCompare(s) == s.permission \in {"COMPARABLE", "COMPARABLE_WITH_HAIRCUT"}

\* the part of a snapshot its id is made of: the gap in basis points stands for the reference
SnapshotId(s) ==
  [s EXCEPT !.qualities = LowQuality(s), !.shallow = FALSE,
            !.reference = IF s.midGap = None \/ s.reference = 0 THEN None
                          ELSE IF s.midGap = 0 THEN 0 ELSE s.reference]

-----------------------------------------------------------------------------
(* generate_divergence_signals, with the default thresholds.               *)
SeverityOrder == [INFO |-> 0, WARNING |-> 1, ERROR |-> 2, CRITICAL |-> 3]
ActionOrder == [NONE |-> 0, WATCH |-> 1, RESEARCH |-> 2, MANUAL_REVIEW |-> 3, DO_NOT_COMPARE |-> 4]

SignalOf(reason, severity, score, hint) ==
  [reason |-> reason, severity |-> severity, score |-> score, hint |-> hint]
IfSo(condition, signal) == IF condition THEN {signal} ELSE {}
\* an error when severe, else a warning
Graded(reason, severe, high, low, hint) ==
  SignalOf(reason, IF severe THEN "ERROR" ELSE "WARNING", IF severe THEN high ELSE low, hint)

PriceGap(gap) ==
  IF gap >= 10 THEN SignalOf("EQUIVALENT_PRICE_GAP", "CRITICAL", 95, "MANUAL_REVIEW")
  ELSE IF gap >= 5 THEN SignalOf("EQUIVALENT_PRICE_GAP", "ERROR", 80, "RESEARCH")
  ELSE SignalOf("EQUIVALENT_PRICE_GAP", "WARNING", 55, "WATCH")

OwnSignals(s) ==
  LET gap == Reaches(Size(s.midGap), 3)
  IN  IfSo(s.permission = "MANUAL_REVIEW",
           Graded("MANUAL_REVIEW_EQUIVALENCE_CONTEXT", s.noPrice \/ s.risky, 70, 50, "MANUAL_REVIEW"))
      \cup IfSo(gap /\ MayCompare(s), PriceGap(Size(s.midGap)))
      \cup IfSo(Reaches(s.adjusted, 4),
                Graded("SPREAD_ADJUSTED_DIVERGENCE", Reaches(s.adjusted, 8), 80, 60,
                       IF Reaches(s.adjusted, 8) THEN "MANUAL_REVIEW" ELSE "RESEARCH"))
      \cup IfSo(gap /\ s.stale # None,
                SignalOf("STALE_SIDE_DIVERGENCE", "ERROR", 75, "MANUAL_REVIEW"))
      \cup IfSo(gap /\ (s.wide \/ s.oneSided \/ s.noLiquidity \/ s.shallow),
                Graded("LOW_LIQUIDITY_DIVERGENCE", s.oneSided \/ s.noLiquidity, 80, 60,
                       "MANUAL_REVIEW"))
      \cup IfSo(gap /\ LowQuality(s),
                Graded("LOW_DATA_QUALITY_DIVERGENCE", \E q \in Qualities(s) : q < 40, 80, 60,
                       "MANUAL_REVIEW"))
      \cup IfSo(gap /\ s.risky,
                SignalOf("HIGH_INTEGRITY_RISK_DIVERGENCE", "ERROR", 80, "MANUAL_REVIEW"))
      \cup IfSo(gap /\ s.permission = "COMPARABLE_WITH_HAIRCUT",
                SignalOf("COMPARABLE_WITH_HAIRCUT_DIVERGENCE", "WARNING", 55, "RESEARCH"))

PersistenceSignals(n) ==
  IfSo(n >= MinPersistence,
       Graded("PERSISTENT_DIVERGENCE", n >= 2 * MinPersistence, 80, 60, "RESEARCH"))

PairSignals(s, persistent) ==
  IF s.permission = "DO_NOT_COMPARE"
  THEN {SignalOf("DO_NOT_COMPARE_CONTEXT", "CRITICAL", 100, "DO_NOT_COMPARE")}
  ELSE OwnSignals(s) \cup PersistenceSignals(persistent)

-----------------------------------------------------------------------------
(* aggregate_divergence_signals.                                           *)
\* the greatest of what a selector gives of the signals, by an order
Strictest(values, order, least) ==
  IF values = {} THEN least ELSE CHOOSE v \in values : \A w \in values : order[w] <= order[v]

DivergenceStatus(s, signals) ==
  IF s.permission = "DO_NOT_COMPARE" THEN "DO_NOT_COMPARE"
  ELSE IF s.permission = "MANUAL_REVIEW" \/ s.stale # None \/ LowQuality(s) \/ s.risky
  THEN "NEEDS_REVIEW"
  ELSE IF \E g \in signals : g.reason \in {"EQUIVALENT_PRICE_GAP", "SPREAD_ADJUSTED_DIVERGENCE"}
                             /\ g.score >= 75 /\ MayCompare(s)
  THEN "MATERIAL_DIVERGENCE"
  ELSE IF signals # {} /\ MayCompare(s) THEN "WATCH" ELSE "NO_DIVERGENCE"

\* what the output hash, and so the id of an assessment, covers
Summary(status, signals) ==
  LET atLeast(value) == IF status = "NEEDS_REVIEW" THEN {value} ELSE {}
  IN  [status |-> status, reasons |-> {g.reason : g \in signals},
       score |-> IF status = "DO_NOT_COMPARE" THEN 100
                 ELSE Strictest({g.score : g \in signals}, [n \in 0 .. 100 |-> n], 0),
       severity |-> Strictest({g.severity : g \in signals} \cup atLeast("ERROR"), SeverityOrder, "INFO"),
       hint |-> Strictest({g.hint : g \in signals} \cup atLeast("MANUAL_REVIEW"), ActionOrder, "NONE")]
Aggregated(s, signals) == Summary(DivergenceStatus(s, signals), signals)

Alarming == {"WATCH", "MATERIAL_DIVERGENCE"}

\* list_divergence_assessments: the newest of a market, whatever the time asked about
Recent(rows, m) ==
  LET about == {a \in rows : m \in {a.row.left, a.row.right}}
      first == CHOOSE some \in SUBSET about :
                 /\ Cardinality(some) = Lesser(PreviousLimit, Cardinality(about))
                 /\ \A a \in some, b \in about \ some : b.at <= a.at
  IN  about \cap first

\* earlier alarms of the pair within the lookback, by another snapshot
Persistence(rows, row, t, id) ==
  Cardinality({a \in Recent(rows, row.left) :
                 /\ {a.row.left, a.row.right} = {row.left, row.right}
                 /\ a.found.status \in Alarming
                 /\ a.at < t /\ a.at >= t - AlarmWindow /\ a.snapshot # id})

Analysed(s, rows, row, t) == Aggregated(s, PairSignals(s, Persistence(rows, row, t, SnapshotId(s))))

-----------------------------------------------------------------------------
\* merge: a row takes the place of those of its id
Replace(rows, same, row) == (rows \ same) \cup {row}

AlarmsOf(mine) ==
  IF mine.found.status \notin Alarming THEN {}
  ELSE {[markets |-> {mine.row.left, mine.row.right}, at |-> mine.at,
         own |-> OwnSignals(SnapshotIn(mine.basis, mine.row)) # {}]}

\* analyze_equivalence_divergence: a snapshot takes the row of its id, an equal assessment
\* of any pair is answered again unless the call is forced
Keep(tables, mine, force) ==
  LET same == {a \in tables.assessments : a.found = mine.found}
      snapshot == [id |-> mine.snapshot, row |-> mine.row, at |-> mine.at, basis |-> mine.basis]
  IN  \* the inputs of a stored snapshot are its row, its moment and what it read
      [snapshots |-> IF snapshot \in tables.snapshots /\ ~force THEN tables.snapshots
                     ELSE Replace(tables.snapshots, {s \in tables.snapshots : s.id = snapshot.id},
                                  snapshot),
       assessments |-> IF same # {} /\ ~force THEN tables.assessments
                       ELSE Replace(tables.assessments, same, mine),
       alarms |-> tables.alarms \cup AlarmsOf(mine),
       answers |-> tables.answers \cup (IF same # {} /\ ~force THEN same ELSE {mine})]

\* an assessment keeps what it read, and since when its pair's row was there
Assessed(snapshot, basis, tables, p, t, force) ==
  Keep(tables, [found |-> Analysed(snapshot, tables.assessments, p.row, t), row |-> p.row, at |-> t,
                known |-> p.at, basis |-> basis, snapshot |-> SnapshotId(snapshot)], force)
Compared(tables, p, t, force) ==
  Assessed(SnapshotOf(p.row, t), BasisOf(p.row, t), tables, p, t, force)

DivergenceTables ==
  [snapshots |-> dvSnapshots, assessments |-> dvAssessments, alarms |-> dvAlarms, answers |-> {}]

Store(tables) ==
  /\ dvSnapshots' = tables.snapshots
  /\ dvAssessments' = tables.assessments
  /\ dvAlarms' = tables.alarms
  /\ dvAnswers' = tables.answers

\* the tables after each row of a list
Compare(rows, t, force) ==
  LET after[i \in 0 .. Len(rows)] ==
        IF i = 0 THEN DivergenceTables ELSE Compared(after[i - 1], rows[i], t, force)
  IN  /\ comparisons < MaxComparisons
      /\ comparisons' = comparisons + 1
      /\ Store(after[Len(rows)])
      /\ UNCHANGED <<dvReadings, dvPairs>>

Available(t) == {p \in dvPairs : p.at <= t}

ComparePair(p, t, force) == p \in Available(t) /\ Compare(<<p>>, t, force)

\* the pairs in the order of their rows, the newest first
CompareNewestFirst(pairs, t, force) ==
  \E order \in SetToSeqs(pairs) :
    /\ \A i, j \in DOMAIN order : i < j => order[i].at >= order[j].at
    /\ Compare(order, t, force)
RowsAbout(markets, t) == {p \in Available(t) : {p.row.left, p.row.right} \cap markets # {}}

\* analyze_market_divergence: every row of a market, the newest first
CompareMarket(m, t, force) == CompareNewestFirst(RowsAbout({m}, t), t, force)

\* analyze_divergence_for_equivalence_run: every row of the markets the run was asked for, once,
\* by id, a hash and so in any order; when there is none, every row, the newest first
CompareRun(markets, t, force) ==
  LET own == RowsAbout(markets, t)
  IN  \/ own # {} /\ \E order \in SetToSeqs(own) : Compare(order, t, force)
      \/ own = {} /\ CompareNewestFirst(Available(t), t, force)

Record == UNCHANGED <<dvSnapshots, dvAssessments, dvAnswers, dvAlarms, comparisons>>
RoomFor(old) == Cardinality(dvReadings) + Cardinality(dvPairs \ old) < MaxReadings

\* market data and integrity store parts of a reading, of the moment they are about: one
\* that passed, when history is backfilled or a report derived belatedly
Read(m, reading, at) ==
  /\ Record /\ RoomFor({})
  /\ \A r \in dvReadings : r.market = m /\ r.at = at =>
       \A name \in PartNames : None \in {r.reading[name], reading[name]}
  /\ dvReadings' = dvReadings \cup {[market |-> m, at |-> at, reading |-> reading]}
  /\ UNCHANGED dvPairs

\* equivalence stores an assessment; a forced one takes the row of its id, with its moment and
\* its markets
Relate(row, at) ==
  LET same == {p \in dvPairs : p.row.id = row.id}
      new == [at |-> at, row |-> row]
  IN  /\ Record /\ RoomFor(same)
      /\ new \notin dvPairs
      /\ dvPairs' = Replace(dvPairs, same, new)
      /\ UNCHANGED dvReadings

DivergenceInit ==
  /\ dvReadings = {} /\ dvPairs = {} /\ dvSnapshots = {} /\ dvAssessments = {}
  /\ dvAnswers = {} /\ dvAlarms = {} /\ comparisons = 0

DivergenceNext ==
  \/ \E m \in Sides, reading \in Readings, at \in Moments : Read(m, reading, at)
  \/ \E row \in PairRows, at \in Moments : Relate(row, at)
  \/ \E p \in dvPairs, t \in Moments, force \in BOOLEAN : ComparePair(p, t, force)
  \/ \E m \in Sides, t \in Moments, force \in BOOLEAN : CompareMarket(m, t, force)
  \/ \E ms \in SUBSET Sides, t \in Moments, force \in BOOLEAN : CompareRun(ms, t, force)

DivergenceSpec == DivergenceInit /\ [][DivergenceNext]_divergenceVars

-----------------------------------------------------------------------------
\* the rows as the models declare them: a snapshot's flags are of its gaps and its sides
SnapshotRow(s) ==
  LET v == s.id
  IN  /\ {v.midGap, v.priceGap, v.reference, v.combined, v.adjusted} \subseteq Ticks
      /\ v.adjusted # None =>
           /\ v.combined # None /\ v.midGap # None /\ v.adjusted >= 0
           /\ v.combined >= 0 => v.adjusted <= 2 * Size(v.midGap)
      /\ {v.stale, v.weaker} \subseteq {None, "left", "right", "both"}
      /\ {v.noPrice, v.noLiquidity, v.risky, v.wide, v.oneSided, v.qualities} \subseteq BOOLEAN
      /\ v.permission = s.row.permission
SignalRow(g) ==
  /\ g.severity \in DOMAIN SeverityOrder /\ g.score \in 0 .. 100 /\ g.hint \in DOMAIN ActionOrder
AssessmentRow(a) ==
  /\ a.found.status \in Alarming \cup {"DO_NOT_COMPARE", "NEEDS_REVIEW", "NO_DIVERGENCE"}
  /\ a.found.severity \in DOMAIN SeverityOrder /\ a.found.hint \in DOMAIN ActionOrder
  /\ a.found.score \in 0 .. 100 /\ \E s \in dvSnapshots : s.id = a.snapshot

\* Ids are unique, and an assessment is of a row that was stored for a moment by its timestamp.
DivergenceTypeOK ==
  /\ \A s \in dvSnapshots : SnapshotRow(s)
  /\ \A p \in dvPairs : \A g \in PairSignals(SnapshotOf(p.row, LastMoment), MinPersistence) : SignalRow(g)
  /\ \A s, q \in dvSnapshots : s.id = q.id => s = q
  /\ \A a, b \in dvAssessments : a.found = b.found => a = b
  /\ \A a \in dvAssessments : AssessmentRow(a) /\ a.at \in Moments /\ a.known <= a.at

\* Comparing a pair from the other side finds the same: the gap, its signals and the
\* assessment, for an inverse mapping as for an equal one (pricing.py:15).
Agree(s, q) ==
  /\ Size(s.midGap) = Size(q.midGap) /\ s.adjusted = q.adjusted
  /\ Aggregated(s, PairSignals(s, 0)) = Aggregated(q, PairSignals(q, 0))

MirroredRow(row) ==
  [id |-> row.id, left |-> row.right, right |-> row.left, permission |-> row.permission,
   relation |-> row.relation]
MirroredPairsAgree ==
  \A p \in dvPairs : Agree(SnapshotOf(p.row, LastMoment), SnapshotOf(MirroredRow(p.row), LastMoment))

\* The aligned quotes of a side are a market's: its bid is above its ask only if it was so
\* in the book, on an inverse mapping too (pricing.py:28).
AlignedQuotesStayOrdered ==
  \A p \in dvPairs :
    LET r == ReadingAsOf(p.row.right, LastMoment)
        own == [bid |-> Quote(r, "bid"), ask |-> Quote(r, "ask")]
        quotes == AlignedQuotes(own.bid, own.ask, p.row.relation)
    IN  quotes.bid # None /\ quotes.ask # None /\ own.bid <= own.ask => quotes.bid <= quotes.ask

\* A pair is only watched or called divergent when comparison was allowed and both sides
\* were fresh, of good quality and without integrity risk in what the analysis read, whatever
\* has arrived or moved since and whosever row it took (aggregation.py:143).
AlarmsHaveCleanContext ==
  \A a \in dvAssessments : a.found.status \in Alarming =>
    /\ a.row.permission \in {"COMPARABLE", "COMPARABLE_WITH_HAIRCUT"}
    /\ \A r \in {a.basis.left, a.basis.right} :
         ~IsStale(r) /\ ~Under(Part(r.quality, "score"), 70) /\ ~Reaches(r.risk, 70)

\* While nothing arrived late for its timestamp, analysing a stored pair again finds the
\* reasons it has, but for persistence, which depends on the rows there are (service.py:113).
UnchangedReadingsRepeat ==
  \A a \in dvAssessments : BasisOf(a.row, a.at) = a.basis =>
    LET again == Analysed(SnapshotOf(a.row, a.at), {}, a.row, a.at)
    IN  again.reasons \ {"PERSISTENT_DIVERGENCE"} = a.found.reasons \ {"PERSISTENT_DIVERGENCE"}

\* A persistent divergence was there before: an analysis of the pair raised an alarm for a
\* moment within the lookback, and one for an earlier moment had a signal of its own, for an
\* alarm that only persistence raised counts as well (signals.py:300, 320).
EarlierAlarms(row, t) == {e \in dvAlarms : e.markets = {row.left, row.right} /\ e.at < t}
PersistenceIsEarned ==
  \A a \in dvAssessments : "PERSISTENT_DIVERGENCE" \in a.found.reasons =>
    /\ \E e \in EarlierAlarms(a.row, a.at) : e.at >= a.at - AlarmWindow
    /\ \E e \in EarlierAlarms(a.row, a.at) : e.own

\* A divergence is the pair's own: the same from either side, on quotes that stay ordered when
\* they are turned round, with an alarm only in a clean context and persistence only if earned.
DivergenceSound ==
  /\ DivergenceTypeOK /\ MirroredPairsAgree /\ AlignedQuotesStayOrdered /\ AlarmsHaveCleanContext
  /\ UnchangedReadingsRepeat /\ PersistenceIsEarned
=============================================================================
