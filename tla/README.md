# A verification project for Prediction Desk

Prediction Desk (`src/`) is a Python service that collects public prediction-market data, scores
how far a market can be trusted, decides before a hypothetical trade whether and how much of it is
allowed (the pre-trade gate), and simulates execution on paper: orders, fills, a ledger, positions
and portfolios. Nothing is ever sent to a venue. This directory holds TLA+ models of it, the TLC
runs that check them and the proofs that TLAPS checks.

`PROJECT.json` lists components, runs, mutants, findings, hazards and theorems, and maps every
definition to the source lines it stands for. File names below are relative to
`src/src/prediction_desk/` unless they start with `docs/`.

## 1. The system

| Component | State it keeps | Operations | What makes it correct | Modelled by |
|---|---|---|---|---|
| paper execution (`paper/`) | orders, fills, ledger entries, position and portfolio snapshots, policies | simulate one intent: gate, order, walk over the book, fills, ledger, position, portfolio | long only unless a policy allows shorts; positions, ledger, fills and equity tell one story; a call is all or nothing | `PaperExecution` |
| paper runner (`paper/runner.py`) | runs with a summary | a plan of intents, one after the other | counters and cash describe what the run stored; a run that raised leaves nothing | `PaperRun` |
| pre-trade gate (`pretrade/gate.py`) | the locals of one evaluation | decide an intent as of a timestamp | the decision is the most restrictive one any input asks for, within every cap | `PreTradeGate`, `GatePromise` |
| pre-trade service and runner | intents, input snapshots, decisions, restrictions, exposures, policies, runs | check, save, run over markets | one decision per set of inputs; restrictions always block; a repeated check repeats | `GateService` |
| tables as of a time (`persistence/`), verdict cache | rules, books, analyses, verdicts | ingest, replay, evaluate, recompute | as-of reads see nothing later; a stored verdict is reused only for what it was built from | `PointInTime` |
| ingestion (`ingestion/`) | payloads, runs, errors, cursors, mappings, markets | collect, archive, normalise, store | a failing payload loses only itself; a run is atomic; rows belong to the market they name | `Collection`, `Normalizers`, `PointInTime` |
| data operations (`dataops/`) | universes, plans, runs, backfill jobs and segments, coverage reports, gaps | build, collect, backfill, report | segments cover the range; counters and statuses are those of the segments; report and gaps agree unless something moved between their two walks | `Backfill`, `Collection`, `Coverage` |
| market data (`marketdata/`) | price, liquidity and quality rows | derive rows from a book, now or later; report quality | a report rests on rows of its past; what arrives late or is backfilled only completes that past | `MarketData` |
| integrity (`integrity/`) | assessments | features, signals, aggregation | worse data never soften an assessment | `Integrity` |
| resolution corpus, trust verdict (`resolution/`, `scoring/`) | rule snapshots, analyses, differences, verdicts | parse, assess, compare, score | the readings of one text agree; a verdict keeps the strictest input | `Resolution` |
| equivalence (`equivalence/`) | assessments, mappings, classes | compare a pair, scan, build classes | a permission to compare rests on terms that agreed when it was given; sides do not matter | `Equivalence` |
| divergence (`divergence/`) | snapshots, assessments | align two markets' quotes, signal, aggregate | mirrored pairs agree; an alarm is about comparable, fresh data | `Divergence` |
| scans (`*/runner.py`) | runs | analyse markets or pairs by id, table or grid | nothing from the future, nothing twice, nothing missing | `Scans` |
| workbench (`workbench/`) | queue items, cards, notes, runs | score, build, review, summarise | more evidence never lowers a priority; reviews are kept; summaries agree | `Workbench` |
| scenario, research, replay | seeds, artifacts, features, signals, proposals, traces, steps, runs | import, propose, evaluate, attribute, replay | no lookahead; reports count the run; same inputs, same action until a rule is analysed again | `Evidence`, `Scenario`, `Research`, `Replay` |
| vendor data (`vendor_data/`) | samples, inspections, validations, dry runs, reports | read a local file, evaluate it | limits are kept; a promising sample would create rows | `VendorData` |
| API, CLI, configuration, examples, migrations | none | one service call per request, in one session scope | the transaction boundary | not modelled |

How they interact.  A request handler opens a session scope, builds a repository over it and calls
one service; services call one another through the repository in the same transaction.  An intent
enters paper execution, which asks the gate for a decision (`paper/service.py:59`); the gate reads
the newest rule, book, verdict, quality, integrity, equivalence, divergence, exposure and
restriction rows as of the intent's timestamp; paper execution turns the decision into an order,
walks the captured book, and writes rows that the next intent reads as its previous position.
Replay and research ask the gate and the paper book for past timestamps.  Ingestion, market data
and the assessments run independently and only share tables, which is why most modules stand
alone: what another component stores is, for them, a row that appears at any time.

What is hard.  Calls interleave at the database (the deployment uses PostgreSQL with its default
READ COMMITTED isolation, the tests one SQLite connection); a caller may retry, backdate or reuse a
timestamp; an exception rolls a whole call or run back; ids are hashes of content, so storing the
same content again moves or replaces a row; rows arrive late for the time they carry; answers are
cached under keys that leave inputs out; listings are limited before they are filtered; decisions
pass through stages that partly assign and partly escalate; scores round.  The hazards, each with
its line and the properties aimed at it, are in `PROJECT.json`.

## 2. The modules

Every component has a module with its state as variables, one action per operation, and its
properties at the end. `MC...` modules give constants their values; where one holds several
components, a variable `part` chosen at the start makes a behaviour that of one of them.
`...Proofs` modules hold the theorems.  Operators named `Faulty...` (and `SkippedFillsAfter`,
`MergedFillsAfter`) are faulty forms of the operator that follows them.  No specification uses them;
each is a plausible slip in the code that a property must notice, and `PROJECT.json` says which.

| Root | Modules under it |
|---|---|
| `MCPaper` | `PaperExecution` |
| `MCTrading` | `GateService` (over `Evidence`), `PaperRun` (over `PaperExecution`) |
| `MCGate` | `PreTradeGate` (over `GateInputs`), refining `GatePromise` |
| `MCPointInTime` | `PointInTime` |
| `MCDataOps` | `Backfill`, `Collection`, `Coverage`, `VendorData`, `Normalizers` |
| `MCAssessments` | `Integrity` (over `MarketData`), `Resolution`, `Equivalence`, `Divergence` |
| `MCDesk` | `Workbench`, `Scans` |
| `MCResearch` | `Replay` over `Research` over `Scenario` over `Evidence` |
| proofs | `DeskLemmas` (shared facts), `PaperExecutionProofs`, `TradingProofs` (paper runs, the pre-trade service), `PreTradeGateProofs`, `PointInTimeProofs`, `DataOpsProofs` (backfill and coverage), `CollectionProofs`, `AssessmentsProofs` (market data, integrity, the resolution corpus, divergence, equivalence) |

`DeskBase` holds the absent value, the score clamp and the rounding every component shares.

Conventions of all modules.  An id in the code is a hash of content, so a row's id is the content
that is hashed, and `session.merge` is a set that replaces the row of the same id; where ids are
compared (a tie-break, an order of listing) the order is an arbitrary constant or an arbitrary
choice.  A call runs in one transaction: it is one action unless what others do in between matters;
then it is several actions over a private copy of the tables that are published at the end.  A call
that raises changes nothing and is no action, unless what is left behind is the question.  Scores
are integers and round as the code rounds.  Texts are sets of the phrases the code looks for.

### PaperExecution and the code

A session is a request handler. Its steps are those of `simulate_trade_intent`:

| Action | Code |
|---|---|
| `RejectIntent`, `RestOrder`, `StartWalk` | the gate's decision, `_order_from_pretrade`, the early returns of `simulate_order_fill`, the read of the book, of the mark and of the previous position |
| `FillLevel` | one iteration over the candidate levels: fill, ledger entries and position |
| `FinishWalk` | the order's status, the partial-fill rule and the position row |
| `SavePortfolio` | `compute_portfolio_snapshot` over what the transaction sees |
| `Commit` / `Abort` | `session_scope`: all rows appear together, or none |
| `CaptureBook`, `DeriveQuote`, `SavePolicy` | market data and policies that arrive while calls run |

The tie-break of the as-of reads uses `digest`, an injective rank per timestamp that is chosen when
a row is computed.  A book is a set of levels. Money is an integer: prices are ticks; cost, fee and
profit are ticks times `Scale`, chosen so that the divisions of the average cost come out even in
the sequential instance.  The gate's answer is any decision its contract (`GateContract`) allows;
`DecisionContract` is checked and proved of the gate model.  The reads of one call before its walk
are one step: a write that commits between two of them is equivalent to a write before or after
both, except for the previous position, whose race is in the model because the write happens at
`Commit`.  Bounds: `MaxAttempts` (submissions of one intent), `HashRanks` (ranks of ids).
`MonotoneCallers` restricts callers to increasing timestamps, `ExclusiveWriter` allows one open
transaction: they separate what holds for a careful caller from what holds for every caller.

`PaperRun` drives the session `runner` through a plan in its written order.  `BeginRun` opens a run
and remembers the rows it found (`before`), `RunSubmit`, `RunProceed` and `RunFlush` are the steps
of the current item, `RunError` an item that raises and is counted, `FinishRun` the summary, and
`FailRun` the exception that rolls everything back, the FAILED row included (`paper/runner.py:201`).

### PreTradeGate, GatePromise and the code

The variables are the locals of `_build_decision` (`action`, `maxAllowed`, `blockers`, the final
size) and a `stage`. Each stage is one block of the function; the loop of `apply_restrictions` is
one action per rule in any order, because it sorts by `restriction_id`, a random uuid.  Scores,
sizes and ages are integers; reason codes and warnings that no stage reads are left out.
`GatePromise` is the same evaluation in one step that speaks of all inputs at once, and
`GateService` takes its decision for the checks it stores: `CheckIntent` reads what is known as of
the intent (status and restrictions as they are now), stores the input snapshot, and unless forced
answers the decision stored for an equal one (`pretrade/gate.py:186`); `RunChecks` is the runner.

### PointInTime and the code

| Action | Code |
|---|---|
| `Fetch`, `Tick` | a venue adapter stamps a response with the time; the clock |
| `Ingest` | `_upsert_normalized`: the rule unless the newest has its hash, the book always, then the optional analysis and verdict |
| `Assess` | an integrity or cross-venue assessment as of a timestamp, available from it, computed at any later time |
| `ReplayStep` | the reads of `_run_step`, and `_trust_verdict_asof`, which reuses the stored verdict only when `_verdict_matches_inputs` |
| `EvaluateGate` | the same reads in the gate, whose `_trust_verdict_asof` reuses any stored verdict of exactly its timestamp |
| `RecomputeTrustVerdict` | the endpoint, with reads that have no timestamp for the rule and the book |

One market.  `at[x]` is the timestamp a row carries: storing the same content again moves it.  A row
is named by its id, and the properties of this module compare ids.  In the code a forced analysis
replaces the assessment of a rule under its id, with the sources known by then
(`resolution/service.py:51`, `resolution/ambiguity.py:340`).  That is invisible to ids and
so not here; it is in `Resolution` (`AnalyzeRule`), in `Equivalence` (`AnalyzeAgain`) and in
`Research` and `Replay` (`AnalyseAgain`), whose properties speak of contents.  `OneAtATime` (a payload is stored before the next is
captured) and `Recurs` (a market may return to an earlier text or book) are the two conditions on
which the past stays readable.  The code enforces neither: a collection run fetches many payloads
and stores them afterwards, fixture files carry dates of their own, and a quiet market returns the
same book twice.

### Data operations and ingestion

| Module | State and actions |
|---|---|
| `Backfill` | jobs with their plan; `CreateBackfillJob` splits the range into `Windows` per market and endpoint, cut at `max_segments`; `RunBackfillJob` runs every segment that is due with any answer of the venue per segment (points, none, a failure), archives, stores prices and recounts. |
| `Collection` | `StartCollection`, then per venue and endpoint `Collect...` under what is left of the payload limit, `Ingest...` with errors per payload, cursors; `Abort` between any two steps; `db` is the session's view, `committed` everybody else's. |
| `Coverage` | A cycle walks its scope twice, market by market: `BeginCycle`, `VisitForReport`, `SaveReport`, `VisitForGaps`, `SaveGaps`. Between any two of these steps others store rows, also with an earlier time (`StoreFact`), a rule recurs (`RecurRule`), a universe is built as of any time (`BuildMarketUniverse`), a market closes or opens (`ChangeStatus`). |
| `Normalizers` | payloads of both venues: listings, books (legacy cents and dollars, one-sided and synthetic), price histories, token mappings, and the follow-up that adds identifiers to a payload. |
| `VendorData` | a file that may be edited while samples of it are inspected, validated, dry-run and evaluated. |

### Assessments

| Module | State and actions |
|---|---|
| `MarketData` | `CaptureBook` and `CaptureHistory` store rows of any moment up to now (a late payload, a backfill: rows carry the time of the point or of its payload), rows are derived at once or later (`DeriveMarketData`), a rule that returns moves (`IngestCatalog`), and `ComputeQuality` reports on any past time, again if asked. |
| `Integrity` | `Analyze` reads the newest rows and the previous ones within the lookback, builds the feature, triggers the signals and aggregates them; an answer is shared by equal output hashes (`integrity/models.py:268`) unless forced. |
| `Resolution` | `CaptureRule`, `LearnSource`, `AnalyzeRule`, `DiffLatestTwo`, `RecomputeVerdict`. The parser, the thirty ambiguity codes with their points and nine dimensions, the risk scorer and the verdict are operators over the same text. A rule carries the phrases a line breaks in (`wrapped`): patterns that want single spaces miss these (`Words`), those over `\s+` do not. Analyses are forced or not, so one made with fewer sources may stand. |
| `Equivalence` | `AssessPair` and `Scan` over twelve dimensions, the hard flags, storage by content hash, and the classes. Listings change (`UpdateContract`), rules arrive late or recur and move (`CaptureTerms`), a rule is analysed again with a source learnt since (`AnalyzeAgain`). A row remembers what it was made from (`basis`, a history variable). |
| `Divergence` | `ComparePair`, `CompareMarket` and `CompareRun`: the aligned snapshot, its signals with persistence over the lookback among the newest `PreviousLimit` rows, the aggregate. `Read` stores price, liquidity, quality and integrity parts separately, of any moment, in any order; `Relate` stores or moves the equivalence row of a pair. An assessment remembers what it read (`basis`) and `dvAlarms` every alarm ever raised: both are history. |

### Desk, research and replay

`Workbench` holds the scoring of a market from everything known about it, the review queue with
merges, cards, and status updates of two operators whose read and write are separate steps
(`workbench/queues.py:126`).  `Scans` models the run-once runners: a scan fixes its list
when it begins and commits at the end, while other sessions store and move rows. A list of pairs is a
list of ids: the service reads each row again (`divergence/service.py:121`) and raises for one that
was moved past the scan (`:124`), which is an error of the run (`Analysable`).  `Evidence` is the
common store of rows read as of a time with any order of ids; `Scenario` adds seeds, artifacts and import runs,
`Research` features, signals, proposals, gate decisions, traces, runs over a grid and their reports,
`Replay` the seven replay policies and their runs.  `RecomputeQuality` and `AnalyseAgain` replace the
content of a row in place between the calls.

## 3. What is checked

| Run | Properties | What is varied, and its bounds |
|---|---|---|
| `PaperSequential` | `LedgerBacksPositions`, `OrdersBackedByFills`, `EquityBalances`, `FillsHadABook` | one caller that moves forward: two buys and two sales at four timestamps, two books of up to two levels a side, one derived price, fees, any rollback. Enough for open, add, reduce, close, reopen, partial fill and a mark above and below cost |
| `PaperConcurrent` | `SnapshotsLongOnly`, `RowsCommitTogether` | two callers, a buy and a sale of one timestamp, two attempts each, a thin book and a later one with an empty level, four id ranks |
| `PaperBranches` | `TypeOK`, `OrderSizesAgree` | five intents of all sides and types, five decisions, four policies that change while calls run: every early return |
| `Gate` | `TypeOK`, `DecisionContract`, `BlockersBlock`, `KeepsPromise` | 16 intent and policy pairs over three groups of contexts (sizes and exposure; verdict, quality and integrity; cross-venue), each with values below, at and above its limit, up to two restrictions |
| `VerdictsInOrder` | `VerdictsSeeNoFuture`, `PastIsFixed`, `ReplayRepeats` | two timestamps, two rules, two books, an integrity and a pairing assessment, two payloads, two calls: a capture after the first one was read, and a replay repeated after it |
| `VerdictsOutOfOrder` | `TypeOK`, `FreshVerdicts` | as above with one book, which may be captured again, in any order |
| `GateFuture` | `GateSeesNoFuture` (violated) | payloads of two times stored in the other order |
| `DataOps` | `BackfillAddsUp`, `StatusMatchesSegments`, `RowsAreBacked`, `HistoryOnlyGrows`; `PayloadLimitHolds`, `CollectionIsAtomic`; `CoverageSound`; `SamplesSound`; `FeedsSound` | a job over two markets with up to two windows, run twice with any answers; two collections over two venues, three markets and two tokens with limits at, below and above what there is; two universe builds and two cycles over two markets, the second of the first one's scope and time, with a row stored and a rule that recurs at any point of their walks; a file edited once, four calls; two payloads of any of the entry and body shapes |
| `Assessments` | `MarketDataSound`, `IntegritySound`, `ResolutionSound`, `EquivalenceSound`, `DivergenceSound` | two captures out of eight (two-sided, thin, skewed, one-sided, empty, crossed, a history outside the bounds) at three instants, each dated now or at the first of them, two rules that may return; three of the rule texts and two sources, every text of two phrases with and without line breaks; three listings that change, three rules in any order, one analysed again, two calls; four parts of readings or pair rows in any order, two comparisons |
| `Desk` | `WorkbenchSound`, `ScansSound` | four rows of evidence out of seven kinds, two coverage reports, three calls, two reviewers; one scan of every kind over three markets and their pairs, with rows stored and moved between its steps |
| `Research` | `ResearchSound`, `ReplaySound` | two markets of which one exists only later, four rows, a forced or unforced run over a grid, two replays of every policy with a rule analysed again between them |
| `Trading` | `GateServiceSound`, `PaperRunsSound`, `PaperRunsAtomic` | two checks over two markets with restrictions, exposures and a later policy; two runs over plans with a repeated item, an unknown market and descending times |

A property named `...Sound`, `...AddsUp` or `...IsAtomic` is the conjunction of the named parts
defined above it in its module, each with its comment; for example `DivergenceSound` says that the
mirrored pair gets the mirrored answer (`MirroredPairsAgree`), that quotes stay ordered when they are
turned round (`AlignedQuotesStayOrdered`), that an alarm needs clean context
(`AlarmsHaveCleanContext`), that an analysis repeats its reasons while nothing arrived late for its
time (`UnchangedReadingsRepeat`) and that a divergence called persistent had an alarm within the
lookback and by then one with a signal of its own (`PersistenceIsEarned`).

Bounds.  Every bound is a constant and named in its module (`MaxTime`, `MaxRuns`, `MaxCollections`,
`MaxBuilds`, `MaxFacts`, `MaxMoves`, `MaxCycles`, `MaxVendorCalls`, `MaxFeeds`, `MaxCaptures`,
`MaxReports`, `MaxAnalyses`, `MaxCaptured`, `MaxCorpusCalls`, `MaxTerms`, `MaxPairCalls`,
`MaxReadings`, `MaxComparisons`, `MaxDeskCalls`, `MaxScans`, `MaxRows`, ...).
Two calls are where the hazards listed are first possible: a row and its repetition, a reader and
a late writer, a run and its rerun. Where three are needed the bound is three or four.  Deadlock is
not checked: when the bounds are used up nothing is left to do.

Liveness.  None is claimed, and no specification states fairness.  Nothing in the modelled code waits
for another actor: it is synchronous code whose loops run over finite lists or levels, so each call
ends by the shape of its loops.

### Finding

*A verdict from the future* (`GateFuture`).  Ingestion dates a verdict with the capture time of its
payload and builds it from the newest rows (`ingestion/service.py:942`).  After a later payload was
stored first, it names a row of its future, and the gate, which does not compare inputs
(`pretrade/gate.py:223`), uses it, against `docs/pretrade_gate.md:11`.  Replay compares them, and
`FreshVerdicts` holds in any order.

### What holds only under a condition

The properties above are stated so that they hold of the code as it is.  These are the conditions a
reader should know; each was met while modelling.

- *Trading.* Two snapshots of one timestamp: the smallest id wins (`persistence/repositories.py:2404`),
  and two overlapping calls read the same position (`paper/fills.py:59`); either way two sales may
  sell what was bought once, against `docs/paper_execution.md:57`. So `LedgerBacksPositions` needs
  one caller with increasing timestamps, and no property of a run covers these two races; the long-only
  bound holds through both, because it follows from the cap inside one call. A retry of an order
  against a later book adds fills under its id, so `OrdersBackedByFills` needs increasing timestamps.
  A plan is run in its written order (`paper/runner.py:229`): in one that goes back in time the last portfolio is
  that of an earlier moment than the ledger's end, so `SortedPlansEndOnTheirLedger`, the part of
  `PaperRunsSound` about it, asks for a plan in time order and nothing catches an unsorted one. A run or an outcome of None leaves
  the filter out (`persistence/repositories.py:2391`). `EquityBalances` needs more: a mark of zero is
  a price to the position (`paper/positions.py:76`) and none to the portfolio (`paper/portfolio.py:196`), which takes the
  average instead (`QuotesPriced`); positions are looked up by market and outcome but reported by
  venue too (`VenuePerMarket`); and an average that a division rounded is lost with the next sale
  (`AveragesExact`).
- *Gate.* A verdict's `ALLOW_SMALLER_SIZE` carries no size (`pretrade/gate.py:493`,
  `docs/pretrade_gate.md:50`); `DIVERGENCE_DO_NOT_COMPARE_CONTEXT` is a hard blocker that does not
  block single-market intents (`pretrade/gate.py:612`, `docs/pretrade_gate.md:56`); the exposure it
  reads is written by hand and no paper fill updates it (`pretrade/gate.py:148`); status and
  restrictions are read as they are now (`pretrade/gate.py:373`). The input hash names a policy by
  its id (`pretrade/models.py:346`) and leaves its limits out, and a policy can be saved again under
  its id: equal hashes have one decision while it keeps its limits (`PoliciesKeepLimits`). Which of
  two rows of one time is the newest is decided by their ids, so a repeated check repeats because
  ids, which are hashes, are ordered and differ (`IdsDiffer`).
- *Rules.* A text that changes and changes back moves the first snapshot to the new time
  (`ingestion/service.py:922`, `docs/resolution_corpus.md:5`), which is what `~Recurs` and
  `~RuleRecurs` exclude. Where rules may recur, a report on the past may lose its rule
  (`LateRowsOnlyComplete` leaves that code out), and a later coverage report may be worse (`ReportsOnlyImprove`
  excepts it).
- *Data operations.* Running a job again moves the capture time of its payloads; a segment skipped
  for a missing mapping is never retried; members of earlier builds count a market twice; cursors
  record success for failed payloads too. The report and the gaps of a cycle come from two walks with
  reads of their own (`dataops/runner.py:48`, `:57`): a row that arrives between them is missing in the
  report and no gap, a market that joins a universe is a gap and not in the report, and a rule that
  recurs may be either, so each half of `ReportMatchesGaps` names what it excludes. From forty markets on, rounding hides a gap, hence the
  bound in `FullScoreMeansComplete`.
- *Assessments.* Output hashes leave the market and time out, so clean integrity assessments of
  different markets share a row (`integrity/models.py:268`), and forced comparisons move rows between
  pairs (`equivalence/models.py:287`); classes join pairs that were never compared
  (`docs/equivalence.md:20`). A stored comparison cannot always be made again for its time, against
  `docs/equivalence.md:58`: its rule may have recurred and moved (`ingestion/service.py:922`) or been
  analysed again with a source learnt since (`equivalence/service.py:342`), and title, outcomes and
  event are read as they are now (`equivalence/service.py:67`). So `ComparableTermsAgree` speaks of what
  the row was made from. A divergence is analysed differently when a reading of its time arrives late
  (`UnchangedReadingsRepeat`), and persistence looks at the newest thousand rows of the left market
  whatever time is asked about (`divergence/service.py:71`). A line break hides phrases from patterns
  that want single spaces, while the comparison of the two texts calls it formatting
  (`resolution/diff.py:119`): such an edit may change the ambiguity codes and the reasons on several
  sources and on the end of a period, which `FormattingKeepsTerms` excepts; type, zone, threshold,
  authority and the other reasons stay. An empty book derives no row, so its code never fires
  (`marketdata/service.py:48`).
- *Scans.* Explicit ids are truncated before they are counted (`divergence/runner.py:136`), listings
  are limited before they are filtered, unknown ids are dropped silently. A row that another session
  moves past the scan after it was selected becomes an error of the run.
- *Desk.* When the newest report has no gaps, status falls back to older ones
  (`workbench/service.py:346`, `docs/desk_workbench.md:159`); concurrent status updates lose history.
- *Research and replay.* An unforced run may be handed an earlier step's proposal
  (`research/service.py:270`); pass rates may exceed one; forcing changes nothing when ids are equal. Two steps of equal input hash
  may differ in action: the hash names an ambiguity assessment by its id (`replay/runner.py:625`), which
  a forced analysis keeps while it changes the score (`resolution/ambiguity.py:340`).
  `SameInputsSameAction` says that this is the only way, and that the recorded risks tell the two apart.
- *Feeds and samples.* A legacy Kalshi price of exactly one cent reads as one dollar
  (`ingestion/normalizers/kalshi.py:371`); a promising sample may have a failed validation.

### Named abstractions

What the models simplify on purpose, beyond leaving out text and logging:

- *Limits of queries.* Tables are read whole where the code asks for at most 10000 rows (ledger and
  positions, `paper/portfolio.py:173`, `:241`; integrity history, `integrity/features.py:161`; traces,
  `research/attribution.py:50`, `:126`; coverage and gaps), 500 (the queue summary,
  `workbench/service.py:216`, `persistence/repositories.py:3484`), 1000 (the desk's status,
  `workbench/service.py:327`) or 25 and 100 (the rows an item refers to, `workbench/queues.py:67`).
  The properties are about tables below these limits; with more than 500 open items the summary
  and the status of the workbench need not agree. Limits that bite in normal use are modelled: those of
  scans, collections, backfills, samples and of persistence.
- *One read.* The reads of one integrity analysis (`integrity/features.py:31`, `:161`), of one
  comparison, of one market of a coverage walk, and of the selection of a scan see one state of the tables. A row
  that commits between two of them falls together with one that commits before or after both, except
  that an analysis may then combine the rows of two moments it never saw together. The two walks of a
  cycle, the steps of a scan and of a paper call, and the items of a run are separate steps.
- *One statement.* `Collection.Upsert` stores at once what `ingestion/service.py:864` and `:881` store
  one after the other in one transaction. `ResearchStep` generates once; the code
  asks twice (`research/runner.py:119`, `:125`) and the second answer is that of the same ids.
- *Reasons.* The gate's own warnings and the reason codes of restrictions
  (`pretrade/gate.py:394`, `:432`) are different words; a restriction that carries a code of the gate
  would count as that warning.
- *Items of the workbench* refer to evidence of seven kinds; paper orders (`workbench/queues.py:106`) are
  left out: they add a reference, and so tell two items apart, but no score.

## 4. What is proved

The theorems hold for every value of the constants that the modules' named assumptions allow
(finite sets of markets and intents, natural bounds, books with positive prices, ...). Conditions
beyond that stand in the theorem itself, as `ASSUME ... PROVE`. The assumptions are evaluated by
TLC in the run of the same component.

**`PaperExecutionProofs`.** The invariant is built in layers. *Types*: `TypeCorrect`. *Consistency*
of an open transaction: what a session holds privately extends what was stored when it began, and
its counters are those of the fills it holds; from it `OpenTransactionsConsistent`,
`StoredOrdersAgree`, `RowsStayTogether` and `NoSnapshotIsShort`, which hold of any number of
concurrent, backdating and retrying callers. *Backing* (`NoFillHasHindsight`): every fill names a
book level captured no later than its order. *Totals*: the fills of an order sum up to its filled
size (`FillsAddUpToOrders`, under `MonotoneCallers`), and *Matching*: the newest position of an
outcome is the sum of its ledger (`LedgerIsTheLongPosition`, under `SingleFile` and
`NoShortPolicy`). The last two need their conditions: §3 lists what retries, backdating and
overlapping calls do to them. Sums over stored rows are not inductive as written; the invariant
keeps, for every open session, the sum at its start and what it added. *Balancing*
(`PortfoliosAddUp`, under the same conditions and the three of §3): the worth of the newest rows of a
run beyond their profit (`Gap`) and what its entries have paid in, fees on purchases left out
(`Money`), add up to zero (`HeldBalances`). That sum is over many instruments while a call changes
one, so an open call is required to balance with all the *other* instruments (`Funded`); each fill
moves its position by what its entries move the ledger (`UpdateKept`, `FillMoney`), where a sale out
of a long position leaves the average as it was, and the row takes the place of the one the call
started from (`CurrentAfter`). `AveragesExact` is a hypothesis on the behaviour, not an invariant: it
holds at every state of the run `PaperSequential`, whose `Scale` every size held there divides.

**`TradingProofs`.** `PaperRunsAreAtomic` and `PaperRunsReportTheirRows`. `before` holds exactly
the rows of other runs while a run is open (`FoundRows`), so restoring it removes the rows of the
failed run and nothing else; the stored items (`ItemsStored`), the counters (`ItemsCounted`) and the
cash (`BalancesSoFar`) follow the plan item by item.

`GateChecksRepeat` and `GateServiceIsSound` are about the service around the gate, for any facts,
requests, rules, exposures and policies. The inductive invariant `GateServiceInv`, which TLC checked
on the states of the run `Trading` first, says what is kept of every answer: rows are numbered
apart and only added (`RowsKnown`); each stored snapshot is within the ranges of its model and names
rows, rules, an exposure and a policy that are still there (`SnapshotWithin`); each decision is the
ruling on its own snapshot, on the limits of a policy of its id and on the content of the verdict
the snapshot names (`RuledFrom`). So the ids in a snapshot are enough to repeat its decision.
Repetition needs more, because a check that finds no verdict of its own time builds one and leaves it
behind: as long as nobody forces a check of that market and time, the verdict an answer was given on
stays the newest there is as of that time (`Current`), so two unforced checks that saw the same have
the same snapshot (`AnswersKept`). A completed run keeps one decision for each of its markets
(`RunKept`). Two conditions stand in the theorems: `IdsDiffer` and, for
`OneDecisionPerInputs`, `PoliciesKeepLimits` (§3).

**`PreTradeGateProofs`.** `StagesAgree` ties the locals at each stage to the inputs read so far.
From it: the action only escalates (`ActionEscalates`), a hard blocker blocks
(`HardBlockersBlock`), the decision keeps the contract paper execution assumes
(`DecisionsKeepContract`), and the stages implement `GatePromise` (`GateKeepsPromise`): the stage
that sets the size is its `Decide`, every other stage stutters.

**`PointInTimeProofs`.** A stored verdict that replay accepts is the one it would compute
(`NoStaleReplay`), in any order. Under `OneAtATime /\ ~Recurs` the invariant `OrderInv` says
timestamps follow the order of storing, so a step only adds rows that are newer than whatever was
read (`StepsOnlyAdd`), and the newest row of the past depends on what was known then
(`NewestDependsOnKnown`): `InOrderPastIsFixed`, `InOrderVerdicts`, `InOrderReplayRepeats`.

**`DataOpsProofs`.** For backfill: segments are finite and only exist for jobs, a job's status is
computed from its segments, every stored row is of an archived payload of a segment that ran, and a
completed segment has its rows (`BackfillTypes`, `JobStatusIsItsSegments`, `RowsStayBacked`,
`NothingIsForgotten`). `JobsAddUp` adds that there is one segment per window, market and endpoint
(`OnePerPiece`) and that the counters are sums over them. `CoverageIsSound`: the tables are written
between any two visits of a walk, so the invariant `CoverageInv` numbers the editions of the store. What a
walk has found it would find again while no rule recurred since it began (`Covers`), what it missed
it would still miss while nothing arrived (`Misses`); the gaps found so far are set against the entries
the report counted under the same provisos (`NamesCounted`, `CountedNamed`), and a second report of the
same scope and time against the first (`FindsAgain`). The counts follow
from the map that sends a missed entry to its gap: onto, and one to one when no market enters twice.

**`CollectionProofs`.** `LimitHolds` rests on `Budget`: archived, queued and left together never
exceed the limit. `RunsAreAtomic` rests on what a half-finished run may and may not have
published, with cursors in step with runs (`CursorsInStep`).

**`AssessmentsProofs`.** `MarketDataIsSound`: what an as-of read returns is the newest row of a finite
set, a report's score is 100 minus the penalties of its codes. Rows come in any order of their times but are
never taken away, so a reading either stays or gives way to a newer row of the same past
(`AdvanceStep`), and what a report did not miss was stored and still is (`ReportsRemember`), so a
report made again does not miss it either. `IntegrityIsSound`: every stored assessment is the
`Assessment` of a well-formed feature; each signal is shown monotone in the data on its own
(`WorseSignals`), then the maxima of the aggregate. `ResolutionIsSound` (under `~RuleRecurs`): a
stored analysis was made with a subset of the sources known now, so it differs from a fresh one by
`MISSING_RESOLUTION_SOURCE` at most, and the overall score, which is shown to be monotone in the
codes through the sums and the maximum of the nine dimensions, only falls; rules keep their time,
so the newest analysed rule has the newest analysis. For two rules that differ in line breaks only, the
comparison itself reads "at least" like the parser does (`SameWords`), the other patterns that decide the
type, the zone, the threshold or the authority read over whitespace or leave the same decision
when a phrase is lost (`WordsRead`, `SameTerms`), and of the reasons of the risk all but two are words
no line breaks (`Unbroken`, `OtherReasons`). `DivergenceIsSound`: every stored snapshot and assessment
is that of what it read (`basis`), whatever has arrived or moved since, the assessment at one of the
three persistence levels; a level above none needs an alarm within the lookback, and behind every alarm
there is one, no later than it, with a signal that is not itself one of persistence (`AlarmKept`, by
the order of moments). The comparison of a list of rows is followed row by row, each row's alarms
being alarms to the next. `EquivalenceIsSound`: a stored row is what its
comparison found in two listings and at most two rules captured by its time (`AllRows`, `FoundIn`): the
row keeps that basis while listings change, rules recur and analyses are forced; each dimension of a pair is shown to lie in 0 to 100 and to be the same
from either side, the sums of the dimensions by weight keep the range, and a permission to compare
rules out every hard flag. A scan is followed pair by pair through `StoredAll`; the classes are those
of the relation "no set closed under the edges separates the two" (`Joined`), shown symmetric and
transitive without counting steps along a path.

**`DeskLemmas`** holds what the proofs share: induction over naturals and over finite sets, stated
for a set `Q` of the elements that have the property (the library's theorems take an operator,
which the provers cannot instantiate), sums over finite sets independent of the order of summation,
newest elements, minima and maxima.

## 5. What is only model-checked, and what is not modelled

Only model-checked:

- `ScansSound`: what a scan takes up is in the order of `SetToSortSeq`, which rests on `SortSeq` of the
  module `TLC`; the provers know no definition of it, so nothing follows of a sorted list;
- `SamplesSound`, `FeedsSound`, `WorkbenchSound`: they speak of folds over sequences in the order of
  a listing, for which induction over data would be needed, or of tables of an instance;
- `ResearchSound`, `ReplaySound`: the grids are listed by `SetToSeq` and the imports are nested folds over
  sessions. The part of `ReplaySound` on equal inputs looks within reach of an invariant like
  `GateServiceInv` (every verdict is what its inputs give, every trace has the action of its decision);
  it needs that feature numbers never meet row numbers, which the folds decide, and is left to TLC;
- `GateSeesNoFuture` does not hold.

Not modelled: HTTP routing, request validation and the CLI (one service call each, no state); the
adapters' HTTP and retries, modelled as any answer or failure; text formatting, logging, and the
wording of reason codes; `domain/` and `config` beyond the fields read; examples, scripts, migrations
and deployment; the conversion between rows and models, except where it loses something (ids,
missing values, sides of a book). Sets stand for tables: two rows that are equal in every modelled
field are one.
