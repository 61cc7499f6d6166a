------------------------------- MODULE Scans -------------------------------
(***************************************************************************)
(* Run-once scans (integrity/runner.py, divergence/runner.py): a scan      *)
(* picks what it will analyse when it begins, one list for the whole run,  *)
(* and asks the service for each item in turn while other sessions store   *)
(* or re-assess rows.  A list of pairs is a list of ids: the service reads *)
(* the row of each again.  An item that raises is an error of the run; if  *)
(* the database raised, the session is of no more use and the run is       *)
(* undone.                                                                 *)
(***************************************************************************)
EXTENDS DeskBase, FiniteSets, SequencesExt

CONSTANTS
  ScanMarkets,      \* the known markets, as list_markets returns them
  Pairs,            \* the pairs that may be assessed, each a set of two markets
  PairIds,          \* ids of equivalence assessments: hashes of the verdict alone, in their order
  ScanHints, ScanStatuses,  \* what an analysis of a market, and of a pair, may say
  LastAsOf,         \* bound: as-of times
  MaxScans          \* bound: scans

ASSUME ScansAssumption == LastAsOf \in Nat /\ MaxScans \in Nat /\ PairIds \subseteq Nat

VARIABLES
  pairRows,         \* market_equivalence_assessments: of which pair, available when, permission
  scan,             \* the run in progress, with the rows it has written so far
  scanRuns          \* the runs that were committed
scanVars == <<pairRows, scan, scanRuns>>

-----------------------------------------------------------------------------
AsOfs == 1 .. LastAsOf
Permissions == {"COMPARABLE", "MANUAL_REVIEW", "DO_NOT_COMPARE"}
AllowedPermissions == {"COMPARABLE", "MANUAL_REVIEW"}
IsGrid(c) == "window" \in DOMAIN c
FirstN(s, n) == SubSeq(s, 1, Lesser(n, Len(s)))

\* the rows of `ids`, newest first, ties by id
Newest(ids, TieBreak(_, _)) ==
  SetToSortSeq(ids, LAMBDA i, j : \/ pairRows[i].at > pairRows[j].at
                                  \/ pairRows[i].at = pairRows[j].at /\ TieBreak(i, j))
AvailableAt(id, t) == pairRows[id].at <= t
LatestOf(m, t, limit) ==
  FirstN(Newest({id \in DOMAIN pairRows : m \in pairRows[id].pair /\ AvailableAt(id, t)}, >), limit)

OfMarkets(c) ==
  FirstN(SetToSortSeq(UNION {ToSet(LatestOf(m, c.asof, c.max)) : m \in ToSet(c.markets)}, <), c.max)
OfTheTable(c) ==
  SelectSeq(FirstN(Newest(DOMAIN pairRows, <), c.max),
            LAMBDA id : AvailableAt(id, c.asof) /\ pairRows[id].permission \in AllowedPermissions)
OfIds(c) ==
  FirstN(SelectSeq(c.ids, LAMBDA id : id \in DOMAIN pairRows /\ AvailableAt(id, c.asof)), c.max)
SelectAssessments(c) ==
  IF c.ids # <<>> THEN OfIds(c) ELSE IF c.markets # <<>> THEN OfMarkets(c) ELSE OfTheTable(c)

Timestamps(w) == {t \in w.start .. w.end : (t - w.start) % w.interval = 0}
Scanned(c) ==
  IF c.markets = <<>> THEN ScanMarkets
  ELSE SelectSeq(c.markets, LAMBDA m : m \in ToSet(ScanMarkets))
Grid(c) ==
  LET times == SetToSortSeq(Timestamps(c.window), <)
  IN  FlattenSeq([i \in DOMAIN times |->
        [j \in DOMAIN Scanned(c) |-> [market |-> Scanned(c)[j], asof |-> times[i]]]])

-----------------------------------------------------------------------------
Begin(c, queue) ==
  /\ scan = None /\ Len(scanRuns) < MaxScans
  /\ scan' = [config |-> c, queue |-> queue, items |-> queue, stored |-> pairRows, rows |-> <<>>,
              answered |-> {}, outcomes |-> <<>>, written |-> {}, failed |-> {}, broken |-> FALSE]
  /\ UNCHANGED <<pairRows, scanRuns>>
\* _run_divergence_scan: of the rows selected the run keeps the ids
BeginPairScan(c) == Begin(c, SelectAssessments(c))
\* IntegrityRunConfig: validate_scan_window
ValidWindow(w) == w.start <= w.end /\ w.interval > 0
\* _run_integrity_scan: a grid that is too large is refused before its run is stored
BeginGridScan(c) == ValidWindow(c.window) /\ Len(Grid(c)) <= c.max /\ Begin(c, Grid(c))

Position == Len(scan.items) - Len(scan.queue) + 1
\* Faulty: the row is not checked a second time.
FaultyAnalysable(item) == TRUE
\* build_divergence_snapshot reads the row of the id again and raises if it was moved past the scan
Analysable(item) == ~IsGrid(scan.config) => AvailableAt(item, scan.config.asof)
RowsRead(item) == IF IsGrid(scan.config) THEN <<>> ELSE Position :> pairRows[item]
ScanItemAnswered(outcome) ==
  /\ scan # None /\ scan.queue # <<>> /\ ~scan.broken
  /\ Analysable(Head(scan.queue))
  /\ outcome \in IF IsGrid(scan.config) THEN ScanHints ELSE ScanStatuses
  /\ scan' = [scan EXCEPT !.queue = Tail(@), !.answered = @ \cup {Position},
                          !.rows = RowsRead(Head(scan.queue)) @@ @,
                          !.outcomes = Append(@, outcome), !.written = @ \cup {Position}]
  /\ UNCHANGED <<pairRows, scanRuns>>
\* the service raised; after an error of the database every later call raises too
ScanItemFailed(database) ==
  /\ scan # None /\ scan.queue # <<>>
  /\ scan' = [scan EXCEPT !.queue = Tail(@), !.failed = @ \cup {Position}, !.broken = @ \/ database]
  /\ UNCHANGED <<pairRows, scanRuns>>

\* summarize_integrity_run, summarize_divergence_run: what the answers are about
MarketsScanned == {scan.items[i].market : i \in scan.answered}
MarketsCompared == UNION {scan.rows[i].pair : i \in scan.answered}
Summary ==
  [total |-> Len(scan.outcomes),
   counts |-> [o \in ToSet(scan.outcomes) |->
                 Cardinality({i \in DOMAIN scan.outcomes : scan.outcomes[i] = o})],
   markets |-> IF IsGrid(scan.config) THEN MarketsScanned ELSE MarketsCompared]
FinishScan ==
  /\ scan # None /\ scan.queue = <<>> /\ ~scan.broken
  /\ scanRuns' = Append(scanRuns,
       [config |-> scan.config, items |-> scan.items, stored |-> scan.stored, rows |-> scan.rows,
        answered |-> scan.answered, written |-> scan.written,
        errors |-> Cardinality(scan.failed), summary |-> Summary,
        status |-> IF scan.failed = {} THEN "COMPLETED" ELSE "PARTIAL"])
  /\ scan' = None
  /\ UNCHANGED pairRows
\* the summary cannot be saved, nor the FAILED status: the transaction is undone
AbortScan ==
  /\ scan # None /\ scan.queue = <<>> /\ scan.broken
  /\ scan' = None
  /\ UNCHANGED <<pairRows, scanRuns>>

\* EquivalenceService: a row is new, or a forced assessment of the same verdict takes it over, with
\* its own moment and markets; the permission is part of the id
StoreRow(id, row) ==
  /\ id \in DOMAIN pairRows => row.permission = pairRows[id].permission
  /\ pairRows' = [i \in DOMAIN pairRows \cup {id} |-> IF i = id THEN row ELSE pairRows[i]]
  /\ UNCHANGED <<scan, scanRuns>>

ScansInit == pairRows = <<>> /\ scan = None /\ scanRuns = <<>>

-----------------------------------------------------------------------------
PairRowSet == [pair : Pairs, at : AsOfs, permission : Permissions]
IntegrityRunConfig(c) ==
  /\ DOMAIN c = {"markets", "window", "max"} /\ c.max > 0 /\ ValidWindow(c.window)
DivergenceRunConfig(c) ==
  /\ DOMAIN c = {"ids", "markets", "asof", "max"}
  /\ c.max > 0 /\ c.asof \in AsOfs /\ ToSet(c.ids) \subseteq PairIds
\* a run keeps what it was asked for beside what it found, and never takes more than it may
IntegrityRun(run) ==
  /\ IntegrityRunConfig(run.config) /\ Len(run.items) <= run.config.max
  /\ \A item \in ToSet(run.items) : item.market \in ToSet(Scanned(run.config))
DivergenceRun(run) ==
  /\ DivergenceRunConfig(run.config) /\ Len(run.items) <= run.config.max
  /\ ToSet(run.items) \subseteq PairIds
  /\ run.rows \in [run.answered -> PairRowSet]
\* a summary counts what the answers said, each once, and names markets of the run
SummaryAddsUp(run, outcomes) ==
  /\ run.summary.total = Cardinality(run.answered)
  /\ DOMAIN run.summary.counts \subseteq outcomes
  /\ SumFunction(run.summary.counts) = run.summary.total
IntegrityRunSummary(run) ==
  SummaryAddsUp(run, ScanHints) /\ run.summary.markets \subseteq ToSet(ScanMarkets)
DivergenceRunSummary(run) ==
  SummaryAddsUp(run, ScanStatuses) /\ run.summary.markets \subseteq UNION Pairs
\* What every table and the run in progress hold.
ScansTypeOK ==
  /\ DOMAIN pairRows \subseteq PairIds /\ \A id \in DOMAIN pairRows : pairRows[id] \in PairRowSet
  /\ scan # None => (scan.answered \cup scan.failed) = 1 .. Len(scan.items) - Len(scan.queue)
  /\ \A run \in ToSet(scanRuns) :
       /\ run.status \in {"COMPLETED", "PARTIAL"}
       /\ IF IsGrid(run.config) THEN IntegrityRun(run) /\ IntegrityRunSummary(run)
          ELSE DivergenceRun(run) /\ DivergenceRunSummary(run)

GridRuns == {i \in DOMAIN scanRuns : IsGrid(scanRuns[i].config)}
PairRuns == DOMAIN scanRuns \ GridRuns

\* No scan analyses a pair as of a time at which its assessment did not exist yet, however its
\* rows were chosen, and whoever moves them between the selection and the analysis: a row moved
\* past the scan is an error of the run (divergence/service.py:121, :124).
ScansSeeNoFuture ==
  \A i \in PairRuns :
    LET run == scanRuns[i]
    IN  /\ \A n \in run.answered : run.rows[n].at <= run.config.asof
        /\ run.status = "COMPLETED" => DOMAIN run.rows = DOMAIN run.items

\* A scan of markets takes up a row once, also when it was asked for both its markets
\* (divergence/runner.py:206).
NoRowTwice ==
  \A i \in PairRuns :
    (scanRuns[i].config.ids = <<>> /\ scanRuns[i].config.markets # <<>>) =>
      IsInjective(scanRuns[i].items)

\* A scan of the whole table of at most max_pairs rows takes up every pair that may be compared or
\* reviewed, and no other (divergence/runner.py:216); what it analyses later, under those ids, may
\* still be compared.  With more rows than max_pairs, later ones crowd out the due ones.
TableScansMissNothing ==
  \A i \in PairRuns :
    LET run == scanRuns[i]
        due == {id \in DOMAIN run.stored : /\ run.stored[id].at <= run.config.asof
                                           /\ run.stored[id].permission # "DO_NOT_COMPARE"}
    IN  (run.config.ids = <<>> /\ run.config.markets = <<>>) =>
          /\ ToSet(run.items) \subseteq due
          /\ Cardinality(DOMAIN run.stored) <= run.config.max => due \subseteq ToSet(run.items)
          /\ \A n \in run.answered : run.rows[n].permission # "DO_NOT_COMPARE"

\* A completed grid has an assessment of every known market asked for at both ends of its window
\* when the interval divides it, and its summary names exactly those markets
\* (integrity/runner.py:44, :158).
GridsAreWhole ==
  \A i \in GridRuns :
    LET run == scanRuns[i]
        asked == ToSet(ScanMarkets) \cap
                 (IF run.config.markets = <<>> THEN ToSet(ScanMarkets) ELSE ToSet(run.config.markets))
        w == run.config.window
    IN  run.status = "COMPLETED" =>
          /\ run.summary.markets = asked
          /\ (w.end - w.start) % w.interval = 0 =>
               \A m \in asked, t \in {w.start, w.end} :
                 \E j \in run.answered : run.items[j] = [market |-> m, asof |-> t]

\* What a committed run counts as answered is stored with it, and every item is an answer or an
\* error: an error of the database undoes the run, not only the rows written before it
\* (integrity/runner.py:121, persistence/database.py:52).
CommittedScansAddUp ==
  \A i \in DOMAIN scanRuns :
    LET run == scanRuns[i]
    IN  /\ run.written = run.answered
        /\ Cardinality(run.answered) + run.errors = Len(run.items)

\* A committed scan is complete and of its own time: nothing later, no row twice, no due row of
\* the table left out, every point of the grid, and counters that match what is stored.
ScansSound ==
  /\ ScansTypeOK /\ ScansSeeNoFuture /\ NoRowTwice /\ TableScansMissNothing /\ GridsAreWhole
  /\ CommittedScansAddUp
=============================================================================
