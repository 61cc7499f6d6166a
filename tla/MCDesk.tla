------------------------------- MODULE MCDesk -------------------------------
(***************************************************************************)
(* The desk's workbench and its run-once scans.  A behaviour is of one     *)
(* part, chosen at the start.                                              *)
(***************************************************************************)
EXTENDS Workbench, Scans

CONSTANTS m1, m2, m3

VARIABLE part
vars == <<part, workbenchVars, scanVars>>

-----------------------------------------------------------------------------
Risk(hint, risk, severity, codes) == [hint |-> hint, risk |-> risk, severity |-> severity, codes |-> codes]
Seen(status, score, hint) == [status |-> status, score |-> score, hint |-> hint]
Decided(action, blockers) == [action |-> action, blockers |-> blockers]
Missing(type, severity, empty) ==
  [market |-> m1, type |-> type, severity |-> severity, emptyRule |-> empty]
MCContents ==
  [quality |-> {[score |-> 40], [score |-> 60], [score |-> 90]},
   integrity |-> {Risk("NO_TRADE", 80, "ERROR", {"LOW_MARKET_DATA_QUALITY"}),
                  Risk("NO_TRADE", 80, "ERROR", {"SPREAD_WIDENING"}),
                  Risk("WATCH", 55, "WARNING", {"WIDE_SPREAD"}), Risk("NONE", 0, "INFO", {})},
   divergence |-> {Seen("DO_NOT_COMPARE", 0, "DO_NOT_COMPARE"), Seen("NEEDS_REVIEW", 40, "MANUAL_REVIEW"),
                   Seen("MATERIAL_DIVERGENCE", 60, "RESEARCH_SIGNAL"), Seen("WATCH", 20, "WATCH")},
   pretrade |-> {Decided("NO_TRADE", {"INTEGRITY_ACTION_HINT_NO_TRADE"}), Decided("NO_TRADE", {}),
                 Decided("NO_TRADE", {"MARKET_NOT_ACTIVE"}), Decided("MANUAL_REVIEW", {}),
                 Decided("ALLOW_SMALLER_SIZE", {}), Decided("ALLOW", {})},
   signal |-> {[type |-> "HYPOTHETICAL_INTENT", bias |-> "YES"], [type |-> "NO_SIGNAL", bias |-> "BLOCK"],
               [type |-> "NO_SIGNAL", bias |-> "NEUTRAL"]},
   scenario |-> {{80, 20}, {30}},
   equivalence |-> {"COMPARABLE", "MANUAL_REVIEW"}]
Stale == Missing("STALE_MARKET_DATA", "INFO", FALSE)
NoRules == Missing("MISSING_RULE_SNAPSHOT", "ERROR", TRUE)
MCGapSets ==
  {{}, {Stale}, {Missing("UNSUPPORTED_HISTORICAL_ENDPOINT", "INFO", TRUE)},
   {NoRules, Missing("NORMALIZATION_ERROR", "ERROR", FALSE)},
   {NoRules, Stale, Missing("MISSING_ORDERBOOK", "WARNING", FALSE)}}

MarketsOf(kind) == IF kind \in {"divergence", "equivalence"} THEN {{m1, m2}} ELSE {m1}
Storing == \E kind \in EvidenceKinds : \E m \in MarketsOf(kind), content \in Contents[kind] :
             StoreEvidence(kind, m, content)

\* what one market may be known by, at one time
Scoring ==
  \/ coverages = <<>> /\ Cardinality(evidence) < 3 /\ Storing
  \/ \E gaps \in GapSets : coverages = <<>> /\ ReportCoverage(None, DeskMarket, 0, gaps)

\* an item and cards while what they rest on changes
Scored == {[score |-> 40], [score |-> 90]}
Queueing ==
  \/ \E content \in Scored : evidence = {} /\ StoreEvidence("quality", m1, content)
  \/ StoreEvidence("scenario", m1, {80, 20})
  \/ \E row \in evidence, content \in Scored : RecomputeQuality(row, content)
  \/ \E gaps \in {{Stale}, {NoRules}} : coverages = <<>> /\ ReportCoverage(None, DeskMarket, hour, gaps)
  \/ \E t \in 0 .. hour, force \in BOOLEAN :
       deskCalls < 2 /\ (BuildQueue({m1}, t, force) \/ BuildDecisionCard(m1, t, force))
  \/ DeskTick

\* coverage reports of one market or more, as of earlier times too
Covering ==
  \/ \E t \in 0 .. hour, gaps \in {{}, {Stale}, {NoRules}} :
       \/ ReportCoverage(None, DeskMarket, t, gaps)
       \/ \E m \in DeskMarket : ReportCoverage(m, {m}, t, gaps)
  \/ \E t \in 0 .. hour : deskCalls < 2 /\ BuildQueue({m1}, t, FALSE)
  \/ DeskTick

\* reviews of two operators between builds, cards of pairs and whole runs
Reviewing ==
  \/ /\ deskCalls = 0 /\ Cardinality(evidence) < 2
     /\ \/ \E content \in Contents["equivalence"] : StoreEvidence("equivalence", {m1, m2}, content)
        \/ StoreEvidence("divergence", {m1, m2}, Seen("WATCH", 20, "WATCH"))
  \/ /\ deskCalls = 1 /\ evidence = {} /\ StoreEvidence("pretrade", m1, Decided("MANUAL_REVIEW", {}))
  \/ \E force \in BOOLEAN :
       \/ \E ms \in {{m1}, DeskMarket} : BuildQueue(ms, hour, force)
       \/ \E row \in evidence : BuildComparisonCard(row, hour, force)
       \/ \E queue, withCards, compare \in BOOLEAN :
            RunWorkbench(DeskMarket, hour, force, queue, withCards, compare)
  \/ \E r \in Reviewers, key \in DOMAIN items, status \in Statuses :
       BeginReview(r, key, status, status = "RESOLVED")
  \/ \E r \in Reviewers : CommitReview(r)

-----------------------------------------------------------------------------
MCScanMarkets == <<m1, m2>>
MCPairs == {{m1, m2}, {m2, m3}}
PairConfig(ids, ms, asof, max) == [ids |-> ids, markets |-> ms, asof |-> asof, max |-> max]
PairConfigs ==
  {PairConfig(s.ids, s.ms, t, max) :
     s \in {[ids |-> <<2, 1>>, ms |-> <<>>], [ids |-> <<>>, ms |-> <<m1, m2>>], [ids |-> <<>>, ms |-> <<>>]},
     t \in AsOfs, max \in {2}}
GridConfigs ==
  {[markets |-> ms, window |-> [start |-> 1, end |-> end, interval |-> interval], max |-> 4] :
     ms \in {<<>>, <<m2, m1>>, <<m3>>, <<m1, m1>>}, end \in 0 .. 3, interval \in 1 .. 2}

ScannedRows == {row \in PairRowSet : m3 \in row.pair => row.permission = "COMPARABLE"}
MovedRow(id) == [pair |-> {m2, m3}, at |-> LastAsOf, permission |-> pairRows[id].permission]

\* scans of a growing table, and a row moved while one of them runs
Scanning ==
  \/ /\ scan = None /\ scanRuns = <<>>
     /\ \E id \in PairIds \ DOMAIN pairRows, row \in ScannedRows : StoreRow(id, row)
  \/ \E c \in PairConfigs : BeginPairScan(c)
  \/ pairRows = <<>> /\ \E c \in GridConfigs : BeginGridScan(c)
  \/ scan # None /\ 1 \in DOMAIN pairRows /\ StoreRow(1, MovedRow(1))
  \/ \E outcome \in ScanHints \cup ScanStatuses : ScanItemAnswered(outcome)
  \/ \E database \in BOOLEAN : ScanItemFailed(database)
  \/ FinishScan
  \/ AbortScan

-----------------------------------------------------------------------------
Parts == {"scores", "queue", "coverage", "reviews", "scans"}
Init == part \in Parts /\ WorkbenchInit /\ ScansInit
Next ==
  /\ UNCHANGED part
  /\ \/ /\ UNCHANGED scanVars
        /\ \/ part = "scores" /\ Scoring
           \/ part = "queue" /\ Queueing
           \/ part = "coverage" /\ Covering
           \/ part = "reviews" /\ Reviewing
     \/ part = "scans" /\ Scanning /\ UNCHANGED workbenchVars
Spec == Init /\ [][Next]_vars
=============================================================================
