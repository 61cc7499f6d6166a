------------------------------ MODULE Coverage ------------------------------
(***************************************************************************)
(* Universes, coverage reports and data gaps (dataops/universe.py,         *)
(* coverage.py, gaps.py) over the rows the desk holds of each market.  A   *)
(* row is visible from its available_at on, which may lie before the time  *)
(* it is stored; a rule that recurs moves its row; a market may close; a   *)
(* universe is built as of any timestamp up to now, in any order.  A cycle *)
(* walks its scope twice, for the report and for the gaps, one market at a *)
(* time, while others store rows: every query reads what is committed.     *)
(***************************************************************************)
EXTENDS DeskBase, FiniteSets

CONSTANTS
  Listed,           \* markets
  Cadence,          \* expected cadence of gap detection, or None
  StaleAfter,       \* the hour after which coverage calls a price stale
  LastTime,         \* bound: timestamps are 0..LastTime
  InOrder,          \* universes are built as of the current time only
  MaxBuilds,        \* bound: universe builds
  HeldAtStart,      \* rows stored before, available from 0 on
  MaxFacts,         \* bound: rows stored since
  MaxMoves,         \* bound: rules that recurred
  MaxCycles         \* bound: cycles begun

Kinds == {"rule", "orderbook", "price", "liquidity", "quality"}
Timestamps == 0 .. LastTime

ASSUME CoverageAssumption ==
  /\ LastTime \in Nat /\ MaxBuilds \in Nat /\ MaxFacts \in Nat /\ MaxMoves \in Nat /\ MaxCycles \in Nat
  /\ InOrder \in BOOLEAN
  /\ IsFiniteSet(Listed)

VARIABLES
  today,            \* the clock
  open,             \* markets whose status the universe accepts
  facts,            \* rows: market, kind, available_at
  members,          \* market_universe_members rows: market, asof
  builds,           \* universe builds so far
  arrived,          \* rows stored so far
  moved,            \* rules that recurred so far
  cycles,           \* cycles begun so far
  walk,             \* the cycle that runs: what it is to visit and what it has found
  report,           \* the last coverage report
  gaps,             \* the gaps detected with it
  counted           \* history: what the report was counted from, and the editions of the
                    \* store when its cycle began (since) and when it ended (until)
tables == <<facts, members, builds, arrived, moved>>
coverageVars == <<today, open, tables, cycles, walk, report, gaps, counted>>

\* an edition of the store: how often it was written so far
Edition == [builds |-> builds, arrived |-> arrived, moved |-> moved]

Fact == [market : Listed, kind : Kinds, at : Timestamps]
Member == [market : Listed, asof : Timestamps]

ASSUME HeldAssumption == HeldAtStart \subseteq Fact

-----------------------------------------------------------------------------
\* _evaluate_market: what the universe asks of a market, as of t; the status is read
\* as it is now
Qualifies(m) == m \in open

MembersAsof(m, t) == {x \in members : x.market = m /\ x.asof <= t}

\* rows of earlier builds are returned and kept unless the build is forced; rows of
\* markets that no longer qualify stay
BuildMarketUniverse(t, force) ==
  /\ builds < MaxBuilds
  /\ InOrder => t = today
  /\ builds' = builds + 1
  /\ members' = members \cup
       {[market |-> m, asof |-> t] :
          m \in {x \in Listed : Qualifies(x) /\ (force \/ MembersAsof(x, t) = {})}}
  /\ UNCHANGED <<today, open, facts, arrived, moved, cycles, walk, report, gaps, counted>>

\* _markets_for_scope: one entry per member row, so a market may come more than once
ScopeOf(scope, t) ==
  IF scope = "GLOBAL" THEN [market : Listed, asof : {0}]
  ELSE {x \in members : x.asof <= t}

Visible(m, kind, t) == {f \in facts : f.market = m /\ f.kind = kind /\ f.at <= t}
Holds(m, kind, t) == Visible(m, kind, t) # {}
PriceTime(m, t) == CHOOSE u \in Timestamps :
  /\ \E f \in Visible(m, "price", t) : f.at = u
  /\ \A f \in Visible(m, "price", t) : f.at <= u
PriceOlderThan(m, t, age) == Holds(m, "price", t) /\ t - PriceTime(m, t) > age

-----------------------------------------------------------------------------
FaultyCoverageScore(total, available) ==
  IF total = 0 THEN 0 ELSE HalfEven(100 * available, 4 * total)
CoverageScore(total, available) ==
  IF total = 0 THEN 0 ELSE HalfEven(100 * available, 5 * total)

\* no code for missing order books
CoverageReasonCodes(w) ==
  LET codes == {kind \in Kinds \ {"orderbook"} : w.held[kind] # w.of}
               \cup (IF w.stale # {} THEN {"stale"} ELSE {})
  IN  IF w.of = {} THEN {"NO_MARKETS_IN_SCOPE"}
      ELSE IF codes = {} THEN {"COVERAGE_COMPLETE"} ELSE codes

\* the columns of a report, of the market entries it walked and those that held a row
CountedReport(w) ==
  LET total == Cardinality(w.of)
      count(kind) == Cardinality(w.held[kind])
      available == count("rule") + count("orderbook") + count("price")
                     + count("liquidity") + count("quality")
      stale == Cardinality(w.stale)
  IN  [scope |-> w.scope, asof |-> w.asof, total |-> total,
       missing |-> [kind \in Kinds |-> total - count(kind)], stale |-> stale,
       score |-> CoverageScore(total, available), codes |-> CoverageReasonCodes(w)]

Idle == [stage |-> "idle", scope |-> "GLOBAL", asof |-> 0, of |-> {}, left |-> {},
         held |-> [kind \in Kinds |-> {}], stale |-> {}, found |-> {},
         since |-> [builds |-> 0, arrived |-> 0, moved |-> 0]]

\* run_dataops_cycle: _compute_coverage reads its scope first
BeginCycle(kindOfScope, t) ==
  /\ walk.stage = "idle" /\ cycles < MaxCycles
  /\ cycles' = cycles + 1
  /\ walk' = [Idle EXCEPT !.stage = "report", !.scope = kindOfScope, !.asof = t,
                           !.of = ScopeOf(kindOfScope, t), !.left = ScopeOf(kindOfScope, t),
                           !.since = Edition]
  /\ UNCHANGED <<today, open, tables, report, gaps, counted>>

\* the queries for one market of the scope
VisitForReport(x) ==
  /\ walk.stage = "report" /\ x \in walk.left
  /\ walk' = [walk EXCEPT !.left = @ \ {x},
       !.held = [kind \in Kinds |-> @[kind] \cup (IF Holds(x.market, kind, walk.asof) THEN {x} ELSE {})],
       !.stale = @ \cup (IF PriceOlderThan(x.market, walk.asof, StaleAfter) THEN {x} ELSE {})]
  /\ UNCHANGED <<today, open, tables, cycles, report, gaps, counted>>

\* the report is saved, and _detect_data_gaps reads the scope anew
SaveReport ==
  /\ walk.stage = "report" /\ walk.left = {}
  /\ report' = CountedReport(walk)
  /\ counted' = [of |-> walk.of, held |-> walk.held, since |-> walk.since, until |-> walk.since]
  /\ walk' = [walk EXCEPT !.stage = "gaps", !.left = ScopeOf(walk.scope, walk.asof)]
  /\ UNCHANGED <<today, open, tables, cycles, gaps>>

\* a gap's id is made of its market, type and timestamps: one row each; a cycle passes no
\* cadence, a caller that asks for both itself may
GapsOfMarket(m, t) ==
  {g \in [market : {m}, type : Kinds] : ~Holds(m, g.type, t)}
  \cup {g \in [market : {m}, type : {"stale"}] : Cadence # None /\ PriceOlderThan(m, t, Cadence)}

VisitForGaps(x) ==
  /\ walk.stage = "gaps" /\ x \in walk.left
  /\ walk' = [walk EXCEPT !.left = @ \ {x}, !.found = @ \cup GapsOfMarket(x.market, walk.asof)]
  /\ UNCHANGED <<today, open, tables, cycles, report, gaps, counted>>

SaveGaps ==
  /\ walk.stage = "gaps" /\ walk.left = {}
  /\ gaps' = walk.found
  /\ counted' = [counted EXCEPT !.until = Edition]
  /\ walk' = Idle
  /\ UNCHANGED <<today, open, tables, cycles, report>>

\* a row of a market arrives; one that was backfilled or derived belatedly is dated earlier
StoreFact(m, kind, t) ==
  /\ arrived < MaxFacts
  /\ arrived' = arrived + 1
  /\ facts' = facts \cup {[market |-> m, kind |-> kind, at |-> t]}
  /\ UNCHANGED <<today, open, members, builds, moved, cycles, walk, report, gaps, counted>>

\* a rule that is not the latest recurs: its row, whose id is its hash, is dated anew
RecurRule(f, t) ==
  /\ moved < MaxMoves
  /\ f.kind = "rule"
  /\ \E g \in facts : g.market = f.market /\ g.kind = "rule" /\ g.at > f.at
  /\ moved' = moved + 1
  /\ facts' = (facts \ {f}) \cup {[f EXCEPT !.at = t]}
  /\ UNCHANGED <<today, open, members, builds, arrived, cycles, walk, report, gaps, counted>>

ChangeStatus(m) ==
  /\ open' = IF m \in open THEN open \ {m} ELSE open \cup {m}
  /\ UNCHANGED <<today, tables, cycles, walk, report, gaps, counted>>

CoverageTick ==
  /\ today < LastTime
  /\ today' = today + 1
  /\ UNCHANGED <<open, tables, cycles, walk, report, gaps, counted>>

NoReport == CountedReport(Idle)

\* the shape of the rows
ReasonCodes == (Kinds \ {"orderbook"}) \cup {"stale", "NO_MARKETS_IN_SCOPE", "COVERAGE_COMPLETE"}
CoverageReport ==
  [scope : {"GLOBAL", "UNIVERSE"}, asof : Timestamps, total : Nat, missing : [Kinds -> Nat], stale : Nat,
   score : 0 .. 100, codes : SUBSET ReasonCodes]
DataGap == [market : Listed, type : Kinds \cup {"stale"}]
Entries == [market : Listed, asof : Timestamps]
Editions == [builds : Nat, arrived : Nat, moved : Nat]
Walk ==
  [stage : {"idle", "report", "gaps"}, scope : {"GLOBAL", "UNIVERSE"}, asof : Timestamps,
   of : SUBSET Entries, left : SUBSET Entries, held : [Kinds -> SUBSET Entries],
   stale : SUBSET Entries, found : SUBSET DataGap, since : Editions]

CoverageInit ==
  /\ today = 0 /\ open = Listed /\ facts = HeldAtStart /\ members = {} /\ builds = 0
  /\ arrived = 0 /\ moved = 0 /\ cycles = 0 /\ walk = Idle
  /\ report = NoReport /\ gaps = {}
  /\ counted = [of |-> {}, held |-> [kind \in Kinds |-> {}], since |-> Edition, until |-> Edition]

CoverageNext ==
  \/ \E t \in 0 .. today, force \in BOOLEAN : BuildMarketUniverse(t, force)
  \/ \E scope \in {"GLOBAL", "UNIVERSE"}, t \in 0 .. today : BeginCycle(scope, t)
  \/ \E x \in walk.left : VisitForReport(x) \/ VisitForGaps(x)
  \/ SaveReport \/ SaveGaps
  \/ \E m \in Listed, kind \in Kinds, t \in 0 .. today : StoreFact(m, kind, t)
  \/ \E f \in facts, t \in 0 .. today : RecurRule(f, t)
  \/ \E m \in Listed : ChangeStatus(m)
  \/ CoverageTick

CoverageSpec == CoverageInit /\ [][CoverageNext]_coverageVars

-----------------------------------------------------------------------------
\* Rows, members, the report and its gaps keep their shape.
CoverageTypeOK ==
  /\ today \in Timestamps /\ open \subseteq Listed /\ facts \subseteq Fact
  /\ members \subseteq Member /\ Edition \in Editions
  /\ walk \in Walk
  /\ report \in CoverageReport /\ report.stale <= report.total
  /\ \A kind \in Kinds : report.missing[kind] \in 0 .. report.total
  /\ gaps \subseteq DataGap

GapsOf(kind) == {g \in gaps : g.type = kind}
NoneMoved == counted.until.moved = counted.since.moved
NoneJoined == counted.until.builds = counted.since.builds
NoneArrived == counted.until.arrived = counted.since.arrived

\* What the gaps of a cycle name, its report has counted, unless a rule recurred or a
\* universe was built between the two walks over the scope; and what the report counts,
\* the gaps name, unless rows arrived between (runner.py:48, 57, coverage.py:141,
\* gaps.py:70).  A market that two builds put into the universe counts twice.
ReportMatchesGaps ==
  walk.stage = "idle" => \A kind \in Kinds :
    /\ NoneMoved /\ NoneJoined => Cardinality(GapsOf(kind)) <= report.missing[kind]
    /\ NoneMoved /\ NoneArrived /\ report.missing[kind] > 0 => GapsOf(kind) # {}
    /\ (NoneMoved /\ NoneJoined /\ NoneArrived
          /\ \A x, y \in counted.of : x.market = y.market => x = y) =>
         Cardinality(GapsOf(kind)) = report.missing[kind]

\* A score of 100 means that the gaps of the cycle name no market that misses a row,
\* unless a rule recurred or a universe was built meanwhile, and a lower score that they
\* name one, unless a row arrived: the rounding of the percentage hides no gap of fewer
\* than forty markets (coverage.py:262).
FullScoreMeansComplete ==
  (walk.stage = "idle" /\ report.total > 0 /\ report.total < 40 /\ NoneMoved) =>
    /\ report.score = 100 /\ NoneJoined => \A g \in gaps : g.type = "stale"
    /\ report.score < 100 /\ NoneArrived => \E g \in gaps : g.type # "stale"

\* Asked again for the same time and the same members, a report only improves, unless a
\* rule recurred since the first one began: rows that arrive are never seen twice or in
\* place of others (coverage.py:39, 262).
ReportsOnlyImprove ==
  [][(report'.scope = report.scope /\ report'.asof = report.asof
        /\ report'.total = report.total /\ (report.total > 0 => moved = counted.since.moved)) =>
       /\ \A kind \in Kinds : report'.missing[kind] <= report.missing[kind]
       /\ report'.score >= report.score]_coverageVars

\* The report, its score and the gaps of a scope tell the same of it, at each time and from
\* one report to the next.
CoverageSound ==
  [](CoverageTypeOK /\ ReportMatchesGaps /\ FullScoreMeansComplete) /\ ReportsOnlyImprove
=============================================================================
