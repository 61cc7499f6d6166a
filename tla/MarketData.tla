----------------------------- MODULE MarketData -----------------------------
(***************************************************************************)
(* Canonical market data (marketdata/): order books and price histories    *)
(* arrive with a capture time of their payload, which may be any time up   *)
(* to now, price and liquidity rows are derived from a book at once or     *)
(* later, and quality reports are computed as of any past timestamp.       *)
(* Prices are integers in a unit in which every mid is one too; a row's id *)
(* orders rows of equal time as its capture does.                          *)
(***************************************************************************)
EXTENDS DeskBase, Sequences, FiniteSets, Functions

CONSTANTS
  DeskMarkets,
  Captures,         \* what the venue may answer, in the order of the ids
  MaxPrice,         \* the price of a certain outcome: 1
  WideSpread,       \* thresholds of the quality report
  FreshFor,
  LastInstant,      \* bound: instants are 0..LastInstant
  MaxCaptures,      \* bound: books and histories stored
  MaxReports,       \* bound: quality reports of different timestamps
  MaxRules          \* bound: different rules of a market

Instants == 0 .. LastInstant

\* a side of a book is a function from prices to quantities
Book(bids, asks) == [type |-> "book", bids |-> bids, asks |-> asks]
History(price) == [type |-> "history", price |-> price]

\* the sides of a book have finitely many levels
Side(levels) ==
  IsFiniteSet(DOMAIN levels) /\ DOMAIN levels \subseteq Int /\ levels \in [DOMAIN levels -> Nat]
ASSUME CapturesAssumption ==
  /\ DOMAIN Captures \subseteq Nat
  /\ \A c \in DOMAIN Captures :
       \/ Captures[c].type = "history" /\ Captures[c].price \in Int
       \/ Captures[c].type = "book" /\ Side(Captures[c].bids) /\ Side(Captures[c].asks)

ASSUME MarketDataAssumption ==
  /\ LastInstant \in Nat /\ MaxCaptures \in Nat /\ MaxReports \in Nat /\ MaxRules \in Nat
  /\ FreshFor \in Nat

VARIABLES
  instant,          \* the clock
  catalog,          \* rule snapshots: market, rule, captured_at; with one comes the venue mapping
  books,            \* order_book_snapshots: market, at, capture
  priceRows,        \* market_price_snapshots: market, at, capture
  liquidityRows,    \* market_liquidity_snapshots: market, at, capture
  reports           \* market_data_quality_reports by market and as-of timestamp
marketVars == <<instant, catalog, books, priceRows, liquidityRows, reports>>

Row == [market : DeskMarkets, at : Instants, capture : DOMAIN Captures]
ASSUME NoRowAssumption == None \notin Row /\ None \notin Int

-----------------------------------------------------------------------------
(* Deriving a row from a book.                                             *)
BestBid(levels) == CHOOSE p \in DOMAIN levels : \A q \in DOMAIN levels : q <= p
BestAsk(levels) == CHOOSE p \in DOMAIN levels : \A q \in DOMAIN levels : p <= q
TotalDepth(levels) == SumFunction(levels)

Bid(book) == IF DOMAIN book.bids = {} THEN None ELSE BestBid(book.bids)
Ask(book) == IF DOMAIN book.asks = {} THEN None ELSE BestAsk(book.asks)
TwoSided(book) == Bid(book) # None /\ Ask(book) # None
Mid(book) == IF TwoSided(book) THEN (Bid(book) + Ask(book)) \div 2 ELSE None
SpreadOf(book) == IF TwoSided(book) THEN Ask(book) - Bid(book) ELSE None
EmptyBook(book) == DOMAIN book.bids = {} /\ DOMAIN book.asks = {}
CrossedBook(book) == TwoSided(book) /\ Bid(book) > Ask(book)
DepthOf(book) == TotalDepth(book.bids) + TotalDepth(book.asks)

\* the absolute imbalance in hundredths, rounded down
BookImbalance(book) ==
  LET d == TotalDepth(book.bids) - TotalDepth(book.asks)
  IN  IF DepthOf(book) = 0 THEN None ELSE (100 * Greater(d, -d)) \div DepthOf(book)

Content(row) == Captures[row.capture]

\* snapshot.price, or its mid: the same of a book and of a point of a history
PriceValue(row) ==
  IF Content(row).type = "history" THEN Content(row).price ELSE Mid(Content(row))

-----------------------------------------------------------------------------
(* As-of reads.                                                            *)
FaultyAsOf(rows, m, t) == {r \in rows : r.market = m /\ r.at <= instant}
AsOf(rows, m, t) == {r \in rows : r.market = m /\ r.at <= t}
RowPrecedes(r, s) == r.at < s.at \/ (r.at = s.at /\ r.capture < s.capture)
LatestOf(rows) ==
  IF rows = {} THEN None ELSE CHOOSE r \in rows : \A s \in rows : s = r \/ RowPrecedes(s, r)
LatestAsOf(rows, m, t) == LatestOf(AsOf(rows, m, t))

\* freshness_seconds: the age of the newer of the two rows
Freshness(t, price, liquidity) ==
  IF price = None /\ liquidity = None THEN None
  ELSE t - (IF price = None THEN liquidity.at ELSE IF liquidity = None THEN price.at
            ELSE Greater(price.at, liquidity.at))

-----------------------------------------------------------------------------
(* The quality report.                                                     *)
OutOfBounds(row) ==
  LET values == IF Content(row).type = "history" THEN {Content(row).price}
                ELSE {Bid(Content(row)), Ask(Content(row)), Mid(Content(row))} \ {None}
  IN  \E v \in values : v < 0 \/ v > MaxPrice

Codes(holds) == {code \in DOMAIN holds : holds[code]}

QualityCodes(m, t) ==
  LET price == LatestAsOf(priceRows, m, t)
      liquidity == LatestAsOf(liquidityRows, m, t)
      fresh == Freshness(t, price, liquidity)
      book == IF liquidity = None THEN None ELSE Content(liquidity)
  IN  Codes([NO_PRICE_SNAPSHOT |-> price = None,
             NO_ORDERBOOK_SNAPSHOT |-> AsOf(books, m, t) = {},
             NO_RULE_SNAPSHOT |-> ~\E r \in catalog : r.market = m /\ r.at <= t,
             NO_VENUE_MAPPING |-> ~\E r \in catalog : r.market = m,
             STALE_MARKET_DATA |-> fresh = None \/ fresh > FreshFor \/ fresh < 0,
             FUTURE_AVAILABLE_AT |-> fresh # None /\ fresh < 0,
             CROSSED_BOOK |-> book # None /\ CrossedBook(book),
             EMPTY_BOOK |-> book # None /\ EmptyBook(book),
             WIDE_SPREAD |-> book # None /\ SpreadOf(book) # None /\ SpreadOf(book) > WideSpread,
             OUT_OF_BOUNDS_PRICE |-> price # None /\ OutOfBounds(price),
             MISSING_BID_OR_ASK |-> book # None /\ ~TwoSided(book)])

Penalties ==
  [NO_PRICE_SNAPSHOT |-> 30, NO_ORDERBOOK_SNAPSHOT |-> 25, NO_RULE_SNAPSHOT |-> 15,
   NO_VENUE_MAPPING |-> 10, STALE_MARKET_DATA |-> 25, FUTURE_AVAILABLE_AT |-> 40,
   CROSSED_BOOK |-> 35, EMPTY_BOOK |-> 35, WIDE_SPREAD |-> 15, OUT_OF_BOUNDS_PRICE |-> 40,
   MISSING_BID_OR_ASK |-> 20]

QualityScore(codes) == Clamp(100 - SumFunctionOnSet(Penalties, codes))

GraveCodes ==
  {"NO_PRICE_SNAPSHOT", "CROSSED_BOOK", "EMPTY_BOOK", "OUT_OF_BOUNDS_PRICE", "FUTURE_AVAILABLE_AT"}

QualitySeverity(score, codes) ==
  IF codes = {} THEN "OK"
  ELSE IF score < 50 \/ codes \cap GraveCodes # {} THEN "ERROR" ELSE "WARNING"

BuildQualityReport(m, t) ==
  LET codes == QualityCodes(m, t)
  IN  [codes |-> codes, score |-> QualityScore(codes),
       severity |-> QualitySeverity(QualityScore(codes), codes)]

-----------------------------------------------------------------------------
NewestRule(m) ==
  CHOOSE r \in catalog :
    /\ r.market = m
    /\ \A q \in catalog : q.market = m => q.at < r.at \/ (q.at = r.at /\ q.rule <= r.rule)

\* a rule is stored unless the newest one is the same; its id is a hash of the content, so
\* an earlier rule that returns moves
IngestCatalog(m, rule, at) ==
  /\ (\E r \in catalog : r.market = m) => NewestRule(m).rule # rule
  /\ catalog' = {r \in catalog : ~(r.market = m /\ r.rule = rule)}
                  \cup {[market |-> m, rule |-> rule, at |-> at]}
  /\ UNCHANGED <<instant, books, priceRows, liquidityRows, reports>>

\* derive_market_data_for_orderbook: nothing of a book without any level
Derived(rows) == {r \in rows : ~EmptyBook(Content(r))}

\* a payload that is ingested late, or of a backfill, is dated like it was captured
CaptureBook(m, c, at, derive) ==
  LET row == [market |-> m, at |-> at, capture |-> c]
      rows == IF derive THEN Derived({row}) ELSE {}
  IN  /\ Captures[c].type = "book"
      /\ Cardinality(books \cup priceRows) < MaxCaptures
      /\ books' = books \cup {row}
      /\ priceRows' = priceRows \cup rows
      /\ liquidityRows' = liquidityRows \cup rows
      /\ UNCHANGED <<instant, catalog, reports>>

\* _price_history_snapshots: a point is available as of its own time, else its payload's
CaptureHistory(m, c, at) ==
  /\ Captures[c].type = "history"
  /\ Cardinality(books \cup priceRows) < MaxCaptures
  /\ priceRows' = priceRows \cup {[market |-> m, at |-> at, capture |-> c]}
  /\ UNCHANGED <<instant, catalog, books, liquidityRows, reports>>

\* rows derived later are dated with their book all the same
DeriveMarketData(m) ==
  LET rows == Derived({r \in books : r.market = m})
  IN  /\ priceRows' = priceRows \cup rows
      /\ liquidityRows' = liquidityRows \cup rows
      /\ UNCHANGED <<instant, catalog, books, reports>>

MayReport(m, t) ==
  Cardinality(reports) < MaxReports \/ \E r \in reports : r.market = m /\ r.at = t

ComputeQuality(m, t) ==
  /\ MayReport(m, t)
  /\ reports' = {r \in reports : ~(r.market = m /\ r.at = t)}
                  \cup {[market |-> m, at |-> t, report |-> BuildQualityReport(m, t)]}
  /\ UNCHANGED <<instant, catalog, books, priceRows, liquidityRows>>

MarketTick ==
  /\ instant < LastInstant
  /\ instant' = instant + 1
  /\ UNCHANGED <<catalog, books, priceRows, liquidityRows, reports>>

MarketInit ==
  /\ instant = 0 /\ catalog = {} /\ books = {} /\ priceRows = {} /\ liquidityRows = {}
  /\ reports = {}

MarketNext ==
  \/ \E m \in DeskMarkets, at \in 0 .. instant :
       \/ \E rule \in 1 .. MaxRules : IngestCatalog(m, rule, at)
       \/ \E c \in DOMAIN Captures :
            CaptureHistory(m, c, at) \/ \E derive \in BOOLEAN : CaptureBook(m, c, at, derive)
       \/ ComputeQuality(m, at)
  \/ \E m \in DeskMarkets : DeriveMarketData(m)
  \/ MarketTick

MarketSpec == MarketInit /\ [][MarketNext]_marketVars

-----------------------------------------------------------------------------
\* Rows and reports keep their shape; a report is of a market and a time once.
MarketTypeOK ==
  /\ instant \in Instants /\ books \cup priceRows \cup liquidityRows \subseteq Row
  /\ \A r \in reports :
       /\ r.report.score \in 0 .. 100
       /\ \A s \in reports : r.market = s.market /\ r.at = s.at => r = s

\* A report names rows of its own past only (quality.py:32), and what it lets pass as
\* OK is a fresh, uncrossed, two-sided and tight market whose rule and mapping are known.
ReportsAreSound ==
  \A r \in reports :
    /\ "FUTURE_AVAILABLE_AT" \notin r.report.codes
    /\ r.report.severity = "OK" <=> r.report.score = 100
    /\ r.report.severity = "WARNING" =>
         /\ r.report.score >= 50
         /\ AsOf(priceRows, r.market, r.at) # {}

\* Whatever is ingested late or derived belatedly, a reading of the past only gives way to
\* a newer row of its past: no row is lost, and none of a later time is read
\* (service.py:117, backfill.py:270).
ReadingsOnlyAdvance ==
  [][\A m \in DeskMarkets, t \in 0 .. instant :
       LET advances(rows, old, new) ==
             new = old
               \/ (new \in rows /\ new.at <= t /\ (old = None \/ RowPrecedes(old, new)))
       IN  /\ advances(priceRows', LatestAsOf(priceRows, m, t), LatestAsOf(priceRows', m, t))
           /\ advances(liquidityRows', LatestAsOf(liquidityRows, m, t),
                       LatestAsOf(liquidityRows', m, t))]_marketVars

\* A report computed again for the same market and time finds nothing missing or stale that
\* was not before, in whatever order rows arrive; only a rule may get lost, when it returns
\* and moves (quality.py:65, ingestion/service.py:922).
LateRowsOnlyComplete ==
  [][\A r \in reports, q \in reports' :
       r.market = q.market /\ r.at = q.at =>
         q.report.codes \cap {"NO_PRICE_SNAPSHOT", "NO_ORDERBOOK_SNAPSHOT", "NO_VENUE_MAPPING",
                              "STALE_MARKET_DATA"} \subseteq r.report.codes]_marketVars

\* Quality reports rest on rows of their past, and what arrives late only completes them.
MarketDataSound ==
  [](MarketTypeOK /\ ReportsAreSound) /\ ReadingsOnlyAdvance /\ LateRowsOnlyComplete
=============================================================================
