--------------------------- MODULE AssessmentsProofs ----------------------------
(***************************************************************************)
(* Theorems about the quality reports, the integrity assessments, the      *)
(* resolution corpus, the divergence and the equivalence of pairs, for     *)
(* every set of markets, bounds of time, captures of books, rules, terms   *)
(* and readings that the assumptions of MarketData, Integrity, Resolution, *)
(* Equivalence and Divergence allow.                                       *)
(***************************************************************************)
EXTENDS Integrity, Resolution, Equivalence, Divergence, DeskLemmas

-----------------------------------------------------------------------------
(* Finitely many rows of one market have a newest, which no other row       *)
(* equals in its time and its id.                                           *)
NewestIn(rows, r) == r \in rows /\ \A s \in rows : s = r \/ RowPrecedes(s, r)

LEMMA NewestExists ==
  ASSUME NEW m, NEW S \in SUBSET {r \in Row : r.market = m}, IsFiniteSet(S), S # {}
  PROVE  \E r : NewestIn(S, r)
<1>. USE CapturesAssumption
<1> DEFINE U == {r \in Row : r.market = m}
           Q == {T \in SUBSET S : T # {} => \E r : NewestIn(T, r)}
<1>1. {} \in Q
  OBVIOUS
<1>2. \A r \in U : r = [market |-> m, at |-> r.at, capture |-> r.capture] /\ r.at \in Nat /\ r.capture \in Nat
  BY DEF Row, Instants
<1>3. \A T \in SUBSET S : \A x \in S \ T : T \in Q => T \cup {x} \in Q
  <2>. SUFFICES ASSUME NEW T \in Q, NEW x \in S
                PROVE  \E r : NewestIn(T \cup {x}, r)
    OBVIOUS
  <2>1. CASE T = {}
    <3>1. NewestIn(T \cup {x}, x)
      BY <2>1 DEF NewestIn
    <3>. QED
      BY <3>1
  <2>2. CASE T # {}
    <3>1. PICK r : NewestIn(T, r)
      BY <2>2
    <3>2. r \in U /\ x \in U /\ T \subseteq U
      BY <3>1 DEF NewestIn
    <3>3. CASE x = r \/ RowPrecedes(x, r)
      <4>1. NewestIn(T \cup {x}, r)
        BY <3>1, <3>3 DEF NewestIn
      <4>. QED
        BY <4>1
    <3>4. CASE ~(x = r \/ RowPrecedes(x, r))
      <4>1. RowPrecedes(r, x)
        BY <1>2, <3>2, <3>4 DEF RowPrecedes
      <4>2. \A s \in T : s = r \/ RowPrecedes(s, r)
        BY <3>1 DEF NewestIn
      <4>3. \A s \in T : RowPrecedes(s, x)
        BY <1>2, <3>2, <4>1, <4>2 DEF RowPrecedes
      <4>4. NewestIn(T \cup {x}, x)
        BY <4>3 DEF NewestIn
      <4>. QED
        BY <4>4
    <3>. QED
      BY <3>3, <3>4
  <2>. QED
    BY <2>1, <2>2
<1>4. S \in Q
  <2>. HIDE DEF Q
  <2>. QED
    BY <1>1, <1>3, SubsetsByInduction
<1>. QED
  BY <1>4

(* What an as-of read returns is the newest row of its market and time.    *)
LEMMA LatestIsNewest ==
  ASSUME NEW rows \in SUBSET Row, IsFiniteSet(rows), NEW m, NEW t, NEW S \in SUBSET AsOf(rows, m, t)
  PROVE  S # {} => NewestIn(S, LatestOf(S))
<1>1. S \in SUBSET {r \in Row : r.market = m} /\ IsFiniteSet(S)
  BY FS_Subset DEF AsOf
<1>2. S # {} => \E r : NewestIn(S, r)
  BY <1>1, NewestExists
<1>3. S # {} => LatestOf(S) = CHOOSE r \in S : \A s \in S : s = r \/ RowPrecedes(s, r)
  BY DEF LatestOf
<1>. QED
  BY <1>2, <1>3 DEF NewestIn

-----------------------------------------------------------------------------
(* Market data.                                                             *)

LEMMA FourAreFinite == \A a, b, c, d : IsFiniteSet({a, b, c, d})
<1>. SUFFICES ASSUME NEW a, NEW b, NEW c, NEW d
              PROVE  IsFiniteSet({a, b, c, d})
  OBVIOUS
<1>1. IsFiniteSet({a}) /\ IsFiniteSet({b}) /\ IsFiniteSet({c}) /\ IsFiniteSet({d})
  BY FS_Singleton
<1>2. IsFiniteSet({a} \cup {b}) /\ IsFiniteSet({c} \cup {d})
  BY <1>1, FS_Union
<1>3. IsFiniteSet(({a} \cup {b}) \cup ({c} \cup {d}))
  BY <1>2, FS_Union
<1>4. ({a} \cup {b}) \cup ({c} \cup {d}) = {a, b, c, d}
  OBVIOUS
<1>. QED
  BY <1>3, <1>4

(* Penalties of a report.                                                   *)
LEMMA PenaltyAmounts == \A code \in DOMAIN Penalties : Penalties[code] \in 10 .. 40
BY DEF Penalties

LEMMA ReportShape ==
  ASSUME NEW codes \in SUBSET DOMAIN Penalties
  PROVE  /\ QualityScore(codes) \in 0 .. 100
         /\ QualityScore(codes) = 100 <=> codes = {}
<1>1. IsFiniteSet(DOMAIN Penalties)
  <2>. DEFINE A == {"NO_PRICE_SNAPSHOT", "NO_ORDERBOOK_SNAPSHOT", "NO_RULE_SNAPSHOT", "NO_VENUE_MAPPING"}
              B == {"STALE_MARKET_DATA", "FUTURE_AVAILABLE_AT", "CROSSED_BOOK", "EMPTY_BOOK"}
              C == {"WIDE_SPREAD", "OUT_OF_BOUNDS_PRICE", "MISSING_BID_OR_ASK", "EMPTY_BOOK"}
  <2>1. DOMAIN Penalties = (A \cup B) \cup C
    BY DEF Penalties
  <2>2. IsFiniteSet(A) /\ IsFiniteSet(B) /\ IsFiniteSet(C)
    BY FourAreFinite
  <2>. HIDE DEF A, B, C
  <2>3. IsFiniteSet(A \cup B)
    BY <2>2, FS_Union
  <2>4. IsFiniteSet((A \cup B) \cup C)
    BY <2>2, <2>3, FS_Union
  <2>. QED
    BY <2>1, <2>4
<1>2. IsFiniteSet(codes) /\ \A c \in codes : Penalties[c] \in Nat /\ Penalties[c] >= 10
  BY <1>1, FS_Subset, PenaltyAmounts
<1>3. PICK n \in Nat : n = SumFunctionOnSet(Penalties, codes)
  BY <1>2, SumOfAmounts
<1>4. (codes = {} => n = 0) /\ \A x \in codes : n >= Penalties[x]
  BY <1>2, <1>3, SumOfAmounts
<1>5. QualityScore(codes) = Clamp(100 - n)
  BY <1>3 DEF QualityScore
<1>6. codes # {} => n >= 10
  BY <1>2, <1>4
<1>. QED
  BY <1>4, <1>5, <1>6 DEF Clamp, Greater, Lesser

MarketRowsOK ==
  /\ IsFiniteSet(books) /\ IsFiniteSet(priceRows) /\ IsFiniteSet(liquidityRows)
  /\ liquidityRows \subseteq priceRows /\ liquidityRows \subseteq books
  /\ \A r \in books : Content(r).type = "book"

ReportsAreDated == \A r \in reports : r.market \in DeskMarkets /\ r.at \in 0 .. instant

\* what a report did not miss was stored, among these rows of prices, of liquidity, of
\* books and of rules
Remembers(codes, m, t, P, L, B, C) ==
  /\ "NO_PRICE_SNAPSHOT" \in codes \/ \E r \in P : r.market = m /\ r.at <= t
  /\ "NO_ORDERBOOK_SNAPSHOT" \in codes \/ \E r \in B : r.market = m /\ r.at <= t
  /\ "NO_VENUE_MAPPING" \in codes \/ \E r \in C : r.market = m
  /\ "STALE_MARKET_DATA" \in codes \/
       \E r \in P \cup L : r.market = m /\ r.at <= t /\ t - r.at <= FreshFor

ReportsRemember ==
  \A r \in reports :
    Remembers(r.report.codes, r.market, r.at, priceRows, liquidityRows, books, catalog)

MarketInv ==
  MarketTypeOK /\ MarketRowsOK /\ ReportsAreDated /\ ReportsAreSound /\ ReportsRemember

LEMMA MarketInit_Inv == MarketInit => MarketInv
BY FS_EmptySet, MarketDataAssumption
   DEF MarketInit, MarketInv, MarketTypeOK, MarketRowsOK, ReportsAreDated, ReportsAreSound,
       ReportsRemember, Instants

LEMMA RemembersMore ==
  ASSUME NEW codes, NEW m, NEW t, NEW P, NEW L, NEW B, NEW C,
         NEW P2, NEW L2, NEW B2, NEW C2, P \subseteq P2, L \subseteq L2, B \subseteq B2,
         \A c \in C : \E d \in C2 : d.market = c.market, Remembers(codes, m, t, P, L, B, C)
  PROVE  Remembers(codes, m, t, P2, L2, B2, C2)
<1>1. "NO_PRICE_SNAPSHOT" \in codes \/ \E r \in P2 : r.market = m /\ r.at <= t
  BY DEF Remembers
<1>2. "NO_ORDERBOOK_SNAPSHOT" \in codes \/ \E r \in B2 : r.market = m /\ r.at <= t
  BY DEF Remembers
<1>3. "NO_VENUE_MAPPING" \in codes \/ \E r \in C2 : r.market = m
  BY DEF Remembers
<1>4. "STALE_MARKET_DATA" \in codes \/
        \E r \in P2 \cup L2 : r.market = m /\ r.at <= t /\ t - r.at <= FreshFor
  BY DEF Remembers
<1>. QED
  BY <1>1, <1>2, <1>3, <1>4 DEF Remembers

(* What a read of a market and a time returns.                              *)
LEMMA ReadIsNewest ==
  ASSUME NEW rows \in SUBSET Row, IsFiniteSet(rows), NEW m, NEW t
  PROVE  LET read == LatestAsOf(rows, m, t)
         IN  /\ AsOf(rows, m, t) = {} => read = None
             /\ AsOf(rows, m, t) # {} =>
                  /\ read \in rows /\ read.market = m /\ read.at <= t
                  /\ \A s \in rows : s.market = m /\ s.at <= t => s = read \/ RowPrecedes(s, read)
<1>1. AsOf(rows, m, t) # {} => NewestIn(AsOf(rows, m, t), LatestAsOf(rows, m, t))
  BY LatestIsNewest DEF LatestAsOf
<1>2. AsOf(rows, m, t) = {} => LatestAsOf(rows, m, t) = None
  BY DEF LatestAsOf, LatestOf
<1>. QED
  BY <1>1, <1>2 DEF NewestIn, AsOf

(* The report of a market and a time not in the future misses nothing that  *)
(* an earlier one found.                                                    *)
LEMMA ReportMissesNoMore ==
  ASSUME MarketInv, NEW m \in DeskMarkets, NEW t \in 0 .. instant, NEW codes,
         Remembers(codes, m, t, priceRows, liquidityRows, books, catalog)
  PROVE  QualityCodes(m, t) \cap {"NO_PRICE_SNAPSHOT", "NO_ORDERBOOK_SNAPSHOT", "NO_VENUE_MAPPING",
                                  "STALE_MARKET_DATA"} \subseteq codes
<1>. DEFINE price == LatestAsOf(priceRows, m, t)
            liquidity == LatestAsOf(liquidityRows, m, t)
            fresh == Freshness(t, price, liquidity)
<1>1. t \in Nat /\ FreshFor \in Nat
  BY MarketDataAssumption DEF MarketInv, MarketTypeOK, Instants
<1>2. /\ "NO_PRICE_SNAPSHOT" \in QualityCodes(m, t) => price = None
      /\ "NO_ORDERBOOK_SNAPSHOT" \in QualityCodes(m, t) => AsOf(books, m, t) = {}
      /\ "NO_VENUE_MAPPING" \in QualityCodes(m, t) => ~\E r \in catalog : r.market = m
      /\ "STALE_MARKET_DATA" \in QualityCodes(m, t) => fresh = None \/ fresh > FreshFor \/ fresh < 0
  BY DEF QualityCodes, Codes
<1>. HIDE DEF price, liquidity, fresh
<1>3. priceRows \in SUBSET Row /\ IsFiniteSet(priceRows) /\ liquidityRows \in SUBSET Row /\ IsFiniteSet(liquidityRows)
  BY DEF MarketInv, MarketTypeOK, MarketRowsOK
<1>4. \A r \in Row : r.at \in Nat /\ r.capture \in Nat
  BY CapturesAssumption DEF Row, Instants
<1>5. /\ AsOf(priceRows, m, t) = {} => price = None
      /\ AsOf(priceRows, m, t) # {} =>
           /\ price \in Row /\ price.at <= t
           /\ \A s \in priceRows : s.market = m /\ s.at <= t => s.at <= price.at
  BY <1>3, <1>4, ReadIsNewest DEF price, RowPrecedes
<1>6. /\ AsOf(liquidityRows, m, t) = {} => liquidity = None
      /\ AsOf(liquidityRows, m, t) # {} =>
           /\ liquidity \in Row /\ liquidity.at <= t
           /\ \A s \in liquidityRows : s.market = m /\ s.at <= t => s.at <= liquidity.at
  BY <1>3, <1>4, ReadIsNewest DEF liquidity, RowPrecedes
<1>7. ASSUME "NO_PRICE_SNAPSHOT" \in QualityCodes(m, t) PROVE "NO_PRICE_SNAPSHOT" \in codes
  BY <1>2, <1>5, <1>7, NoRowAssumption DEF Remembers, AsOf
<1>8. ASSUME "NO_ORDERBOOK_SNAPSHOT" \in QualityCodes(m, t) PROVE "NO_ORDERBOOK_SNAPSHOT" \in codes
  BY <1>2, <1>8 DEF Remembers, AsOf
<1>9. ASSUME "NO_VENUE_MAPPING" \in QualityCodes(m, t) PROVE "NO_VENUE_MAPPING" \in codes
  BY <1>2, <1>9 DEF Remembers
<1>10. ASSUME "STALE_MARKET_DATA" \in QualityCodes(m, t), "STALE_MARKET_DATA" \notin codes PROVE FALSE
  <2>1. PICK r \in priceRows \cup liquidityRows : r.market = m /\ r.at <= t /\ t - r.at <= FreshFor
    BY <1>10 DEF Remembers
  <2>2. r.at \in Nat
    BY <1>3, <1>4, <2>1
  <2>3. CASE r \in priceRows
    <3>1. price \in Row /\ price # None /\ price.at \in Nat /\ price.at <= t /\ r.at <= price.at
      BY <1>4, <1>5, <2>1, <2>3, NoRowAssumption DEF AsOf
    <3>2. liquidity = None \/ (liquidity.at \in Nat /\ liquidity.at <= t)
      BY <1>4, <1>6
    <3>3. fresh \in 0 .. FreshFor
      BY <1>1, <2>1, <2>2, <3>1, <3>2 DEF fresh, Freshness, Greater
    <3>. QED
      BY <1>1, <1>2, <1>10, <3>3, NoRowAssumption
  <2>4. CASE r \in liquidityRows
    <3>1. /\ liquidity \in Row /\ liquidity # None /\ liquidity.at \in Nat /\ liquidity.at <= t
          /\ r.at <= liquidity.at
      BY <1>4, <1>6, <2>1, <2>4, NoRowAssumption DEF AsOf
    <3>2. price = None \/ (price.at \in Nat /\ price.at <= t)
      BY <1>4, <1>5
    <3>3. fresh \in 0 .. FreshFor
      BY <1>1, <2>1, <2>2, <3>1, <3>2 DEF fresh, Freshness, Greater
    <3>. QED
      BY <1>1, <1>2, <1>10, <3>3, NoRowAssumption
  <2>. QED
    BY <2>1, <2>3, <2>4
<1>. QED
  BY <1>7, <1>8, <1>9, <1>10

(* A new report remembers what it found.                                    *)
LEMMA NewReportRemembers ==
  ASSUME MarketInv, NEW m \in DeskMarkets, NEW t \in 0 .. instant
  PROVE  Remembers(QualityCodes(m, t), m, t, priceRows, liquidityRows, books, catalog)
<1>. DEFINE price == LatestAsOf(priceRows, m, t)
            liquidity == LatestAsOf(liquidityRows, m, t)
            fresh == Freshness(t, price, liquidity)
<1>1. t \in Nat /\ FreshFor \in Nat
  BY MarketDataAssumption DEF MarketInv, MarketTypeOK, Instants
<1>2. /\ "NO_PRICE_SNAPSHOT" \notin QualityCodes(m, t) => price # None
      /\ "NO_ORDERBOOK_SNAPSHOT" \notin QualityCodes(m, t) => AsOf(books, m, t) # {}
      /\ "NO_VENUE_MAPPING" \notin QualityCodes(m, t) => \E r \in catalog : r.market = m
      /\ "STALE_MARKET_DATA" \notin QualityCodes(m, t) => fresh # None /\ ~(fresh > FreshFor)
  BY DEF QualityCodes, Codes
<1>. HIDE DEF price, liquidity, fresh
<1>3. priceRows \in SUBSET Row /\ IsFiniteSet(priceRows) /\ liquidityRows \in SUBSET Row /\ IsFiniteSet(liquidityRows)
  BY DEF MarketInv, MarketTypeOK, MarketRowsOK
<1>4. price = None \/ (price \in priceRows /\ price.market = m /\ price.at <= t)
  BY <1>3, ReadIsNewest DEF price
<1>5. liquidity = None \/ (liquidity \in liquidityRows /\ liquidity.market = m /\ liquidity.at <= t)
  BY <1>3, ReadIsNewest DEF liquidity
<1>6. \A r \in Row : r.at \in Nat
  BY DEF Row, Instants
<1>7. "STALE_MARKET_DATA" \notin QualityCodes(m, t) =>
        \E r \in priceRows \cup liquidityRows : r.market = m /\ r.at <= t /\ t - r.at <= FreshFor
  <2>. SUFFICES ASSUME fresh # None, ~(fresh > FreshFor)
                PROVE  \E r \in priceRows \cup liquidityRows : r.market = m /\ r.at <= t /\ t - r.at <= FreshFor
    BY <1>2
  <2>1. (price # None /\ fresh = t - price.at) \/ (liquidity # None /\ fresh = t - liquidity.at)
    BY DEF fresh, Freshness, Greater
  <2>2. CASE price # None /\ fresh = t - price.at
    BY <1>1, <1>3, <1>4, <1>6, <2>2
  <2>3. CASE liquidity # None /\ fresh = t - liquidity.at
    BY <1>1, <1>3, <1>5, <1>6, <2>3
  <2>. QED
    BY <2>1, <2>2, <2>3
<1>. QED
  BY <1>2, <1>4, <1>7 DEF Remembers, AsOf

(* The report of a market and a time not in the future is sound.            *)
LEMMA NewReport ==
  ASSUME MarketInv, NEW m \in DeskMarkets, NEW t \in 0 .. instant
  PROVE  LET report == BuildQualityReport(m, t)
         IN  /\ report.score \in 0 .. 100
             /\ "FUTURE_AVAILABLE_AT" \notin report.codes
             /\ report.severity = "OK" <=> report.score = 100
             /\ report.severity = "WARNING" => report.score >= 50 /\ AsOf(priceRows, m, t) # {}
<1> DEFINE price == LatestAsOf(priceRows, m, t)
           liquidity == LatestAsOf(liquidityRows, m, t)
           fresh == Freshness(t, price, liquidity)
           codes == QualityCodes(m, t)
<1>1. t \in Nat
  BY MarketDataAssumption DEF MarketInv, MarketTypeOK, Instants
<1>2. \A rows \in {priceRows, liquidityRows} : LatestAsOf(rows, m, t) = None
                                                 \/ LatestAsOf(rows, m, t).at \in 0 .. t
  <2>. SUFFICES ASSUME NEW rows \in {priceRows, liquidityRows}
                PROVE  LatestAsOf(rows, m, t) = None \/ LatestAsOf(rows, m, t).at \in 0 .. t
    OBVIOUS
  <2>1. rows \in SUBSET Row /\ IsFiniteSet(rows)
    BY DEF MarketInv, MarketTypeOK, MarketRowsOK
  <2>2. AsOf(rows, m, t) # {} => NewestIn(AsOf(rows, m, t), LatestAsOf(rows, m, t))
    BY <2>1, LatestIsNewest DEF LatestAsOf
  <2>3. CASE AsOf(rows, m, t) = {}
    BY <2>3 DEF LatestAsOf, LatestOf
  <2>4. CASE AsOf(rows, m, t) # {}
    BY <1>1, <2>1, <2>2, <2>4 DEF NewestIn, AsOf, Row, Instants
  <2>. QED
    BY <2>3, <2>4
<1>3. fresh = None \/ fresh \in Nat
  BY <1>1, <1>2 DEF Freshness, Greater
<1>4. "FUTURE_AVAILABLE_AT" \notin codes
  <2>. HIDE DEF fresh
  <2>1. "FUTURE_AVAILABLE_AT" \in codes => fresh # None /\ fresh < 0
    BY DEF QualityCodes, Codes, fresh
  <2>. QED
    BY <1>3, <2>1
<1>5. codes \subseteq DOMAIN Penalties
  BY DEF QualityCodes, Codes, Penalties
<1>6. "NO_PRICE_SNAPSHOT" \notin codes => price # None
  BY DEF QualityCodes, Codes
<1>. HIDE DEF codes, price
<1>7. QualityScore(codes) \in 0 .. 100 /\ (QualityScore(codes) = 100 <=> codes = {})
  BY <1>5, ReportShape
<1>8. BuildQualityReport(m, t) = [codes |-> codes, score |-> QualityScore(codes),
                                   severity |-> QualitySeverity(QualityScore(codes), codes)]
  BY DEF BuildQualityReport, codes
<1>9. AsOf(priceRows, m, t) = {} => price = None
  BY DEF LatestAsOf, LatestOf, price
<1>10. QualitySeverity(QualityScore(codes), codes) = "OK" <=> codes = {}
  BY DEF QualitySeverity
<1>11. QualitySeverity(QualityScore(codes), codes) = "WARNING" =>
         QualityScore(codes) >= 50 /\ "NO_PRICE_SNAPSHOT" \notin codes
  BY <1>7 DEF QualitySeverity, GraveCodes
<1>. QED
  BY <1>4, <1>6, <1>7, <1>8, <1>9, <1>10, <1>11

LEMMA MarketStep == MarketInv /\ [MarketNext]_marketVars => MarketInv'
<1>. SUFFICES ASSUME MarketInv, [MarketNext]_marketVars
              PROVE  MarketInv'
  OBVIOUS
<1>. USE DEF MarketInv
<1>0. instant \in Nat /\ LastInstant \in Nat
  BY MarketDataAssumption DEF MarketTypeOK, Instants
<1>1. ASSUME NEW m \in DeskMarkets, NEW rule, NEW at, IngestCatalog(m, rule, at)
      PROVE  MarketInv'
  <2>1. UNCHANGED <<instant, books, priceRows, liquidityRows, reports>>
    BY <1>1 DEF IngestCatalog
  <2>2. ASSUME NEW c \in catalog PROVE \E d \in catalog' : d.market = c.market
    <3>1. PICK new : new = [market |-> m, rule |-> rule, at |-> at]
      OBVIOUS
    <3>2. new.market = m /\ catalog' = {r \in catalog : ~(r.market = m /\ r.rule = rule)} \cup {new}
      BY <1>1, <3>1 DEF IngestCatalog
    <3>. QED
      BY <3>2
  <2>3. ReportsRemember'
    BY <2>1, <2>2, RemembersMore DEF ReportsRemember
  <2>. QED
    BY <2>1, <2>3 DEF MarketTypeOK, MarketRowsOK, ReportsAreDated, ReportsAreSound, AsOf, Content
<1>2. ASSUME NEW m \in DeskMarkets, DeriveMarketData(m)
      PROVE  MarketInv'
  <2>. DEFINE rows == Derived({r \in books : r.market = m})
  <2>1. rows \subseteq books /\ IsFiniteSet(rows)
    BY FS_Subset DEF Derived, MarketRowsOK
  <2>2. /\ priceRows' = priceRows \cup rows
        /\ liquidityRows' = liquidityRows \cup rows
        /\ UNCHANGED <<instant, catalog, books, reports>>
    BY <1>2 DEF DeriveMarketData
  <2>. HIDE DEF rows
  <2>3. MarketTypeOK'
    BY <2>1, <2>2 DEF MarketTypeOK
  <2>4. MarketRowsOK'
    BY <2>1, <2>2, FS_Union DEF MarketRowsOK, Content
  <2>5. ReportsAreDated' /\ ReportsAreSound'
    BY <2>2 DEF ReportsAreDated, ReportsAreSound, AsOf
  <2>6. ReportsRemember'
    BY <2>2, RemembersMore DEF ReportsRemember
  <2>. QED
    BY <2>3, <2>4, <2>5, <2>6
<1>3. ASSUME NEW m \in DeskMarkets, NEW at \in 0 .. instant, NEW c \in DOMAIN Captures,
             CaptureHistory(m, c, at)
      PROVE  MarketInv'
  <2>. DEFINE row == [market |-> m, at |-> at, capture |-> c]
  <2>1. priceRows' = priceRows \cup {row} /\ UNCHANGED <<instant, catalog, books, liquidityRows, reports>>
    BY <1>3 DEF CaptureHistory
  <2>2. row \in Row
    BY <1>0 DEF Row, MarketTypeOK, Instants
  <2>. HIDE DEF row
  <2>3. MarketTypeOK'
    BY <2>1, <2>2 DEF MarketTypeOK
  <2>4. MarketRowsOK'
    BY <2>1, FS_AddElement DEF MarketRowsOK, Content
  <2>5. ReportsAreDated' /\ ReportsAreSound'
    BY <2>1 DEF ReportsAreDated, ReportsAreSound, AsOf
  <2>6. ReportsRemember'
    BY <2>1, RemembersMore DEF ReportsRemember
  <2>. QED
    BY <2>3, <2>4, <2>5, <2>6
<1>4. ASSUME NEW m \in DeskMarkets, NEW at \in 0 .. instant, NEW c \in DOMAIN Captures,
             NEW derive \in BOOLEAN, CaptureBook(m, c, at, derive)
      PROVE  MarketInv'
  <2>. DEFINE row == [market |-> m, at |-> at, capture |-> c]
              more == IF derive THEN Derived({row}) ELSE {}
  <2>1. /\ books' = books \cup {row}
        /\ priceRows' = priceRows \cup more
        /\ liquidityRows' = liquidityRows \cup more
        /\ UNCHANGED <<instant, catalog, reports>>
    BY <1>4 DEF CaptureBook
  <2>2. row \in Row /\ Content(row).type = "book"
    BY <1>0, <1>4 DEF Row, MarketTypeOK, Instants, CaptureBook, Content
  <2>3. more \subseteq {row} /\ IsFiniteSet(more)
    <3>1. more \subseteq {row}
      BY DEF Derived
    <3>2. IsFiniteSet({row})
      BY FS_Singleton
    <3>. HIDE DEF row, more
    <3>. QED
      BY <3>1, <3>2, FS_Subset
  <2>. HIDE DEF row, more
  <2>4. MarketTypeOK'
    BY <2>1, <2>2, <2>3 DEF MarketTypeOK
  <2>5. MarketRowsOK'
    BY <2>1, <2>2, <2>3, FS_AddElement, FS_Union DEF MarketRowsOK, Content
  <2>6. ReportsAreDated' /\ ReportsAreSound'
    BY <2>1 DEF ReportsAreDated, ReportsAreSound, AsOf
  <2>7. ReportsRemember'
    BY <2>1, RemembersMore DEF ReportsRemember
  <2>. QED
    BY <2>4, <2>5, <2>6, <2>7
<1>5. ASSUME NEW m \in DeskMarkets, NEW t \in 0 .. instant, ComputeQuality(m, t)
      PROVE  MarketInv'
  <2>. DEFINE new == [market |-> m, at |-> t, report |-> BuildQualityReport(m, t)]
              kept == {r \in reports : ~(r.market = m /\ r.at = t)}
  <2>1. reports' = kept \cup {new} /\ UNCHANGED <<instant, catalog, books, priceRows, liquidityRows>>
    BY <1>5 DEF ComputeQuality
  <2>2. /\ new.report.score \in 0 .. 100
        /\ "FUTURE_AVAILABLE_AT" \notin new.report.codes
        /\ new.report.severity = "OK" <=> new.report.score = 100
        /\ new.report.severity = "WARNING" =>
             new.report.score >= 50 /\ AsOf(priceRows, new.market, new.at) # {}
    BY NewReport
  <2>3. new.market = m /\ new.at = t /\ kept \subseteq reports
    OBVIOUS
  <2>4. \A r \in kept : ~(r.market = m /\ r.at = t)
    OBVIOUS
  <2>9. new.report.codes = QualityCodes(m, t)
    BY DEF BuildQualityReport
  <2>. HIDE DEF new, kept
  <2>10. ReportsRemember'
    BY <2>1, <2>3, <2>9, NewReportRemembers DEF ReportsRemember
  <2>5. MarketTypeOK'
    BY <2>1, <2>2, <2>3, <2>4 DEF MarketTypeOK
  <2>6. MarketRowsOK'
    BY <2>1 DEF MarketRowsOK, Content
  <2>7. ReportsAreDated'
    BY <2>1, <2>3 DEF ReportsAreDated
  <2>8. ReportsAreSound'
    BY <2>1, <2>2, <2>3 DEF ReportsAreSound, AsOf
  <2>. QED
    BY <2>5, <2>6, <2>7, <2>8, <2>10
<1>6. CASE MarketTick
  <2>1. instant' = instant + 1 /\ instant < LastInstant
        /\ UNCHANGED <<catalog, books, priceRows, liquidityRows, reports>>
    BY <1>6 DEF MarketTick
  <2>2. MarketTypeOK'
    BY <1>0, <2>1 DEF MarketTypeOK, Instants
  <2>3. MarketRowsOK' /\ ReportsAreSound' /\ ReportsRemember'
    BY <2>1 DEF MarketRowsOK, ReportsAreSound, ReportsRemember, AsOf, Content
  <2>4. ReportsAreDated'
    BY <1>0, <2>1 DEF ReportsAreDated
  <2>. QED
    BY <2>2, <2>3, <2>4
<1>7. CASE UNCHANGED marketVars
  BY <1>7 DEF marketVars, MarketTypeOK, MarketRowsOK, ReportsAreDated, ReportsAreSound,
                 ReportsRemember, AsOf, Content
<1>. QED
  BY <1>1, <1>2, <1>3, <1>4, <1>5, <1>6, <1>7 DEF MarketNext

(* Rows only join.                                                          *)
LEMMA RowsOnlyJoin ==
  ASSUME MarketNext
  PROVE  priceRows \subseteq priceRows' /\ liquidityRows \subseteq liquidityRows'
BY DEF MarketNext, IngestCatalog, CaptureHistory, CaptureBook, ComputeQuality, DeriveMarketData,
       MarketTick

Advances(rows, old, new, t) ==
  new = old \/ (new \in rows /\ new.at <= t /\ (old = None \/ RowPrecedes(old, new)))

LEMMA ReadAdvances ==
  ASSUME NEW P \in SUBSET Row, IsFiniteSet(P), NEW Q \in SUBSET Row, IsFiniteSet(Q), P \subseteq Q,
         NEW m, NEW t
  PROVE  Advances(Q, LatestAsOf(P, m, t), LatestAsOf(Q, m, t), t)
<1>1. CASE AsOf(Q, m, t) = {}
  <2>1. AsOf(P, m, t) = {}
    BY <1>1 DEF AsOf
  <2>. QED
    BY <1>1, <2>1, ReadIsNewest DEF Advances
<1>2. CASE AsOf(Q, m, t) # {}
  <2>1. PICK new \in Q : /\ new = LatestAsOf(Q, m, t) /\ new.at <= t
                         /\ \A s \in Q : s.market = m /\ s.at <= t => s = new \/ RowPrecedes(s, new)
    BY <1>2, ReadIsNewest
  <2>2. PICK old : old = LatestAsOf(P, m, t)
    OBVIOUS
  <2>3. old = None \/ (old \in P /\ old.market = m /\ old.at <= t)
    BY <2>2, ReadIsNewest
  <2>4. old = None \/ old = new \/ RowPrecedes(old, new)
    BY <2>1, <2>3
  <2>5. Advances(Q, old, new, t)
    BY <2>1, <2>4 DEF Advances
  <2>. QED
    BY <2>1, <2>2, <2>5
<1>. QED
  BY <1>1, <1>2

Advance ==
  \A m \in DeskMarkets, t \in 0 .. instant :
    /\ Advances(priceRows', LatestAsOf(priceRows, m, t), LatestAsOf(priceRows', m, t), t)
    /\ Advances(liquidityRows', LatestAsOf(liquidityRows, m, t), LatestAsOf(liquidityRows', m, t), t)

LEMMA AdvanceStep == MarketInv /\ MarketInv' /\ [MarketNext]_marketVars => [Advance]_marketVars
<1>. SUFFICES ASSUME MarketInv, MarketInv', MarketNext PROVE Advance
  OBVIOUS
<1>1. /\ priceRows \in SUBSET Row /\ IsFiniteSet(priceRows)
      /\ liquidityRows \in SUBSET Row /\ IsFiniteSet(liquidityRows)
      /\ priceRows' \in SUBSET Row /\ IsFiniteSet(priceRows')
      /\ liquidityRows' \in SUBSET Row /\ IsFiniteSet(liquidityRows')
  BY DEF MarketInv, MarketTypeOK, MarketRowsOK, Row, Instants
<1>. QED
  BY <1>1, RowsOnlyJoin, ReadAdvances DEF Advance

Complete ==
  \A r \in reports, q \in reports' :
    r.market = q.market /\ r.at = q.at =>
      q.report.codes \cap {"NO_PRICE_SNAPSHOT", "NO_ORDERBOOK_SNAPSHOT", "NO_VENUE_MAPPING",
                           "STALE_MARKET_DATA"} \subseteq r.report.codes

LEMMA CompleteStep == MarketInv /\ [MarketNext]_marketVars => [Complete]_marketVars
<1>. SUFFICES ASSUME MarketInv, MarketNext, NEW r \in reports, NEW q \in reports',
                     r.market = q.market, r.at = q.at
              PROVE  q.report.codes \cap {"NO_PRICE_SNAPSHOT", "NO_ORDERBOOK_SNAPSHOT",
                                          "NO_VENUE_MAPPING", "STALE_MARKET_DATA"} \subseteq r.report.codes
  BY DEF Complete
<1>1. \A x, y \in reports : x.market = y.market /\ x.at = y.at => x = y
  BY DEF MarketInv, MarketTypeOK
<1>2. CASE q \in reports
  BY <1>1, <1>2
<1>3. CASE q \notin reports
  <2>1. PICK m \in DeskMarkets, t \in 0 .. instant : ComputeQuality(m, t)
    BY <1>3 DEF MarketNext, IngestCatalog, CaptureHistory, CaptureBook, DeriveMarketData, MarketTick
  <2>2. q = [market |-> m, at |-> t, report |-> BuildQualityReport(m, t)]
    BY <1>3, <2>1 DEF ComputeQuality
  <2>3. q.market = m /\ q.at = t /\ q.report.codes = QualityCodes(m, t)
    BY <2>2 DEF BuildQualityReport
  <2>4. Remembers(r.report.codes, m, t, priceRows, liquidityRows, books, catalog)
    BY <2>3 DEF MarketInv, ReportsRemember
  <2>. QED
    BY <2>3, <2>4, ReportMissesNoMore
<1>. QED
  BY <1>2, <1>3

(* Quality reports rest on rows of their past, readings of the past only    *)
(* give way to newer rows of their past, and a report asked again misses    *)
(* nothing that was found, whatever is captured with an earlier date,       *)
(* derived late or returns in between (quality.py:32, service.py:117, 235). *)
THEOREM MarketDataIsSound == MarketSpec => MarketDataSound
<1>1. MarketInv => MarketTypeOK /\ ReportsAreSound
  BY DEF MarketInv
<1>. QED
  BY <1>1, MarketInit_Inv, MarketStep, AdvanceStep, CompleteStep, PTL
     DEF MarketSpec, MarketDataSound, ReadingsOnlyAdvance, LateRowsOnlyComplete, Advance, Advances, Complete

-----------------------------------------------------------------------------
(* Integrity: the signals and what is aggregated of them.                   *)

SignalOK(s) ==
  /\ s.severity \in {"WARNING", "ERROR", "CRITICAL"} /\ s.hint \in DOMAIN HintRank
  /\ s.score \in 0 .. 100
  /\ s.severity = "CRITICAL" => s.hint = "NO_TRADE" /\ s.score >= 95
  /\ s.severity = "ERROR" => HintRank[s.hint] >= 2 /\ s.score >= 70
  /\ s.severity = "WARNING" => HintRank[s.hint] \in 1 .. 3 /\ s.score \in 50 .. 65

(* Every signal a feature may trigger is of its severity's kind.            *)
LEMMA SignalsAreOfTheirKind ==
  ASSUME NEW f, NEW s \in Signals(f)
  PROVE  SignalOK(s)
<1>. USE DEF SignalOK, Signal, HintRank
<1>1. CASE s \in BookSignals(f)
  BY <1>1 DEF BookSignals, When
<1>2. CASE s \in SpreadSignals(f)
  BY <1>2 DEF SpreadSignals
<1>3. CASE s \in WideningSignals(f)
  BY <1>3 DEF WideningSignals
<1>4. CASE s \in DepthSignals(f)
  BY <1>4 DEF DepthSignals
<1>5. CASE s \in PriceSignals(f)
  BY <1>5 DEF PriceSignals
<1>6. CASE s \in FreshnessSignals(f)
  BY <1>6 DEF FreshnessSignals
<1>7. CASE s \in QualitySignals(f)
  BY <1>7 DEF QualitySignals
<1>8. CASE s \in RuleSignals(f)
  BY <1>8 DEF RuleSignals, When
<1>. QED
  BY <1>1, <1>2, <1>3, <1>4, <1>5, <1>6, <1>7, <1>8 DEF Signals

(* The value of highest rank.                                               *)
LEMMA MostIsHighest ==
  ASSUME NEW n \in Nat, NEW D, NEW rank \in [D -> 0 .. n], NEW values \in SUBSET D, values # {}, NEW least
  PROVE  /\ MostOf(values, rank, least) \in values
         /\ \A w \in values : rank[w] <= rank[MostOf(values, rank, least)]
<1> DEFINE S == {n - rank[v] : v \in values}
<1>1. S \in SUBSET Nat /\ S # {}
  OBVIOUS
<1>2. PICK d \in S : \A e \in S : d <= e
  <2>. HIDE DEF S
  <2>. QED
    BY <1>1, LeastNatural
<1>3. PICK v \in values : d = n - rank[v]
  OBVIOUS
<1>4. \A w \in values : rank[w] <= rank[v]
  <2>. SUFFICES ASSUME NEW w \in values
                PROVE  rank[w] <= rank[v]
    OBVIOUS
  <2>1. n - rank[v] <= n - rank[w]
    BY <1>2, <1>3
  <2>2. rank[v] \in 0 .. n /\ rank[w] \in 0 .. n
    OBVIOUS
  <2>. QED
    BY <2>1, <2>2
<1>. QED
  BY <1>4 DEF MostOf

(* The three maxima of some signals are each taken by one of them.          *)
LEMMA MaximaAreTaken ==
  ASSUME NEW S, S # {}, \A s \in S : SignalOK(s)
  PROVE  /\ \E s \in S : s.hint = ActionHint(S)
         /\ \A s \in S : HintRank[s.hint] <= HintRank[ActionHint(S)]
         /\ \E s \in S : s.severity = Severity(S)
         /\ \A s \in S : SeverityRank[s.severity] <= SeverityRank[Severity(S)]
         /\ \E s \in S : s.score = RiskScore(S)
         /\ \A s \in S : s.score <= RiskScore(S)
<1>1. HintRank \in [DOMAIN HintRank -> 0 .. 4] /\ SeverityRank \in [DOMAIN SeverityRank -> 0 .. 4]
  BY DEF HintRank, SeverityRank
<1>2. {s.hint : s \in S} \in SUBSET DOMAIN HintRank /\ {s.severity : s \in S} \in SUBSET DOMAIN SeverityRank
  BY DEF SignalOK, SeverityRank
<1>3. {s.hint : s \in S} # {} /\ {s.severity : s \in S} # {}
  OBVIOUS
<1>4. /\ ActionHint(S) \in {s.hint : s \in S}
      /\ \A w \in {s.hint : s \in S} : HintRank[w] <= HintRank[ActionHint(S)]
  <2>. DEFINE values == {s.hint : s \in S}
  <2>1. values \in SUBSET DOMAIN HintRank /\ values # {} /\ ActionHint(S) = MostOf(values, HintRank, "NONE")
    BY <1>2, <1>3 DEF ActionHint
  <2>. HIDE DEF values
  <2>2. /\ MostOf(values, HintRank, "NONE") \in values
        /\ \A w \in values : HintRank[w] <= HintRank[MostOf(values, HintRank, "NONE")]
    BY <1>1, <2>1, MostIsHighest
  <2>3. ActionHint(S) \in values /\ \A w \in values : HintRank[w] <= HintRank[ActionHint(S)]
    BY <2>1, <2>2
  <2>. QED
    BY <2>3 DEF values
<1>5. /\ Severity(S) \in {s.severity : s \in S}
      /\ \A w \in {s.severity : s \in S} : SeverityRank[w] <= SeverityRank[Severity(S)]
  <2>. DEFINE values == {s.severity : s \in S}
  <2>1. values \in SUBSET DOMAIN SeverityRank /\ values # {} /\ Severity(S) = MostOf(values, SeverityRank, "INFO")
    BY <1>2, <1>3 DEF Severity
  <2>. HIDE DEF values
  <2>2. /\ MostOf(values, SeverityRank, "INFO") \in values
        /\ \A w \in values : SeverityRank[w] <= SeverityRank[MostOf(values, SeverityRank, "INFO")]
    BY <1>1, <2>1, MostIsHighest
  <2>3. Severity(S) \in values /\ \A w \in values : SeverityRank[w] <= SeverityRank[Severity(S)]
    BY <2>1, <2>2
  <2>. QED
    BY <2>3 DEF values
<1>6. /\ \E s \in S : s.score = RiskScore(S)
      /\ \A s \in S : s.score <= RiskScore(S)
  <2>. DEFINE N == {100 - s.score : s \in S}
  <2>1. N \in SUBSET Nat /\ N # {}
    BY DEF SignalOK
  <2>2. PICK d \in N : \A e \in N : d <= e
    <3>. HIDE DEF N
    <3>. QED
      BY <2>1, LeastNatural
  <2>3. PICK s \in S : d = 100 - s.score
    OBVIOUS
  <2>4. \A r \in S : r.score \in 0 .. 100 /\ 100 - r.score \in N
    BY DEF SignalOK
  <2>5. ASSUME NEW r \in S
        PROVE  r.score <= s.score
    <3>1. 100 - s.score <= 100 - r.score
      BY <2>2, <2>3, <2>4
    <3>2. r.score \in Int /\ s.score \in Int
      BY <2>4
    <3>. QED
      BY <3>1, <3>2
  <2>6. RiskScore(S) = (CHOOSE x \in S : \A r \in S : r.score <= x.score).score
    BY DEF RiskScore
  <2>. QED
    BY <2>5, <2>6
<1>. QED
  BY <1>4, <1>5, <1>6

(* The summary of an assessment agrees with its signals.                    *)
LEMMA SummaryAgrees ==
  ASSUME NEW S, \A s \in S : SignalOK(s)
  PROVE  /\ RiskScore(S) \in 0 .. 100 /\ ActionHint(S) \in DOMAIN HintRank
         /\ Severity(S) = "CRITICAL" => ActionHint(S) = "NO_TRADE" /\ RiskScore(S) >= 95
         /\ Severity(S) = "ERROR" => HintRank[ActionHint(S)] >= 2 /\ RiskScore(S) >= 70
         /\ Severity(S) = "WARNING" => HintRank[ActionHint(S)] \in 1 .. 3 /\ RiskScore(S) \in 50 .. 65
         /\ RiskScore(S) = 0 <=> ActionHint(S) = "NONE"
<1>1. CASE S = {}
  BY <1>1 DEF RiskScore, ActionHint, Severity, MostOf, HintRank
<1>2. CASE S # {}
  <2>1. PICK h \in S : h.hint = ActionHint(S)
    BY <1>2, MaximaAreTaken
  <2>2. PICK v \in S : v.severity = Severity(S)
    BY <1>2, MaximaAreTaken
  <2>3. PICK r \in S : r.score = RiskScore(S)
    BY <1>2, MaximaAreTaken
  <2>4. /\ \A s \in S : HintRank[s.hint] <= HintRank[h.hint]
        /\ \A s \in S : SeverityRank[s.severity] <= SeverityRank[v.severity]
        /\ \A s \in S : s.score <= r.score
    BY <1>2, <2>1, <2>2, <2>3, MaximaAreTaken
  <2>5. SignalOK(h) /\ SignalOK(v) /\ SignalOK(r)
    OBVIOUS
  <2>6. v.severity = "CRITICAL" => h.hint = "NO_TRADE" /\ r.score >= 95
    <3>1. HintRank[v.hint] <= HintRank[h.hint] /\ v.score <= r.score
      BY <2>4
    <3>. QED
      BY <2>5, <3>1 DEF SignalOK, HintRank
  <2>7. v.severity = "ERROR" => HintRank[h.hint] >= 2 /\ r.score >= 70
    <3>1. HintRank[v.hint] <= HintRank[h.hint] /\ v.score <= r.score
      BY <2>4
    <3>. QED
      BY <2>5, <3>1 DEF SignalOK, HintRank
  <2>8. v.severity = "WARNING" => HintRank[h.hint] \in 1 .. 3 /\ r.score \in 50 .. 65
    <3>1. v.severity = "WARNING" => h.severity = "WARNING" /\ r.severity = "WARNING"
      BY <2>4, <2>5 DEF SignalOK, SeverityRank
    <3>. QED
      BY <2>5, <3>1 DEF SignalOK
  <2>9. r.score > 0 /\ h.hint # "NONE" /\ r.score \in 0 .. 100
    BY <2>5 DEF SignalOK, HintRank
  <2>. QED
    BY <2>1, <2>2, <2>3, <2>5, <2>6, <2>7, <2>8, <2>9 DEF SignalOK
<1>. QED
  BY <1>1, <1>2

-----------------------------------------------------------------------------
(* Worse features trigger signals that are at least as strict.              *)

Amount == Int \cup {None}
FeatureOK(f) ==
  /\ f.market \in DeskMarkets
  /\ f.spread \in Amount /\ f.spreadChange \in Amount /\ f.depthChange \in Amount
  /\ f.move \in Amount /\ f.fresh \in Amount /\ f.imbalance \in Amount /\ f.quality \in Amount

Outdone(S, s) == \E r \in S : HintRank[r.hint] >= HintRank[s.hint] /\ r.score >= s.score

LEMMA SignalFields ==
  /\ \A name, severity, score, hint :
       Signal(name, severity, score, hint).hint = hint /\ Signal(name, severity, score, hint).score = score
  /\ HintRank["ALLOW_SMALLER_SIZE"] = 1 /\ HintRank["PASSIVE_ONLY"] = 2
  /\ HintRank["MANUAL_REVIEW"] = 3 /\ HintRank["NO_TRADE"] = 4
BY DEF Signal, HintRank

(* A larger amount passes what a smaller one passes.                        *)
LEMMA LargerPasses ==
  ASSUME NEW x \in Amount, NEW y \in Amount, NoBetter(x, y), NEW b \in Int, AtLeast(y, b)
  PROVE  AtLeast(x, b)
BY DEF Amount, NoBetter, AtLeast

LEMMA WorseSignals ==
  ASSUME NEW f, NEW g, FeatureOK(f), FeatureOK(g), AtLeastAsBad(f, g), NEW s \in Signals(g)
  PROVE  Outdone(Signals(f), s)
<1>0. /\ Thresholds.wide \in Int /\ Thresholds.widening \in Int /\ Thresholds.collapse \in Int
      /\ Thresholds.jumpWarning \in Int /\ Thresholds.jumpError \in Int /\ Thresholds.coupling \in Int
      /\ Thresholds.freshness \in Int /\ Thresholds.imbalance \in Int
  BY IntegrityAssumption
<1>1. ASSUME s \in BookSignals(g)
      PROVE  Outdone(BookSignals(f), s)
  <2>1. (g.empty => f.empty) /\ (g.crossed => f.crossed) /\ (g.oneSided => f.oneSided \/ f.empty)
    BY DEF AtLeastAsBad
  <2>2. AtLeast(g.imbalance, Thresholds.imbalance) => AtLeast(f.imbalance, Thresholds.imbalance)
    BY <1>0, LargerPasses DEF FeatureOK, AtLeastAsBad
  <2>. DEFINE empty == Signal("EMPTY_BOOK", "CRITICAL", 100, "NO_TRADE")
              crossed == Signal("CROSSED_BOOK", "CRITICAL", 100, "NO_TRADE")
              oneSided == Signal("ONE_SIDED_BOOK", "ERROR", 75, "PASSIVE_ONLY")
              leaning == Signal("EXTREME_BOOK_IMBALANCE", "WARNING", 55, "ALLOW_SMALLER_SIZE")
  <2>3. \/ g.empty /\ s = empty
        \/ g.crossed /\ s = crossed
        \/ g.oneSided /\ s = oneSided
        \/ AtLeast(g.imbalance, Thresholds.imbalance) /\ s = leaning
    BY <1>1 DEF BookSignals, When
  <2>4. /\ f.empty => empty \in BookSignals(f)
        /\ f.crossed => crossed \in BookSignals(f)
        /\ (f.oneSided /\ ~f.empty) => oneSided \in BookSignals(f)
        /\ AtLeast(f.imbalance, Thresholds.imbalance) => leaning \in BookSignals(f)
    BY DEF BookSignals, When
  <2>. QED
    BY <2>1, <2>2, <2>3, <2>4, SignalFields DEF Outdone
<1>2. ASSUME s \in SpreadSignals(g)
      PROVE  Outdone(SpreadSignals(f), s)
  <2>1. /\ AtLeast(g.spread, Thresholds.wide) => AtLeast(f.spread, Thresholds.wide)
        /\ AtLeast(g.spread, 2 * Thresholds.wide) => AtLeast(f.spread, 2 * Thresholds.wide)
    BY <1>0, LargerPasses DEF FeatureOK, AtLeastAsBad
  <2>. QED
    BY <1>2, <2>1, SignalFields DEF Outdone, SpreadSignals
<1>3. ASSUME s \in WideningSignals(g)
      PROVE  Outdone(WideningSignals(f), s)
  <2>1. /\ AtLeast(g.spreadChange, Thresholds.widening) => AtLeast(f.spreadChange, Thresholds.widening)
        /\ AtLeast(g.spreadChange, 2 * Thresholds.widening) =>
             AtLeast(f.spreadChange, 2 * Thresholds.widening)
    BY <1>0, LargerPasses DEF FeatureOK, AtLeastAsBad
  <2>. QED
    BY <1>3, <2>1, SignalFields DEF Outdone, WideningSignals
<1>4. ASSUME s \in DepthSignals(g)
      PROVE  Outdone(DepthSignals(f), s)
  <2>1. AtMost(g.depthChange, Thresholds.collapse)
    BY <1>4 DEF DepthSignals
  <2>2. g.depthChange \in Int /\ f.depthChange \in Int /\ f.depthChange <= g.depthChange
    BY <2>1 DEF AtMost, AtLeastAsBad, FeatureOK, Amount
  <2>3. AtMost(f.depthChange, Thresholds.collapse)
    BY <1>0, <2>1, <2>2 DEF AtMost, AtLeastAsBad
  <2>4. g.depthChange <= -75 => f.depthChange <= -75
    BY <2>2
  <2>. QED
    BY <1>4, <2>1, <2>3, <2>4, SignalFields DEF Outdone, DepthSignals
<1>5. ASSUME s \in PriceSignals(g)
      PROVE  Outdone(PriceSignals(f), s)
  <2>1. /\ AtLeast(g.move, Thresholds.jumpWarning) => AtLeast(f.move, Thresholds.jumpWarning)
        /\ AtLeast(g.move, Thresholds.jumpError) => AtLeast(f.move, Thresholds.jumpError)
    BY <1>0, LargerPasses DEF FeatureOK, AtLeastAsBad
  <2>. QED
    BY <1>5, <2>1, SignalFields DEF Outdone, PriceSignals
<1>6. ASSUME s \in FreshnessSignals(g)
      PROVE  Outdone(FreshnessSignals(f), s)
  <2>1. /\ AtLeast(g.fresh, Thresholds.freshness + 1) => AtLeast(f.fresh, Thresholds.freshness + 1)
        /\ AtLeast(g.fresh, 2 * Thresholds.freshness) => AtLeast(f.fresh, 2 * Thresholds.freshness)
    BY <1>0, LargerPasses DEF FeatureOK, AtLeastAsBad
  <2>. QED
    BY <1>6, <2>1, SignalFields DEF Outdone, FreshnessSignals
<1>7. ASSUME s \in QualitySignals(g)
      PROVE  Outdone(QualitySignals(f), s)
  <2>1. Below(g.quality, 70)
    BY <1>7 DEF QualitySignals
  <2>2. g.quality \in Int /\ f.quality \in Int /\ f.quality <= g.quality /\ Below(f.quality, 70)
    BY <2>1 DEF Below, AtLeastAsBad, FeatureOK, Amount
  <2>3. (g.quality < 20 => f.quality < 20) /\ (g.quality < 40 => f.quality < 40)
    BY <2>2
  <2>. QED
    BY <1>7, <2>1, <2>2, <2>3, SignalFields DEF Outdone, QualitySignals
<1>8. ASSUME s \in RuleSignals(g)
      PROVE  Outdone(RuleSignals(f), s)
  <2>1. /\ AtLeast(g.move, Thresholds.coupling) => AtLeast(f.move, Thresholds.coupling)
        /\ AtLeast(g.move, 10) => AtLeast(f.move, 10)
        /\ g.ruleChanged => f.ruleChanged
    BY <1>0, LargerPasses DEF FeatureOK, AtLeastAsBad
  <2>. DEFINE changed == Signal("RULE_CHANGED_RECENTLY", "WARNING", 55, "MANUAL_REVIEW")
              coupled == Signal("RULE_CHANGE_PRICE_COUPLING", "ERROR", 70, "MANUAL_REVIEW")
              strictly == Signal("RULE_CHANGE_PRICE_COUPLING", "ERROR", 85, "NO_TRADE")
  <2>2. \/ g.ruleChanged /\ s = changed
        \/ /\ g.ruleChanged /\ AtLeast(g.move, Thresholds.coupling)
           /\ s = IF AtLeast(g.move, 10) THEN strictly ELSE coupled
    BY <1>8 DEF RuleSignals, When
  <2>3. /\ f.ruleChanged => changed \in RuleSignals(f)
        /\ (f.ruleChanged /\ AtLeast(f.move, Thresholds.coupling)) =>
             (IF AtLeast(f.move, 10) THEN strictly ELSE coupled) \in RuleSignals(f)
    BY DEF RuleSignals, When
  <2>. QED
    BY <2>1, <2>2, <2>3, SignalFields DEF Outdone
<1>. QED
  BY <1>1, <1>2, <1>3, <1>4, <1>5, <1>6, <1>7, <1>8 DEF Signals, Outdone

LEMMA WorseSummaries ==
  ASSUME NEW f, NEW g, FeatureOK(f), FeatureOK(g), AtLeastAsBad(f, g)
  PROVE  /\ HintRank[ActionHint(Signals(f))] >= HintRank[ActionHint(Signals(g))]
         /\ RiskScore(Signals(f)) >= RiskScore(Signals(g))
<1>0. \A s \in Signals(f) \cup Signals(g) : SignalOK(s)
  BY SignalsAreOfTheirKind
<1>1. CASE Signals(g) = {}
  <2>1. ActionHint(Signals(g)) = "NONE" /\ RiskScore(Signals(g)) = 0
    BY <1>1 DEF ActionHint, RiskScore, MostOf
  <2>2. ActionHint(Signals(f)) \in DOMAIN HintRank /\ RiskScore(Signals(f)) \in 0 .. 100
    BY <1>0, SummaryAgrees
  <2>. QED
    BY <2>1, <2>2 DEF HintRank
<1>2. CASE Signals(g) # {}
  <2>. DEFINE F == Signals(f)
              G == Signals(g)
  <2>1. \A s \in G : Outdone(F, s)
    BY WorseSignals
  <2>2. F # {} /\ G # {} /\ (\A s \in F : SignalOK(s)) /\ (\A s \in G : SignalOK(s))
    BY <1>0, <1>2, <2>1 DEF Outdone
  <2>. HIDE DEF F, G
  <2>3. PICK h \in G : h.hint = ActionHint(G)
    BY <2>2, MaximaAreTaken
  <2>4. PICK r \in G : r.score = RiskScore(G)
    BY <2>2, MaximaAreTaken
  <2>5. PICK x \in F : HintRank[x.hint] >= HintRank[h.hint]
    BY <2>1 DEF Outdone
  <2>6. PICK y \in F : y.score >= r.score
    BY <2>1 DEF Outdone
  <2>7. HintRank[x.hint] <= HintRank[ActionHint(F)] /\ y.score <= RiskScore(F)
    BY <2>2, MaximaAreTaken
  <2>8. ActionHint(F) \in DOMAIN HintRank /\ RiskScore(F) \in 0 .. 100
    BY <2>2, SummaryAgrees
  <2>9. x.hint \in DOMAIN HintRank /\ h.hint \in DOMAIN HintRank /\ y.score \in 0 .. 100 /\ r.score \in 0 .. 100
    BY <2>2 DEF SignalOK
  <2>10. HintRank[ActionHint(F)] >= HintRank[h.hint]
    BY <2>5, <2>7, <2>8, <2>9 DEF HintRank
  <2>11. RiskScore(F) >= r.score
    <3>1. RiskScore(F) \in Int /\ y.score \in Int /\ r.score \in Int
      BY <2>8, <2>9
    <3>2. r.score <= y.score /\ y.score <= RiskScore(F)
      BY <2>6, <2>7
    <3>. QED
      BY <3>1, <3>2
  <2>. QED
    BY <2>3, <2>4, <2>10, <2>11 DEF F, G
<1>. QED
  BY <1>1, <1>2

-----------------------------------------------------------------------------
(* What is read of a book.                                                  *)
LEMMA BookValues ==
  ASSUME NEW c \in DOMAIN Captures, Captures[c].type = "book"
  PROVE  /\ Mid(Captures[c]) \in Amount /\ SpreadOf(Captures[c]) \in Amount
         /\ DepthOf(Captures[c]) \in Nat /\ BookImbalance(Captures[c]) \in Amount
<1> DEFINE book == Captures[c]
<1>1. Side(book.bids) /\ Side(book.asks)
  BY CapturesAssumption
<1>2. ASSUME NEW levels, Side(levels)
      PROVE  /\ DOMAIN levels # {} => BestBid(levels) \in Int /\ BestAsk(levels) \in Int
             /\ TotalDepth(levels) \in Nat
  <2>1. IsFiniteSet(DOMAIN levels) /\ DOMAIN levels \in SUBSET Int /\ \A p \in DOMAIN levels : levels[p] \in Nat
    BY <1>2 DEF Side
  <2>2. DOMAIN levels # {} => \E p \in DOMAIN levels : \A q \in DOMAIN levels : q <= p
    BY <2>1, GreatestExists
  <2>3. DOMAIN levels # {} => \E p \in DOMAIN levels : \A q \in DOMAIN levels : p <= q
    BY <2>1, LeastExists
  <2>4. SumFunctionOnSet(levels, DOMAIN levels) \in Nat
    BY <2>1, SumOfAmounts
  <2>. QED
    BY <2>1, <2>2, <2>3, <2>4 DEF BestBid, BestAsk, TotalDepth, SumFunction
<1>3. TwoSided(book) => Bid(book) \in Int /\ Ask(book) \in Int
  BY <1>1, <1>2 DEF TwoSided, Bid, Ask
<1>4. PICK b \in Nat : b = TotalDepth(book.bids)
  BY <1>1, <1>2
<1>5. PICK a \in Nat : a = TotalDepth(book.asks)
  BY <1>1, <1>2
<1>6. Mid(book) \in Amount /\ SpreadOf(book) \in Amount
  <2>1. TwoSided(book) => (Bid(book) + Ask(book)) \div 2 \in Int /\ Ask(book) - Bid(book) \in Int
    BY <1>3
  <2>. HIDE DEF book
  <2>. QED
    BY <2>1 DEF Mid, SpreadOf, Amount
<1>7. DepthOf(book) = b + a
  BY <1>4, <1>5 DEF DepthOf
<1>8. BookImbalance(book) \in Amount
  <2>1. PICK d \in Int : d = b - a
    OBVIOUS
  <2>2. PICK e \in Int : e = 100 * Greater(d, -d)
    BY DEF Greater
  <2>3. b + a # 0 => e \div (b + a) \in Int
    OBVIOUS
  <2>4. BookImbalance(book) = IF b + a = 0 THEN None ELSE e \div (b + a)
    BY <1>4, <1>5, <1>7, <2>1, <2>2 DEF BookImbalance
  <2>. QED
    BY <2>3, <2>4 DEF Amount
<1>. QED
  BY <1>6, <1>7, <1>8

(* The features of a market as of a time not in the future.                 *)
BasesOK(f) ==
  \A i \in {1, 3} : f.rows[i + 1] # None => RowPrecedes(f.rows[i + 1], f.rows[i])

(* The two rows an analysis reads of a table: the newest one, and an earlier one.  *)
LEMMA RowsRead ==
  ASSUME NEW rows \in SUBSET Row, IsFiniteSet(rows), NEW m, NEW t \in Nat
  PROVE  LET row == LatestAsOf(rows, m, t)
             old == PreviousOf(rows, m, t, row)
         IN  /\ row \in rows \cup {None} /\ old \in rows \cup {None}
             /\ old # None => RowPrecedes(old, row)
<1>. USE IntegrityAssumption
<1> DEFINE row == LatestAsOf(rows, m, t)
           before == LatestAsOf(rows, m, t - Lookback)
           rest == AsOf(rows, m, t) \ {row}
           old == PreviousOf(rows, m, t, row)
<1>1. \A r \in rows : r.at \in Nat
  BY DEF Row, Instants
<1>2. AsOf(rows, m, t - Lookback) \subseteq AsOf(rows, m, t) /\ AsOf(rows, m, t) \subseteq rows
  BY <1>1 DEF AsOf
<1>3. ASSUME NEW S \in SUBSET AsOf(rows, m, t)
      PROVE  LatestOf(S) = None \/ LatestOf(S) \in S
  <2>1. S # {} => NewestIn(S, LatestOf(S))
    BY LatestIsNewest
  <2>. QED
    BY <2>1 DEF LatestOf, NewestIn
<1>4. AsOf(rows, m, t) # {} => NewestIn(AsOf(rows, m, t), row)
  BY LatestIsNewest DEF LatestAsOf
<1>5. /\ row = None \/ row \in AsOf(rows, m, t)
      /\ before = None \/ before \in AsOf(rows, m, t)
      /\ LatestOf(rest) = None \/ LatestOf(rest) \in rest
  BY <1>2, <1>3 DEF LatestAsOf
<1>. HIDE DEF row, before
<1>6. old = IF row = None THEN None
            ELSE IF before # None /\ before # row THEN before ELSE LatestOf(rest)
  BY DEF PreviousOf, row, before
<1>7. old # None => old \in AsOf(rows, m, t) /\ old # row
  BY <1>5, <1>6
<1>8. old # None => RowPrecedes(old, row)
  BY <1>4, <1>7 DEF NewestIn
<1>. HIDE DEF old
<1>9. row \in rows \cup {None} /\ old \in rows \cup {None}
  BY <1>2, <1>5, <1>7
<1>. QED
  BY <1>8, <1>9 DEF row, old

LEMMA ReportRead ==
  ASSUME MarketInv, NEW m, NEW t \in Nat
  PROVE  LatestReport(m, t) = None \/ LatestReport(m, t) \in reports
<1> DEFINE stored == {r \in reports : r.market = m /\ r.at <= t}
           S == {t - r.at : r \in stored}
<1>1. \A r \in reports : r.at \in Nat
  BY MarketDataAssumption DEF MarketInv, ReportsAreDated, MarketTypeOK, Instants
<1>2. CASE stored = {}
  BY <1>2 DEF LatestReport
<1>3. CASE stored # {}
  <2>1. S \in SUBSET Nat /\ S # {}
    BY <1>1, <1>3
  <2>2. PICK d \in S : \A e \in S : d <= e
    <3>. HIDE DEF S
    <3>. QED
      BY <2>1, LeastNatural
  <2>3. PICK r \in stored : d = t - r.at
    OBVIOUS
  <2>4. ASSUME NEW q \in stored
        PROVE  q.at <= r.at
    <3>1. t - r.at <= t - q.at
      BY <2>2, <2>3
    <3>2. q.at \in Int /\ r.at \in Int
      BY <1>1
    <3>. QED
      BY <3>1, <3>2
  <2>5. LatestReport(m, t) = CHOOSE x \in stored : \A q \in stored : q.at <= x.at
    BY <1>3 DEF LatestReport
  <2>6. LatestReport(m, t) \in stored
    <3>. HIDE DEF stored
    <3>. QED
      BY <2>4, <2>5
  <2>. QED
    BY <2>6
<1>. QED
  BY <1>2, <1>3

LEMMA FeaturesRead ==
  ASSUME MarketInv, NEW m \in DeskMarkets, NEW t \in 0 .. instant
  PROVE  FeatureOK(Features(m, t)) /\ BasesOK(Features(m, t))
<1> DEFINE price == LatestAsOf(priceRows, m, t)
           oldPrice == PreviousOf(priceRows, m, t, price)
           liquidity == LatestAsOf(liquidityRows, m, t)
           oldLiquidity == PreviousOf(liquidityRows, m, t, liquidity)
           report == LatestReport(m, t)
           f == Features(m, t)
<1>0. t \in Nat
  BY MarketDataAssumption DEF MarketInv, MarketTypeOK, Instants
<1>1. /\ price \in priceRows \cup {None} /\ oldPrice \in priceRows \cup {None}
      /\ oldPrice # None => RowPrecedes(oldPrice, price)
  BY <1>0, RowsRead DEF MarketInv, MarketTypeOK, MarketRowsOK
<1>2. /\ liquidity \in liquidityRows \cup {None} /\ oldLiquidity \in liquidityRows \cup {None}
      /\ oldLiquidity # None => RowPrecedes(oldLiquidity, liquidity)
  BY <1>0, RowsRead DEF MarketInv, MarketTypeOK, MarketRowsOK
<1>3. report = None \/ report \in reports
  BY <1>0, ReportRead
<1>. HIDE DEF price, oldPrice, liquidity, oldLiquidity, report
<1>4. ASSUME NEW r \in liquidityRows
      PROVE  /\ Mid(Content(r)) \in Amount /\ SpreadOf(Content(r)) \in Amount
             /\ DepthOf(Content(r)) \in Nat /\ BookImbalance(Content(r)) \in Amount
  <2>1. r.capture \in DOMAIN Captures /\ Content(r).type = "book" /\ Content(r) = Captures[r.capture]
    BY DEF MarketInv, MarketTypeOK, MarketRowsOK, Row, Content
  <2>. QED
    BY <2>1, BookValues
<1>5. \A r \in liquidityRows \cup {None} :
        /\ FromBook(r, Mid) \in Amount /\ FromBook(r, SpreadOf) \in Amount
        /\ FromBook(r, DepthOf) \in Nat \cup {None} /\ FromBook(r, BookImbalance) \in Amount
  BY <1>4 DEF FromBook, Amount
<1>6. \A r \in priceRows \cup {None} : PriceOf(r) \in Amount
  <2>. SUFFICES ASSUME NEW r \in priceRows
                PROVE  PriceValue(r) \in Amount
    BY DEF PriceOf, Amount
  <2>1. r.capture \in DOMAIN Captures /\ Content(r) = Captures[r.capture]
    BY DEF MarketInv, MarketTypeOK, Row, Content
  <2>2. CASE Content(r).type = "history"
    <3>1. Content(r).price \in Int
      BY <2>1, <2>2, CapturesAssumption
    <3>. QED
      BY <2>2, <3>1 DEF PriceValue, Amount
  <2>3. CASE Content(r).type # "history"
    <3>1. Content(r).type = "book"
      BY <2>1, <2>3, CapturesAssumption
    <3>2. Mid(Content(r)) \in Amount
      BY <2>1, <3>1, BookValues
    <3>. QED
      BY <2>3, <3>2 DEF PriceValue
  <2>. QED
    BY <2>2, <2>3
<1>7. \A x, y \in Amount : Minus(x, y) \in Amount /\ Magnitude(x) \in Amount
  BY DEF Minus, Magnitude, Amount, Greater
<1>8. \A x, y \in Nat \cup {None} : PercentChange(x, y) \in Amount
  <2>. SUFFICES ASSUME NEW x \in Nat, NEW y \in Nat \ {0}
                PROVE  -((-(100 * (x - y))) \div y) \in Int
    BY DEF PercentChange, Amount
  <2>1. PICK n \in Int : n = -(100 * (x - y))
    OBVIOUS
  <2>2. n \div y \in Int
    OBVIOUS
  <2>. QED
    BY <2>1, <2>2
<1>9. f.spread \in Amount /\ f.spreadChange \in Amount /\ f.depthChange \in Amount /\ f.imbalance \in Amount
  <2>1. f.spread = FromBook(liquidity, SpreadOf)
    BY DEF Features, liquidity
  <2>2. f.spreadChange = Minus(FromBook(liquidity, SpreadOf), FromBook(oldLiquidity, SpreadOf))
    BY DEF Features, liquidity, oldLiquidity
  <2>3. f.depthChange = PercentChange(FromBook(liquidity, DepthOf), FromBook(oldLiquidity, DepthOf))
    BY DEF Features, liquidity, oldLiquidity
  <2>4. f.imbalance = FromBook(liquidity, BookImbalance)
    BY DEF Features, liquidity
  <2>. HIDE DEF f
  <2>. QED
    BY <1>2, <1>5, <1>7, <1>8, <2>1, <2>2, <2>3, <2>4
<1>10. f.move \in Amount
  <2>. DEFINE p == Minus(PriceOf(price), PriceOf(oldPrice))
              d == Minus(MidOf(price, liquidity), MidOf(oldPrice, oldLiquidity))
  <2>1. f.move = Magnitude(IF p # None THEN p ELSE d)
    BY DEF Features, price, liquidity, oldPrice, oldLiquidity
  <2>2. MidOf(price, liquidity) \in Amount /\ MidOf(oldPrice, oldLiquidity) \in Amount
    BY <1>1, <1>2, <1>5, <1>6 DEF MidOf
  <2>3. p \in Amount /\ d \in Amount
    BY <1>1, <1>6, <1>7, <2>2
  <2>. HIDE DEF f, p, d
  <2>. QED
    BY <1>7, <2>1, <2>3
<1>11. f.fresh \in Amount
  <2>1. f.fresh = Freshness(t, price, liquidity)
    BY DEF Features, price, liquidity
  <2>2. \A r \in priceRows \cup liquidityRows : r.at \in Nat
    BY DEF MarketInv, MarketTypeOK, Row, Instants
  <2>. HIDE DEF f
  <2>. QED
    BY <1>0, <1>1, <1>2, <2>1, <2>2 DEF Freshness, Amount, Greater
<1>12. f.quality \in Amount
  <2>1. f.quality = IF report = None THEN None ELSE report.report.score
    BY DEF Features, report
  <2>. HIDE DEF f
  <2>. QED
    BY <1>3, <2>1 DEF Amount, MarketInv, MarketTypeOK
<1>13. f.market = m /\ f.rows = <<price, oldPrice, liquidity, oldLiquidity>>
  BY DEF Features, price, liquidity, oldPrice, oldLiquidity
<1>. HIDE DEF f
<1>14. FeatureOK(f)
  BY <1>9, <1>10, <1>11, <1>12, <1>13 DEF FeatureOK
<1>15. BasesOK(f)
  BY <1>1, <1>2, <1>13 DEF BasesOK
<1>. QED
  BY <1>14, <1>15 DEF f

-----------------------------------------------------------------------------
(* The stored assessments.                                                  *)
AssessmentOK(a) == FeatureOK(a.feature) /\ BasesOK(a.feature) /\ a = Assessment(a.feature)

IntegrityInv ==
  /\ MarketInv
  /\ analyses \in 0 .. MaxAnalyses
  /\ \A a, b \in assessments : a.id = b.id => a = b
  /\ \A a \in assessments : AssessmentOK(a)
  /\ FindingsAreOwn

(* What an assessment is of.                                                *)
LEMMA AssessmentFields ==
  ASSUME NEW f
  PROVE  /\ Assessment(f).id = AssessmentId(f, Signals(f)) /\ Assessment(f).market = f.market
         /\ Assessment(f).feature = f /\ Assessment(f).signals = Signals(f)
         /\ Assessment(f).hint = ActionHint(Signals(f)) /\ Assessment(f).severity = Severity(Signals(f))
         /\ Assessment(f).risk = RiskScore(Signals(f))
BY DEF Assessment

(* Two assessments of one id are the same, unless both found nothing.       *)
LEMMA SameId ==
  ASSUME NEW a, NEW b, AssessmentOK(a), AssessmentOK(b), a.id = b.id
  PROVE  a.signals = b.signals /\ (a.signals # {} => a = b)
<1> DEFINE f == a.feature
           g == b.feature
<1>1. a.id = {<<f, s.name>> : s \in a.signals} /\ b.id = {<<g, s.name>> : s \in b.signals}
  BY AssessmentFields DEF AssessmentOK, AssessmentId
<1>2. a.signals = {} <=> b.signals = {}
  BY <1>1
<1>3. ASSUME a.signals # {}
      PROVE  f = g
  <2>1. PICK s \in a.signals : TRUE
    BY <1>3
  <2>2. <<f, s.name>> \in b.id
    BY <1>1
  <2>3. PICK r \in b.signals : <<f, s.name>> = <<g, r.name>>
    BY <1>1, <2>2
  <2>. QED
    BY <2>3
<1>4. f = g => a = b
  BY DEF AssessmentOK
<1>. QED
  BY <1>2, <1>3, <1>4

LEMMA IntegrityInit_Inv == IntegrityInit => IntegrityInv
BY MarketInit_Inv, IntegrityAssumption DEF IntegrityInit, IntegrityInv, FindingsAreOwn

LEMMA IntegrityStep == IntegrityInv /\ [IntegrityNext]_<<marketVars, integrityVars>> => IntegrityInv'
<1>. SUFFICES ASSUME IntegrityInv, [IntegrityNext]_<<marketVars, integrityVars>>
              PROVE  IntegrityInv'
  OBVIOUS
<1>1. CASE [MarketNext]_marketVars /\ UNCHANGED integrityVars
  <2>1. MarketInv'
    BY <1>1, MarketStep DEF IntegrityInv
  <2>. QED
    BY <1>1, <2>1 DEF integrityVars, IntegrityInv, FindingsAreOwn
<1>2. ASSUME NEW m \in DeskMarkets, NEW t \in 0 .. instant, NEW force \in BOOLEAN, Analyze(m, t, force)
      PROVE  IntegrityInv'
  <2>. DEFINE made == Assessment(Features(m, t))
              stored == {a \in assessments : a.id = made.id}
              returned == IF stored # {} /\ ~force THEN CHOOSE a \in stored : TRUE ELSE made
  <2>1. /\ analyses < MaxAnalyses /\ analyses' = analyses + 1
        /\ assessments' = (assessments \ (IF force THEN stored ELSE {})) \cup {returned}
        /\ answer'.made = made /\ answer'.returned = returned
        /\ UNCHANGED marketVars
    BY <1>2 DEF Analyze, StoreAssessment, Saved
  <2>2. AssessmentOK(made)
    <3>1. Assessment(Features(m, t)).feature = Features(m, t)
      BY AssessmentFields
    <3>. QED
      BY <3>1, FeaturesRead DEF AssessmentOK, IntegrityInv
  <2>3. MarketInv'
    BY <2>1, MarketStep DEF IntegrityInv
  <2>. HIDE DEF made
  <2>4. AssessmentOK(returned) /\ returned.id = made.id /\ (stored # {} /\ ~force => returned \in assessments)
    BY <2>2 DEF IntegrityInv
  <2>5. \A a \in assessments' : AssessmentOK(a)
    <3>. HIDE DEF returned, stored
    <3>. QED
      BY <2>1, <2>4 DEF IntegrityInv
  <2>6. ASSUME NEW a \in assessments', NEW b \in assessments', a.id = b.id
        PROVE  a = b
    <3>1. a \in assessments /\ b \in assessments => a = b
      BY <2>6 DEF IntegrityInv
    <3>2. ASSUME NEW x \in assessments', x.id = made.id
          PROVE  x = returned
      <4>1. CASE x \in assessments /\ (stored = {} \/ force)
        BY <2>1, <3>2, <4>1
      <4>2. CASE x \in assessments /\ stored # {} /\ ~force
        BY <2>4, <3>2, <4>2 DEF IntegrityInv
      <4>3. CASE x = returned
        BY <4>3
      <4>. QED
        BY <2>1, <4>1, <4>2, <4>3
    <3>3. CASE a.id = made.id
      <4>1. a = returned
        BY <3>2, <3>3
      <4>2. b = returned
        BY <2>6, <3>2, <3>3
      <4>. QED
        BY <4>1, <4>2
    <3>4. CASE a.id # made.id
      <4>1. a \in assessments /\ b \in assessments
        BY <2>1, <2>4, <2>6, <3>4
      <4>. QED
        BY <3>1, <4>1
    <3>. QED
      BY <3>3, <3>4
  <2>. HIDE DEF returned, stored
  <2>7. FindingsAreOwn'
    <3>1. returned.signals = made.signals /\ (made.signals # {} => returned = made)
      BY <2>2, <2>4, SameId
    <3>. QED
      BY <2>1, <3>1 DEF FindingsAreOwn
  <2>8. (analyses \in 0 .. MaxAnalyses)'
    BY <2>1, IntegrityAssumption DEF IntegrityInv
  <2>. QED
    BY <2>3, <2>5, <2>6, <2>7, <2>8 DEF IntegrityInv
<1>3. ASSUME NEW m \in DeskMarkets, NEW force \in BOOLEAN, CompareRules(m, force)
      PROVE  IntegrityInv'
  <2>1. UNCHANGED marketVars /\ UNCHANGED <<assessments, answer, analyses>>
    BY <1>3 DEF CompareRules
  <2>2. MarketInv'
    BY <2>1, MarketStep DEF IntegrityInv
  <2>. QED
    BY <2>1, <2>2 DEF IntegrityInv, FindingsAreOwn
<1>. QED
  BY <1>1, <1>2, <1>3 DEF IntegrityNext

LEMMA IntegrityInvSound == IntegrityInv => IntegritySound
<1>. SUFFICES ASSUME IntegrityInv
              PROVE  IntegritySound
  OBVIOUS
<1>1. \A a \in assessments :
        /\ FeatureOK(a.feature) /\ BasesOK(a.feature)
        /\ a.market = a.feature.market /\ a.hint = ActionHint(Signals(a.feature))
        /\ a.severity = Severity(Signals(a.feature)) /\ a.risk = RiskScore(Signals(a.feature))
  BY AssessmentFields DEF IntegrityInv, AssessmentOK
<1>2. \A a \in assessments : \A s \in Signals(a.feature) : SignalOK(s)
  BY SignalsAreOfTheirKind
<1>3. IntegrityTypeOK
  <2>1. \A a \in assessments : a.risk \in 0 .. 100 /\ a.hint \in DOMAIN HintRank
    BY <1>1, <1>2, SummaryAgrees
  <2>. QED
    BY <1>1, <2>1 DEF IntegrityTypeOK, IntegrityInv, FeatureOK
<1>4. MaximaAgree
  <2>. SUFFICES ASSUME NEW a \in assessments
                PROVE  /\ a.severity = "CRITICAL" => a.hint = "NO_TRADE" /\ a.risk >= 95
                       /\ a.severity = "ERROR" => HintRank[a.hint] >= 2 /\ a.risk >= 70
                       /\ a.severity = "WARNING" => HintRank[a.hint] \in 1 .. 3 /\ a.risk \in 50 .. 65
                       /\ a.risk = 0 <=> a.hint = "NONE"
    BY DEF MaximaAgree
  <2>. QED
    BY <1>1, <1>2, SummaryAgrees
<1>5. WorseNeverSofter
  <2>. SUFFICES ASSUME NEW a \in assessments, NEW b \in assessments, AtLeastAsBad(a.feature, b.feature)
                PROVE  HintRank[a.hint] >= HintRank[b.hint] /\ a.risk >= b.risk
    BY DEF WorseNeverSofter
  <2>. QED
    BY <1>1, WorseSummaries
<1>6. ChangesHaveABase
  BY <1>1 DEF ChangesHaveABase, BasesOK
<1>7. FindingsAreOwn
  BY DEF IntegrityInv
<1>. QED
  BY <1>3, <1>4, <1>5, <1>6, <1>7 DEF IntegritySound

(* A stored assessment is of its own data, whatever is captured, derived,   *)
(* reported and analysed in between, forced or not: its summary agrees with *)
(* its signals, worse data never soften it, changes are measured against an *)
(* earlier row, and an answer that found something is of what was asked     *)
(* (aggregation.py:49, signals.py:41, integrity/models.py:250).             *)
THEOREM IntegrityIsSound == IntegritySpec => []IntegritySound
BY IntegrityInit_Inv, IntegrityStep, IntegrityInvSound, PTL DEF IntegritySpec

-----------------------------------------------------------------------------
(* The resolution corpus.                                                   *)

(* With more sources known a predicate only gains its source.              *)
LEMMA SourceGrows ==
  ASSUME NEW c, NEW names, NEW more, names \subseteq more
  PROVE  LET p == Predicate(c, names)
             q == Predicate(c, more)
         IN  /\ p.zone = q.zone /\ p.authority = q.authority /\ p.threshold = q.threshold
             /\ p.source => q.source
<1>1. SourceNamed(c, names) => SourceNamed(c, more)
  BY DEF SourceNamed, Has
<1>2. CASE c.text = {}
  BY <1>2 DEF Predicate
<1>3. CASE c.text # {}
  BY <1>1, <1>3 DEF Predicate
<1>. QED
  BY <1>2, <1>3

(* What a predicate's source does not decide.                              *)
OtherCodes(c, zone, threshold, authority) ==
  UNION {TemporalCodes(c, zone), DefinitionCodes(Words(c)),
         MeasurementCodes(Words(c), threshold), ActorCodes(Words(c)), ThresholdCodes(Words(c)),
         DisputeCodes(Words(c)), ExceptionalCodes(Words(c)), VenueCodes(c, authority)}

(* A predicate that gains its source loses codes at most.                  *)
LEMMA CodesShrink ==
  ASSUME NEW c, NEW p, NEW q,
         p.zone = q.zone, p.authority = q.authority, p.threshold = q.threshold, p.source => q.source
  PROVE  AmbiguityCodes(c, q) \subseteq AmbiguityCodes(c, p)
<1>1. SourceCodes(c, q) \subseteq SourceCodes(c, p)
  <2>1. \A r : SourceCodes(c, r) \subseteq {"MISSING_RESOLUTION_SOURCE", "MULTIPLE_POSSIBLE_SOURCES",
                                            "SOURCE_DESCRIBED_AS_REPORTS", "NON_CANONICAL_SOURCE"}
    BY DEF SourceCodes, HoldingIn
  <2>2. "MISSING_RESOLUTION_SOURCE" \in SourceCodes(c, q) => "MISSING_RESOLUTION_SOURCE" \in SourceCodes(c, p)
    BY DEF SourceCodes, HoldingIn
  <2>3. /\ "MULTIPLE_POSSIBLE_SOURCES" \in SourceCodes(c, q) => "MULTIPLE_POSSIBLE_SOURCES" \in SourceCodes(c, p)
        /\ "SOURCE_DESCRIBED_AS_REPORTS" \in SourceCodes(c, q) => "SOURCE_DESCRIBED_AS_REPORTS" \in SourceCodes(c, p)
        /\ "NON_CANONICAL_SOURCE" \in SourceCodes(c, q) => "NON_CANONICAL_SOURCE" \in SourceCodes(c, p)
    BY DEF SourceCodes, HoldingIn
  <2>. QED
    BY <2>1, <2>2, <2>3
<1>2. \A r : AmbiguityCodes(c, r) = SourceCodes(c, r) \cup OtherCodes(c, r.zone, r.threshold, r.authority)
  BY DEF AmbiguityCodes, OtherCodes
<1>. QED
  BY <1>1, <1>2

(* Codes and reasons by what a rule says.                                   *)
LEMMA TimingOfCodes ==
  ASSUME NEW c, NEW p
  PROVE  LET codes == AmbiguityCodes(c, p)
         IN  /\ "VAGUE_DEADLINE" \in codes <=> Has(Words(c), VagueTiming)
             /\ "MONTH_WITHOUT_DAY" \in codes <=> "by month" \in Words(c)
             /\ "MISSING_RESOLUTION_SOURCE" \in codes <=> c.source = None /\ ~p.source
             /\ "BEFORE_END_OF_WITHOUT_TIMEZONE" \in codes <=>
                  "before the end of" \in Words(c) /\ c.zone = None /\ p.zone = None
<1>1. /\ "VAGUE_DEADLINE" \in TemporalCodes(c, p.zone) <=> Has(Words(c), VagueTiming)
      /\ "MONTH_WITHOUT_DAY" \in TemporalCodes(c, p.zone) <=> "by month" \in Words(c)
      /\ "BEFORE_END_OF_WITHOUT_TIMEZONE" \in TemporalCodes(c, p.zone) <=>
                  "before the end of" \in Words(c) /\ c.zone = None /\ p.zone = None
      /\ "MISSING_RESOLUTION_SOURCE" \notin TemporalCodes(c, p.zone)
  BY DEF TemporalCodes, HoldingIn
<1>2. /\ "MISSING_RESOLUTION_SOURCE" \in SourceCodes(c, p) <=> c.source = None /\ ~p.source
      /\ SourceCodes(c, p) \cap {"VAGUE_DEADLINE", "MONTH_WITHOUT_DAY", "BEFORE_END_OF_WITHOUT_TIMEZONE"} = {}
  BY DEF SourceCodes, HoldingIn
<1>3. \A S \in {DefinitionCodes(Words(c)), MeasurementCodes(Words(c), p.threshold), ActorCodes(Words(c)),
                ThresholdCodes(Words(c)), DisputeCodes(Words(c)), ExceptionalCodes(Words(c)),
                VenueCodes(c, p.authority)} :
        S \cap {"VAGUE_DEADLINE", "MONTH_WITHOUT_DAY", "BEFORE_END_OF_WITHOUT_TIMEZONE",
                "MISSING_RESOLUTION_SOURCE"} = {}
  BY DEF DefinitionCodes, MeasurementCodes, ActorCodes, ThresholdCodes, DisputeCodes,
         ExceptionalCodes, VenueCodes, HoldingIn
<1>. QED
  BY <1>1, <1>2, <1>3 DEF AmbiguityCodes

LEMMA ReasonsOfRules ==
  ASSUME NEW c
  PROVE  LET reasons == RiskReasons(c)
         IN  /\ reasons \cap {"soon", "around", "approximately", "expected", "anticipated"} # {}
                  <=> Has(Words(c), VagueTiming)
             /\ "by_month_without_date" \in reasons <=> "by month" \in Words(c)
             /\ "missing_resolution_source" \in reasons <=> c.source = None
             /\ "end_of_period_without_timezone" \in reasons <=>
                  "before the end of" \in Words(c) /\ c.zone = None
<1>1. /\ "soon" \in RiskReasons(c) <=> "soon" \in Words(c)
      /\ "around" \in RiskReasons(c) <=> "around" \in Words(c)
      /\ "approximately" \in RiskReasons(c) <=> "approximately" \in Words(c)
      /\ "expected" \in RiskReasons(c) <=> "expected" \in Words(c)
      /\ "anticipated" \in RiskReasons(c) <=> "anticipated" \in Words(c)
  BY DEF RiskReasons, HoldingIn
<1>2. /\ "by_month_without_date" \in RiskReasons(c) <=> "by month" \in Words(c)
      /\ "missing_resolution_source" \in RiskReasons(c) <=> c.source = None
      /\ "end_of_period_without_timezone" \in RiskReasons(c) <=>
           "before the end of" \in Words(c) /\ c.zone = None
  BY DEF RiskReasons, HoldingIn
<1>. QED
  BY <1>1, <1>2 DEF Has, VagueTiming

(* Rules that differ in formatting at most have the same words and fields,  *)
(* and a threshold that both show or both hide ...                         *)
LEMMA SameWords ==
  ASSUME NEW c, NEW d, ChangeFlags(c, d) \subseteq {"ONLY_WHITESPACE_OR_FORMATTING"}
  PROVE  /\ c.text = d.text /\ c.source = d.source /\ c.authority = d.authority /\ c.zone = d.zone
         /\ "at least" \in Words(c) <=> "at least" \in Words(d)
<1>1. /\ "MATERIAL_RULE_TEXT_CHANGE" \in ChangeFlags(c, d) <=> c.text # d.text
      /\ "RESOLUTION_SOURCE_CHANGED" \in ChangeFlags(c, d) <=> c.source # d.source
      /\ "SETTLEMENT_AUTHORITY_CHANGED" \in ChangeFlags(c, d) <=> c.authority # d.authority
      /\ "TIMEZONE_CHANGED" \in ChangeFlags(c, d) <=> c.zone # d.zone
      /\ "THRESHOLD_CHANGED" \in ChangeFlags(c, d) <=> ThresholdTerms(c) # ThresholdTerms(d)
  BY DEF ChangeFlags, HoldingIn
<1>2. \A e : "at least" \in ThresholdTerms(e) <=> "at least" \in Words(e)
  BY DEF ThresholdTerms
<1>. QED
  BY <1>1, <1>2

(* What is left of a phrase in which a line breaks.                         *)
LEMMA RemainsOf ==
  \A r \in Remains :
    /\ r[2] \in {"before", "between", "official", "source", "or"}
    /\ r[2] = "before" => r[1] = "before the end of"
    /\ r[2] = "between" => r[1] = "between and"
<1>1. SUFFICES ASSUME NEW r \in Remains
               PROVE  \/ r[1] = "before the end of" /\ r[2] = "before"
                      \/ r[1] = "between and" /\ r[2] = "between"
                      \/ r[2] \in {"official", "source", "or"}
  OBVIOUS
<1>2. CASE r = <<"before the end of", "before">>
  BY <1>2
<1>3. CASE r = <<"between and", "between">>
  BY <1>3
<1>4. CASE r = <<"official sources", "official">>
  BY <1>4
<1>5. CASE r = <<"source of truth", "source">>
  BY <1>5
<1>6. CASE r = <<"candidate or company", "or">>
  BY <1>6
<1>. QED
  BY <1>2, <1>3, <1>4, <1>5, <1>6 DEF Remains

(* ... a broken line hides no word but these, and leaves a part of some.    *)
LEMMA WordsRead ==
  ASSUME NEW c
  PROVE  /\ \A w \in VagueTiming \cup {"below", "by date", "by month", "deadline"} :
              w \in Words(c) <=> w \in c.text
         /\ Has(Words(c), {"between", "between and"}) <=> Has(c.text, {"between", "between and"})
         /\ Has(Words(c), {"before", "before the end of"}) <=> Has(c.text, {"before", "before the end of"})
<1>1. Broken(c) \subseteq c.text \cap SingleSpaced
  BY DEF Broken
<1>2. {r[2] : r \in {q \in Remains : q[1] \in Broken(c)}}
        \subseteq {"before", "between", "official", "source", "or"}
  BY RemainsOf
<1>3. \A w \in VagueTiming \cup {"below", "by date", "by month", "deadline"} :
        w \in Words(c) <=> w \in c.text
  <2>1. \A w \in VagueTiming \cup {"below", "by date", "by month", "deadline"} :
          w \notin SingleSpaced /\ w \notin {"before", "between", "official", "source", "or"}
    BY DEF VagueTiming, SingleSpaced
  <2>. QED
    BY <1>1, <1>2, <2>1 DEF Words
<1>4. /\ "before the end of" \in Broken(c) => "before" \in Words(c)
      /\ "between and" \in Broken(c) => "between" \in Words(c)
  <2>1. /\ <<"before the end of", "before">> \in Remains
        /\ <<"between and", "between">> \in Remains
    BY DEF Remains
  <2>2. ASSUME NEW p, NEW w, <<p, w>> \in Remains, p \in Broken(c)
        PROVE  w \in Words(c)
    <3>1. <<p, w>> \in {q \in Remains : q[1] \in Broken(c)} /\ <<p, w>>[2] = w
      BY <2>2
    <3>2. w \in {r[2] : r \in {q \in Remains : q[1] \in Broken(c)}}
      BY <3>1
    <3>. QED
      BY <3>2 DEF Words
  <2>. QED
    BY <2>1, <2>2
<1>5. /\ "before" \in c.text => "before" \in Words(c)
      /\ "between" \in c.text => "between" \in Words(c)
      /\ "before the end of" \in c.text \ Broken(c) => "before the end of" \in Words(c)
      /\ "between and" \in c.text \ Broken(c) => "between and" \in Words(c)
  <2>1. "before" \notin SingleSpaced /\ "between" \notin SingleSpaced
    BY DEF SingleSpaced
  <2>. QED
    BY <1>1, <2>1 DEF Words
<1>6. /\ "before" \in Words(c) => Has(c.text, {"before", "before the end of"})
      /\ "between" \in Words(c) => Has(c.text, {"between", "between and"})
      /\ "before the end of" \in Words(c) => "before the end of" \in c.text
      /\ "between and" \in Words(c) => "between and" \in c.text
  <2>1. \A r \in Remains : /\ r[2] = "before" => r[1] = "before the end of"
                           /\ r[2] = "between" => r[1] = "between and"
                           /\ r[2] # "before the end of" /\ r[2] # "between and"
    BY RemainsOf
  <2>. QED
    BY <1>1, <2>1 DEF Words, Has
<1>7. Has(Words(c), {"between", "between and"}) <=> Has(c.text, {"between", "between and"})
  BY <1>4, <1>5, <1>6 DEF Has
<1>8. Has(Words(c), {"before", "before the end of"}) <=> Has(c.text, {"before", "before the end of"})
  BY <1>4, <1>5, <1>6 DEF Has
<1>. QED
  BY <1>3, <1>7, <1>8

(* The reasons of the risk that no line break hides.                       *)
Unbroken == {"soon", "around", "approximately", "expected", "anticipated", "by month"}
Excepted == {"multiple_possible_resolution_sources", "end_of_period_without_timezone"}

LEMMA OtherReasons ==
  ASSUME NEW c, NEW d, c.text = d.text, c.source = d.source, c.authority = d.authority,
         \A w \in Unbroken : w \in Words(c) <=> w \in Words(d)
  PROVE  RiskReasons(c) \ Excepted = RiskReasons(d) \ Excepted
<1>1. ASSUME NEW e
      PROVE  /\ "missing_raw_rule_text" \in RiskReasons(e) <=> e.text = {}
             /\ "missing_resolution_source" \in RiskReasons(e) <=> e.source = None
             /\ "missing_settlement_authority" \in RiskReasons(e) <=> e.authority = None
             /\ "by_month_without_date" \in RiskReasons(e) <=> "by month" \in Words(e)
  BY DEF RiskReasons, HoldingIn
<1>2. ASSUME NEW e
      PROVE  /\ "soon" \in RiskReasons(e) <=> "soon" \in Words(e)
             /\ "around" \in RiskReasons(e) <=> "around" \in Words(e)
             /\ "approximately" \in RiskReasons(e) <=> "approximately" \in Words(e)
             /\ "expected" \in RiskReasons(e) <=> "expected" \in Words(e)
             /\ "anticipated" \in RiskReasons(e) <=> "anticipated" \in Words(e)
  BY DEF RiskReasons, HoldingIn
<1>3. ASSUME NEW e
      PROVE  RiskReasons(e) \subseteq
               Excepted \cup {"missing_raw_rule_text", "missing_resolution_source",
                              "missing_settlement_authority", "by_month_without_date", "soon",
                              "around", "approximately", "expected", "anticipated"}
  BY DEF RiskReasons, HoldingIn, Excepted
<1>4. \A w \in {"missing_raw_rule_text", "missing_resolution_source",
                "missing_settlement_authority", "by_month_without_date"} :
        w \in RiskReasons(c) <=> w \in RiskReasons(d)
  BY <1>1 DEF Unbroken
<1>5. \A w \in {"soon", "around", "approximately", "expected", "anticipated"} :
        w \in RiskReasons(c) <=> w \in RiskReasons(d)
  BY <1>2 DEF Unbroken
<1>. QED
  BY <1>3, <1>4, <1>5

(* ... so that they are of one type, threshold and authority, and their     *)
(* risk has the same reasons but two.                                      *)
LEMMA SameTerms ==
  ASSUME NEW c, NEW d, NEW names, ChangeFlags(c, d) \subseteq {"ONLY_WHITESPACE_OR_FORMATTING"}
  PROVE  LET p == Predicate(c, names)
             q == Predicate(d, names)
         IN  /\ p.type = q.type /\ p.zone = q.zone /\ p.threshold = q.threshold
             /\ p.authority = None <=> q.authority = None
             /\ RiskReasons(c) \ Excepted = RiskReasons(d) \ Excepted
<1>1. /\ c.text = d.text /\ c.source = d.source /\ c.authority = d.authority /\ c.zone = d.zone
      /\ "at least" \in Words(c) <=> "at least" \in Words(d)
  BY SameWords
<1>2. \A w \in VagueTiming \cup {"below", "by date", "by month", "deadline"} :
        w \in Words(c) <=> w \in Words(d)
  BY <1>1, WordsRead
<1>3. /\ Has(Words(c), {"between", "between and"}) <=> Has(Words(d), {"between", "between and"})
      /\ Has(Words(c), {"before", "before the end of"}) <=> Has(Words(d), {"before", "before the end of"})
  <2>1. /\ Has(Words(c), {"between", "between and"}) <=> Has(c.text, {"between", "between and"})
        /\ Has(Words(c), {"before", "before the end of"}) <=> Has(c.text, {"before", "before the end of"})
    BY WordsRead
  <2>2. /\ Has(Words(d), {"between", "between and"}) <=> Has(d.text, {"between", "between and"})
        /\ Has(Words(d), {"before", "before the end of"}) <=> Has(d.text, {"before", "before the end of"})
    BY WordsRead
  <2>. QED
    BY <1>1, <2>1, <2>2
<1>4. PredicateType(Words(c)) = PredicateType(Words(d))
  <2>1. Has(Words(c), {"at least", "below"}) <=> Has(Words(d), {"at least", "below"})
    BY <1>1, <1>2 DEF Has
  <2>2. Has(Words(c), {"before", "before the end of", "by date", "by month", "deadline"})
          <=> Has(Words(d), {"before", "before the end of", "by date", "by month", "deadline"})
    <3>1. \A S : Has(S, {"before", "before the end of", "by date", "by month", "deadline"})
                  <=> Has(S, {"before", "before the end of"}) \/ Has(S, {"by date", "by month", "deadline"})
      BY DEF Has
    <3>2. Has(Words(c), {"by date", "by month", "deadline"}) <=> Has(Words(d), {"by date", "by month", "deadline"})
      BY <1>2 DEF Has
    <3>. QED
      BY <1>3, <3>1, <3>2
  <2>. QED
    BY <1>3, <2>1, <2>2 DEF PredicateType
<1>5. ZoneOf(c) = ZoneOf(d) /\ (AuthorityOf(c) = None <=> AuthorityOf(d) = None)
  <2>1. ZoneOf(c) = ZoneOf(d)
    BY <1>1 DEF ZoneOf
  <2>2. None # "begun in text" /\ None # "named in text"
    BY ResolutionAssumption
  <2>3. AuthorityOf(c) = None <=> c.authority = None /\ "settled by" \notin c.text
    BY <2>2 DEF AuthorityOf
  <2>4. AuthorityOf(d) = None <=> d.authority = None /\ "settled by" \notin d.text
    BY <2>2 DEF AuthorityOf
  <2>. QED
    BY <1>1, <2>1, <2>3, <2>4
<1>6. LET p == Predicate(c, names)
          q == Predicate(d, names)
      IN  /\ p.type = q.type /\ p.zone = q.zone /\ p.threshold = q.threshold
          /\ p.authority = None <=> q.authority = None
  <2>1. CASE c.text = {}
    BY <1>1, <2>1 DEF Predicate
  <2>2. CASE c.text # {}
    BY <1>1, <1>4, <1>5, <2>2 DEF Predicate
  <2>. QED
    BY <2>1, <2>2
<1>7. RiskReasons(c) \ Excepted = RiskReasons(d) \ Excepted
  <2>1. \A w \in Unbroken : w \in Words(c) <=> w \in Words(d)
    BY <1>2 DEF VagueTiming, Unbroken
  <2>. QED
    BY <1>1, <2>1, OtherReasons, Zenon
<1>. QED
  BY <1>6, <1>7

(* The action of a verdict is as strict as each of its inputs.             *)
LEMMA StrictestAsked ==
  ASSUME NEW risk, NEW book \in DOMAIN LiquidityRisk, NEW hint \in Hints
  PROVE  LET action == IntegrityAction(BaseAction(risk, book), hint)
         IN  /\ action \in DOMAIN ActionRank
             /\ risk >= 80 => ActionRank[action] >= ActionRank["NO_TRADE"]
             /\ risk >= 50 \/ book = "missing" => ActionRank[action] >= ActionRank["MANUAL_REVIEW"]
             /\ LiquidityRisk[book] >= 70 => ActionRank[action] >= ActionRank["PASSIVE_ONLY"]
             /\ hint # "NONE" => ActionRank[action] >= ActionRank[hint]
BY DEF IntegrityAction, BaseAction, ActionRank, LiquidityRisk, Hints
-----------------------------------------------------------------------------

(* Nine scores sum up to at most 900.                                       *)
LEMMA SumOfScores ==
  ASSUME NEW S, IsFiniteSet(S), Cardinality(S) <= 9, NEW f, \A x \in S : f[x] \in 0 .. 100
  PROVE  SumFunctionOnSet(f, S) \in 0 .. 900
<1> DEFINE F == [x \in S |-> f[x]]
<1>1. PICK i \in [SUBSET S -> Int] : SumOver(i, S, F) /\ SumFunctionOnSet(f, S) = i[S]
  <2>1. \A x \in S : f[x] \in Int
    OBVIOUS
  <2>. QED
    BY <2>1, FoldIsSum
<1>2. SumFunctionOnSet(f, S) \in Nat
  <2>1. \A x \in S : f[x] \in Nat
    OBVIOUS
  <2>. QED
    BY <2>1, SumOfAmounts
<1>. DEFINE Q == {U \in SUBSET S : i[U] <= 100 * Cardinality(U)}
<1>3. {} \in Q
  <2>1. i[{}] = 0
    BY <1>1 DEF SumOver, IsSum
  <2>. QED
    BY <2>1, FS_EmptySet
<1>4. \A U \in SUBSET S : \A x \in S \ U : U \in Q => U \cup {x} \in Q
  <2>. SUFFICES ASSUME NEW U \in Q, NEW x \in S \ U
                PROVE  i[U \cup {x}] <= 100 * Cardinality(U \cup {x})
    OBVIOUS
  <2>1. i[U \cup {x}] = F[x] + i[U]
    <3>1. PICK V \in SUBSET S : V = U \cup {x}
      OBVIOUS
    <3>2. V \ {x} = U /\ x \in V
      BY <3>1
    <3>3. SumOver(i, S, F)
      BY <1>1
    <3>. HIDE DEF F, Q
    <3>4. i[V] = F[x] + i[V \ {x}]
      BY <3>2, <3>3, PartialSum
    <3>. QED
      BY <3>1, <3>2, <3>4
  <2>2. PICK a \in Int : a = i[U]
    BY <1>1
  <2>3. PICK n \in Nat : n = Cardinality(U) /\ Cardinality(U \cup {x}) = n + 1
    <3>1. IsFiniteSet(U) /\ x \notin U
      BY FS_Subset
    <3>. QED
      BY <3>1, FS_AddElement, FS_CardinalityType
  <2>4. F[x] = f[x] /\ f[x] \in Int /\ f[x] <= 100
    OBVIOUS
  <2>5. a <= 100 * n
    BY <2>2, <2>3
  <2>6. i[U \cup {x}] = f[x] + a
    BY <2>1, <2>2, <2>4
  <2>. QED
    BY <2>3, <2>4, <2>5, <2>6
<1>5. S \in Q
  <2>. HIDE DEF Q
  <2>. QED
    BY <1>3, <1>4, SubsetsByInduction
<1>6. PICK n \in Nat : n = Cardinality(S) /\ n <= 9
  BY FS_CardinalityType
<1>7. PICK a \in Int : a = i[S] /\ a <= 100 * n
  BY <1>1, <1>5, <1>6
<1>. QED
  BY <1>1, <1>2, <1>6, <1>7

(* S has at most n elements.                                               *)
AtMostMany(S, n) == IsFiniteSet(S) /\ Cardinality(S) <= n

LEMMA OneMoreElement ==
  ASSUME NEW S, IsFiniteSet(S), NEW x, NEW T, T = S \cup {x}
  PROVE  /\ IsFiniteSet(T) /\ Cardinality(S) \in Nat
         /\ Cardinality(T) = Cardinality(S) \/ Cardinality(T) = Cardinality(S) + 1
BY FS_AddElement, FS_CardinalityType

(* The dimensions of an assessment, and their scores.                       *)
LEMMA NineDimensions ==
  /\ AtMostMany(DOMAIN AmbiguityDimensions, 9)
  /\ \A d \in DOMAIN AmbiguityDimensions :
       IsFiniteSet(AmbiguityDimensions[d]) /\ \A x \in AmbiguityDimensions[d] : Points[x] \in Nat
<1>1. ASSUME NEW a, NEW b, NEW c, NEW d
      PROVE  AtMostMany({a, b, c, d}, 4)
  <2>1. AtMostMany({a}, 1)
    <3>1. IsFiniteSet({a}) /\ Cardinality({a}) = 1
      BY FS_Singleton
    <3>2. 1 <= 1
      OBVIOUS
    <3>. QED
      BY ONLY <3>1, <3>2 DEF AtMostMany
  <2>2. PICK A : A = {a} \cup {b}
    OBVIOUS
  <2>3. PICK B : B = A \cup {c}
    OBVIOUS
  <2>4. PICK C : C = B \cup {d}
    OBVIOUS
  <2>5. AtMostMany(A, 2)
    <3>1. IsFiniteSet({a}) /\ Cardinality({a}) <= 1
      BY <2>1, <2>2 DEF AtMostMany
    <3>2. /\ IsFiniteSet(A) /\ Cardinality({a}) \in Nat
          /\ Cardinality(A) = Cardinality({a}) \/ Cardinality(A) = Cardinality({a}) + 1
      BY <2>1, <2>2, <3>1, OneMoreElement, Zenon
    <3>. QED
      BY <3>1, <3>2 DEF AtMostMany
  <2>6. AtMostMany(B, 3)
    <3>1. IsFiniteSet(A) /\ Cardinality(A) <= 2
      BY <2>3, <2>5 DEF AtMostMany
    <3>2. /\ IsFiniteSet(B) /\ Cardinality(A) \in Nat
          /\ Cardinality(B) = Cardinality(A) \/ Cardinality(B) = Cardinality(A) + 1
      BY <2>3, <2>5, <3>1, OneMoreElement, Zenon
    <3>. QED
      BY <3>1, <3>2 DEF AtMostMany
  <2>7. AtMostMany(C, 4)
    <3>1. IsFiniteSet(B) /\ Cardinality(B) <= 3
      BY <2>4, <2>6 DEF AtMostMany
    <3>2. /\ IsFiniteSet(C) /\ Cardinality(B) \in Nat
          /\ Cardinality(C) = Cardinality(B) \/ Cardinality(C) = Cardinality(B) + 1
      BY <2>4, <2>6, <3>1, OneMoreElement, Zenon
    <3>. QED
      BY <3>1, <3>2 DEF AtMostMany
  <2>8. C = {a, b, c, d}
    BY <2>2, <2>3, <2>4
  <2>. QED
    BY <2>7, <2>8
<1>2. ASSUME NEW a, NEW b, NEW c, NEW d, NEW e, NEW f, NEW g, NEW h, NEW k
      PROVE  AtMostMany({a, b, c, d, e, f}, 6) /\ AtMostMany({a, b, c, d, e, f, g, h, k}, 9)
  <2>1. PICK S : S = {a, b, c, d} /\ AtMostMany(S, 4)
    BY <1>1
  <2>2. PICK A : A = S \cup {e}
    OBVIOUS
  <2>3. PICK B : B = A \cup {f}
    OBVIOUS
  <2>4. PICK C : C = B \cup {g}
    OBVIOUS
  <2>5. PICK D : D = C \cup {h}
    OBVIOUS
  <2>6. PICK E : E = D \cup {k}
    OBVIOUS
  <2>7. AtMostMany(A, 5)
    <3>1. IsFiniteSet(S) /\ Cardinality(S) <= 4
      BY <2>1, <2>2 DEF AtMostMany
    <3>2. /\ IsFiniteSet(A) /\ Cardinality(S) \in Nat
          /\ Cardinality(A) = Cardinality(S) \/ Cardinality(A) = Cardinality(S) + 1
      BY <2>1, <2>2, <3>1, OneMoreElement, Zenon
    <3>. QED
      BY <3>1, <3>2 DEF AtMostMany
  <2>8. AtMostMany(B, 6)
    <3>1. IsFiniteSet(A) /\ Cardinality(A) <= 5
      BY <2>3, <2>7 DEF AtMostMany
    <3>2. /\ IsFiniteSet(B) /\ Cardinality(A) \in Nat
          /\ Cardinality(B) = Cardinality(A) \/ Cardinality(B) = Cardinality(A) + 1
      BY <2>3, <2>7, <3>1, OneMoreElement, Zenon
    <3>. QED
      BY <3>1, <3>2 DEF AtMostMany
  <2>9. AtMostMany(C, 7)
    <3>1. IsFiniteSet(B) /\ Cardinality(B) <= 6
      BY <2>4, <2>8 DEF AtMostMany
    <3>2. /\ IsFiniteSet(C) /\ Cardinality(B) \in Nat
          /\ Cardinality(C) = Cardinality(B) \/ Cardinality(C) = Cardinality(B) + 1
      BY <2>4, <2>8, <3>1, OneMoreElement, Zenon
    <3>. QED
      BY <3>1, <3>2 DEF AtMostMany
  <2>10. AtMostMany(D, 8)
    <3>1. IsFiniteSet(C) /\ Cardinality(C) <= 7
      BY <2>5, <2>9 DEF AtMostMany
    <3>2. /\ IsFiniteSet(D) /\ Cardinality(C) \in Nat
          /\ Cardinality(D) = Cardinality(C) \/ Cardinality(D) = Cardinality(C) + 1
      BY <2>5, <2>9, <3>1, OneMoreElement, Zenon
    <3>. QED
      BY <3>1, <3>2 DEF AtMostMany
  <2>11. AtMostMany(E, 9)
    <3>1. IsFiniteSet(D) /\ Cardinality(D) <= 8
      BY <2>6, <2>10 DEF AtMostMany
    <3>2. /\ IsFiniteSet(E) /\ Cardinality(D) \in Nat
          /\ Cardinality(E) = Cardinality(D) \/ Cardinality(E) = Cardinality(D) + 1
      BY <2>6, <2>10, <3>1, OneMoreElement, Zenon
    <3>. QED
      BY <3>1, <3>2 DEF AtMostMany
  <2>12. B = {a, b, c, d, e, f} /\ E = {a, b, c, d, e, f, g, h, k}
    BY <2>1, <2>2, <2>3, <2>4, <2>5, <2>6
  <2>. QED
    BY <2>8, <2>11, <2>12
<1>3. DOMAIN AmbiguityDimensions = {"source", "temporal", "definition", "measurement", "actor",
                                    "threshold", "dispute", "exceptional", "venue"}
  BY DEF AmbiguityDimensions
<1>4. ASSUME NEW a, NEW b, NEW c, NEW d, NEW e, NEW f
      PROVE  IsFiniteSet({a, b, c, d, e, f})
  BY <1>2 DEF AtMostMany
<1>5. ASSUME NEW a, NEW b, NEW c, NEW d
      PROVE  IsFiniteSet({a, b, c, d}) /\ IsFiniteSet({a, b, c}) /\ IsFiniteSet({a, b})
  <2>1. IsFiniteSet({a, b, c, d}) /\ IsFiniteSet({a, b, c, c}) /\ IsFiniteSet({a, b, b, b})
    BY <1>1 DEF AtMostMany
  <2>2. {a, b, c, c} = {a, b, c} /\ {a, b, b, b} = {a, b}
    OBVIOUS
  <2>. QED
    BY <2>1, <2>2
<1>6. \A d \in DOMAIN AmbiguityDimensions : IsFiniteSet(AmbiguityDimensions[d])
  <2>1. IsFiniteSet(AmbiguityDimensions["source"]) /\ IsFiniteSet(AmbiguityDimensions["definition"])
    BY <1>5 DEF AmbiguityDimensions
  <2>2. IsFiniteSet(AmbiguityDimensions["temporal"])
    BY <1>4 DEF AmbiguityDimensions
  <2>3. IsFiniteSet(AmbiguityDimensions["measurement"]) /\ IsFiniteSet(AmbiguityDimensions["actor"])
    BY <1>5 DEF AmbiguityDimensions
  <2>4. IsFiniteSet(AmbiguityDimensions["threshold"]) /\ IsFiniteSet(AmbiguityDimensions["dispute"])
    BY <1>5 DEF AmbiguityDimensions
  <2>5. IsFiniteSet(AmbiguityDimensions["exceptional"]) /\ IsFiniteSet(AmbiguityDimensions["venue"])
    BY <1>5 DEF AmbiguityDimensions
  <2>. QED
    BY <1>3, <2>1, <2>2, <2>3, <2>4, <2>5
<1>7. \A d \in DOMAIN AmbiguityDimensions : \A x \in AmbiguityDimensions[d] : Points[x] \in Nat
  <2>1. \A x \in DOMAIN Points : Points[x] \in Nat
    BY DEF Points
  <2>2. \A d \in DOMAIN AmbiguityDimensions : AmbiguityDimensions[d] \subseteq DOMAIN Points
    BY DEF AmbiguityDimensions, Points
  <2>. QED
    BY <2>1, <2>2
<1>8. AtMostMany(DOMAIN AmbiguityDimensions, 9)
  <2>1. PICK S : S = {"source", "temporal", "definition", "measurement", "actor",
                      "threshold", "dispute", "exceptional", "venue"}
    OBVIOUS
  <2>2. AtMostMany(S, 9)
    <3>. HIDE DEF AtMostMany
    <3>. QED
      BY <1>2, <2>1, Zenon
  <2>. QED
    BY <1>3, <2>1, <2>2
<1>. QED
  BY <1>6, <1>7, <1>8

LEMMA ScoresOfDimensions ==
  ASSUME NEW codes, NEW more, codes \subseteq more
  PROVE  /\ DOMAIN DimensionScores(codes) = DOMAIN AmbiguityDimensions
         /\ \A d \in DOMAIN AmbiguityDimensions :
              /\ DimensionScores(codes)[d] \in 0 .. 100
              /\ DimensionScores(codes)[d] <= DimensionScores(more)[d]
<1>1. ASSUME NEW d \in DOMAIN AmbiguityDimensions
      PROVE  /\ DimensionScores(codes)[d] \in 0 .. 100
             /\ DimensionScores(codes)[d] <= DimensionScores(more)[d]
  <2>1. PICK S : S = more \cap AmbiguityDimensions[d] /\ IsFiniteSet(S) /\ \A x \in S : Points[x] \in Nat
    BY NineDimensions, FS_Subset
  <2>2. PICK T : T = codes \cap AmbiguityDimensions[d] /\ T \in SUBSET S
    BY <2>1
  <2>3. \A x \in S : Points[x] \in Nat /\ Points[x] \in Nat /\ Points[x] <= Points[x]
    BY <2>1
  <2>4. PICK m, n \in Nat : m = SumFunctionOnSet(Points, T) /\ n = SumFunctionOnSet(Points, S) /\ m <= n
    BY <2>1, <2>2, <2>3, SumsCompare
  <2>5. DimensionScores(codes)[d] = Lesser(100, m) /\ DimensionScores(more)[d] = Lesser(100, n)
    BY <2>1, <2>2, <2>4 DEF DimensionScores
  <2>. QED
    BY <2>4, <2>5 DEF Lesser
<1>2. DOMAIN DimensionScores(codes) = DOMAIN AmbiguityDimensions
  BY DEF DimensionScores
<1>. QED
  BY <1>1, <1>2

(* The greatest of the scores a table holds.                               *)
LargestOf(scores) == CHOOSE s \in Range(scores) : \A r \in Range(scores) : r <= s

LEMMA LargestIsTaken ==
  ASSUME NEW scores, \A d \in DOMAIN scores : scores[d] \in 0 .. 100, DOMAIN scores # {}
  PROVE  /\ LargestOf(scores) \in 0 .. 100
         /\ \E d \in DOMAIN scores : LargestOf(scores) = scores[d]
         /\ \A d \in DOMAIN scores : scores[d] <= LargestOf(scores)
<1>1. Range(scores) \subseteq 0 .. 100 /\ Range(scores) # {}
  BY DEF Range
<1>2. IsFiniteSet(0 .. 100)
  <2>1. 0 \in Int /\ 100 \in Int
    OBVIOUS
  <2>. QED
    BY <2>1, FS_Interval
<1>3. Range(scores) \in SUBSET Int /\ IsFiniteSet(Range(scores))
  BY <1>1, <1>2, FS_Subset
<1>4. \E p \in Range(scores) : \A q \in Range(scores) : q <= p
  BY <1>1, <1>3, GreatestExists
<1>5. LargestOf(scores) \in Range(scores) /\ \A q \in Range(scores) : q <= LargestOf(scores)
  BY <1>4 DEF LargestOf
<1>. QED
  BY <1>1, <1>5 DEF Range

(* The overall ambiguity is a score, and grows with the codes.             *)
LEMMA OverallInOrder ==
  ASSUME NEW codes, NEW more, codes \subseteq more
  PROVE  /\ OverallAmbiguity(codes) \in 0 .. 100
         /\ OverallAmbiguity(codes) <= OverallAmbiguity(more)
<1> DEFINE D == DOMAIN AmbiguityDimensions
<1>1. D # {} /\ IsFiniteSet(D) /\ Cardinality(D) \in Nat /\ Cardinality(D) <= 9
  <2>1. "source" \in D
    BY DEF AmbiguityDimensions
  <2>. QED
    BY <2>1, NineDimensions, FS_CardinalityType DEF AtMostMany
<1>2. PICK p : p = DimensionScores(codes)
  OBVIOUS
<1>3. PICK q : q = DimensionScores(more)
  OBVIOUS
<1>4. /\ DOMAIN p = D /\ DOMAIN q = D
      /\ \A d \in D : p[d] \in 0 .. 100 /\ q[d] \in 0 .. 100 /\ p[d] <= q[d]
  BY <1>2, <1>3, ScoresOfDimensions
<1>. HIDE DEF D
<1>5. PICK k, l \in 0 .. 100 : k = LargestOf(p) /\ l = LargestOf(q) /\ k <= l
  <2>1. LargestOf(p) \in 0 .. 100 /\ \E d \in D : LargestOf(p) = p[d]
    BY <1>1, <1>4, LargestIsTaken
  <2>2. LargestOf(q) \in 0 .. 100 /\ \A d \in D : q[d] <= LargestOf(q)
    BY <1>1, <1>4, LargestIsTaken
  <2>3. LargestOf(p) <= LargestOf(q)
    BY <1>4, <2>1, <2>2
  <2>. QED
    BY <2>1, <2>2, <2>3
<1>6. PICK m \in Int : m = SumFunctionOnSet(p, D) /\ 0 <= m /\ m <= 900
  <2>1. SumFunctionOnSet(p, D) \in 0 .. 900
    BY <1>1, <1>4, SumOfScores
  <2>. QED
    BY <2>1
<1>7. PICK n \in Int : n = SumFunctionOnSet(q, D) /\ m <= n
  <2>1. \A d \in D : p[d] \in Nat /\ q[d] \in Nat /\ p[d] <= q[d]
    BY <1>4
  <2>2. SumFunctionOnSet(q, D) \in Nat /\ SumFunctionOnSet(p, D) <= SumFunctionOnSet(q, D)
    BY <1>1, <2>1, SumsCompare
  <2>. QED
    BY <1>6, <2>2
<1>8. SumFunction(p) = m /\ SumFunction(q) = n
  BY <1>4, <1>6, <1>7 DEF SumFunction
<1>9. /\ OverallAmbiguity(codes) = (54 * k + 4 * m + 45) \div 90
      /\ OverallAmbiguity(more) = (54 * l + 4 * n + 45) \div 90
  BY <1>2, <1>3, <1>5, <1>8, Zenon DEF OverallAmbiguity, LargestOf
<1>10. k \in Int /\ l \in Int /\ 0 <= k /\ k <= 100 /\ k <= l
  BY <1>5
<1>11. 54 * k + 4 * m + 45 \in Int /\ 54 * l + 4 * n + 45 \in Int
  BY <1>10
<1>12. PICK x \in Int : x = 54 * k + 4 * m + 45
  BY <1>11
<1>13. PICK y \in Int : y = 54 * l + 4 * n + 45
  BY <1>11
<1>14. 45 <= x /\ x <= 9045 /\ x <= y
  BY <1>6, <1>7, <1>10, <1>12, <1>13
<1>15. x \div 90 \in 0 .. 100 /\ x \div 90 <= y \div 90
  BY <1>14
<1>16. OverallAmbiguity(codes) = x \div 90 /\ OverallAmbiguity(more) = y \div 90
  BY <1>9, <1>12, <1>13, Zenon
<1>. QED
  BY <1>15, <1>16
-----------------------------------------------------------------------------
(* The newest of rows stored up to a time.                                 *)
LEMMA NewestIsLast ==
  ASSUME NEW S, S # {}, NEW n \in Nat, \A r \in S : r.at \in 0 .. n
  PROVE  NewestOf(S) \in S /\ \A q \in S : q.at <= NewestOf(S).at
<1> DEFINE times == {r.at : r \in S}
<1>1. times \subseteq 0 .. n /\ times # {}
  OBVIOUS
<1>2. IsFiniteSet(0 .. n)
  <2>1. 0 \in Int /\ n \in Int
    OBVIOUS
  <2>. QED
    BY <2>1, FS_Interval
<1>3. IsFiniteSet(times) /\ times \in SUBSET Int
  BY <1>1, <1>2, FS_Subset
<1>4. \E t \in times : \A u \in times : u <= t
  <2>. HIDE DEF times
  <2>. QED
    BY <1>1, <1>3, GreatestExists
<1>5. \E r \in S : \A q \in S : q.at <= r.at
  BY <1>4
<1>. QED
  BY <1>5 DEF NewestOf

(* A stored analysis was made with some of the sources known by now, a      *)
(* stored comparison reports how its two rules differ, and a verdict is     *)
(* what its inputs ask for.                                                *)
ParseOK(p) ==
  /\ p.at \in 1 .. MaxCaptured
  /\ \E names \in SUBSET known :
       /\ p.predicate = Predicate(p.content, names)
       /\ p.codes = AmbiguityCodes(p.content, p.predicate)
DiffOK(d) == d.flags = ChangeFlags(d.pair.from, d.pair.to)
VerdictOK(v) ==
  /\ v.book \in DOMAIN LiquidityRisk /\ v.hint \in Hints
  /\ v.action = IntegrityAction(BaseAction(v.risk, v.book), v.hint)

CorpusInv ==
  /\ \A r \in rules : r.at \in 1 .. MaxCaptured
  /\ \A r, q \in rules : (r.content = q.content \/ r.at = q.at) => r = q
  /\ \A p \in parses : ParseOK(p)
  /\ \A p, q \in parses : p.content = q.content => p = q
  /\ \A d \in ruleDiffs : DiffOK(d)
  /\ \A d, e \in ruleDiffs : d.pair = e.pair => d = e
  /\ verdict = None \/ VerdictOK(verdict)
  /\ ~RuleRecurs => \A p \in parses : \E r \in rules : r.content = p.content /\ r.at = p.at

LEMMA ResolutionInit_Inv == ResolutionInit => CorpusInv
BY DEF ResolutionInit, CorpusInv

LEMMA ResolutionStep == CorpusInv /\ [ResolutionNext]_resolutionVars => CorpusInv'
<1>. SUFFICES ASSUME CorpusInv, [ResolutionNext]_resolutionVars
              PROVE  CorpusInv'
  OBVIOUS
<1>. USE DEF CorpusInv
<1>1. CASE UNCHANGED resolutionVars
  BY <1>1 DEF resolutionVars, ParseOK
<1>2. ASSUME NEW c \in RuleContents, NEW at \in 1 .. MaxCaptured, CaptureRule(c, at)
      PROVE  CorpusInv'
  <2>. DEFINE row == [content |-> c, at |-> at]
  <2>1. /\ \A r \in rules : r.at # at
        /\ rules' = {r \in rules : r.content # c} \cup {row}
        /\ RuleRecurs \/ \A r \in rules : r.content # c
        /\ UNCHANGED <<known, parses, ruleDiffs, verdict>>
    BY <1>2 DEF CaptureRule
  <2>2. row.content = c /\ row.at = at
    OBVIOUS
  <2>. HIDE DEF row
  <2>3. \A r \in rules' : r.at \in 1 .. MaxCaptured
    BY <2>1, <2>2
  <2>4. \A r, q \in rules' : (r.content = q.content \/ r.at = q.at) => r = q
    BY <2>1, <2>2
  <2>5. \A p \in parses' : ParseOK(p)'
    BY <2>1 DEF ParseOK
  <2>6. ~RuleRecurs => \A p \in parses' : \E r \in rules' : r.content = p.content /\ r.at = p.at
    BY <2>1
  <2>. QED
    BY <2>1, <2>3, <2>4, <2>5, <2>6 DEF DiffOK, VerdictOK
<1>3. ASSUME NEW name \in SourceNames, LearnSource(name)
      PROVE  CorpusInv'
  <2>1. known' = known \cup {name} /\ UNCHANGED <<captured, rules, parses, ruleDiffs, verdict>>
    BY <1>3 DEF LearnSource
  <2>2. \A p \in parses' : ParseOK(p)'
    BY <2>1 DEF ParseOK
  <2>. QED
    BY <2>1, <2>2 DEF DiffOK, VerdictOK
<1>4. ASSUME NEW rule \in rules, NEW force \in BOOLEAN, AnalyzeRule(rule, force)
      PROVE  CorpusInv'
  <2>1. UNCHANGED <<captured, rules, known, ruleDiffs, verdict>>
    BY <1>4 DEF AnalyzeRule
  <2>2. CASE parses' = parses
    BY <2>1, <2>2 DEF ParseOK, DiffOK, VerdictOK
  <2>3. CASE SaveParse(Analysis(rule))
    <3>. DEFINE made == Analysis(rule)
    <3>1. /\ made.content = rule.content /\ made.at = rule.at
          /\ made.predicate = Predicate(made.content, known)
          /\ made.codes = AmbiguityCodes(made.content, made.predicate)
      BY DEF Analysis
    <3>2. parses' = (parses \ {p \in parses : p.content = made.content}) \cup {made}
      BY <2>3 DEF SaveParse, ParseOf
    <3>3. ParseOK(made)
      BY <3>1 DEF ParseOK
    <3>. HIDE DEF made
    <3>4. \A p \in parses' : ParseOK(p)'
      BY <2>1, <3>2, <3>3 DEF ParseOK
    <3>5. \A p, q \in parses' : p.content = q.content => p = q
      BY <3>2
    <3>6. ~RuleRecurs => \A p \in parses' : \E r \in rules' : r.content = p.content /\ r.at = p.at
      BY <2>1, <3>1, <3>2
    <3>. QED
      BY <2>1, <3>4, <3>5, <3>6 DEF DiffOK, VerdictOK
  <2>. QED
    BY <1>4, <2>2, <2>3 DEF AnalyzeRule
<1>5. ASSUME NEW force \in BOOLEAN, DiffLatestTwo(force)
      PROVE  CorpusInv'
  <2>. DEFINE diff == RuleDiff(PreviousRule, LatestRule)
  <2>1. UNCHANGED <<captured, rules, known, parses, verdict>>
    BY <1>5 DEF DiffLatestTwo
  <2>2. ruleDiffs' = ruleDiffs \/ ruleDiffs' = (ruleDiffs \ {d \in ruleDiffs : d.pair = diff.pair}) \cup {diff}
    BY <1>5 DEF DiffLatestTwo
  <2>3. DiffOK(diff)
    BY DEF RuleDiff, DiffOK
  <2>. HIDE DEF diff
  <2>4. (\A d \in ruleDiffs' : DiffOK(d)) /\ \A d, e \in ruleDiffs' : d.pair = e.pair => d = e
    BY <2>2, <2>3
  <2>. QED
    BY <2>1, <2>4 DEF ParseOK, VerdictOK, DiffOK
<1>6. ASSUME NEW book \in DOMAIN LiquidityRisk, NEW hint \in Hints, RecomputeVerdict(book, hint)
      PROVE  CorpusInv'
  <2>1. UNCHANGED <<captured, rules, known, parses, ruleDiffs>>
    BY <1>6 DEF RecomputeVerdict
  <2>2. \E risk : verdict' = [risk |-> risk, book |-> book, hint |-> hint,
                               action |-> IntegrityAction(BaseAction(risk, book), hint)]
    BY <1>6, Zenon DEF RecomputeVerdict
  <2>3. VerdictOK(verdict')
    BY <2>2 DEF VerdictOK
  <2>. QED
    BY <2>1, <2>3 DEF ParseOK, DiffOK, VerdictOK
<1>. QED
  BY <1>1, <1>2, <1>3, <1>4, <1>5, <1>6 DEF ResolutionNext

LEMMA CorpusInvSound == ASSUME ~RuleRecurs, CorpusInv PROVE ResolutionSound
<1>. USE DEF CorpusInv
<1>1. ResolutionTypeOK
  <2>1. \A p \in parses : p.at \in 1 .. MaxCaptured /\ OverallAmbiguity(p.codes) \in 0 .. 100
    BY OverallInOrder DEF ParseOK
  <2>. QED
    BY <2>1 DEF ResolutionTypeOK
<1>2. LatestAnalysisIsCurrent
  <2>. SUFFICES ASSUME LatestRule # None, ParseOf(LatestRule.content) # {}
                PROVE  LatestParse.content = LatestRule.content
    BY DEF LatestAnalysisIsCurrent
  <2>0. MaxCaptured \in Nat /\ 1 .. MaxCaptured \subseteq 0 .. MaxCaptured
    <3>1. MaxCaptured \in Nat
      BY ONLY ResolutionAssumption
    <3>. QED
      BY ONLY <3>1
  <2>1. rules # {} /\ \A r \in rules : r.at \in 0 .. MaxCaptured
    <3>1. rules # {}
      BY DEF LatestRule, NewestOf
    <3>. QED
      BY <2>0, <3>1
  <2>2. LatestRule \in rules /\ \A q \in rules : q.at <= LatestRule.at
    <3>1. NewestOf(rules) \in rules /\ \A q \in rules : q.at <= NewestOf(rules).at
      BY ONLY <2>0, <2>1, NewestIsLast
    <3>. QED
      BY ONLY <3>1 DEF LatestRule
  <2>3. PICK p \in parses : p.content = LatestRule.content
    BY DEF ParseOf
  <2>4. p.at = LatestRule.at
    BY <2>2, <2>3
  <2>5. \A q \in parses : q.at \in 1 .. MaxCaptured
    BY DEF ParseOK
  <2>6. LatestParse \in parses /\ \A q \in parses : q.at <= LatestParse.at
    <3>1. parses # {} /\ \A q \in parses : q.at \in 0 .. MaxCaptured
      BY <2>0, <2>3, <2>5
    <3>2. NewestOf(parses) \in parses /\ \A q \in parses : q.at <= NewestOf(parses).at
      BY ONLY <2>0, <3>1, NewestIsLast
    <3>. QED
      BY ONLY <3>2 DEF LatestParse
  <2>7. PICK r \in rules : r.content = LatestParse.content /\ r.at = LatestParse.at
    BY <2>6
  <2>8. r.at = LatestRule.at
    <3>0. MaxCaptured \in Nat
      BY ResolutionAssumption
    <3>1. p.at <= LatestParse.at /\ p.at \in Int /\ LatestParse.at \in Int
      BY <2>3, <2>5, <2>6, <3>0
    <3>. QED
      BY <2>2, <2>4, <2>7, <3>1
  <2>. QED
    BY <2>2, <2>7, <2>8
<1>3. StaleAnalysesOnlyStricter
  <2>. SUFFICES ASSUME NEW p \in parses
                PROVE  LET fresh == AmbiguityCodes(p.content, Predicate(p.content, known))
                       IN  fresh \subseteq p.codes /\ OverallAmbiguity(fresh) <= OverallAmbiguity(p.codes)
    BY DEF StaleAnalysesOnlyStricter
  <2>1. PICK names \in SUBSET known : p.codes = AmbiguityCodes(p.content, Predicate(p.content, names))
    BY DEF ParseOK
  <2>2. AmbiguityCodes(p.content, Predicate(p.content, known)) \subseteq p.codes
    BY <2>1, SourceGrows, CodesShrink
  <2>. QED
    BY <2>2, OverallInOrder
<1>4. FormattingKeepsTerms
  <2>. SUFFICES ASSUME NEW d \in ruleDiffs, d.flags \subseteq {"ONLY_WHITESPACE_OR_FORMATTING"}
                PROVE  LET p == Predicate(d.pair.from, known)
                           q == Predicate(d.pair.to, known)
                       IN  /\ p.type = q.type /\ p.zone = q.zone /\ p.threshold = q.threshold
                           /\ p.authority = None <=> q.authority = None
                           /\ RiskReasons(d.pair.from) \ Excepted = RiskReasons(d.pair.to) \ Excepted
    BY DEF FormattingKeepsTerms, Excepted
  <2>1. ChangeFlags(d.pair.from, d.pair.to) \subseteq {"ONLY_WHITESPACE_OR_FORMATTING"}
    BY DEF DiffOK
  <2>. QED
    BY <2>1, SameTerms
<1>5. ScorersAgree
  <2>. SUFFICES ASSUME NEW p \in parses
                PROVE  LET reasons == RiskReasons(p.content)
                       IN  /\ reasons \cap {"soon", "around", "approximately", "expected", "anticipated"} # {}
                                <=> "VAGUE_DEADLINE" \in p.codes
                           /\ "by_month_without_date" \in reasons <=> "MONTH_WITHOUT_DAY" \in p.codes
                           /\ "missing_resolution_source" \notin reasons => "MISSING_RESOLUTION_SOURCE" \notin p.codes
                           /\ ("end_of_period_without_timezone" \in reasons /\ p.predicate.zone = None)
                                <=> "BEFORE_END_OF_WITHOUT_TIMEZONE" \in p.codes
    BY DEF ScorersAgree
  <2>1. p.codes = AmbiguityCodes(p.content, p.predicate)
    BY DEF ParseOK
  <2>2. PICK c, q : c = p.content /\ q = p.predicate
    OBVIOUS
  <2>3. /\ "VAGUE_DEADLINE" \in p.codes <=> Has(Words(c), VagueTiming)
        /\ "MONTH_WITHOUT_DAY" \in p.codes <=> "by month" \in Words(c)
        /\ "MISSING_RESOLUTION_SOURCE" \in p.codes <=> c.source = None /\ ~q.source
        /\ "BEFORE_END_OF_WITHOUT_TIMEZONE" \in p.codes <=>
             "before the end of" \in Words(c) /\ c.zone = None /\ q.zone = None
    <3>1. p.codes = AmbiguityCodes(c, q)
      BY <2>1, <2>2
    <3>2. LET codes == AmbiguityCodes(c, q)
          IN  /\ "VAGUE_DEADLINE" \in codes <=> Has(Words(c), VagueTiming)
              /\ "MONTH_WITHOUT_DAY" \in codes <=> "by month" \in Words(c)
              /\ "MISSING_RESOLUTION_SOURCE" \in codes <=> c.source = None /\ ~q.source
              /\ "BEFORE_END_OF_WITHOUT_TIMEZONE" \in codes <=>
                   "before the end of" \in Words(c) /\ c.zone = None /\ q.zone = None
      BY TimingOfCodes
    <3>. QED
      BY <3>1, <3>2
  <2>4. /\ RiskReasons(c) \cap {"soon", "around", "approximately", "expected", "anticipated"} # {}
             <=> Has(Words(c), VagueTiming)
        /\ "by_month_without_date" \in RiskReasons(c) <=> "by month" \in Words(c)
        /\ "missing_resolution_source" \in RiskReasons(c) <=> c.source = None
        /\ "end_of_period_without_timezone" \in RiskReasons(c) <=>
             "before the end of" \in Words(c) /\ c.zone = None
    BY ReasonsOfRules, Zenon
  <2>. QED
    BY <2>2, <2>3, <2>4
<1>6. VerdictKeepsStrictest
  <2>. SUFFICES ASSUME verdict # None
                PROVE  /\ verdict.risk >= 80 => ActionRank[verdict.action] >= ActionRank["NO_TRADE"]
                       /\ verdict.risk >= 50 \/ verdict.book = "missing" =>
                            ActionRank[verdict.action] >= ActionRank["MANUAL_REVIEW"]
                       /\ LiquidityRisk[verdict.book] >= 70 =>
                            ActionRank[verdict.action] >= ActionRank["PASSIVE_ONLY"]
                       /\ verdict.hint # "NONE" => ActionRank[verdict.action] >= ActionRank[verdict.hint]
    BY DEF VerdictKeepsStrictest
  <2>. QED
    BY StrictestAsked DEF VerdictOK
<1>. QED
  BY <1>1, <1>2, <1>3, <1>4, <1>5, <1>6 DEF ResolutionSound

(* If no rule returns, the readings of a rule agree, whatever is captured   *)
(* (late or in time), learnt, analysed, compared and scored in between: the *)
(* latest analysis is of the newest rule once that is analysed, one made    *)
(* with fewer sources is only stricter, a change of formatting, though it   *)
(* hides phrases from the patterns, keeps the terms, the two scorers agree, *)
(* and a verdict is as strict as each of its inputs asks for                *)
(* (resolution/service.py:52, diff.py:119, trust_verdict.py:45).            *)
THEOREM ResolutionIsSound == ASSUME ~RuleRecurs PROVE ResolutionSpec => []ResolutionSound
BY ResolutionInit_Inv, ResolutionStep, CorpusInvSound, PTL DEF ResolutionSpec

-----------------------------------------------------------------------------
(* The greatest of the values, by an order of at most 101 ranks, is one.   *)
LEMMA StrictestIsTaken ==
  ASSUME NEW D, NEW order \in [D -> 0 .. 100], NEW values \in SUBSET D, values # {}, NEW least
  PROVE  Strictest(values, order, least) \in values
<1> DEFINE ranks == {100 - order[v] : v \in values}
<1>1. ranks \in SUBSET Nat /\ ranks # {}
  OBVIOUS
<1>2. PICK m \in ranks : \A n \in ranks : m <= n
  <2>. HIDE DEF ranks
  <2>. QED
    BY <1>1, LeastNatural
<1>3. PICK v \in values : m = 100 - order[v]
  OBVIOUS
<1>4. ASSUME NEW w \in values PROVE order[w] <= order[v]
  <2>1. m <= 100 - order[w]
    BY <1>2
  <2>. QED
    BY <1>3, <2>1
<1>. QED
  BY <1>4 DEF Strictest

LEMMA SignalsAreRows == ASSUME NEW s, NEW n PROVE \A g \in PairSignals(s, n) : SignalRow(g)
<1>1. \A g \in OwnSignals(s) : SignalRow(g)
  BY DEF OwnSignals, SignalRow, SignalOf, IfSo, Graded, PriceGap, SeverityOrder, ActionOrder
<1>2. \A g \in PersistenceSignals(n) : SignalRow(g)
  BY DEF PersistenceSignals, SignalRow, SignalOf, IfSo, Graded, SeverityOrder, ActionOrder
<1>3. SignalRow(SignalOf("DO_NOT_COMPARE_CONTEXT", "CRITICAL", 100, "DO_NOT_COMPARE"))
  BY DEF SignalRow, SignalOf, SeverityOrder, ActionOrder
<1>. QED
  BY <1>1, <1>2, <1>3 DEF PairSignals

(* Persistence adds a signal when it reaches its threshold.                *)
LEMMA PersistenceAddsOne ==
  ASSUME NEW n
  PROVE  /\ PersistenceSignals(n) # {} <=> n >= MinPersistence
         /\ PersistenceSignals(0) = {}
         /\ \A g \in PersistenceSignals(n) : g.reason = "PERSISTENT_DIVERGENCE"
<1>1. ~(0 >= MinPersistence)
  BY DivergenceAssumption
<1> DEFINE g == Graded("PERSISTENT_DIVERGENCE", n >= 2 * MinPersistence, 80, 60, "RESEARCH")
<1>2. g.reason = "PERSISTENT_DIVERGENCE"
  BY DEF Graded, SignalOf
<1>3. PersistenceSignals(n) = IF n >= MinPersistence THEN {g} ELSE {}
  BY Zenon DEF PersistenceSignals, IfSo
<1>4. PersistenceSignals(0) = {}
  BY <1>1 DEF PersistenceSignals, IfSo
<1>. HIDE DEF g
<1>. QED
  BY <1>2, <1>3, <1>4

LEMMA OwnReasons ==
  ASSUME NEW s, NEW g \in OwnSignals(s)
  PROVE  g.reason # "PERSISTENT_DIVERGENCE"
BY DEF OwnSignals, SignalOf, IfSo, Graded, PriceGap

(* What an aggregate holds.                                                *)
LEMMA FoundIsRow ==
  ASSUME NEW s, NEW n
  PROVE  LET found == Aggregated(s, PairSignals(s, n))
         IN  /\ found.status \in Alarming \cup {"DO_NOT_COMPARE", "NEEDS_REVIEW", "NO_DIVERGENCE"}
             /\ found.severity \in DOMAIN SeverityOrder /\ found.hint \in DOMAIN ActionOrder
             /\ found.score \in 0 .. 100
<1> DEFINE signals == PairSignals(s, n)
           status == DivergenceStatus(s, signals)
<1>0. \A g \in signals : SignalRow(g)
  BY SignalsAreRows
<1>. HIDE DEF signals
<1>1. status \in Alarming \cup {"DO_NOT_COMPARE", "NEEDS_REVIEW", "NO_DIVERGENCE"}
  BY DEF DivergenceStatus, Alarming
<1>. HIDE DEF status
<1> DEFINE least(value) == IF status = "NEEDS_REVIEW" THEN {value} ELSE {}
           severities == {g.severity : g \in signals} \cup least("ERROR")
           hints == {g.hint : g \in signals} \cup least("MANUAL_REVIEW")
           scores == {g.score : g \in signals}
<1>2. Strictest(severities, SeverityOrder, "INFO") \in DOMAIN SeverityOrder
  <2>1. severities \in SUBSET DOMAIN SeverityOrder
    BY <1>0 DEF SignalRow, SeverityOrder
  <2>2. SeverityOrder \in [DOMAIN SeverityOrder -> 0 .. 100] /\ "INFO" \in DOMAIN SeverityOrder
    BY DEF SeverityOrder
  <2>. HIDE DEF severities
  <2>3. severities # {} => Strictest(severities, SeverityOrder, "INFO") \in severities
    BY <2>1, <2>2, StrictestIsTaken
  <2>. QED
    BY <2>1, <2>2, <2>3 DEF Strictest
<1>3. Strictest(hints, ActionOrder, "NONE") \in DOMAIN ActionOrder
  <2>1. hints \in SUBSET DOMAIN ActionOrder
    BY <1>0 DEF SignalRow, ActionOrder
  <2>2. ActionOrder \in [DOMAIN ActionOrder -> 0 .. 100] /\ "NONE" \in DOMAIN ActionOrder
    BY DEF ActionOrder
  <2>. HIDE DEF hints
  <2>3. hints # {} => Strictest(hints, ActionOrder, "NONE") \in hints
    BY <2>1, <2>2, StrictestIsTaken
  <2>. QED
    BY <2>1, <2>2, <2>3 DEF Strictest
<1>4. Strictest(scores, [k \in 0 .. 100 |-> k], 0) \in 0 .. 100
  <2>1. scores \in SUBSET (0 .. 100)
    BY <1>0 DEF SignalRow
  <2> DEFINE order == [k \in 0 .. 100 |-> k]
  <2>2. order \in [0 .. 100 -> 0 .. 100] /\ 0 \in 0 .. 100
    OBVIOUS
  <2>. HIDE DEF scores, order
  <2>3. scores # {} => Strictest(scores, order, 0) \in scores
    BY <2>1, <2>2, StrictestIsTaken
  <2>4. Strictest(scores, order, 0) \in 0 .. 100
    BY <2>1, <2>2, <2>3 DEF Strictest
  <2>. QED
    BY <2>4 DEF order
<1>5. Aggregated(s, signals) = Summary(status, signals)
  BY DEF Aggregated, status
<1>6. /\ Summary(status, signals).status = status
      /\ Summary(status, signals).severity = Strictest(severities, SeverityOrder, "INFO")
      /\ Summary(status, signals).hint = Strictest(hints, ActionOrder, "NONE")
      /\ \/ Summary(status, signals).score = Strictest(scores, [k \in 0 .. 100 |-> k], 0)
         \/ Summary(status, signals).score = 100
  BY DEF Summary
<1>. HIDE DEF severities, hints, scores
<1>7. 100 \in 0 .. 100
  OBVIOUS
<1>8. /\ Aggregated(s, signals).status \in Alarming \cup {"DO_NOT_COMPARE", "NEEDS_REVIEW", "NO_DIVERGENCE"}
      /\ Aggregated(s, signals).severity \in DOMAIN SeverityOrder
      /\ Aggregated(s, signals).hint \in DOMAIN ActionOrder
      /\ Aggregated(s, signals).score \in 0 .. 100
  BY <1>1, <1>2, <1>3, <1>4, <1>5, <1>6, <1>7
<1>. QED
  BY <1>8 DEF signals

(* An alarm has signals, and is raised in a clean context only.            *)
LEMMA AlarmContext ==
  ASSUME NEW s, NEW signals, Aggregated(s, signals).status \in Alarming
  PROVE  /\ MayCompare(s) /\ s.stale = None /\ ~LowQuality(s) /\ ~s.risky
         /\ signals # {}
<1>1. DivergenceStatus(s, signals) \in Alarming
  BY DEF Aggregated, Summary
<1>. QED
  BY <1>1 DEF DivergenceStatus, Alarming, MayCompare

LEMMA ReasonsOfFound ==
  ASSUME NEW s, NEW n
  PROVE  LET found(k) == Aggregated(s, PairSignals(s, k))
         IN  /\ found(n).reasons \ {"PERSISTENT_DIVERGENCE"} = found(0).reasons \ {"PERSISTENT_DIVERGENCE"}
             /\ "PERSISTENT_DIVERGENCE" \in found(n).reasons => n >= MinPersistence
<1>1. \A k : Aggregated(s, PairSignals(s, k)).reasons = {g.reason : g \in PairSignals(s, k)}
  BY DEF Aggregated, Summary
<1>2. \A g \in OwnSignals(s) : g.reason # "PERSISTENT_DIVERGENCE"
  BY OwnReasons
<1>3. CASE s.permission = "DO_NOT_COMPARE"
  <2>1. \A k : \A g \in PairSignals(s, k) : g.reason # "PERSISTENT_DIVERGENCE"
    BY <1>3 DEF PairSignals, SignalOf
  <2>2. PairSignals(s, n) = PairSignals(s, 0)
    BY <1>3 DEF PairSignals
  <2>. QED
    BY <1>1, <2>1, <2>2
<1>4. CASE s.permission # "DO_NOT_COMPARE"
  <2>1. \A k : PairSignals(s, k) = OwnSignals(s) \cup PersistenceSignals(k)
    BY <1>4 DEF PairSignals
  <2>2. PersistenceSignals(0) = {} /\ \A g \in PersistenceSignals(n) : g.reason = "PERSISTENT_DIVERGENCE"
    BY PersistenceAddsOne
  <2>3. PersistenceSignals(n) # {} => n >= MinPersistence
    BY PersistenceAddsOne
  <2>4. PairSignals(s, 0) = OwnSignals(s)
    BY <2>1, <2>2
  <2>. QED
    BY <1>1, <1>2, <2>1, <2>2, <2>3, <2>4
<1>. QED
  BY <1>3, <1>4
-----------------------------------------------------------------------------
(* The values of a reading, and of a snapshot of two.                      *)
LEMMA ReadingValues ==
  ASSUME NEW r, ReadingRow(r)
  PROVE  /\ {LastPrice(r), MidPrice(r), Quote(r, "bid"), Quote(r, "ask"), Quote(r, "spread")} \subseteq Ticks
         /\ Part(r.liquidity, "depth") \in Ticks /\ Part(r.quality, "score") \in Ticks
         /\ r.risk \in Ticks /\ IsStale(r) \in BOOLEAN
<1>1. None \in Ticks
  BY DEF Ticks
<1>2. \A name \in {"price", "mid", "bid", "ask", "spread"} : Part(r.price, name) \in Ticks
  BY <1>1 DEF Part, ReadingRow
<1>3. \A name \in {"mid", "bid", "ask", "spread", "depth"} : Part(r.liquidity, name) \in Ticks
  BY <1>1 DEF Part, ReadingRow
<1>4. \A name \in {"mid", "bid", "ask", "spread"} : Quote(r, name) \in Ticks
  BY <1>2, <1>3 DEF Quote, Either
<1>5. LastPrice(r) \in Ticks
  BY <1>1, <1>2 DEF LastPrice, Part
<1>6. MidPrice(r) \in Ticks
  BY <1>4, <1>5 DEF MidPrice, Either
<1>7. Part(r.quality, "score") \in Ticks /\ IsStale(r) \in BOOLEAN
  BY <1>1 DEF Part, ReadingRow, IsStale
<1>. QED
  BY <1>3, <1>4, <1>5, <1>6, <1>7 DEF ReadingRow

LEMMA AlignedIsTick == ASSUME NEW x \in Ticks, NEW relation PROVE Aligned(x, relation) \in Ticks
BY DEF Aligned, Ticks

LEMMA ApartIsTick == ASSUME NEW x \in Ticks, NEW y \in Ticks
                     PROVE  Apart(x, y) \in Ticks /\ BothOf(x, y) \in Ticks
BY DEF Apart, BothOf, Ticks

\* a reading with its sides' flags
LEMMA SnapshotFields ==
  ASSUME NEW l, NEW r, NEW row, ReadingRow(l), ReadingRow(r)
  PROVE  LET v == SnapshotId(SnapshotWith(l, r, row))
         IN  /\ {v.midGap, v.priceGap, v.reference, v.combined, v.adjusted} \subseteq Ticks
             /\ v.adjusted # None =>
                  /\ v.combined # None /\ v.midGap # None /\ v.adjusted >= 0
                  /\ v.combined >= 0 => v.adjusted <= 2 * Size(v.midGap)
             /\ {v.stale, v.weaker} \subseteq {None, "left", "right", "both"}
             /\ {v.noPrice, v.noLiquidity, v.risky, v.wide, v.oneSided, v.qualities} \subseteq BOOLEAN
             /\ v.permission = row.permission
<1> DEFINE midGap == Apart(MidPrice(l), Aligned(MidPrice(r), row.relation))
           combined == BothOf(Quote(l, "spread"), Quote(r, "spread"))
           s == SnapshotWith(l, r, row)
           v == SnapshotId(s)
<1>1. midGap \in Ticks /\ combined \in Ticks
  BY ReadingValues, AlignedIsTick, ApartIsTick
<1>2. Apart(LastPrice(l), Aligned(LastPrice(r), row.relation)) \in Ticks /\ MidPrice(l) \in Ticks
  BY ReadingValues, AlignedIsTick, ApartIsTick
<1>3. /\ s.permission = row.permission /\ s.midGap = midGap /\ s.combined = combined
      /\ s.priceGap = Apart(LastPrice(l), Aligned(LastPrice(r), row.relation))
      /\ s.reference = MidPrice(l)
      /\ s.adjusted = IF combined = None \/ midGap = None THEN None
                      ELSE Greater(0, 2 * Size(midGap) - combined)
      /\ s.stale = SideOf(IsStale(l), IsStale(r)) /\ s.weaker = WeakerSide(Weakness(l), Weakness(r))
      /\ s.noPrice \in BOOLEAN /\ s.noLiquidity \in BOOLEAN /\ s.risky \in BOOLEAN
      /\ s.wide \in BOOLEAN /\ s.oneSided \in BOOLEAN
  BY DEF SnapshotWith, SnapshotBetween
<1>4. /\ v.permission = s.permission /\ v.midGap = s.midGap /\ v.combined = s.combined
      /\ v.priceGap = s.priceGap /\ v.adjusted = s.adjusted /\ v.stale = s.stale /\ v.weaker = s.weaker
      /\ v.noPrice = s.noPrice /\ v.noLiquidity = s.noLiquidity /\ v.risky = s.risky
      /\ v.wide = s.wide /\ v.oneSided = s.oneSided
      /\ v.qualities = LowQuality(s)
      /\ v.reference \in {None, 0, s.reference}
  BY DEF SnapshotId, SnapshotWith, SnapshotBetween
<1>5. LowQuality(s) \in BOOLEAN
  BY DEF LowQuality
<1>. HIDE DEF s, v, midGap, combined
<1>6. s.adjusted \in Ticks /\ (s.adjusted # None => s.adjusted >= 0 /\ (combined >= 0 => s.adjusted <= 2 * Size(midGap)))
  BY <1>1, <1>3, DivergenceAssumption DEF Ticks, Greater, Size
<1>7. s.stale \in {None, "left", "right", "both"} /\ s.weaker \in {None, "left", "right", "both"}
  BY <1>3 DEF SideOf, WeakerSide
<1>8. s.adjusted # None => combined # None /\ midGap # None
  BY <1>3
<1>9. {v.midGap, v.priceGap, v.reference, v.combined, v.adjusted} \subseteq Ticks
  <2>1. 0 \in Ticks /\ None \in Ticks
    BY DEF Ticks
  <2>. QED
    BY <1>1, <1>2, <1>3, <1>4, <1>6, <2>1
<1>10. v.adjusted # None =>
         /\ v.combined # None /\ v.midGap # None /\ v.adjusted >= 0
         /\ v.combined >= 0 => v.adjusted <= 2 * Size(v.midGap)
  BY <1>3, <1>4, <1>6, <1>8
<1>11. /\ {v.stale, v.weaker} \subseteq {None, "left", "right", "both"}
       /\ {v.noPrice, v.noLiquidity, v.risky, v.wide, v.oneSided, v.qualities} \subseteq BOOLEAN
       /\ v.permission = row.permission
  BY <1>3, <1>4, <1>5, <1>7
<1>. QED
  BY <1>9, <1>10, <1>11 DEF s, v

\* what the signals and their aggregate read of a snapshot
SameForSignals(s, q) ==
  /\ q.permission = s.permission /\ Size(q.midGap) = Size(s.midGap) /\ q.adjusted = s.adjusted
  /\ q.noPrice = s.noPrice /\ q.noLiquidity = s.noLiquidity /\ q.shallow = s.shallow
  /\ (q.stale = None) = (s.stale = None) /\ Qualities(q) = Qualities(s)
  /\ q.risky = s.risky /\ q.wide = s.wide /\ q.oneSided = s.oneSided

(* A snapshot with the sides exchanged has the same gap, costs and flags.  *)
LEMMA SnapshotMirrored ==
  ASSUME NEW l, NEW r, NEW row, ReadingRow(l), ReadingRow(r)
  PROVE  SameForSignals(SnapshotWith(l, r, row), SnapshotWith(r, l, MirroredRow(row)))
<1> DEFINE s == SnapshotWith(l, r, row)
           q == SnapshotWith(r, l, MirroredRow(row))
           gap(x, y) == Apart(MidPrice(x), Aligned(MidPrice(y), row.relation))
<1>1. MidPrice(l) \in Ticks /\ MidPrice(r) \in Ticks
  BY ReadingValues
<1>2. Size(gap(l, r)) = Size(gap(r, l)) /\ (gap(l, r) = None) = (gap(r, l) = None)
  BY <1>1, DivergenceAssumption DEF Apart, Aligned, Size, Ticks, Greater
<1>3. BothOf(Quote(l, "spread"), Quote(r, "spread")) = BothOf(Quote(r, "spread"), Quote(l, "spread"))
  <2>1. Quote(l, "spread") \in Ticks /\ Quote(r, "spread") \in Ticks
    BY ReadingValues
  <2>. QED
    BY <2>1 DEF BothOf, Ticks
<1>4. MirroredRow(row).permission = row.permission /\ MirroredRow(row).relation = row.relation
  BY DEF MirroredRow
<1>5. /\ s.midGap = gap(l, r) /\ q.midGap = gap(r, l) /\ s.permission = row.permission
      /\ q.permission = row.permission
      /\ s.combined = BothOf(Quote(l, "spread"), Quote(r, "spread"))
      /\ q.combined = BothOf(Quote(r, "spread"), Quote(l, "spread"))
  BY <1>4 DEF SnapshotWith, SnapshotBetween
<1>6. /\ s.adjusted = (IF s.combined = None \/ s.midGap = None THEN None
                       ELSE Greater(0, 2 * Size(s.midGap) - s.combined))
      /\ q.adjusted = (IF q.combined = None \/ q.midGap = None THEN None
                       ELSE Greater(0, 2 * Size(q.midGap) - q.combined))
  BY DEF SnapshotWith, SnapshotBetween
<1>7. q.noPrice = s.noPrice
  <2>1. LastPrice(l) \in Ticks /\ LastPrice(r) \in Ticks
    BY ReadingValues
  <2>2. /\ s.noPrice = (LastPrice(l) = None \/ Aligned(LastPrice(r), row.relation) = None)
        /\ q.noPrice = (LastPrice(r) = None \/ Aligned(LastPrice(l), row.relation) = None)
    BY <1>4 DEF SnapshotWith, SnapshotBetween
  <2>. QED
    BY <2>1, <2>2, DivergenceAssumption DEF Aligned, Ticks
<1>8. /\ s.noLiquidity = (l.liquidity = None \/ r.liquidity = None)
      /\ q.noLiquidity = (r.liquidity = None \/ l.liquidity = None)
      /\ s.shallow = Shallow({Part(l.liquidity, "depth"), Part(r.liquidity, "depth")})
      /\ q.shallow = Shallow({Part(r.liquidity, "depth"), Part(l.liquidity, "depth")})
      /\ s.stale = SideOf(IsStale(l), IsStale(r)) /\ q.stale = SideOf(IsStale(r), IsStale(l))
      /\ s.qualities = <<Part(l.quality, "score"), Part(r.quality, "score")>>
      /\ q.qualities = <<Part(r.quality, "score"), Part(l.quality, "score")>>
      /\ s.risky = (Reaches(l.risk, 70) \/ Reaches(r.risk, 70))
      /\ q.risky = (Reaches(r.risk, 70) \/ Reaches(l.risk, 70))
      /\ s.wide = (Reaches(Quote(l, "spread"), 10) \/ Reaches(Quote(r, "spread"), 10))
      /\ q.wide = (Reaches(Quote(r, "spread"), 10) \/ Reaches(Quote(l, "spread"), 10))
      /\ s.oneSided = (OneSided(l) \/ OneSided(r)) /\ q.oneSided = (OneSided(r) \/ OneSided(l))
  BY DEF SnapshotWith, SnapshotBetween
<1>9. q.noLiquidity = s.noLiquidity /\ q.risky = s.risky /\ q.wide = s.wide /\ q.oneSided = s.oneSided
  BY <1>8, Zenon
<1>10. q.shallow = s.shallow
  <2>1. {Part(l.liquidity, "depth"), Part(r.liquidity, "depth")}
          = {Part(r.liquidity, "depth"), Part(l.liquidity, "depth")}
    OBVIOUS
  <2>. QED
    BY <1>8, <2>1, Zenon
<1>11. (q.stale = None) = (s.stale = None)
  <2>1. IsStale(l) \in BOOLEAN /\ IsStale(r) \in BOOLEAN
    BY ReadingValues
  <2>. QED
    BY <1>8, <2>1, DivergenceAssumption DEF SideOf
<1>12. Qualities(q) = Qualities(s)
  <2>1. \A x, y : ToSet(<<x, y>>) = {x, y}
    BY DEF ToSet
  <2>2. /\ ToSet(s.qualities) = {Part(l.quality, "score"), Part(r.quality, "score")}
        /\ ToSet(q.qualities) = {Part(l.quality, "score"), Part(r.quality, "score")}
    BY <1>8, <2>1
  <2>. QED
    BY <2>2 DEF Qualities
<1>13. Size(q.midGap) = Size(s.midGap) /\ q.combined = s.combined /\ (q.midGap = None) = (s.midGap = None)
  BY <1>2, <1>3, <1>5
<1>14. q.adjusted = s.adjusted
  BY <1>6, <1>13, Zenon
<1>15. q.permission = s.permission
  BY <1>5
<1>. HIDE DEF s, q
<1>16. SameForSignals(s, q)
  BY <1>7, <1>9, <1>10, <1>11, <1>12, <1>13, <1>14, <1>15, Zenon DEF SameForSignals
<1>. QED
  BY <1>16 DEF s, q

LEMMA SameSignals ==
  ASSUME NEW s, NEW q, SameForSignals(s, q)
  PROVE  Agree(s, q)
<1>1. LowQuality(q) = LowQuality(s) /\ MayCompare(q) = MayCompare(s)
  BY DEF SameForSignals, LowQuality, MayCompare
<1>2. OwnSignals(q) = OwnSignals(s)
  <2> DEFINE gap(x) == Reaches(Size(x.midGap), 3)
             bad(x) == \E n \in Qualities(x) : n < 40
  <2>1. gap(q) = gap(s) /\ bad(q) = bad(s) /\ (q.stale # None) = (s.stale # None)
    BY DEF SameForSignals
  <2> DEFINE review(x) == IfSo(x.permission = "MANUAL_REVIEW",
                             Graded("MANUAL_REVIEW_EQUIVALENCE_CONTEXT", x.noPrice \/ x.risky, 70, 50,
                                    "MANUAL_REVIEW"))
             apart(x) == IfSo(gap(x) /\ MayCompare(x), PriceGap(Size(x.midGap)))
             net(x) == IfSo(Reaches(x.adjusted, 4),
                          Graded("SPREAD_ADJUSTED_DIVERGENCE", Reaches(x.adjusted, 8), 80, 60,
                                 IF Reaches(x.adjusted, 8) THEN "MANUAL_REVIEW" ELSE "RESEARCH"))
             old(x) == IfSo(gap(x) /\ (x.stale # None),
                          SignalOf("STALE_SIDE_DIVERGENCE", "ERROR", 75, "MANUAL_REVIEW"))
             thin(x) == IfSo(gap(x) /\ (x.wide \/ x.oneSided \/ x.noLiquidity \/ x.shallow),
                           Graded("LOW_LIQUIDITY_DIVERGENCE", x.oneSided \/ x.noLiquidity, 80, 60,
                                  "MANUAL_REVIEW"))
             poor(x) == IfSo(gap(x) /\ LowQuality(x),
                           Graded("LOW_DATA_QUALITY_DIVERGENCE", bad(x), 80, 60, "MANUAL_REVIEW"))
             risk(x) == IfSo(gap(x) /\ x.risky,
                           SignalOf("HIGH_INTEGRITY_RISK_DIVERGENCE", "ERROR", 80, "MANUAL_REVIEW"))
             haircut(x) == IfSo(gap(x) /\ x.permission = "COMPARABLE_WITH_HAIRCUT",
                    SignalOf("COMPARABLE_WITH_HAIRCUT_DIVERGENCE", "WARNING", 55, "RESEARCH"))
  <2>2. \A x : OwnSignals(x) = review(x) \cup apart(x) \cup net(x) \cup old(x) \cup thin(x) \cup poor(x) \cup risk(x) \cup haircut(x)
    BY Zenon DEF OwnSignals
  <2>. HIDE DEF gap, bad
  <2>3. review(q) = review(s)
    BY <1>1, <2>1 DEF SameForSignals
  <2>4. apart(q) = apart(s)
    BY <1>1, <2>1 DEF SameForSignals
  <2>5. net(q) = net(s)
    BY <1>1, <2>1 DEF SameForSignals
  <2>6. old(q) = old(s)
    BY <1>1, <2>1 DEF SameForSignals
  <2>7. thin(q) = thin(s)
    BY <1>1, <2>1 DEF SameForSignals
  <2>8. poor(q) = poor(s)
    BY <1>1, <2>1 DEF SameForSignals
  <2>9. risk(q) = risk(s)
    BY <1>1, <2>1 DEF SameForSignals
  <2>10. haircut(q) = haircut(s)
    BY <1>1, <2>1 DEF SameForSignals
  <2>. HIDE DEF review, apart, net, old, thin, poor, risk, haircut
  <2>. QED
    BY <2>2, <2>3, <2>4, <2>5, <2>6, <2>7, <2>8, <2>9, <2>10
<1>4. PairSignals(q, 0) = PairSignals(s, 0)
  BY <1>2, Zenon DEF SameForSignals, PairSignals
<1>3. \A signals : DivergenceStatus(q, signals) = DivergenceStatus(s, signals)
  BY <1>1, Zenon DEF SameForSignals, DivergenceStatus
<1>. QED
  BY <1>3, <1>4, Zenon DEF SameForSignals, Agree, Aggregated

(* A persistence is told apart only by the thresholds it reaches.          *)
LEMMA SignalsByThreshold ==
  ASSUME NEW s, NEW k
  PROVE  \E n \in {0, MinPersistence, 2 * MinPersistence} :
           PairSignals(s, k) = PairSignals(s, n) /\ (n > 0 => k >= MinPersistence)
<1> DEFINE M == MinPersistence
           signal(severe) == {Graded("PERSISTENT_DIVERGENCE", severe, 80, 60, "RESEARCH")}
<1>1. /\ M >= M /\ 2 * M >= M /\ 2 * M >= 2 * M /\ ~(M >= 2 * M) /\ ~(0 >= M)
      /\ M > 0 /\ 2 * M > 0 /\ ~(0 > 0)
  BY DivergenceAssumption
<1>2. ASSUME NEW n, PersistenceSignals(k) = PersistenceSignals(n)
      PROVE  PairSignals(s, k) = PairSignals(s, n)
  BY <1>2, Zenon DEF PairSignals
<1>3. \A n : ~(n >= M) => PersistenceSignals(n) = {}
  BY DEF PersistenceSignals, IfSo
<1>4. \A n : n >= M /\ n >= 2 * M => PersistenceSignals(n) = signal(TRUE)
  BY DEF PersistenceSignals, IfSo, Graded
<1>5. \A n : n >= M /\ ~(n >= 2 * M) => PersistenceSignals(n) = signal(FALSE)
  BY DEF PersistenceSignals, IfSo, Graded
<1>. HIDE DEF signal
<1>6. CASE ~(k >= M)
  <2>1. PersistenceSignals(k) = PersistenceSignals(0)
    BY <1>1, <1>3, <1>6
  <2>. QED
    BY <1>1, <1>2, <2>1
<1>7. CASE k >= M /\ ~(k >= 2 * M)
  <2>1. PersistenceSignals(k) = PersistenceSignals(M)
    BY <1>1, <1>5, <1>7
  <2>. QED
    BY <1>2, <1>7, <2>1
<1>8. CASE k >= M /\ k >= 2 * M
  <2>1. PersistenceSignals(k) = PersistenceSignals(2 * M)
    BY <1>1, <1>4, <1>8
  <2>. QED
    BY <1>2, <1>8, <2>1
<1>. QED
  BY <1>6, <1>7, <1>8
-----------------------------------------------------------------------------
(* What the rows keep to: they were found in the readings they keep, an     *)
(* alarm left its trace, and one without a signal of its own had another   *)
(* before it.                                                              *)
MarketsOfPair(row) == {row.left, row.right}
AlarmsBefore(alarms, row, t) == {e \in alarms : e.markets = MarketsOfPair(row) /\ e.at < t}
Persisted(row, t, alarms) ==
  /\ \E e \in AlarmsBefore(alarms, row, t) : e.at >= t - AlarmWindow
  /\ \E e \in AlarmsBefore(alarms, row, t) : e.own
BasisKept(b) == ReadingRow(b.left) /\ ReadingRow(b.right)
SnapshotKept(s) == BasisKept(s.basis) /\ s.id = SnapshotId(SnapshotIn(s.basis, s.row))
FoundWith(s, n) == Aggregated(s, PairSignals(s, n))
AssessmentKept(a, alarms) ==
  /\ a.at \in Moments /\ a.known <= a.at /\ BasisKept(a.basis)
  /\ a.snapshot = SnapshotId(SnapshotIn(a.basis, a.row))
  /\ \E n \in {0, MinPersistence, 2 * MinPersistence} :
       /\ a.found = FoundWith(SnapshotIn(a.basis, a.row), n)
       /\ n > 0 => Persisted(a.row, a.at, alarms)
  /\ a.found.status \in Alarming => \E e \in alarms : e.markets = MarketsOfPair(a.row) /\ e.at = a.at
AlarmKept(e, alarms) ==
  e.at \in Moments /\ (e.own \/ \E f \in alarms : f.own /\ f.markets = e.markets /\ f.at < e.at)
TablesKept(tables) ==
  /\ \A s \in tables.snapshots : SnapshotKept(s)
  /\ \A s, q \in tables.snapshots : s.id = q.id => s = q
  /\ \A a \in tables.assessments :
       AssessmentKept(a, tables.alarms) /\ \E s \in tables.snapshots : s.id = a.snapshot
  /\ \A a, b \in tables.assessments : a.found = b.found => a = b
  /\ \A e \in tables.alarms : AlarmKept(e, tables.alarms)
ReadingsKept ==
  /\ IsFiniteSet(dvPairs)
  /\ \A r \in dvReadings : r.at \in Moments /\ r.reading \in Readings
  /\ \A p \in dvPairs : p.at \in Moments /\ p.row \in PairRows
DivergenceInv == ReadingsKept /\ TablesKept(DivergenceTables)

(* More alarms take nothing back.                                          *)
LEMMA MoreAlarms ==
  ASSUME NEW alarms, NEW more, alarms \subseteq more
  PROVE  /\ \A row, t : Persisted(row, t, alarms) => Persisted(row, t, more)
         /\ \A a : AssessmentKept(a, alarms) => AssessmentKept(a, more)
         /\ \A e : AlarmKept(e, alarms) => AlarmKept(e, more)
<1>1. \A row, t : AlarmsBefore(alarms, row, t) \subseteq AlarmsBefore(more, row, t)
  BY DEF AlarmsBefore
<1>2. \A row, t : Persisted(row, t, alarms) => Persisted(row, t, more)
  BY <1>1 DEF Persisted
<1>3. ASSUME NEW a, AssessmentKept(a, alarms) PROVE AssessmentKept(a, more)
  <2>1. PICK n \in {0, MinPersistence, 2 * MinPersistence} :
          /\ a.found = FoundWith(SnapshotIn(a.basis, a.row), n)
          /\ n > 0 => Persisted(a.row, a.at, alarms)
    BY <1>3 DEF AssessmentKept
  <2>2. n > 0 => Persisted(a.row, a.at, more)
    BY <1>2, <2>1
  <2>. QED
    BY <1>3, <2>1, <2>2 DEF AssessmentKept
<1>. QED
  BY <1>2, <1>3 DEF AlarmKept

(* A pair that persists had an alarm before, and one of its own.           *)
LEMMA PersistenceHasCause ==
  ASSUME NEW rows, NEW alarms, \A a \in rows : AssessmentKept(a, alarms),
         \A e \in alarms : AlarmKept(e, alarms),
         NEW t \in Int, NEW row, NEW id, Persistence(rows, row, t, id) >= MinPersistence
  PROVE  Persisted(row, t, alarms)
<1> DEFINE counted == {a \in Recent(rows, row.left) :
                         /\ {a.row.left, a.row.right} = {row.left, row.right}
                         /\ a.found.status \in Alarming
                         /\ a.at < t /\ a.at >= t - AlarmWindow /\ a.snapshot # id}
<1>1. counted # {}
  <2>1. Cardinality(counted) >= MinPersistence
    BY DEF Persistence
  <2>. HIDE DEF counted
  <2>2. counted = {} => Cardinality(counted) = 0
    BY FS_EmptySet
  <2>. QED
    BY <2>1, <2>2, DivergenceAssumption
<1>2. Recent(rows, row.left) \subseteq rows
  BY DEF Recent
<1>3. PICK a \in rows : /\ MarketsOfPair(a.row) = MarketsOfPair(row)
                        /\ a.found.status \in Alarming
                        /\ a.at < t /\ a.at >= t - AlarmWindow
  BY <1>1, <1>2 DEF MarketsOfPair
<1>4. PICK e \in alarms : e.markets = MarketsOfPair(row) /\ e.at = a.at
  BY <1>3 DEF AssessmentKept
<1>5. e \in AlarmsBefore(alarms, row, t) /\ e.at >= t - AlarmWindow
  BY <1>3, <1>4 DEF AlarmsBefore
<1>6. \E f \in AlarmsBefore(alarms, row, t) : f.own
  <2>1. CASE e.own
    BY <1>5, <2>1
  <2>2. CASE ~e.own
    <3>1. PICK f \in alarms : f.own /\ f.markets = e.markets /\ f.at < e.at
      BY <2>2 DEF AlarmKept
    <3>2. f.at \in Int /\ e.at \in Int
      BY DEF AlarmKept, Moments
    <3>3. f.at < t
      BY <1>3, <1>4, <3>1, <3>2
    <3>. QED
      BY <1>4, <3>1, <3>3 DEF AlarmsBefore
  <2>. QED
    BY <2>1, <2>2
<1>. QED
  BY <1>5, <1>6 DEF Persisted

(* The newest part of a reading is a part of a reading.                    *)
LEMMA PartIsRead ==
  ASSUME ReadingsKept, NEW m, NEW name, NEW t
  PROVE  PartAsOf(m, name, t) = None \/ \E q \in Readings : PartAsOf(m, name, t) = q[name]
<1> DEFINE rows == {r \in dvReadings : r.market = m /\ r.at <= t /\ r.reading[name] # None}
<1>1. CASE rows = {}
  BY <1>1 DEF PartAsOf
<1>2. CASE rows # {}
  <2>1. \A r \in rows : r.at \in 0 .. LastMoment /\ r.reading \in Readings
    BY DEF ReadingsKept, Moments
  <2>2. PartAsOf(m, name, t) = NewestOf(rows).reading[name]
    BY <1>2 DEF PartAsOf
  <2>. HIDE DEF rows
  <2>3. NewestOf(rows) \in rows
    BY <1>2, <2>1, DivergenceAssumption, NewestIsLast
  <2>. QED
    BY <2>1, <2>2, <2>3
<1>. QED
  BY <1>1, <1>2

LEMMA ReadingIsRow ==
  ASSUME ReadingsKept, NEW m, NEW t
  PROVE  ReadingRow(ReadingAsOf(m, t))
<1>1. PICK x : x = ReadingAsOf(m, t)
  OBVIOUS
<1>2. /\ x.price = PartAsOf(m, "price", t) /\ x.liquidity = PartAsOf(m, "liquidity", t)
      /\ x.quality = PartAsOf(m, "quality", t) /\ x.risk = PartAsOf(m, "risk", t)
  BY <1>1 DEF ReadingAsOf
<1>3. x.price = None \/ \E q \in Readings : x.price = q.price
  BY <1>2, PartIsRead
<1>4. x.liquidity = None \/ \E q \in Readings : x.liquidity = q.liquidity
  BY <1>2, PartIsRead
<1>5. x.quality = None \/ \E q \in Readings : x.quality = q.quality
  BY <1>2, PartIsRead
<1>6. x.risk = None \/ \E q \in Readings : x.risk = q.risk
  BY <1>2, PartIsRead
<1>7. ReadingRow(x)
  BY <1>3, <1>4, <1>5, <1>6, ReadingsAssumption DEF ReadingRow, Ticks
<1>. QED
  BY <1>1, <1>7

LEMMA BasisIsKept == ASSUME ReadingsKept, NEW row, NEW t PROVE BasisKept(BasisOf(row, t))
BY ReadingIsRow DEF BasisKept, BasisOf

-----------------------------------------------------------------------------
(* What an analysis finds is kept to, with the alarm it may raise.         *)
LEMMA AnalysisKept ==
  ASSUME ReadingsKept, NEW rows, NEW alarms, \A a \in rows : AssessmentKept(a, alarms),
         \A e \in alarms : AlarmKept(e, alarms),
         NEW t \in Moments, NEW p \in Available(t), NEW mine,
         mine.row = p.row, mine.at = t, mine.known = p.at, mine.basis = BasisOf(p.row, t),
         mine.snapshot = SnapshotId(SnapshotOf(p.row, t)),
         mine.found = Analysed(SnapshotOf(p.row, t), rows, p.row, t)
  PROVE  /\ AssessmentKept(mine, alarms \cup AlarmsOf(mine))
         /\ \A e \in alarms \cup AlarmsOf(mine) : AlarmKept(e, alarms \cup AlarmsOf(mine))
<1> DEFINE more == alarms \cup AlarmsOf(mine)
<1>0. PICK s : s = SnapshotIn(mine.basis, mine.row)
  OBVIOUS
<1>1. s = SnapshotOf(p.row, t)
  BY <1>0 DEF SnapshotOf
<1>2. PICK k : k = Persistence(rows, p.row, t, SnapshotId(s))
  OBVIOUS
<1>3. mine.found = FoundWith(s, k)
  BY <1>1, <1>2, Zenon DEF Analysed, FoundWith
<1>4. k >= MinPersistence => Persisted(p.row, t, alarms)
  <2>1. t \in Int
    BY DEF Moments
  <2>. QED
    BY <1>2, <2>1, PersistenceHasCause
<1>5. PICK n \in {0, MinPersistence, 2 * MinPersistence} :
        PairSignals(s, k) = PairSignals(s, n) /\ (n > 0 => k >= MinPersistence)
  BY SignalsByThreshold
<1>6. mine.found = FoundWith(s, n)
  BY <1>3, <1>5 DEF FoundWith
<1>7. alarms \subseteq more
  OBVIOUS
<1>8. n > 0 => Persisted(mine.row, mine.at, more)
  BY <1>4, <1>5, <1>7, MoreAlarms
<1>9. PICK e : e = [markets |-> MarketsOfPair(mine.row), at |-> mine.at, own |-> OwnSignals(s) # {}]
  OBVIOUS
<1>10. /\ e.markets = MarketsOfPair(p.row) /\ e.at = t /\ e.own = (OwnSignals(s) # {})
  BY <1>9
<1>11. AlarmsOf(mine) = IF mine.found.status \in Alarming THEN {e} ELSE {}
  BY <1>0, <1>9 DEF AlarmsOf, MarketsOfPair
<1>12. mine.found.status \in Alarming =>
          e.own \/ \E f \in alarms : f.own /\ f.markets = e.markets /\ f.at < e.at
  <2> SUFFICES ASSUME mine.found.status \in Alarming, ~e.own
               PROVE  \E f \in alarms : f.own /\ f.markets = e.markets /\ f.at < e.at
    OBVIOUS
  <2>1. MayCompare(s) /\ PairSignals(s, k) # {}
    BY <1>3, AlarmContext DEF FoundWith
  <2>2. OwnSignals(s) = {}
    BY <1>10
  <2>3. PersistenceSignals(k) # {}
    BY <2>1, <2>2 DEF PairSignals, MayCompare
  <2>4. k >= MinPersistence
    BY <2>3, PersistenceAddsOne
  <2>. QED
    BY <1>4, <1>10, <2>4 DEF Persisted, AlarmsBefore
<1>13. BasisKept(mine.basis)
  BY BasisIsKept
<1>14. mine.known <= mine.at
  BY DEF Available
<1>15. mine.snapshot = SnapshotId(SnapshotIn(mine.basis, mine.row))
  BY <1>0, <1>1
<1>16. mine.found.status \in Alarming => \E f \in more : f.markets = MarketsOfPair(mine.row) /\ f.at = mine.at
  BY <1>10, <1>11
<1>. HIDE DEF more
<1>17. AssessmentKept(mine, more)
  BY <1>0, <1>6, <1>8, <1>13, <1>14, <1>15, <1>16 DEF AssessmentKept
<1>18. \A f \in more : AlarmKept(f, more)
  <2>1. \A f \in alarms : AlarmKept(f, more)
    BY <1>7, MoreAlarms
  <2>2. mine.found.status \in Alarming => AlarmKept(e, more)
    BY <1>7, <1>10, <1>12 DEF AlarmKept
  <2>. QED
    BY <1>11, <2>1, <2>2 DEF more
<1>. QED
  BY <1>17, <1>18 DEF more
-----------------------------------------------------------------------------
(* One analysis keeps the tables.                                          *)
LEMMA ComparedKeeps ==
  ASSUME ReadingsKept, NEW tables, TablesKept(tables), NEW t \in Moments, NEW p \in Available(t),
         NEW force
  PROVE  TablesKept(Compared(tables, p, t, force))
<1> DEFINE s == SnapshotOf(p.row, t)
           basis == BasisOf(p.row, t)
           found == Analysed(s, tables.assessments, p.row, t)
           mine == [found |-> found, row |-> p.row, at |-> t, known |-> p.at, basis |-> basis,
                    snapshot |-> SnapshotId(s)]
           stored == [id |-> SnapshotId(s), row |-> p.row, at |-> t, basis |-> basis]
           same == {a \in tables.assessments : a.found = found}
           after == Compared(tables, p, t, force)
           more == tables.alarms \cup AlarmsOf(mine)
<1>1. SnapshotKept(stored)
  <2>1. s = SnapshotIn(basis, p.row)
    BY DEF SnapshotOf
  <2>2. BasisKept(basis)
    BY BasisIsKept
  <2>. HIDE DEF s, basis
  <2>. QED
    BY <2>1, <2>2 DEF SnapshotKept
<1>2. /\ mine.found = found /\ mine.row = p.row /\ mine.at = t /\ mine.known = p.at
      /\ mine.basis = basis /\ mine.snapshot = SnapshotId(s)
  OBVIOUS
<1>3. after = Keep(tables, mine, force)
  BY Zenon DEF Compared, Assessed
<1>4. stored.id = SnapshotId(s) /\ stored = [id |-> mine.snapshot, row |-> mine.row, at |-> mine.at, basis |-> mine.basis]
  OBVIOUS
<1>5. AssessmentKept(mine, more) /\ \A e \in more : AlarmKept(e, more)
  <2>1. /\ \A a \in tables.assessments : AssessmentKept(a, tables.alarms)
        /\ \A e \in tables.alarms : AlarmKept(e, tables.alarms)
    BY DEF TablesKept
  <2>2. PICK m : m = mine
    OBVIOUS
  <2>3. /\ m.row = p.row /\ m.at = t /\ m.known = p.at /\ m.basis = BasisOf(p.row, t)
        /\ m.snapshot = SnapshotId(SnapshotOf(p.row, t))
        /\ m.found = Analysed(SnapshotOf(p.row, t), tables.assessments, p.row, t)
    BY <1>2, <2>2
  <2>4. /\ AssessmentKept(m, tables.alarms \cup AlarmsOf(m))
        /\ \A e \in tables.alarms \cup AlarmsOf(m) : AlarmKept(e, tables.alarms \cup AlarmsOf(m))
    BY <2>1, <2>3, AnalysisKept
  <2>. QED
    BY <2>2, <2>4
<1>. HIDE DEF found, s, mine, basis, stored
<1>6. \/ after.snapshots = tables.snapshots /\ stored \in tables.snapshots
      \/ after.snapshots = (tables.snapshots \ {q \in tables.snapshots : q.id = stored.id}) \cup {stored}
  BY <1>3, <1>4 DEF Keep, Replace
<1>7. \/ after.assessments = tables.assessments
      \/ after.assessments = (tables.assessments \ same) \cup {mine}
  BY <1>2, <1>3 DEF Keep, Replace
<1>8. after.alarms = more
  BY <1>3 DEF Keep
<1>. HIDE DEF after
<1>9. /\ \A q \in after.snapshots : SnapshotKept(q)
      /\ \A q, r \in after.snapshots : q.id = r.id => q = r
      /\ \A q \in tables.snapshots : \E r \in after.snapshots : r.id = q.id
      /\ stored \in after.snapshots
  BY <1>1, <1>6 DEF TablesKept
<1>10. \A a \in tables.assessments : AssessmentKept(a, more)
  <2>1. tables.alarms \subseteq more
    OBVIOUS
  <2>. HIDE DEF more
  <2>. QED
    BY <2>1, MoreAlarms DEF TablesKept
<1>. HIDE DEF more
<1>11. /\ \A a \in after.assessments : AssessmentKept(a, more)
       /\ \A a, b \in after.assessments : a.found = b.found => a = b
  BY <1>2, <1>5, <1>7, <1>10 DEF TablesKept
<1>12. \A a \in after.assessments : \E q \in after.snapshots : q.id = a.snapshot
  BY <1>2, <1>4, <1>7, <1>9 DEF TablesKept
<1>13. TablesKept(after)
  BY <1>5, <1>8, <1>9, <1>11, <1>12, Zenon DEF TablesKept
<1>. QED
  BY <1>13 DEF after

(* An analysis of a list of rows keeps them.                               *)
LEMMA CompareKeeps ==
  ASSUME ReadingsKept, TablesKept(DivergenceTables), NEW n \in Nat, NEW rows, Len(rows) = n,
         NEW t \in Moments, \A i \in 1 .. n : rows[i] \in Available(t),
         NEW force, Compare(rows, t, force)
  PROVE  \E tables : /\ TablesKept(tables)
                     /\ dvSnapshots' = tables.snapshots /\ dvAssessments' = tables.assessments
                     /\ dvAlarms' = tables.alarms
<1> DEFINE Steps(f, k) == f = [i \in 0 .. k |-> IF i = 0 THEN DivergenceTables
                                                ELSE Compared(f[i - 1], rows[i], t, force)]
           after == CHOOSE f : Steps(f, n)
           Exist == {k \in Nat : \E f : Steps(f, k)}
<1>1. n \in Exist
  <2>1. 0 \in Exist
    <3>1. PICK f : f = [i \in 0 .. 0 |-> DivergenceTables]
      OBVIOUS
    <3>2. Steps(f, 0)
      BY <3>1
    <3>. QED
      BY <3>2
  <2>2. ASSUME NEW k \in Nat, k \in Exist PROVE k + 1 \in Exist
    <3>1. PICK f : Steps(f, k)
      BY <2>2
    <3>2. PICK g : g = [i \in 0 .. k + 1 |-> IF i = k + 1 THEN Compared(f[k], rows[k + 1], t, force) ELSE f[i]]
      OBVIOUS
    <3>3. DOMAIN g = 0 .. k + 1
      BY <3>2
    <3>4. ASSUME NEW i \in 0 .. k + 1
          PROVE  g[i] = IF i = 0 THEN DivergenceTables ELSE Compared(g[i - 1], rows[i], t, force)
      <4>1. CASE i = 0
        BY <3>1, <3>2, <4>1
      <4>2. CASE i \in 1 .. k
        <5>1. g[i] = f[i] /\ g[i - 1] = f[i - 1]
          BY <3>2, <4>2
        <5>2. f[i] = Compared(f[i - 1], rows[i], t, force)
          BY <3>1, <4>2
        <5>. QED
          BY <4>2, <5>1, <5>2
      <4>3. CASE i = k + 1
        <5>1. i - 1 = k /\ i # 0
          BY <4>3
        <5>2. g[i] = Compared(f[k], rows[i], t, force) /\ g[k] = f[k]
          BY <3>2, <4>3
        <5>. QED
          BY <5>1, <5>2
      <4>. QED
        BY <4>1, <4>2, <4>3
    <3>5. g = [i \in 0 .. k + 1 |-> g[i]]
      BY <3>2
    <3>6. Steps(g, k + 1)
      BY <3>4, <3>5
    <3>7. k + 1 \in Nat
      OBVIOUS
    <3>. HIDE DEF Steps
    <3>. QED
      BY <3>6, <3>7
  <2>. HIDE DEF Exist
  <2>. QED
    BY <2>1, <2>2, NaturalsByInduction
<1>2. Steps(after, n)
  <2>. HIDE DEF Steps
  <2>. QED
    BY <1>1
<1>3. /\ dvSnapshots' = after[n].snapshots /\ dvAssessments' = after[n].assessments
      /\ dvAlarms' = after[n].alarms
  BY Zenon DEF Compare, Store
<1> DEFINE Good == {k \in Nat : k <= n => TablesKept(after[k])}
<1>. HIDE DEF after
<1>4. n \in Good
  <2>1. 0 \in Good
    BY <1>2
  <2>2. ASSUME NEW k \in Nat, k \in Good PROVE k + 1 \in Good
    <3>. SUFFICES ASSUME k + 1 <= n PROVE TablesKept(after[k + 1])
      OBVIOUS
    <3>1. TablesKept(after[k])
      BY <2>2
    <3>2. rows[k + 1] \in Available(t)
      OBVIOUS
    <3>3. after[k + 1] = Compared(after[k], rows[k + 1], t, force)
      <4>1. PICK i \in 0 .. n : i = k + 1
        OBVIOUS
      <4>2. i # 0 /\ i - 1 = k
        BY <4>1
      <4>3. after[i] = Compared(after[i - 1], rows[i], t, force)
        BY <1>2, <4>2
      <4>. QED
        BY <4>1, <4>2, <4>3
    <3>. QED
      BY <3>1, <3>2, <3>3, ComparedKeeps
  <2>. HIDE DEF Good
  <2>. QED
    BY <2>1, <2>2, NaturalsByInduction
<1>. QED
  BY <1>3, <1>4

LEMMA DivergenceInit_Inv == DivergenceInit => DivergenceInv
BY FS_EmptySet DEF DivergenceInit, DivergenceInv, ReadingsKept, TablesKept, DivergenceTables

LEMMA RecordKeeps == ASSUME DivergenceInv, Record, ReadingsKept' PROVE DivergenceInv'
<1>1. DivergenceTables' = DivergenceTables
  BY DEF Record, DivergenceTables
<1>. QED
  BY <1>1 DEF DivergenceInv

LEMMA CompareStep ==
  ASSUME DivergenceInv, NEW n \in Nat, NEW rows, Len(rows) = n,
         NEW t \in Moments, \A i \in 1 .. n : rows[i] \in Available(t),
         NEW force, Compare(rows, t, force)
  PROVE  DivergenceInv'
<1>1. PICK tables : /\ TablesKept(tables)
                    /\ dvSnapshots' = tables.snapshots /\ dvAssessments' = tables.assessments
                    /\ dvAlarms' = tables.alarms
  BY CompareKeeps DEF DivergenceInv
<1>2. ReadingsKept'
  BY DEF Compare, DivergenceInv, ReadingsKept
<1>3. PICK next : next = DivergenceTables'
  OBVIOUS
<1>4. next.snapshots = tables.snapshots /\ next.assessments = tables.assessments /\ next.alarms = tables.alarms
  BY <1>1, <1>3 DEF DivergenceTables
<1>5. TablesKept(next)
  BY <1>1, <1>4 DEF TablesKept
<1>. QED
  BY <1>2, <1>3, <1>5 DEF DivergenceInv

\* a list of all pairs of a set
LEMMA OrdersOfPairs ==
  ASSUME NEW S, IsFiniteSet(S), NEW order \in SetToSeqs(S)
  PROVE  \E n \in Nat : order \in [1 .. n -> S] /\ Len(order) = n /\ DOMAIN order = 1 .. n
<1>1. PICK n \in Nat : n = Cardinality(S)
  BY FS_CardinalityType
<1>2. order \in [1 .. n -> S]
  BY <1>1 DEF SetToSeqs
<1>3. order \in Seq(S)
  BY <1>2
<1>4. Len(order) = n
  BY <1>2, <1>3
<1>. QED
  BY <1>2, <1>4

LEMMA ListKeeps ==
  ASSUME DivergenceInv, NEW t \in Moments, NEW pairs \in SUBSET Available(t), NEW force,
         NEW order \in SetToSeqs(pairs), Compare(order, t, force)
  PROVE  DivergenceInv'
<1>1. IsFiniteSet(pairs)
  BY FS_Subset DEF DivergenceInv, ReadingsKept, Available
<1>2. PICK n \in Nat : order \in [1 .. n -> pairs] /\ Len(order) = n
  BY <1>1, OrdersOfPairs
<1>3. \A i \in 1 .. n : order[i] \in Available(t)
  BY <1>2
<1>. QED
  BY <1>2, <1>3, CompareStep

LEMMA NewestFirstKeeps ==
  ASSUME DivergenceInv, NEW t \in Moments, NEW pairs \in SUBSET Available(t), NEW force,
         CompareNewestFirst(pairs, t, force)
  PROVE  DivergenceInv'
BY ListKeeps, Zenon DEF CompareNewestFirst

LEMMA DivergenceStep == DivergenceInv /\ [DivergenceNext]_divergenceVars => DivergenceInv'
<1> SUFFICES ASSUME DivergenceInv, [DivergenceNext]_divergenceVars PROVE DivergenceInv'
  OBVIOUS
<1>1. ASSUME NEW m \in Sides, NEW reading \in Readings, NEW at \in Moments, Read(m, reading, at)
      PROVE  DivergenceInv'
  <2>1. ReadingsKept'
    BY <1>1 DEF Read, DivergenceInv, ReadingsKept
  <2>. QED
    BY <1>1, <2>1, RecordKeeps DEF Read
<1>2. ASSUME NEW row \in PairRows, NEW at \in Moments, Relate(row, at) PROVE DivergenceInv'
  <2>1. PICK same \in SUBSET dvPairs : dvPairs' = (dvPairs \ same) \cup {[at |-> at, row |-> row]}
    BY <1>2 DEF Relate, Replace
  <2>2. IsFiniteSet(dvPairs')
    BY <2>1, FS_Subset, FS_AddElement DEF DivergenceInv, ReadingsKept
  <2>3. ReadingsKept'
    BY <1>2, <2>1, <2>2 DEF Relate, DivergenceInv, ReadingsKept
  <2>. QED
    BY <1>2, <2>3, RecordKeeps DEF Relate
<1>3. ASSUME NEW p \in dvPairs, NEW t \in Moments, NEW force \in BOOLEAN, ComparePair(p, t, force)
      PROVE  DivergenceInv'
  <2>1. p \in Available(t) /\ Compare(<<p>>, t, force)
    BY <1>3 DEF ComparePair
  <2>2. PICK rows : rows = <<p>>
    OBVIOUS
  <2>3. Len(rows) = 1 /\ \A i \in 1 .. 1 : rows[i] \in Available(t)
    BY <2>1, <2>2
  <2>4. Compare(rows, t, force)
    BY <2>1, <2>2
  <2>5. 1 \in Nat
    OBVIOUS
  <2>. QED
    BY <2>3, <2>4, <2>5, CompareStep
<1>4. ASSUME NEW m \in Sides, NEW t \in Moments, NEW force \in BOOLEAN, CompareMarket(m, t, force)
      PROVE  DivergenceInv'
  <2>1. RowsAbout({m}, t) \in SUBSET Available(t)
    BY DEF RowsAbout
  <2>. QED
    BY <1>4, <2>1, NewestFirstKeeps DEF CompareMarket
<1>5. ASSUME NEW ms \in SUBSET Sides, NEW t \in Moments, NEW force \in BOOLEAN,
             CompareRun(ms, t, force)
      PROVE  DivergenceInv'
  <2>1. RowsAbout(ms, t) \in SUBSET Available(t) /\ Available(t) \in SUBSET Available(t)
    BY DEF RowsAbout
  <2>2. CASE \E order \in SetToSeqs(RowsAbout(ms, t)) : Compare(order, t, force)
    BY <2>1, <2>2, ListKeeps
  <2>3. CASE CompareNewestFirst(Available(t), t, force)
    BY <2>1, <2>3, NewestFirstKeeps
  <2>. QED
    BY <1>5, <2>2, <2>3, Zenon DEF CompareRun
<1>6. CASE UNCHANGED divergenceVars
  <2>1. Record /\ ReadingsKept'
    BY <1>6 DEF divergenceVars, Record, DivergenceInv, ReadingsKept
  <2>. QED
    BY <2>1, RecordKeeps
<1>. QED
  BY <1>1, <1>2, <1>3, <1>4, <1>5, <1>6 DEF DivergenceNext

-----------------------------------------------------------------------------
LEMMA SidesAgree ==
  ASSUME ReadingsKept, NEW row, NEW t
  PROVE  Agree(SnapshotOf(row, t), SnapshotOf(MirroredRow(row), t))
<1> DEFINE l == ReadingAsOf(row.left, t)
           r == ReadingAsOf(row.right, t)
<1>1. ReadingRow(l) /\ ReadingRow(r)
  BY ReadingIsRow
<1>2. MirroredRow(row).left = row.right /\ MirroredRow(row).right = row.left
  BY DEF MirroredRow
<1>3. SnapshotOf(row, t) = SnapshotWith(l, r, row)
  BY DEF SnapshotOf, SnapshotIn, BasisOf
<1>4. SnapshotOf(MirroredRow(row), t) = SnapshotWith(r, l, MirroredRow(row))
  BY <1>2 DEF SnapshotOf, SnapshotIn, BasisOf
<1>. HIDE DEF l, r
<1>5. SameForSignals(SnapshotWith(l, r, row), SnapshotWith(r, l, MirroredRow(row)))
  BY <1>1, SnapshotMirrored
<1>. QED
  BY <1>3, <1>4, <1>5, SameSignals

LEMMA QuotesStayOrdered ==
  ASSUME NEW bid \in Ticks, NEW ask \in Ticks, NEW relation
  PROVE  LET quotes == AlignedQuotes(bid, ask, relation)
         IN  quotes.bid # None /\ quotes.ask # None /\ bid <= ask => quotes.bid <= quotes.ask
BY DivergenceAssumption DEF AlignedQuotes, Aligned, Ticks

(* An alarm's readings were fresh, good and of low risk.                   *)
LEMMA CleanSides ==
  ASSUME NEW l, NEW r, NEW row, ReadingRow(l), ReadingRow(r),
         LET s == SnapshotWith(l, r, row)
         IN  MayCompare(s) /\ s.stale = None /\ ~LowQuality(s) /\ ~s.risky
  PROVE  /\ row.permission \in {"COMPARABLE", "COMPARABLE_WITH_HAIRCUT"}
         /\ \A x \in {l, r} : ~IsStale(x) /\ ~Under(Part(x.quality, "score"), 70) /\ ~Reaches(x.risk, 70)
<1> DEFINE s == SnapshotWith(l, r, row)
<1>1. /\ s.permission = row.permission /\ s.stale = SideOf(IsStale(l), IsStale(r))
      /\ s.qualities = <<Part(l.quality, "score"), Part(r.quality, "score")>>
      /\ s.risky = (Reaches(l.risk, 70) \/ Reaches(r.risk, 70))
  BY DEF SnapshotWith, SnapshotBetween
<1>2. MayCompare(s) /\ s.stale = None /\ ~LowQuality(s) /\ ~s.risky
  OBVIOUS
<1>. HIDE DEF s
<1>3. row.permission \in {"COMPARABLE", "COMPARABLE_WITH_HAIRCUT"}
  BY <1>1, <1>2 DEF MayCompare
<1>4. ~IsStale(l) /\ ~IsStale(r)
  <2>1. IsStale(l) \in BOOLEAN /\ IsStale(r) \in BOOLEAN
    BY ReadingValues
  <2>. QED
    BY <1>1, <1>2, <2>1, DivergenceAssumption DEF SideOf
<1>5. ~Reaches(l.risk, 70) /\ ~Reaches(r.risk, 70)
  BY <1>1, <1>2
<1>6. \A q \in {Part(l.quality, "score"), Part(r.quality, "score")} : ~Under(q, 70)
  <2>1. \A x, y : ToSet(<<x, y>>) = {x, y}
    BY DEF ToSet
  <2>2. ToSet(s.qualities) = {Part(l.quality, "score"), Part(r.quality, "score")}
    BY <1>1, <2>1
  <2>. QED
    BY <1>2, <2>2 DEF LowQuality, Qualities, Under
<1>. QED
  BY <1>3, <1>4, <1>5, <1>6

LEMMA DivergenceInvSound == DivergenceInv => DivergenceSound
<1> SUFFICES ASSUME DivergenceInv PROVE DivergenceSound
  OBVIOUS
<1>0. ReadingsKept /\ TablesKept(DivergenceTables)
  BY DEF DivergenceInv
<1>t. /\ \A s \in dvSnapshots : SnapshotKept(s)
      /\ \A s, q \in dvSnapshots : s.id = q.id => s = q
      /\ \A a \in dvAssessments : AssessmentKept(a, dvAlarms) /\ \E s \in dvSnapshots : s.id = a.snapshot
      /\ \A a, b \in dvAssessments : a.found = b.found => a = b
  BY <1>0 DEF TablesKept, DivergenceTables
<1>f. ASSUME NEW a \in dvAssessments
      PROVE  \E n \in {0, MinPersistence, 2 * MinPersistence} :
               /\ a.found = FoundWith(SnapshotIn(a.basis, a.row), n)
               /\ n > 0 => Persisted(a.row, a.at, dvAlarms)
  BY <1>t DEF AssessmentKept
<1>1. DivergenceTypeOK
  <2>1. ASSUME NEW s \in dvSnapshots PROVE SnapshotRow(s)
    <3>1. s.id = SnapshotId(SnapshotWith(s.basis.left, s.basis.right, s.row))
          /\ ReadingRow(s.basis.left) /\ ReadingRow(s.basis.right)
      BY <1>t DEF SnapshotKept, SnapshotIn, BasisKept
    <3>. QED
      BY <3>1, SnapshotFields DEF SnapshotRow
  <2>2. \A p \in dvPairs : \A g \in PairSignals(SnapshotOf(p.row, LastMoment), MinPersistence) : SignalRow(g)
    BY SignalsAreRows
  <2>3. ASSUME NEW a \in dvAssessments PROVE AssessmentRow(a)
    <3>1. PICK s, n : a.found = Aggregated(s, PairSignals(s, n))
      BY <1>f DEF FoundWith
    <3>2. /\ a.found.status \in Alarming \cup {"DO_NOT_COMPARE", "NEEDS_REVIEW", "NO_DIVERGENCE"}
          /\ a.found.severity \in DOMAIN SeverityOrder /\ a.found.hint \in DOMAIN ActionOrder
          /\ a.found.score \in 0 .. 100
      BY <3>1, FoundIsRow
    <3>. QED
      BY <1>t, <3>2 DEF AssessmentRow
  <2>4. \A a \in dvAssessments : a.at \in Moments /\ a.known <= a.at
    BY <1>t DEF AssessmentKept
  <2>. QED
    BY <1>t, <2>1, <2>2, <2>3, <2>4 DEF DivergenceTypeOK
<1>2. MirroredPairsAgree
  BY <1>0, SidesAgree DEF MirroredPairsAgree
<1>3. AlignedQuotesStayOrdered
  <2> SUFFICES ASSUME NEW p \in dvPairs
               PROVE  LET r == ReadingAsOf(p.row.right, LastMoment)
                          quotes == AlignedQuotes(Quote(r, "bid"), Quote(r, "ask"), p.row.relation)
                      IN  quotes.bid # None /\ quotes.ask # None /\ Quote(r, "bid") <= Quote(r, "ask")
                            => quotes.bid <= quotes.ask
    BY DEF AlignedQuotesStayOrdered
  <2> DEFINE r == ReadingAsOf(p.row.right, LastMoment)
  <2>1. Quote(r, "bid") \in Ticks /\ Quote(r, "ask") \in Ticks
    BY <1>0, ReadingIsRow, ReadingValues
  <2>. HIDE DEF r
  <2>2. LET quotes == AlignedQuotes(Quote(r, "bid"), Quote(r, "ask"), p.row.relation)
        IN  quotes.bid # None /\ quotes.ask # None /\ Quote(r, "bid") <= Quote(r, "ask")
              => quotes.bid <= quotes.ask
    BY <2>1, QuotesStayOrdered
  <2>. QED
    BY <2>2 DEF r
<1>4. AlarmsHaveCleanContext
  <2> SUFFICES ASSUME NEW a \in dvAssessments, a.found.status \in Alarming
               PROVE  /\ a.row.permission \in {"COMPARABLE", "COMPARABLE_WITH_HAIRCUT"}
                      /\ \A r \in {a.basis.left, a.basis.right} :
                           ~IsStale(r) /\ ~Under(Part(r.quality, "score"), 70) /\ ~Reaches(r.risk, 70)
    BY DEF AlarmsHaveCleanContext
  <2>1. PICK l, r : l = a.basis.left /\ r = a.basis.right
    OBVIOUS
  <2>2. PICK s : s = SnapshotWith(l, r, a.row)
    OBVIOUS
  <2>3. PICK n : a.found = Aggregated(s, PairSignals(s, n))
    BY <1>f, <2>1, <2>2 DEF FoundWith, SnapshotIn
  <2>4. ReadingRow(l) /\ ReadingRow(r)
    BY <1>t, <2>1 DEF AssessmentKept, BasisKept
  <2>5. MayCompare(s) /\ s.stale = None /\ ~LowQuality(s) /\ ~s.risky
    BY <2>3, AlarmContext
  <2>6. /\ a.row.permission \in {"COMPARABLE", "COMPARABLE_WITH_HAIRCUT"}
        /\ \A x \in {l, r} : ~IsStale(x) /\ ~Under(Part(x.quality, "score"), 70) /\ ~Reaches(x.risk, 70)
    BY <2>2, <2>4, <2>5, CleanSides
  <2>. QED
    BY <2>1, <2>6
<1>5. UnchangedReadingsRepeat
  <2> SUFFICES ASSUME NEW a \in dvAssessments, BasisOf(a.row, a.at) = a.basis
               PROVE  Analysed(SnapshotOf(a.row, a.at), {}, a.row, a.at).reasons \ {"PERSISTENT_DIVERGENCE"}
                        = a.found.reasons \ {"PERSISTENT_DIVERGENCE"}
    BY DEF UnchangedReadingsRepeat
  <2>0. PICK s : s = SnapshotOf(a.row, a.at)
    OBVIOUS
  <2>1. PICK n : a.found = Aggregated(s, PairSignals(s, n))
    BY <1>f, <2>0 DEF SnapshotOf, FoundWith
  <2>2. Persistence({}, a.row, a.at, SnapshotId(s)) = 0
    <3> DEFINE none == {b \in Recent({}, a.row.left) :
                          /\ {b.row.left, b.row.right} = {a.row.left, a.row.right}
                          /\ b.found.status \in Alarming
                          /\ b.at < a.at /\ b.at >= a.at - AlarmWindow /\ b.snapshot # SnapshotId(s)}
    <3>1. Recent({}, a.row.left) = {}
      BY DEF Recent
    <3>2. none = {}
      BY <3>1
    <3>3. Persistence({}, a.row, a.at, SnapshotId(s)) = Cardinality(none)
      BY DEF Persistence
    <3>. QED
      BY <3>2, <3>3, FS_EmptySet
  <2>3. Analysed(s, {}, a.row, a.at) = Aggregated(s, PairSignals(s, 0))
    BY <2>2 DEF Analysed
  <2>. QED
    BY <2>0, <2>1, <2>3, ReasonsOfFound
<1>6. PersistenceIsEarned
  <2> SUFFICES ASSUME NEW a \in dvAssessments, "PERSISTENT_DIVERGENCE" \in a.found.reasons
               PROVE  /\ \E e \in EarlierAlarms(a.row, a.at) : e.at >= a.at - AlarmWindow
                      /\ \E e \in EarlierAlarms(a.row, a.at) : e.own
    BY DEF PersistenceIsEarned
  <2>1. PICK n \in {0, MinPersistence, 2 * MinPersistence} :
          /\ a.found = FoundWith(SnapshotIn(a.basis, a.row), n)
          /\ n > 0 => Persisted(a.row, a.at, dvAlarms)
    BY <1>f
  <2>2. PICK s : s = SnapshotIn(a.basis, a.row)
    OBVIOUS
  <2>3. n >= MinPersistence
    BY <2>1, <2>2, ReasonsOfFound DEF FoundWith
  <2>4. n > 0
    BY <2>1, <2>3, DivergenceAssumption
  <2>. QED
    BY <2>1, <2>4 DEF Persisted, EarlierAlarms, AlarmsBefore, MarketsOfPair
<1>. QED
  BY <1>1, <1>2, <1>3, <1>4, <1>5, <1>6 DEF DivergenceSound

(* A divergence is the pair's own whatever is read, related and compared in *)
(* between, late, again or forced: the rows are as their models declare     *)
(* them and of a pair's row that was there, both sides see the same,        *)
(* aligned quotes stay ordered, an alarm had a clean context, its reasons   *)
(* are found again while nothing arrived late and persistence was earned    *)
(* (aggregation.py:143, pricing.py:15, signals.py:317, service.py:113).     *)
THEOREM DivergenceIsSound == DivergenceSpec => []DivergenceSound
BY DivergenceInit_Inv, DivergenceStep, DivergenceInvSound, PTL DEF DivergenceSpec

-----------------------------------------------------------------------------
(* Equivalence: rounding, scores, the sums of a pair, the tables and classes. *)

(* Rounding.                                                               *)
LEMMA MultiplesInOrder ==
  ASSUME NEW d \in Nat, NEW b \in Int, NEW q \in Int, b <= q PROVE d * b <= d * q
<1>1. PICK k \in Nat : q = b + k
  <2>1. q - b \in Nat /\ q = b + (q - b)
    OBVIOUS
  <2>. QED
    BY <2>1
<1>2. d * (b + k) = d * b + d * k
  OBVIOUS
<1>3. d * k \in Nat /\ d * b \in Int
  OBVIOUS
<1>. QED
  BY <1>1, <1>2, <1>3

LEMMA Division ==
  ASSUME NEW n \in Nat, NEW d \in Nat \ {0}
  PROVE  /\ n \div d \in Int /\ n % d \in Int /\ 0 <= n % d /\ n % d < d
         /\ n = (d * (n \div d)) + (n % d)
OBVIOUS

LEMMA HalfEvenBounds ==
  ASSUME NEW n \in Nat, NEW d \in Nat \ {0}, NEW b \in Nat, n <= d * b
  PROVE  HalfEven(n, d) \in 0 .. b
<1>1. PICK q \in Int : q = n \div d
  BY Division
<1>2. PICK r \in Int : r = n % d
  BY Division
<1>3. 0 <= r /\ r < d
  BY <1>2, Division
<1>4. n = (d * q) + r
  BY <1>1, <1>2, Division
<1>5. 0 <= q
  <2>. SUFFICES ASSUME q <= -1 PROVE FALSE
    OBVIOUS
  <2>1. d * q <= d * (-1)
    BY MultiplesInOrder
  <2>2. d * (-1) = -d
    OBVIOUS
  <2>3. d * q \in Int
    OBVIOUS
  <2>. QED
    BY <1>3, <1>4, <2>1, <2>2, <2>3
<1>6. CASE q < b
  <2>1. q \in 0 .. b /\ q + 1 \in 0 .. b
    BY <1>5, <1>6
  <2>. QED
    BY <1>1, <1>2, <2>1 DEF HalfEven
<1>7. CASE b <= q
  <2>1. d * b <= d * q
    BY <1>7, MultiplesInOrder
  <2>2. PICK m \in Int : m = d * b
    OBVIOUS
  <2>3. PICK k \in Int : k = d * q
    OBVIOUS
  <2>4. r = 0 /\ n = k /\ m = k
    BY <1>3, <1>4, <2>1, <2>2, <2>3
  <2>5. q = b
    <3>. SUFFICES ASSUME b + 1 <= q PROVE FALSE
      BY <1>7
    <3>1. d * (b + 1) <= d * q
      BY MultiplesInOrder
    <3>2. d * (b + 1) = d * b + d
      OBVIOUS
    <3>. QED
      BY <2>2, <2>3, <2>4, <3>1, <3>2
  <2>6. HalfEven(n, d) = q
    BY <1>1, <1>2, <2>4 DEF HalfEven
  <2>. QED
    BY <1>5, <2>5, <2>6
<1>. QED
  BY <1>6, <1>7

(* So is the quotient of at most a hundred times the divisor a score.       *)
LEMMA RoundedScore ==
  ASSUME NEW n \in Nat, NEW d \in Nat \ {0}, n <= 100 * d
  PROVE  HalfEven(n, d) \in 0 .. 100
<1>1. PICK b \in Nat : b = 100
  OBVIOUS
<1>2. n <= d * b
  BY <1>1
<1>. QED
  BY <1>1, <1>2, HalfEvenBounds

(* An exact quotient is not rounded.                                        *)
LEMMA HalfEvenExact ==
  ASSUME NEW d \in Nat \ {0}, NEW b \in Nat
  PROVE  HalfEven(d * b, d) = b
<1>1. PICK n \in Nat : n = d * b
  OBVIOUS
<1>2. PICK q \in Int : q = n \div d
  BY Division
<1>3. PICK r \in Int : r = n % d
  BY Division
<1>4. 0 <= r /\ r < d /\ n = (d * q) + r
  BY <1>2, <1>3, Division
<1>5. q = b /\ r = 0
  <2>1. PICK m \in Int : m = d * q
    OBVIOUS
  <2>2. CASE q < b
    <3>1. d * (q + 1) <= d * b
      BY <2>2, MultiplesInOrder
    <3>2. d * (q + 1) = d * q + d
      OBVIOUS
    <3>. QED
      BY <1>1, <1>4, <2>1, <3>1, <3>2
  <2>3. CASE b < q
    <3>1. d * (b + 1) <= d * q
      BY <2>3, MultiplesInOrder
    <3>2. d * (b + 1) = d * b + d
      OBVIOUS
    <3>. QED
      BY <1>1, <1>4, <2>1, <3>1, <3>2
  <2>4. CASE q = b
    BY <1>1, <1>4, <2>1, <2>4
  <2>. QED
    BY <2>2, <2>3, <2>4
<1>. QED
  BY <1>1, <1>2, <1>3, <1>5 DEF HalfEven

(* The likeness of two texts is a score, the same in both directions, and   *)
(* full for equal texts.                                                   *)
LEMMA AlikeScores ==
  ASSUME NEW a, NEW b, IsFiniteSet(a), IsFiniteSet(b)
  PROVE  /\ Alike(a, b) \in 0 .. 100
         /\ a # {} => Alike(a, a) = 100
<1>1. a = {} \/ b = {} => Alike(a, b) \in 0 .. 100
  BY DEF Alike
<1>2. ASSUME NEW c, NEW e, IsFiniteSet(c), IsFiniteSet(e), c # {}, e # {}
      PROVE  Alike(c, e) = HalfEven(100 * Cardinality(c \cap e), Cardinality(c \cup e))
  BY <1>2 DEF Alike
<1>3. ASSUME NEW c, NEW e, IsFiniteSet(c), IsFiniteSet(e), c # {}, e # {}
      PROVE  Alike(c, e) \in 0 .. 100
  <2>1. PICK k \in Nat : k = Cardinality(c \cap e)
    BY <1>3, FS_Intersection, FS_CardinalityType
  <2>2. PICK d \in Nat : d = Cardinality(c \cup e)
    BY <1>3, FS_Union, FS_CardinalityType
  <2>3. d # 0
    BY <1>3, <2>2, FS_Union, FS_EmptySet
  <2>4. k <= d
    <3>1. c \cap e \subseteq c \cup e /\ IsFiniteSet(c \cup e)
      BY <1>3, FS_Union
    <3>. QED
      BY <2>1, <2>2, <3>1, FS_Subset
  <2>5. 100 * k \in Nat /\ 100 * k <= d * 100
    BY <2>4
  <2>6. PICK n \in Nat : n = 100 * k /\ n <= d * 100
    BY <2>5
  <2>7. HalfEven(n, d) \in 0 .. 100
    BY <2>3, <2>6, HalfEvenBounds
  <2>. QED
    BY <1>2, <1>3, <2>1, <2>2, <2>6, <2>7
<1>4. ASSUME a # {} PROVE Alike(a, a) = 100
  <2>1. PICK d \in Nat \ {0} : d = Cardinality(a)
    BY <1>4, FS_CardinalityType, FS_EmptySet
  <2>2. a \cap a = a /\ a \cup a = a
    OBVIOUS
  <2>3. 100 * d = d * 100
    OBVIOUS
  <2>4. HalfEven(d * 100, d) = 100
    BY HalfEvenExact
  <2>. QED
    BY <1>2, <1>4, <2>1, <2>2, <2>3, <2>4
<1>. QED
  BY <1>1, <1>3, <1>4

LEMMA AlikeMirrored == \A a, b : Alike(a, b) = Alike(b, a)
<1>. SUFFICES ASSUME NEW a, NEW b PROVE Alike(a, b) = Alike(b, a)
  OBVIOUS
<1>1. a \cap b = b \cap a /\ a \cup b = b \cup a
  OBVIOUS
<1>. QED
  BY <1>1 DEF Alike

-----------------------------------------------------------------------------
(* The dimensions of a pair.                                               *)

(* What a rule snapshot says, or None when there is none.                  *)
MaybeTerms == RuleTerms \cup {None}

LEMMA TermsShape ==
  ASSUME NEW p \in MaybeTerms, p # None
  PROVE  /\ IsFiniteSet(p.source) /\ IsFiniteSet(p.authority) /\ IsFiniteSet(p.disputes)
         /\ IsFiniteSet(p.subject) /\ IsFiniteSet(p.condition) /\ p.ambiguity \in 0 .. 100
BY TermsAssumption DEF MaybeTerms

LEMMA ClampIsScore == ASSUME NEW n \in Int PROVE Clamp(n) \in 0 .. 100
BY DEF Clamp, Greater, Lesser

LEMMA HalfEvenIsInt ==
  ASSUME NEW n \in Nat, NEW d \in Nat \ {0} PROVE HalfEven(n, d) \in Int
BY Division DEF HalfEven

LEMMA TitleScore ==
  ASSUME NEW l, NEW r, IsFiniteSet(l.title), IsFiniteSet(r.title)
  PROVE  TitleSimilarity(l, r).score \in 0 .. 100
BY AlikeScores DEF TitleSimilarity, Dimension

LEMMA EventScore ==
  ASSUME NEW l, NEW r, IsFiniteSet(l.title), IsFiniteSet(r.title),
         l.event # None => IsFiniteSet(l.event), r.event # None => IsFiniteSet(r.event)
  PROVE  EventIdentity(l, r).score \in 0 .. 100
<1>1. CASE l.event = None \/ r.event = None
  BY <1>1 DEF EventIdentity, Dimension
<1>2. CASE l.event # None /\ r.event # None
  <2>1. PICK a \in 0 .. 100 : a = Alike(l.event, r.event)
    BY <1>2, AlikeScores
  <2>2. PICK b \in 0 .. 100 : b = Alike(l.title, r.title)
    BY AlikeScores
  <2>3. PICK n \in Nat : n = 7 * a + 2 * b + (IF SameCategory(l, r) THEN 100 ELSE 0)
    OBVIOUS
  <2>4. EventIdentity(l, r).score = Clamp(HalfEven(n, 10))
    BY <1>2, <2>1, <2>2, <2>3 DEF EventIdentity
  <2>5. HalfEven(n, 10) \in Int
    BY HalfEvenIsInt
  <2>. QED
    BY <2>4, <2>5, ClampIsScore
<1>. QED
  BY <1>1, <1>2

LEMMA StructureScore ==
  ASSUME NEW l, NEW r, IsFiniteSet(l.labels), IsFiniteSet(r.labels)
  PROVE  OutcomeStructure(l, r).score \in 0 .. 100
BY AlikeScores DEF OutcomeStructure, Dimension

LEMMA PredicateScore ==
  ASSUME NEW p \in MaybeTerms, NEW q \in MaybeTerms
  PROVE  PredicateSimilarity(p, q).score \in 0 .. 100
<1>1. CASE p = None \/ q = None
  BY <1>1 DEF PredicateSimilarity, Dimension
<1>2. CASE p # None /\ q # None
  <2>1. PICK a \in 0 .. 100 : a = Alike(p.subject, q.subject)
    BY <1>2, TermsShape, AlikeScores
  <2>2. PICK b \in 0 .. 100 : b = Alike(p.condition, q.condition)
    BY <1>2, TermsShape, AlikeScores
  <2>3. PICK c \in Int : c = HalfEven(a, 5)
    BY HalfEvenIsInt
  <2>4. PICK d \in Int : d = HalfEven(b, 4)
    BY HalfEvenIsInt
  <2>5. PICK n \in Int : n = (IF p.type = q.type THEN 35 ELSE 0)
                           + (IF p.comparator = q.comparator THEN 20 ELSE 0) + c + d
    OBVIOUS
  <2>6. PredicateSimilarity(p, q).score = Clamp(n)
    BY <1>2, <2>1, <2>2, <2>3, <2>4, <2>5 DEF PredicateSimilarity, Dimension
  <2>. QED
    BY <2>6, ClampIsScore
<1>. QED
  BY <1>1, <1>2

LEMMA AlignmentScore ==
  ASSUME NEW a, NEW b, IsFiniteSet(a), IsFiniteSet(b), NEW name
  PROVE  Alignment(a, b, name).score \in 0 .. 100
<1>1. Alignment(a, b, name).score \in {30, 100, Alike(a, b)}
  BY DEF Alignment, Dimension
<1>. QED
  BY <1>1, AlikeScores

LEMMA FieldIsFinite ==
  ASSUME NEW p \in MaybeTerms
  PROVE  IsFiniteSet(Field(p, "source", {})) /\ IsFiniteSet(Field(p, "authority", {}))
BY TermsShape, FS_EmptySet DEF Field

LEMMA AuthorityScore ==
  ASSUME NEW a, NEW b, IsFiniteSet(a), IsFiniteSet(b)
  PROVE  SettlementAuthority(a, b).score \in 0 .. 100
<1>1. CASE a # b /\ {a, b} \subseteq VenueAuthorities
  BY <1>1 DEF SettlementAuthority, Dimension
<1>2. CASE ~(a # b /\ {a, b} \subseteq VenueAuthorities)
  <2>1. SettlementAuthority(a, b) = Alignment(a, b, "SETTLEMENT_AUTHORITY")
    BY <1>2 DEF SettlementAuthority
  <2>. QED
    BY <2>1, AlignmentScore
<1>. QED
  BY <1>1, <1>2

LEMMA TermScores ==
  ASSUME NEW p, NEW q
  PROVE  /\ Temporal(p, q).score \in 0 .. 100
         /\ Threshold(p, q).score \in 0 .. 100
         /\ \A a, b : Timezone(a, b).score \in 0 .. 100
<1>1. Temporal(p, q).score \in {35, 100, 75, 60, 15}
  BY DEF Temporal, Dimension
<1>2. Threshold(p, q).score \in {35, 80, 30, 20, 100, 70}
  BY DEF Threshold, Dimension
<1>3. \A a, b : Timezone(a, b).score \in {45, 30, 100, 20}
  BY DEF Timezone, Dimension
<1>. QED
  BY <1>1, <1>2, <1>3

LEMMA RulesScores ==
  ASSUME NEW p \in MaybeTerms, NEW q \in MaybeTerms
  PROVE  /\ AmbiguityCompatibility(p, q).score \in 0 .. 100
         /\ VenueRules(p, q).score \in 0 .. 100
<1>1. CASE p = None \/ q = None
  BY <1>1 DEF AmbiguityCompatibility, VenueRules, Dimension
<1>2. CASE p # None /\ q # None
  <2>1. AmbiguityCompatibility(p, q).score \in 0 .. 100
    <3>1. PICK a \in 0 .. 100 : a = p.ambiguity
      BY <1>2, TermsShape
    <3>2. PICK b \in 0 .. 100 : b = q.ambiguity
      BY <1>2, TermsShape
    <3>. QED
      BY <1>2, <3>1, <3>2 DEF AmbiguityCompatibility, Dimension, Greater, Lesser
  <2>2. VenueRules(p, q).score \in {60, Alike(p.disputes, q.disputes)}
    BY <1>2 DEF VenueRules, Dimension
  <2>. QED
    BY <1>2, <2>1, <2>2, TermsShape, AlikeScores
<1>. QED
  BY <1>1, <1>2

(* The words of a contract are finitely many.                              *)
Finite(c) ==
  IsFiniteSet(c.title) /\ IsFiniteSet(c.labels) /\ (c.event # None => IsFiniteSet(c.event))

(* Every dimension of a pair is a score.                                   *)
LEMMA DimensionScored ==
  ASSUME NEW l, NEW r, Finite(l), Finite(r), NEW p \in MaybeTerms, NEW q \in MaybeTerms
  PROVE  \A d \in DOMAIN Weights : Dimensions(l, r, p, q)[d].score \in 0 .. 100
<1>1. /\ TitleSimilarity(l, r).score \in 0 .. 100 /\ EventIdentity(l, r).score \in 0 .. 100
      /\ OutcomeStructure(l, r).score \in 0 .. 100
  BY TitleScore, EventScore, StructureScore DEF Finite
<1>2. /\ Alignment(Field(p, "source", {}), Field(q, "source", {}), "RESOLUTION_SOURCE").score \in 0 .. 100
      /\ SettlementAuthority(Field(p, "authority", {}), Field(q, "authority", {})).score \in 0 .. 100
  BY FieldIsFinite, AlignmentScore, AuthorityScore
<1>3. DOMAIN Weights = {"title", "event", "structure", "predicate", "source", "authority",
                        "temporal", "threshold", "timezone", "ambiguity", "rules"}
  BY DEF Weights
<1>. QED
  BY <1>1, <1>2, <1>3, PredicateScore, TermScores, RulesScores DEF Dimensions
-----------------------------------------------------------------------------
(* The aggregate.                                                          *)

LEMMA WeightsAreFinite == IsFiniteSet(DOMAIN Weights) /\ IsFiniteSet(EvidenceDimensions)
<1>1. \A a, b, c, d : IsFiniteSet({a, b, c, d})
  BY FourAreFinite
<1>2. \A a : IsFiniteSet({a})
  BY FS_Singleton
<1>3. DOMAIN Weights = ({"title", "event", "structure", "predicate"}
                          \cup {"source", "authority", "temporal", "threshold"})
                          \cup {"timezone", "ambiguity", "rules", "rules"}
  BY DEF Weights
<1>4. EvidenceDimensions = {"predicate", "source", "temporal", "threshold"} \cup {"ambiguity"}
  BY DEF EvidenceDimensions
<1>5. IsFiniteSet({"title", "event", "structure", "predicate"}
                    \cup {"source", "authority", "temporal", "threshold"})
  BY <1>1, FS_Union
<1>6. ASSUME NEW A, NEW B, IsFiniteSet(A), IsFiniteSet(B) PROVE IsFiniteSet(A \cup B)
  BY <1>6, FS_Union
<1>7. IsFiniteSet(DOMAIN Weights)
  <2>1. IsFiniteSet({"timezone", "ambiguity", "rules", "rules"})
    BY <1>1
  <2>. QED
    BY <1>3, <1>5, <1>6, <2>1
<1>8. IsFiniteSet(EvidenceDimensions)
  <2>1. IsFiniteSet({"predicate", "source", "temporal", "threshold"}) /\ IsFiniteSet({"ambiguity"})
    BY <1>1, <1>2
  <2>. QED
    BY <1>4, <1>6, <2>1
<1>. QED
  BY <1>7, <1>8

(* The weights of the dimensions sum up to 90.                             *)

LEMMA WeightsAddUp ==
  ASSUME NEW D, D = DOMAIN Weights, NEW H, \A d \in D : H[d] = 100 * Weights[d]
  PROVE  SumFunctionOnSet(H, D) = 9000
<1>0. SumsTo(H, {}, 0)
  BY SumByElements, FS_EmptySet DEF SumsTo, SumSteps
<1>1. SumsTo(H, {"title"}, 800)
  <2>1. H["title"] = 800
    BY DEF Weights
  <2>2. "title" \notin {} /\ {"title"} = {} \cup {"title"}
    OBVIOUS
  <2>. QED
    BY ONLY <1>0, <2>1, <2>2, OneMoreAmount
<1>2. SumsTo(H, {"title", "event"}, 1600)
  <2>1. H["event"] = 800
    BY DEF Weights
  <2>2. "event" \notin {"title"} /\ {"title", "event"} = {"title"} \cup {"event"}
    OBVIOUS
  <2>. QED
    BY ONLY <1>1, <2>1, <2>2, OneMoreAmount
<1>3. SumsTo(H, {"title", "event", "structure"}, 2600)
  <2>1. H["structure"] = 1000
    BY DEF Weights
  <2>2. "structure" \notin {"title", "event"} /\ {"title", "event", "structure"} = {"title", "event"} \cup {"structure"}
    OBVIOUS
  <2>. QED
    BY ONLY <1>2, <2>1, <2>2, OneMoreAmount
<1>4. SumsTo(H, {"title", "event", "structure", "predicate"}, 3800)
  <2>1. H["predicate"] = 1200
    BY DEF Weights
  <2>2. "predicate" \notin {"title", "event", "structure"} /\ {"title", "event", "structure", "predicate"} = {"title", "event", "structure"} \cup {"predicate"}
    OBVIOUS
  <2>. QED
    BY ONLY <1>3, <2>1, <2>2, OneMoreAmount
<1>5. SumsTo(H, {"title", "event", "structure", "predicate", "source"}, 4800)
  <2>1. H["source"] = 1000
    BY DEF Weights
  <2>2. "source" \notin {"title", "event", "structure", "predicate"} /\ {"title", "event", "structure", "predicate", "source"} = {"title", "event", "structure", "predicate"} \cup {"source"}
    OBVIOUS
  <2>. QED
    BY ONLY <1>4, <2>1, <2>2, OneMoreAmount
<1>6. SumsTo(H, {"title", "event", "structure", "predicate", "source", "authority"}, 5500)
  <2>1. H["authority"] = 700
    BY DEF Weights
  <2>2. "authority" \notin {"title", "event", "structure", "predicate", "source"} /\ {"title", "event", "structure", "predicate", "source", "authority"} = {"title", "event", "structure", "predicate", "source"} \cup {"authority"}
    OBVIOUS
  <2>. QED
    BY ONLY <1>5, <2>1, <2>2, OneMoreAmount
<1>7. SumsTo(H, {"title", "event", "structure", "predicate", "source", "authority", "temporal"}, 6500)
  <2>1. H["temporal"] = 1000
    BY DEF Weights
  <2>2. "temporal" \notin {"title", "event", "structure", "predicate", "source", "authority"} /\ {"title", "event", "structure", "predicate", "source", "authority", "temporal"} = {"title", "event", "structure", "predicate", "source", "authority"} \cup {"temporal"}
    OBVIOUS
  <2>. QED
    BY ONLY <1>6, <2>1, <2>2, OneMoreAmount
<1>8. SumsTo(H, {"title", "event", "structure", "predicate", "source", "authority", "temporal", "threshold"}, 7500)
  <2>1. H["threshold"] = 1000
    BY DEF Weights
  <2>2. "threshold" \notin {"title", "event", "structure", "predicate", "source", "authority", "temporal"} /\ {"title", "event", "structure", "predicate", "source", "authority", "temporal", "threshold"} = {"title", "event", "structure", "predicate", "source", "authority", "temporal"} \cup {"threshold"}
    OBVIOUS
  <2>. QED
    BY ONLY <1>7, <2>1, <2>2, OneMoreAmount
<1>9. SumsTo(H, {"title", "event", "structure", "predicate", "source", "authority", "temporal", "threshold", "timezone"}, 8000)
  <2>1. H["timezone"] = 500
    BY DEF Weights
  <2>2. "timezone" \notin {"title", "event", "structure", "predicate", "source", "authority", "temporal", "threshold"} /\ {"title", "event", "structure", "predicate", "source", "authority", "temporal", "threshold", "timezone"} = {"title", "event", "structure", "predicate", "source", "authority", "temporal", "threshold"} \cup {"timezone"}
    OBVIOUS
  <2>. QED
    BY ONLY <1>8, <2>1, <2>2, OneMoreAmount
<1>10. SumsTo(H, {"title", "event", "structure", "predicate", "source", "authority", "temporal", "threshold", "timezone", "ambiguity"}, 8500)
  <2>1. H["ambiguity"] = 500
    BY DEF Weights
  <2>2. "ambiguity" \notin {"title", "event", "structure", "predicate", "source", "authority", "temporal", "threshold", "timezone"} /\ {"title", "event", "structure", "predicate", "source", "authority", "temporal", "threshold", "timezone", "ambiguity"} = {"title", "event", "structure", "predicate", "source", "authority", "temporal", "threshold", "timezone"} \cup {"ambiguity"}
    OBVIOUS
  <2>. QED
    BY ONLY <1>9, <2>1, <2>2, OneMoreAmount
<1>11. SumsTo(H, {"title", "event", "structure", "predicate", "source", "authority", "temporal", "threshold", "timezone", "ambiguity", "rules"}, 9000)
  <2>1. H["rules"] = 500
    BY DEF Weights
  <2>2. "rules" \notin {"title", "event", "structure", "predicate", "source", "authority", "temporal", "threshold", "timezone", "ambiguity"} /\ {"title", "event", "structure", "predicate", "source", "authority", "temporal", "threshold", "timezone", "ambiguity", "rules"} = {"title", "event", "structure", "predicate", "source", "authority", "temporal", "threshold", "timezone", "ambiguity"} \cup {"rules"}
    OBVIOUS
  <2>. QED
    BY ONLY <1>10, <2>1, <2>2, OneMoreAmount
<1>. QED
  BY <1>11 DEF SumsTo, Weights

(* The sum of scores, each taken weight times, is at most a hundred times   *)
(* the sum of the weights.                                                 *)
LEMMA SumOfWeighted ==
  ASSUME NEW scores, \A d \in DOMAIN Weights : scores[d] \in 0 .. 100,
         NEW f, DOMAIN f = DOMAIN Weights, \A d \in DOMAIN Weights : f[d] = Weights[d] * scores[d]
  PROVE  SumFunction(f) \in 0 .. 9000
<1>1. PICK D : D = DOMAIN Weights
  OBVIOUS
<1>2. DOMAIN f = D /\ \A d \in D : f[d] = Weights[d] * scores[d]
  BY <1>1
<1>3. PICK g : g = [d \in D |-> 100 * Weights[d]]
  OBVIOUS
<1>4. \A d \in D : Weights[d] \in {5, 7, 8, 10, 12}
  BY <1>1 DEF Weights
<1>5. ASSUME NEW d \in D
      PROVE  f[d] \in Nat /\ g[d] \in Nat /\ f[d] <= g[d]
  <2>1. PICK w \in {5, 7, 8, 10, 12} : w = Weights[d]
    BY <1>4
  <2>2. PICK n \in 0 .. 100 : n = scores[d]
    BY <1>1
  <2>3. f[d] = w * n /\ g[d] = 100 * w
    BY <1>2, <1>3, <2>1, <2>2
  <2>. QED
    BY <2>1, <2>2, <2>3
<1>6. IsFiniteSet(D)
  BY <1>1, WeightsAreFinite
<1>7. SumFunctionOnSet(g, D) = 9000
  BY ONLY <1>1, <1>3, WeightsAddUp
<1>8. SumFunctionOnSet(f, D) \in Nat /\ SumFunctionOnSet(f, D) <= SumFunctionOnSet(g, D)
  BY <1>5, <1>6, SumsCompare
<1>9. PICK n \in Nat : n = SumFunctionOnSet(f, D) /\ n <= 9000
  BY <1>7, <1>8
<1>10. SumFunction(f) = n
  BY <1>2, <1>9 DEF SumFunction
<1>12. n \in Nat /\ n <= 9000
  BY <1>9
<1>13. n \in 0 .. 9000
  BY ONLY <1>12
<1>. QED
  BY ONLY <1>10, <1>13

(* Their mean is a score.                                                   *)
LEMMA MeanOfScores ==
  ASSUME NEW S, IsFiniteSet(S), NEW f, DOMAIN f = S, \A x \in S : f[x] \in 0 .. 100, S # {}
  PROVE  HalfEven(SumFunction(f), Cardinality(S)) \in 0 .. 100
<1>1. PICK d \in Nat \ {0} : d = Cardinality(S)
  BY FS_CardinalityType, FS_EmptySet
<1>2. PICK n \in Nat : n = SumFunction(f) /\ n <= 100 * d
  BY <1>1, SumOfManyScores DEF SumFunction
<1>. QED
  BY <1>1, <1>2, RoundedScore

(* The pairs of outcomes are rows of outcomes the two markets have.         *)
LEMMA MappingsOfPair ==
  ASSUME NEW l, NEW r, IsFiniteSet(l.labels)
  PROVE  /\ IsFiniteSet(MapOutcomes(l, r))
         /\ \A m \in MapOutcomes(l, r) :
              /\ m.relation \in {"SAME", "INVERSE", "PARTIAL", "UNKNOWN"} /\ m.score \in 0 .. 100
              /\ m.left \in l.labels /\ m.right \in r.labels \cup {None}
         /\ OutcomeMapping(MapOutcomes(l, r)) \in 0 .. 100
<1>1. /\ IsFiniteSet(MapOutcomes(l, r))
      /\ \A m \in MapOutcomes(l, r) :
           /\ m.relation \in {"SAME", "INVERSE", "PARTIAL", "UNKNOWN"} /\ m.score \in 0 .. 100
           /\ m.left \in l.labels /\ m.right \in r.labels \cup {None}
  <2>1. CASE YesNo(l) /\ YesNo(r)
    <3> DEFINE Whole(m) == /\ m.relation \in {"SAME", "INVERSE"} /\ m.score \in {90, 100}
                           /\ m.left \in {"yes", "no"} /\ m.right \in {"yes", "no"}
    <3>0. /\ Whole(Mapping("yes", "no", "INVERSE", 90)) /\ Whole(Mapping("no", "yes", "INVERSE", 90))
          /\ Whole(Mapping("yes", "yes", "SAME", 100)) /\ Whole(Mapping("no", "no", "SAME", 100))
      BY DEF Mapping
    <3>1. PICK a, b : MapOutcomes(l, r) = {a, b} /\ Whole(a) /\ Whole(b)
      <4>. HIDE DEF Whole
      <4>1. CASE Negated(l) # Negated(r)
        BY <2>1, <3>0, <4>1 DEF MapOutcomes
      <4>2. CASE Negated(l) = Negated(r)
        BY <2>1, <3>0, <4>2 DEF MapOutcomes
      <4>. QED
        BY <4>1, <4>2
    <3>2. IsFiniteSet({a, b})
      <4>1. {a, b} = {a, b, a, b}
        OBVIOUS
      <4>. QED
        BY <4>1, FourAreFinite
    <3>3. l.labels = {"yes", "no"} /\ r.labels = {"yes", "no"}
      BY <2>1 DEF YesNo
    <3>. QED
      BY <3>1, <3>2, <3>3
  <2>2. CASE ~(YesNo(l) /\ YesNo(r))
    <3> DEFINE row(label) == IF label \in r.labels THEN Mapping(label, label, "PARTIAL", 100)
                             ELSE Mapping(label, None, "UNKNOWN", 0)
    <3>1. MapOutcomes(l, r) = {row(label) : label \in l.labels}
      BY <2>2 DEF MapOutcomes
    <3>2. \A label \in l.labels :
            /\ row(label).relation \in {"PARTIAL", "UNKNOWN"} /\ row(label).score \in {0, 100}
            /\ row(label).left = label /\ row(label).right \in r.labels \cup {None}
      BY DEF Mapping
    <3>. HIDE DEF row
    <3>3. PICK f : f = [label \in l.labels |-> row(label)]
      OBVIOUS
    <3>4. f \in Surjection(l.labels, MapOutcomes(l, r))
      BY <3>1, <3>3 DEF Surjection
    <3>5. IsFiniteSet(MapOutcomes(l, r))
      BY <3>4, FS_Surjection
    <3>. QED
      BY <3>1, <3>2, <3>5
  <2>. QED
    BY <2>1, <2>2
<1>2. PICK S : S = MapOutcomes(l, r)
  OBVIOUS
<1>3. S = {} => OutcomeMapping(S) \in 0 .. 100
  BY DEF OutcomeMapping
<1>4. ASSUME S # {} PROVE OutcomeMapping(S) \in 0 .. 100
  <2>1. PICK f : f = [m \in S |-> m.score]
    OBVIOUS
  <2>2. DOMAIN f = S /\ IsFiniteSet(S) /\ \A m \in S : f[m] \in 0 .. 100
    BY <1>1, <1>2, <2>1
  <2>3. HalfEven(SumFunction(f), Cardinality(S)) \in 0 .. 100
    BY <1>4, <2>2, MeanOfScores
  <2>4. OutcomeMapping(S) = HalfEven(SumFunction(f), Cardinality(S))
    BY <1>4, <2>1, Zenon DEF OutcomeMapping
  <2>. QED
    BY <1>2, <2>3, <2>4
<1>. QED
  BY <1>1, <1>2, <1>3, <1>4

-----------------------------------------------------------------------------

(* The dimensions of a pair, all of them with a score.                      *)
Scored(dimensions) ==
  /\ DOMAIN dimensions = DOMAIN Weights
  /\ \A d \in DOMAIN Weights : dimensions[d].score \in 0 .. 100

LEMMA WeightedIsScore ==
  ASSUME NEW dimensions, Scored(dimensions),
         NEW mappings, OutcomeMapping(mappings) \in 0 .. 100
  PROVE  Weighted(dimensions, mappings) \in 0 .. 100
<1>1. PICK scores : scores = [d \in DOMAIN Weights |-> dimensions[d].score]
  OBVIOUS
<1>2. \A d \in DOMAIN Weights : scores[d] = dimensions[d].score /\ scores[d] \in 0 .. 100
  BY <1>1 DEF Scored
<1>3. PICK f : f = [d \in DOMAIN Weights |-> Weights[d] * dimensions[d].score]
  OBVIOUS
<1>4. DOMAIN f = DOMAIN Weights /\ \A d \in DOMAIN Weights : f[d] = Weights[d] * scores[d]
  BY <1>2, <1>3
<1>5. SumFunction(f) \in 0 .. 9000
  BY <1>2, <1>4, SumOfWeighted
<1>6. Weighted(dimensions, mappings) = HalfEven(SumFunction(f) + OutcomeWeight * OutcomeMapping(mappings), 100)
  BY <1>3, Zenon DEF Weighted
<1>7. PICK n \in 0 .. 9000 : n = SumFunction(f)
  BY <1>5
<1>8. PICK o \in 0 .. 100 : o = OutcomeMapping(mappings)
  OBVIOUS
<1>9. PICK total \in Nat : total = n + 10 * o
  OBVIOUS
<1>10. PICK d \in Nat \ {0} : d = 100
  OBVIOUS
<1>11. HalfEven(total, 100) \in 0 .. 100
  <2>1. total <= 100 * d
    BY <1>9, <1>10
  <2>2. HalfEven(total, d) \in 0 .. 100
    BY ONLY total \in Nat, d \in Nat \ {0}, <2>1, RoundedScore
  <2>. QED
    BY <1>10, <2>2
<1>. QED
  BY <1>6, <1>7, <1>8, <1>9, <1>11 DEF OutcomeWeight

LEMMA FiveEvidence == AtMostMany(EvidenceDimensions, 5) /\ EvidenceDimensions \subseteq DOMAIN Weights
<1>1. PICK A : A = {"predicate"} \cup {"source"}
  OBVIOUS
<1>2. PICK B : B = A \cup {"temporal"}
  OBVIOUS
<1>3. PICK C : C = B \cup {"threshold"}
  OBVIOUS
<1>4. EvidenceDimensions = C \cup {"ambiguity"}
  BY <1>1, <1>2, <1>3 DEF EvidenceDimensions
<1>5. ASSUME NEW S, NEW n \in Nat, AtMostMany(S, n), NEW x, NEW T, T = S \cup {x},
             NEW k \in Nat, k = n + 1
      PROVE  AtMostMany(T, k)
  <2>1. /\ IsFiniteSet(T) /\ Cardinality(S) \in Nat
        /\ Cardinality(T) = Cardinality(S) \/ Cardinality(T) = Cardinality(S) + 1
    BY <1>5, OneMoreElement DEF AtMostMany
  <2>. QED
    BY <1>5, <2>1 DEF AtMostMany
<1>6. AtMostMany({"predicate"}, 1)
  <2>1. \A x : IsFiniteSet({x}) /\ Cardinality({x}) = 1
    BY FS_Singleton
  <2>. QED
    BY <2>1 DEF AtMostMany
<1>7. AtMostMany(A, 2)
  <2>1. 1 \in Nat /\ 2 \in Nat /\ 2 = 1 + 1
    OBVIOUS
  <2>. QED
    BY <1>1, <1>5, <1>6, <2>1, Zenon
<1>8. AtMostMany(B, 3)
  <2>1. 2 \in Nat /\ 3 \in Nat /\ 3 = 2 + 1
    OBVIOUS
  <2>. QED
    BY <1>2, <1>5, <1>7, <2>1, Zenon
<1>9. AtMostMany(C, 4)
  <2>1. 3 \in Nat /\ 4 \in Nat /\ 4 = 3 + 1
    OBVIOUS
  <2>. QED
    BY <1>3, <1>5, <1>8, <2>1, Zenon
<1>10. AtMostMany(EvidenceDimensions, 5)
  <2>1. 4 \in Nat /\ 5 \in Nat /\ 5 = 4 + 1
    OBVIOUS
  <2>. QED
    BY <1>4, <1>5, <1>9, <2>1, Zenon
<1>. QED
  BY <1>10 DEF EvidenceDimensions, Weights

LEMMA ConfidenceIsScore ==
  ASSUME NEW dimensions, Scored(dimensions), NEW flags
  PROVE  PairConfidence(dimensions, flags) \in 0 .. 100
<1>1. PICK f : f = [d \in EvidenceDimensions |-> dimensions[d].score]
  OBVIOUS
<1>2. DOMAIN f = EvidenceDimensions /\ \A d \in EvidenceDimensions : f[d] \in 0 .. 100
  BY <1>1, FiveEvidence DEF Scored
<1>3. IsFiniteSet(EvidenceDimensions)
  BY FiveEvidence DEF AtMostMany
<1>4. PICK d \in Nat : d = Cardinality(EvidenceDimensions) /\ d <= 5
  BY <1>3, FiveEvidence, FS_CardinalityType DEF AtMostMany
<1>5. PICK n \in Nat : n = SumFunction(f) /\ n <= 100 * d
  BY <1>2, <1>3, <1>4, SumOfManyScores DEF SumFunction
<1>6. PICK five \in Nat \ {0} : five = 5
  OBVIOUS
<1>7. PICK mean \in 0 .. 100 : mean = HalfEven(n, 5)
  <2>1. n <= 100 * five
    BY <1>4, <1>5, <1>6
  <2>2. HalfEven(n, five) \in 0 .. 100
    BY ONLY <2>1, RoundedScore
  <2>. QED
    BY <1>6, <2>2
<1>8. mean = HalfEven(SumFunction([e \in EvidenceDimensions |-> dimensions[e].score]), 5)
  BY <1>1, <1>5, <1>7, Zenon
<1>9. PICK c : c = IF "insufficient" \in flags THEN Lesser(mean, 55) ELSE mean
  OBVIOUS
<1>10. PairConfidence(dimensions, flags) = IF "ambiguous" \in flags THEN Lesser(c, 45) ELSE c
  BY <1>8, <1>9, Zenon DEF PairConfidence
<1>11. c \in 0 .. 100
  BY <1>9 DEF Lesser
<1>. QED
  BY <1>10, <1>11 DEF Lesser

(* What is stored of a comparison: its status asks for its permission.      *)
Found(found) ==
  /\ found.status \in DOMAIN Permission /\ found.permission = Permission[found.status]
  /\ found.score \in 0 .. 100 /\ found.confidence \in 0 .. 100

LEMMA AggregateIsFound ==
  ASSUME NEW dimensions, Scored(dimensions),
         NEW mappings, OutcomeMapping(mappings) \in 0 .. 100
  PROVE  Found(Aggregate(dimensions, mappings))
<1>1. PICK flags : flags = UNION {dimensions[d].flags : d \in DOMAIN dimensions}
  OBVIOUS
<1>2. PICK score \in 0 .. 100 : score = Weighted(dimensions, mappings)
  BY WeightedIsScore
<1>3. PICK status : status = Status(score, flags)
  OBVIOUS
<1>4. PICK confidence \in 0 .. 100 : confidence = PairConfidence(dimensions, flags)
  BY ConfidenceIsScore
<1>5. status \in DOMAIN Permission
  BY <1>3 DEF Status, Permission
<1>6. Aggregate(dimensions, mappings) =
        [status |-> status, permission |-> Permission[status], flags |-> flags,
         score |-> IF status = "NOT_EQUIVALENT" THEN Lesser(score, 45) ELSE score,
         confidence |-> confidence,
         reasons |-> UNION {dimensions[d].reasons : d \in DOMAIN dimensions}]
  BY <1>1, <1>2, <1>3, <1>4, Zenon DEF Aggregate
<1>. QED
  BY <1>5, <1>6 DEF Found, Lesser

(* A comparable pair has none of the flags.                                 *)
LEMMA ComparableHasNoFlags ==
  ASSUME NEW dimensions, NEW mappings, Aggregate(dimensions, mappings).permission \in Comparable,
         NEW d \in DOMAIN dimensions
  PROVE  dimensions[d].flags \cap (HardMismatches \cup {"ambiguous", "insufficient"}) = {}
<1>1. PICK flags : flags = UNION {dimensions[e].flags : e \in DOMAIN dimensions}
  OBVIOUS
<1>2. PICK status : status = Status(Weighted(dimensions, mappings), flags)
  OBVIOUS
<1>3. Aggregate(dimensions, mappings).permission = Permission[status]
  BY <1>1, <1>2 DEF Aggregate
<1>4. status \in DOMAIN Permission
  BY <1>2 DEF Status, Permission
<1>5. status \in {"EQUIVALENT", "NEAR_EQUIVALENT"}
  BY <1>3, <1>4 DEF Permission, Comparable
<1>6. flags \cap HardMismatches = {} /\ flags \cap {"ambiguous", "insufficient"} = {}
  BY <1>2, <1>5 DEF Status
<1>7. dimensions[d].flags \subseteq flags
  BY <1>1
<1>. QED
  BY <1>6, <1>7

(* So their terms agree.                                                    *)
TermsAgree(p, q) ==
  /\ p # None /\ q # None
  /\ p.deadline # None /\ q.deadline # None /\ p.deadline.day = q.deadline.day
  /\ p.threshold = q.threshold
  /\ Alike(p.source, q.source) >= 50
  /\ p.ambiguity < 80 /\ q.ambiguity < 80

LEMMA DimensionsNamed ==
  ASSUME NEW l, NEW r, NEW p, NEW q
  PROVE  /\ DOMAIN Dimensions(l, r, p, q) = DOMAIN Weights
         /\ {"source", "temporal", "threshold", "ambiguity", "rules"} \subseteq DOMAIN Dimensions(l, r, p, q)
BY DEF Dimensions, Weights

LEMMA ComparableAgree ==
  ASSUME NEW l, NEW r, NEW p \in MaybeTerms, NEW q \in MaybeTerms, NEW mappings,
         Aggregate(Dimensions(l, r, p, q), mappings).permission \in Comparable
  PROVE  TermsAgree(p, q)
<1>1. PICK dimensions : dimensions = Dimensions(l, r, p, q)
  OBVIOUS
<1> DEFINE Bad == HardMismatches \cup {"ambiguous", "insufficient"}
           Clear(flags) == flags \cap Bad = {}
<1>2. \A d \in DOMAIN dimensions : Clear(dimensions[d].flags)
  BY <1>1, ComparableHasNoFlags
<1>3. /\ Clear(VenueRules(p, q).flags) /\ Clear(Temporal(p, q).flags) /\ Clear(Threshold(p, q).flags)
      /\ Clear(AmbiguityCompatibility(p, q).flags)
      /\ Clear(Alignment(Field(p, "source", {}), Field(q, "source", {}), "RESOLUTION_SOURCE").flags)
  <2>1. /\ {"source", "temporal", "threshold", "ambiguity", "rules"} \subseteq DOMAIN dimensions
        /\ dimensions.rules = VenueRules(p, q) /\ dimensions.temporal = Temporal(p, q)
        /\ dimensions.threshold = Threshold(p, q)
        /\ dimensions.ambiguity = AmbiguityCompatibility(p, q)
        /\ dimensions.source = Alignment(Field(p, "source", {}), Field(q, "source", {}), "RESOLUTION_SOURCE")
    BY <1>1, DimensionsNamed DEF Dimensions
  <2>. HIDE DEF Clear
  <2>. QED
    BY <1>2, <2>1
<1>4. {"insufficient", "ambiguous", "DEADLINE", "THRESHOLD", "RESOLUTION_SOURCE"} \subseteq Bad
  BY DEF HardMismatches
<1>5. p # None /\ q # None
  BY <1>3, <1>4 DEF VenueRules, Dimension
<1>6. Field(p, "deadline", None) = p.deadline /\ Field(q, "deadline", None) = q.deadline
      /\ Field(p, "source", {}) = p.source /\ Field(q, "source", {}) = q.source
  BY <1>5 DEF Field
<1>. HIDE DEF Bad
<1>7. p.deadline # None /\ q.deadline # None /\ p.deadline.day = q.deadline.day
  BY <1>3, <1>4, <1>6 DEF Temporal, Dimension
<1>8. p.threshold = q.threshold
  BY <1>3, <1>4, <1>5 DEF Threshold, Dimension
<1>9. Alike(p.source, q.source) >= 50
  <2>1. PICK a : a = p.source /\ IsFiniteSet(a)
    BY <1>5, TermsShape
  <2>2. PICK b : b = q.source /\ IsFiniteSet(b)
    BY <1>5, TermsShape
  <2>3. Clear(Alignment(a, b, "RESOLUTION_SOURCE").flags)
    BY <1>3, <1>6, <2>1, <2>2
  <2>4. a # {} /\ (a = b \/ ~(Alike(a, b) < 50))
    BY <1>4, <2>3 DEF Alignment, Dimension
  <2>5. Alike(a, b) >= 50
    <3>1. PICK n \in 0 .. 100 : n = Alike(a, b)
      BY <2>1, <2>2, AlikeScores
    <3>2. CASE a = b
      <4>1. Alike(a, b) = 100
        BY <2>1, <2>4, <3>2, AlikeScores
      <4>. QED
        BY <4>1
    <3>. QED
      BY <2>4, <3>1, <3>2
  <2>. QED
    BY <2>1, <2>2, <2>5
<1>10. p.ambiguity < 80 /\ q.ambiguity < 80
  <2>1. PICK a \in 0 .. 100 : a = p.ambiguity
    BY <1>5, TermsShape
  <2>2. PICK b \in 0 .. 100 : b = q.ambiguity
    BY <1>5, TermsShape
  <2>3. ~(Greater(a, b) >= 80)
    BY <1>3, <1>4, <1>5, <2>1, <2>2 DEF AmbiguityCompatibility, Dimension
  <2>. QED
    BY <2>1, <2>2, <2>3 DEF Greater
<1>. QED
  BY <1>5, <1>7, <1>8, <1>9, <1>10 DEF TermsAgree

-----------------------------------------------------------------------------
(* Asked the other way round, the dimensions of two yes/no markets are the  *)
(* same.                                                                   *)
LEMMA MarketsMirrored ==
  ASSUME NEW l, NEW r, YesNo(l), YesNo(r)
  PROVE  /\ TitleSimilarity(l, r) = TitleSimilarity(r, l)
         /\ EventIdentity(l, r) = EventIdentity(r, l)
         /\ OutcomeStructure(l, r) = OutcomeStructure(r, l)
         /\ MapOutcomes(l, r) = MapOutcomes(r, l)
<1>1. Alike(l.title, r.title) = Alike(r.title, l.title) /\ Alike(l.event, r.event) = Alike(r.event, l.event)
  BY AlikeMirrored
<1>2. SameCategory(l, r) <=> SameCategory(r, l)
  BY DEF SameCategory
<1>3. TitleSimilarity(l, r) = TitleSimilarity(r, l)
  BY <1>1, Zenon DEF TitleSimilarity
<1>4. EventIdentity(l, r) = EventIdentity(r, l)
  <2>1. CASE l.event = None \/ r.event = None
    BY <2>1 DEF EventIdentity
  <2>2. CASE l.event # None /\ r.event # None /\ SameCategory(l, r)
    BY <1>1, <1>2, <2>2 DEF EventIdentity
  <2>3. CASE l.event # None /\ r.event # None /\ ~SameCategory(l, r)
    BY <1>1, <1>2, <2>3 DEF EventIdentity
  <2>. QED
    BY <2>1, <2>2, <2>3
<1>5. OutcomeStructure(l, r) = OutcomeStructure(r, l)
  BY DEF OutcomeStructure
<1>6. MapOutcomes(l, r) = MapOutcomes(r, l)
  BY DEF MapOutcomes
<1>. QED
  BY <1>3, <1>4, <1>5, <1>6

LEMMA TextsMirrored ==
  ASSUME NEW a, NEW b
  PROVE  /\ \A name : Alignment(a, b, name) = Alignment(b, a, name)
         /\ SettlementAuthority(a, b) = SettlementAuthority(b, a)
         /\ Timezone(a, b) = Timezone(b, a)
<1>1. \A name : Alignment(a, b, name) = Alignment(b, a, name)
  <2>1. Alike(a, b) = Alike(b, a)
    BY AlikeMirrored
  <2>. SUFFICES ASSUME NEW name PROVE Alignment(a, b, name) = Alignment(b, a, name)
    OBVIOUS
  <2>2. CASE a = {} \/ b = {}
    BY <2>2 DEF Alignment
  <2>3. CASE a # {} /\ b # {} /\ a = b
    BY <2>3
  <2>4. CASE a # {} /\ b # {} /\ a # b
    <3>1. CASE Alike(a, b) < 50
      BY <2>1, <2>4, <3>1 DEF Alignment
    <3>2. CASE ~(Alike(a, b) < 50)
      BY <2>1, <2>4, <3>2 DEF Alignment
    <3>. QED
      BY <3>1, <3>2
  <2>. QED
    BY <2>2, <2>3, <2>4
<1>2. SettlementAuthority(a, b) = SettlementAuthority(b, a)
  BY <1>1 DEF SettlementAuthority
<1>3. Timezone(a, b) = Timezone(b, a)
  BY DEF Timezone
<1>. QED
  BY <1>1, <1>2, <1>3

LEMMA RulesMirrored ==
  ASSUME NEW p \in MaybeTerms, NEW q \in MaybeTerms
  PROVE  /\ PredicateSimilarity(p, q) = PredicateSimilarity(q, p)
         /\ Temporal(p, q) = Temporal(q, p) /\ Threshold(p, q) = Threshold(q, p)
         /\ AmbiguityCompatibility(p, q) = AmbiguityCompatibility(q, p)
         /\ VenueRules(p, q) = VenueRules(q, p)
<1>1. CASE p = None \/ q = None
  BY <1>1 DEF PredicateSimilarity, Temporal, Threshold, AmbiguityCompatibility, VenueRules, Field
<1>2. CASE p # None /\ q # None
  <2>1. /\ Alike(p.subject, q.subject) = Alike(q.subject, p.subject)
        /\ Alike(p.condition, q.condition) = Alike(q.condition, p.condition)
        /\ Alike(p.disputes, q.disputes) = Alike(q.disputes, p.disputes)
    BY AlikeMirrored
  <2>2. PredicateSimilarity(p, q) = PredicateSimilarity(q, p)
    <3> DEFINE score(a, b) == Clamp((IF a.type = b.type THEN 35 ELSE 0)
                           + (IF a.comparator = b.comparator THEN 20 ELSE 0)
                           + HalfEven(Alike(a.subject, b.subject), 5)
                           + HalfEven(Alike(a.condition, b.condition), 4))
    <3>1. score(p, q) = score(q, p)
      <4>1. CASE p.type = q.type /\ p.comparator = q.comparator
        BY <2>1, <4>1, Zenon
      <4>2. CASE p.type # q.type /\ p.comparator = q.comparator
        BY <2>1, <4>2, Zenon
      <4>3. CASE p.type = q.type /\ p.comparator # q.comparator
        BY <2>1, <4>3, Zenon
      <4>4. CASE p.type # q.type /\ p.comparator # q.comparator
        BY <2>1, <4>4, Zenon
      <4>. QED
        BY <4>1, <4>2, <4>3, <4>4
    <3>2. \A a, b : a # None /\ b # None =>
            PredicateSimilarity(a, b) =
              Dimension(score(a, b), IF score(a, b) >= 70 THEN "PREDICATE_ALIGNED"
                                     ELSE "PREDICATE_WEAK_ALIGNMENT", {})
      BY Zenon DEF PredicateSimilarity
    <3>. HIDE DEF score
    <3>. QED
      BY <1>2, <3>1, <3>2
  <2>3. Temporal(p, q) = Temporal(q, p)
    BY DEF Temporal
  <2>4. Threshold(p, q) = Threshold(q, p)
    BY <1>2 DEF Threshold
  <2>5. AmbiguityCompatibility(p, q) = AmbiguityCompatibility(q, p)
    <3>1. PICK a \in 0 .. 100 : a = p.ambiguity
      BY <1>2, TermsShape
    <3>2. PICK b \in 0 .. 100 : b = q.ambiguity
      BY <1>2, TermsShape
    <3>3. Greater(a, b) = Greater(b, a) /\ Lesser(a, b) = Lesser(b, a)
      BY DEF Greater, Lesser
    <3>. QED
      BY <1>2, <3>1, <3>2, <3>3 DEF AmbiguityCompatibility
  <2>6. VenueRules(p, q) = VenueRules(q, p)
    <3>1. CASE p.disputes = {} /\ q.disputes = {}
      BY <1>2, <3>1 DEF VenueRules
    <3>2. CASE ~(p.disputes = {} /\ q.disputes = {})
      BY <1>2, <2>1, <3>2 DEF VenueRules
    <3>. QED
      BY <3>1, <3>2
  <2>. QED
    BY <2>2, <2>3, <2>4, <2>5, <2>6
<1>. QED
  BY <1>1, <1>2

LEMMA SidesMirrored ==
  ASSUME NEW l, NEW r, YesNo(l), YesNo(r), NEW p \in MaybeTerms, NEW q \in MaybeTerms
  PROVE  /\ Dimensions(l, r, p, q) = Dimensions(r, l, q, p)
         /\ MapOutcomes(l, r) = MapOutcomes(r, l)
BY MarketsMirrored, TextsMirrored, RulesMirrored, Zenon DEF Dimensions

-----------------------------------------------------------------------------
(* The tables.                                                             *)

Rules == [market : Markets, at : Days, terms : RuleTerms]
MaybeRule == Rules \cup {None}
Bases == [left : Listings, right : Listings, leftRule : MaybeRule, rightRule : MaybeRule]
ByThen(rule, t) == rule # None => rule.at <= t

RulesKept == contracts \in [Markets -> Listings] /\ eqRules \in SUBSET Rules

LEMMA RuleIsKnown ==
  ASSUME RulesKept, NEW m, NEW t \in Days
  PROVE  RuleAsOf(m, t) \in MaybeRule /\ ByThen(RuleAsOf(m, t), t)
<1>1. PICK S : S = {r \in RulesOf(m) : r.at <= t}
  OBVIOUS
<1>2. \A r \in S : r \in Rules /\ r.at \in 0 .. LastDay /\ r.at <= t
  BY <1>1 DEF RulesOf, RulesKept, Rules, Days
<1>3. RuleAsOf(m, t) = NewestOf(S)
  BY <1>1 DEF RuleAsOf
<1>4. CASE S = {}
  BY <1>3, <1>4 DEF NewestOf, MaybeRule, ByThen
<1>5. CASE S # {}
  <2>1. NewestOf(S) \in S
    BY <1>2, <1>5, NewestIsLast, ContractsAssumption
  <2>. QED
    BY <1>2, <1>3, <2>1 DEF MaybeRule, ByThen
<1>. QED
  BY <1>4, <1>5

LEMMA TermsAreKnown == \A rule \in MaybeRule : TermsIn(rule) \in MaybeTerms
BY DEF MaybeRule, Rules, TermsIn, MaybeTerms

LEMMA ListingIsFinite == \A c \in Listings : Finite(c)
BY ContractsAssumption DEF Finite

(* All rows there can be.                                                  *)
AllRows ==
  {row \in {RowFor(l, r, t, b) : l \in Markets, r \in Markets, t \in Days, b \in Bases} :
     /\ row.left # row.right
     /\ ByThen(row.basis.leftRule, row.at) /\ ByThen(row.basis.rightRule, row.at)}

LEMMA BasisIsFound == ASSUME NEW b \in Bases PROVE Found(FoundIn(b))
<1>1. PICK l \in Listings : l = b.left
  BY DEF Bases
<1>2. PICK r \in Listings : r = b.right
  BY DEF Bases
<1>3. PICK p \in MaybeTerms : p = TermsIn(b.leftRule)
  BY TermsAreKnown DEF Bases
<1>4. PICK q \in MaybeTerms : q = TermsIn(b.rightRule)
  BY TermsAreKnown DEF Bases
<1>5. Finite(l) /\ Finite(r)
  BY ListingIsFinite
<1>6. PICK dimensions : dimensions = Dimensions(l, r, p, q)
  OBVIOUS
<1>7. Scored(dimensions)
  BY <1>5, <1>6, DimensionScored, DimensionsNamed DEF Scored
<1>8. OutcomeMapping(MapOutcomes(l, r)) \in 0 .. 100
  BY <1>5, MappingsOfPair DEF Finite
<1>9. Found(Aggregate(dimensions, MapOutcomes(l, r)))
  BY <1>7, <1>8, AggregateIsFound
<1>10. FoundIn(b) = Aggregate(dimensions, MapOutcomes(l, r))
  BY <1>1, <1>2, <1>3, <1>4, <1>6, Zenon DEF FoundIn
<1>. QED
  BY <1>9, <1>10

LEMMA RowFields ==
  ASSUME NEW row \in AllRows
  PROVE  /\ row.left \in Markets /\ row.right \in Markets /\ row.left # row.right
         /\ row.at \in Days /\ row.basis \in Bases /\ row.found = FoundIn(row.basis)
         /\ Found(row.found)
         /\ ByThen(row.basis.leftRule, row.at) /\ ByThen(row.basis.rightRule, row.at)
<1>1. PICK l \in Markets, r \in Markets, t \in Days, b \in Bases : row = RowFor(l, r, t, b)
  BY DEF AllRows
<1>2. row.left = l /\ row.right = r /\ row.at = t /\ row.basis = b /\ row.found = FoundIn(b)
  BY <1>1 DEF RowFor
<1>3. /\ row.left # row.right
      /\ ByThen(row.basis.leftRule, row.at) /\ ByThen(row.basis.rightRule, row.at)
  BY DEF AllRows
<1>. QED
  BY <1>2, <1>3, BasisIsFound

LEMMA NewRow ==
  ASSUME RulesKept, NEW l \in Markets, NEW r \in Markets, l # r, NEW t \in Days
  PROVE  RowFor(l, r, t, Basis(l, r, t)) \in AllRows
<1>1. PICK b : b = Basis(l, r, t)
  OBVIOUS
<1>2. /\ b.leftRule = RuleAsOf(l, t) /\ b.rightRule = RuleAsOf(r, t)
      /\ b.left = contracts[l] /\ b.right = contracts[r]
      /\ b = [left |-> b.left, right |-> b.right, leftRule |-> b.leftRule, rightRule |-> b.rightRule]
  BY <1>1 DEF Basis
<1>3. contracts[l] \in Listings /\ contracts[r] \in Listings
  BY DEF RulesKept
<1>4. b \in Bases
  BY <1>2, <1>3, RuleIsKnown DEF Bases
<1>5. PICK row : row = RowFor(l, r, t, b)
  OBVIOUS
<1>6. row.left = l /\ row.right = r /\ row.at = t /\ row.basis = b
  BY <1>5 DEF RowFor
<1>7. ByThen(row.basis.leftRule, row.at) /\ ByThen(row.basis.rightRule, row.at)
  BY <1>2, <1>6, RuleIsKnown
<1>. QED
  BY <1>1, <1>4, <1>5, <1>6, <1>7 DEF AllRows

(* The mapping rows of a row.                                              *)
MappingOf(row, m) == [found |-> row.found, left |-> row.left, right |-> row.right, mapping |-> m]
Outcomes(row) == MapOutcomes(row.basis.left, row.basis.right)

RowsKept(rows, mappings) ==
  /\ IsFiniteSet(rows)
  /\ \A row \in rows : row \in AllRows /\ \A m \in Outcomes(row) : MappingOf(row, m) \in mappings
  /\ \A row, other \in rows : row.found = other.found => row = other
  /\ \A m \in mappings : MappingRow(m)
TablesHold(tables) ==
  /\ tables = [rows |-> tables.rows, mappings |-> tables.mappings, answers |-> tables.answers]
  /\ RowsKept(tables.rows, tables.mappings) /\ tables.answers \in Seq(AllRows)

LEMMA NewMappings ==
  ASSUME NEW row \in AllRows, NEW m \in Outcomes(row)
  PROVE  MappingRow(MappingOf(row, m))
<1>1. PICK l \in Listings : l = row.basis.left
  BY RowFields DEF Bases
<1>2. IsFiniteSet(l.labels)
  BY ContractsAssumption
<1>3. m.relation \in {"SAME", "INVERSE", "PARTIAL", "UNKNOWN"} /\ m.score \in 0 .. 100
  BY <1>1, <1>2, MappingsOfPair DEF Outcomes
<1>. QED
  BY <1>3 DEF MappingRow, MappingOf

(* An assessment keeps the tables.                                         *)
LEMMA StoredKeeps ==
  ASSUME RulesKept, NEW tables, TablesHold(tables),
         NEW l \in Markets, NEW r \in Markets, l # r, NEW t \in Days, NEW force
  PROVE  TablesHold(Stored(tables, l, r, t, force))
<1>1. PICK row : row = RowFor(l, r, t, Basis(l, r, t))
  OBVIOUS
<1>2. row \in AllRows
  BY <1>1, NewRow
<1>3. PICK same : same = {old \in tables.rows : old.found = row.found}
  OBVIOUS
<1>4. PICK kept : kept = Stored(tables, l, r, t, force)
  OBVIOUS
<1>5. kept = Kept(tables, row, force)
  BY <1>1, <1>4, Zenon DEF Stored
<1>6. CASE same # {} /\ ~force
  <2>1. PICK stored : stored = CHOOSE old \in same : TRUE
    OBVIOUS
  <2>2. kept = [tables EXCEPT !.answers = Append(@, stored)]
    BY <1>3, <1>5, <1>6, <2>1, Zenon DEF Kept
  <2>3. stored \in AllRows
    BY <1>3, <1>6, <2>1 DEF TablesHold, RowsKept
  <2>4. /\ kept.rows = tables.rows /\ kept.mappings = tables.mappings
        /\ kept.answers = Append(tables.answers, stored)
        /\ kept = [rows |-> kept.rows, mappings |-> kept.mappings, answers |-> kept.answers]
    BY <2>2 DEF TablesHold
  <2>5. kept.answers \in Seq(AllRows)
    BY <2>3, <2>4 DEF TablesHold
  <2>. QED
    BY <1>4, <2>4, <2>5 DEF TablesHold
<1>7. CASE ~(same # {} /\ ~force)
  <2>1. PICK more : more = {MappingOf(row, m) : m \in Outcomes(row)}
    OBVIOUS
  <2>2. kept = [rows |-> (tables.rows \ same) \cup {row}, mappings |-> tables.mappings \cup more,
                answers |-> Append(tables.answers, row)]
    BY <1>3, <1>5, <1>7, <2>1, Zenon DEF Kept, MappingOf, Outcomes
  <2>3. /\ kept.rows = (tables.rows \ same) \cup {row} /\ kept.mappings = tables.mappings \cup more
        /\ kept.answers = Append(tables.answers, row)
        /\ kept = [rows |-> kept.rows, mappings |-> kept.mappings, answers |-> kept.answers]
    BY <2>2
  <2>4. kept.answers \in Seq(AllRows)
    BY <1>2, <2>3 DEF TablesHold
  <2>5. IsFiniteSet(kept.rows)
    <3>1. IsFiniteSet(tables.rows \ same)
      BY FS_Subset DEF TablesHold, RowsKept
    <3>. QED
      BY <2>3, <3>1, FS_AddElement
  <2>6. \A old \in kept.rows : old \in AllRows /\ \A m \in Outcomes(old) : MappingOf(old, m) \in kept.mappings
    BY <1>2, <2>1, <2>3 DEF TablesHold, RowsKept
  <2>7. \A old, other \in kept.rows : old.found = other.found => old = other
    BY <1>3, <2>3 DEF TablesHold, RowsKept
  <2>8. \A m \in kept.mappings : MappingRow(m)
    BY <1>2, <2>1, <2>3, NewMappings DEF TablesHold, RowsKept
  <2>9. RowsKept(kept.rows, kept.mappings)
    BY <2>5, <2>6, <2>7, <2>8 DEF RowsKept
  <2>. QED
    BY <1>4, <2>3, <2>4, <2>9 DEF TablesHold
<1>. QED
  BY <1>6, <1>7

(* A scan keeps them, pair by pair.                                        *)
LEMMA ScanKeeps ==
  ASSUME RulesKept, TablesHold(Tables), NEW n \in Nat, NEW pairs, Len(pairs) = n,
         \A i \in 1 .. n : pairs[i][1] \in Markets /\ pairs[i][2] \in Markets /\ pairs[i][1] # pairs[i][2],
         NEW t \in Days, NEW force
  PROVE  TablesHold(StoredAll(pairs, t, force))
<1> DEFINE Next(tables, i) == Stored(tables, pairs[i][1], pairs[i][2], t, force)
           Steps(f, k) == f = [i \in 0 .. k |-> IF i = 0 THEN Tables ELSE Next(f[i - 1], i)]
           after == CHOOSE f : Steps(f, n)
           Exist == {k \in Nat : \E f : Steps(f, k)}
<1>1. StoredAll(pairs, t, force) = after[n]
  BY Zenon DEF StoredAll
<1>. HIDE DEF Next
<1>2. n \in Exist
  <2>1. 0 \in Exist
    <3>1. PICK f : f = [i \in 0 .. 0 |-> Tables]
      OBVIOUS
    <3>2. Steps(f, 0)
      BY <3>1
    <3>. QED
      BY <3>2
  <2>2. ASSUME NEW k \in Nat, k \in Exist PROVE k + 1 \in Exist
    <3>1. PICK f : Steps(f, k)
      BY <2>2
    <3>2. PICK g : g = [i \in 0 .. k + 1 |-> IF i = k + 1 THEN Next(f[k], k + 1) ELSE f[i]]
      OBVIOUS
    <3>3. ASSUME NEW i \in 0 .. k + 1
          PROVE  g[i] = IF i = 0 THEN Tables ELSE Next(g[i - 1], i)
      <4>1. CASE i = 0
        BY <3>1, <3>2, <4>1
      <4>2. CASE i \in 1 .. k
        <5>1. g[i] = f[i] /\ g[i - 1] = f[i - 1]
          BY <3>2, <4>2
        <5>2. f[i] = Next(f[i - 1], i)
          BY <3>1, <4>2
        <5>. QED
          BY <4>2, <5>1, <5>2
      <4>3. CASE i = k + 1
        <5>1. i - 1 = k /\ i # 0
          BY <4>3
        <5>2. g[i] = Next(f[k], i) /\ g[k] = f[k]
          BY <3>2, <4>3
        <5>. QED
          BY <5>1, <5>2
      <4>. QED
        BY <4>1, <4>2, <4>3
    <3>4. g = [i \in 0 .. k + 1 |-> g[i]]
      BY <3>2
    <3>5. Steps(g, k + 1)
      BY <3>3, <3>4
    <3>6. k + 1 \in Nat
      OBVIOUS
    <3>. HIDE DEF Steps
    <3>. QED
      BY <3>5, <3>6
  <2>. HIDE DEF Exist
  <2>. QED
    BY <2>1, <2>2, NaturalsByInduction
<1>3. Steps(after, n)
  <2>. HIDE DEF Steps
  <2>. QED
    BY <1>2
<1> DEFINE Good == {k \in Nat : k <= n => TablesHold(after[k])}
<1>. HIDE DEF after
<1>4. n \in Good
  <2>1. 0 \in Good
    BY <1>3
  <2>2. ASSUME NEW k \in Nat, k \in Good PROVE k + 1 \in Good
    <3>. SUFFICES ASSUME k + 1 <= n PROVE TablesHold(after[k + 1])
      OBVIOUS
    <3>1. TablesHold(after[k])
      BY <2>2
    <3>2. after[k + 1] = Next(after[k], k + 1)
      <4>1. PICK i \in 0 .. n : i = k + 1
        OBVIOUS
      <4>2. i # 0 /\ i - 1 = k
        BY <4>1
      <4>3. after[i] = Next(after[i - 1], i)
        BY <1>3, <4>2
      <4>. QED
        BY <4>1, <4>2, <4>3
    <3>3. TablesHold(Next(after[k], k + 1))
      BY <3>1, StoredKeeps DEF Next
    <3>. QED
      BY <3>2, <3>3
  <2>. HIDE DEF Good
  <2>. QED
    BY <2>1, <2>2, NaturalsByInduction
<1>. QED
  BY <1>1, <1>4

-----------------------------------------------------------------------------
(* The classes.                                                            *)

(* Edges between markets join each other to the same markets.               *)
LEMMA JoinedIsMutual ==
  ASSUME NEW edges, \A e \in edges : e \subseteq Markets, NEW m \in Markets, NEW n \in Markets
  PROVE  Joined(m, n, edges) => Joined(n, m, edges)
<1>. SUFFICES ASSUME Joined(m, n, edges), NEW S \in SUBSET Markets,
                     n \in S, \A e \in edges : e \cap S # {} => e \subseteq S, m \notin S
              PROVE  FALSE
  BY DEF Joined
<1>1. PICK T \in SUBSET Markets : T = Markets \ S
  OBVIOUS
<1>2. m \in T /\ n \notin T
  BY <1>1
<1>3. ASSUME NEW e \in edges, e \cap T # {} PROVE e \subseteq T
  <2>1. e \subseteq Markets /\ ~(e \subseteq S)
    BY <1>1, <1>3
  <2>2. e \cap S = {}
    BY <2>1
  <2>. QED
    BY <1>1, <2>1, <2>2
<1>. QED
  BY <1>2, <1>3 DEF Joined

LEMMA JoinedOnward ==
  ASSUME NEW edges, NEW m, NEW n, NEW o, Joined(m, n, edges), Joined(n, o, edges)
  PROVE  Joined(m, o, edges)
BY DEF Joined

LEMMA EdgeJoins ==
  ASSUME NEW edges, NEW e \in edges, NEW m \in e, NEW n \in e
  PROVE  Joined(m, n, edges)
BY DEF Joined

EdgesOf(rows, t) == {Pair(row) : row \in Eligible(rows, t)}
Component(m, edges) == {n \in Markets : Joined(m, n, edges)}

LEMMA ClassShape ==
  ASSUME NEW rows, NEW t, NEW c
  PROVE  c \in ClassesOf(rows, t) <=>
           \E m \in UNION EdgesOf(rows, t) : c = ClassOf(Component(m, EdgesOf(rows, t)), Eligible(rows, t), t)
BY Zenon DEF ClassesOf, EdgesOf, Component

LEMMA RowsOfMarkets ==
  ASSUME NEW rows \in SUBSET AllRows, NEW t
  PROVE  /\ \A e \in EdgesOf(rows, t) : e \subseteq Markets
         /\ \A row \in Eligible(rows, t) :
              /\ row \in rows /\ row.left # row.right /\ Pair(row) \in EdgesOf(rows, t)
              /\ row.found.score \in Int /\ row.found.score >= MinClassScore /\ row.found.score <= 100
              /\ row.at \in Int
<1>1. \A row \in rows : /\ row.left \in Markets /\ row.right \in Markets /\ row.left # row.right
                        /\ row.at \in Int /\ row.found.score \in 0 .. 100
  BY RowFields DEF Found, Days
<1>. QED
  BY <1>1 DEF EdgesOf, Eligible, Pair

LEMMA TwoAreMore ==
  ASSUME NEW S, IsFiniteSet(S), NEW a \in S, NEW b \in S, a # b
  PROVE  Cardinality(S) > 1
<1>1. PICK T : T = S \ {a}
  OBVIOUS
<1>2. IsFiniteSet(T) /\ Cardinality(T) = Cardinality(S) - 1
  BY <1>1, FS_RemoveElement
<1>3. Cardinality(T) \in Nat /\ Cardinality(T) # 0 /\ Cardinality(S) \in Nat
  BY <1>1, <1>2, FS_CardinalityType, FS_EmptySet
<1>. QED
  BY <1>2, <1>3

(* The oldest row of a pair is one of its rows.                            *)
LEMMA OldestIsOne ==
  ASSUME NEW rows, IsFiniteSet(rows), rows # {}, \A row \in rows : row.at \in Int
  PROVE  Oldest(rows) \in rows
<1>1. PICK times : times = {row.at : row \in rows}
  OBVIOUS
<1>2. PICK f : f = [row \in rows |-> row.at]
  OBVIOUS
<1>3. f \in Surjection(rows, times)
  BY <1>1, <1>2 DEF Surjection
<1>4. IsFiniteSet(times) /\ times \in SUBSET Int /\ times # {}
  BY <1>1, <1>3, FS_Surjection
<1>5. \E p \in times : \A q \in times : p <= q
  BY <1>4, LeastExists
<1>6. \E row \in rows : \A other \in rows : row.at <= other.at
  BY <1>1, <1>5
<1>. QED
  BY <1>6 DEF Oldest

LEMMA ClassesKept ==
  ASSUME NEW rows \in SUBSET AllRows, IsFiniteSet(rows), NEW t \in Days,
         NEW c \in ClassesOf(rows, t)
  PROVE  ClassRow(c)
<1>1. PICK edges : edges = EdgesOf(rows, t)
  OBVIOUS
<1>2. PICK eligible : eligible = Eligible(rows, t)
  OBVIOUS
<1>3. PICK m \in UNION edges : c = ClassOf(Component(m, edges), eligible, t)
  BY <1>1, <1>2, ClassShape
<1>4. /\ \A e \in edges : e \subseteq Markets
      /\ \A row \in eligible : /\ row \in rows /\ row.left # row.right /\ Pair(row) \in edges
              /\ row.found.score \in Int /\ row.found.score >= MinClassScore /\ row.found.score <= 100
              /\ row.at \in Int
  BY <1>1, <1>2, RowsOfMarkets
<1>5. PICK members : members = Component(m, edges)
  OBVIOUS
<1>6. Cardinality(members) > 1
  <2>1. PICK row \in eligible : m \in Pair(row)
    BY <1>1, <1>2 DEF EdgesOf
  <2>2. Pair(row) \in edges /\ Pair(row) \subseteq Markets /\ row.left # row.right
    BY <1>4
  <2>3. \A n \in Pair(row) : Joined(m, n, edges)
    BY <2>1, <2>2, EdgeJoins
  <2>4. row.left \in members /\ row.right \in members
    BY <1>5, <2>2, <2>3 DEF Component, Pair
  <2>5. IsFiniteSet(members)
    BY <1>5, ContractsAssumption, FS_Subset DEF Component
  <2>. QED
    BY <2>2, <2>4, <2>5, TwoAreMore
<1>7. PICK used : used = {Oldest({row \in eligible : Pair(row) = e}) :
                            e \in {Pair(row) : row \in {r \in eligible : Pair(r) \subseteq members}}}
  OBVIOUS
<1>8. used \subseteq eligible
  <2>. SUFFICES ASSUME NEW row \in {r \in eligible : Pair(r) \subseteq members}
                PROVE  Oldest({other \in eligible : Pair(other) = Pair(row)}) \in eligible
    BY <1>7
  <2>1. PICK S : S = {other \in eligible : Pair(other) = Pair(row)}
    OBVIOUS
  <2>2. S \subseteq rows
    BY <1>4, <2>1
  <2>3. IsFiniteSet(S)
    BY <2>2, FS_Subset
  <2>4. S # {} /\ \A other \in S : other.at \in Int
    BY <1>4, <2>1
  <2>5. Oldest(S) \in S
    BY <2>3, <2>4, OldestIsOne
  <2>. QED
    BY <2>1, <2>5
<1>9. c = [at |-> t, markets |-> members, found |-> {row.found : row \in used},
           permission |-> IF {row.found.permission : row \in used} = {"COMPARABLE"} THEN "COMPARABLE"
                          ELSE "COMPARABLE_WITH_HAIRCUT"]
  BY <1>3, <1>5, <1>7, Zenon DEF ClassOf
<1>10. \A found \in c.found : found.score \in MinClassScore .. 100
  BY <1>4, <1>8, <1>9, ScanAssumption
<1>11. c.permission \in Comparable
  BY <1>9 DEF Comparable
<1>. QED
  BY <1>6, <1>9, <1>10, <1>11 DEF ClassRow

(* The classes share no market, and each eligible pair is in one.          *)
LEMMA ClassesSeparate ==
  ASSUME NEW rows \in SUBSET AllRows, NEW t
  PROVE  /\ \A c, d \in ClassesOf(rows, t) : c # d => c.markets \cap d.markets = {}
         /\ \A row \in Eligible(rows, t) : \E c \in ClassesOf(rows, t) : Pair(row) \subseteq c.markets
<1>1. PICK edges : edges = EdgesOf(rows, t)
  OBVIOUS
<1>2. PICK eligible : eligible = Eligible(rows, t)
  OBVIOUS
<1>3. /\ \A e \in edges : e \subseteq Markets
      /\ \A row \in eligible : row.left # row.right /\ Pair(row) \in edges
  BY <1>1, <1>2, RowsOfMarkets
<1>4. \A m : ClassOf(Component(m, edges), eligible, t).markets = Component(m, edges)
  BY DEF ClassOf
<1>5. ASSUME NEW c \in ClassesOf(rows, t), NEW d \in ClassesOf(rows, t), c.markets \cap d.markets # {}
      PROVE  c = d
  <2>1. PICK m \in UNION edges : c = ClassOf(Component(m, edges), eligible, t)
    BY <1>1, <1>2, ClassShape
  <2>2. PICK n \in UNION edges : d = ClassOf(Component(n, edges), eligible, t)
    BY <1>1, <1>2, ClassShape
  <2>3. PICK x \in Markets : Joined(m, x, edges) /\ Joined(n, x, edges)
    BY <1>4, <1>5, <2>1, <2>2 DEF Component
  <2>4. m \in Markets /\ n \in Markets
    BY <1>3
  <2>5. Joined(x, m, edges) /\ Joined(x, n, edges)
    BY <1>3, <2>3, <2>4, JoinedIsMutual
  <2>6. Joined(m, n, edges) /\ Joined(n, m, edges)
    BY <2>3, <2>5, JoinedOnward
  <2>7. Component(m, edges) = Component(n, edges)
    BY <2>6, JoinedOnward DEF Component
  <2>. QED
    BY <2>1, <2>2, <2>7
<1>6. ASSUME NEW row \in eligible
      PROVE  \E c \in ClassesOf(rows, t) : Pair(row) \subseteq c.markets
  <2>1. Pair(row) \in edges /\ row.left \in Pair(row) /\ Pair(row) \subseteq Markets
    BY <1>3 DEF Pair
  <2>2. PICK c : c = ClassOf(Component(row.left, edges), eligible, t)
    OBVIOUS
  <2>3. c \in ClassesOf(rows, t)
    BY <1>1, <1>2, <2>1, <2>2, ClassShape
  <2>4. \A n \in Pair(row) : Joined(row.left, n, edges)
    BY <2>1, EdgeJoins
  <2>5. Pair(row) \subseteq Component(row.left, edges)
    BY <2>1, <2>4 DEF Component
  <2>6. c.markets = Component(row.left, edges)
    BY <1>4, <2>2
  <2>. QED
    BY <2>3, <2>5, <2>6
<1>. QED
  BY <1>2, <1>5, <1>6

-----------------------------------------------------------------------------

LEMMA PermissionsNamed ==
  Range(Permission) = {"COMPARABLE", "COMPARABLE_WITH_HAIRCUT", "MANUAL_REVIEW", "DO_NOT_COMPARE"}
<1>1. DOMAIN Permission = {"EQUIVALENT", "NEAR_EQUIVALENT", "RELATED", "NEEDS_REVIEW", "NOT_EQUIVALENT"}
  BY DEF Permission
<1>2. /\ Permission["EQUIVALENT"] = "COMPARABLE" /\ Permission["NEAR_EQUIVALENT"] = "COMPARABLE_WITH_HAIRCUT"
      /\ Permission["RELATED"] = "MANUAL_REVIEW" /\ Permission["NEEDS_REVIEW"] = "MANUAL_REVIEW"
      /\ Permission["NOT_EQUIVALENT"] = "DO_NOT_COMPARE"
  BY DEF Permission
<1>. QED
  BY <1>1, <1>2 DEF Range

LEMMA SummaryKept ==
  ASSUME NEW answers \in Seq(AllRows), NEW built
  PROVE  ScanSummaryRow(ScanSummary(answers, built))
<1>1. PICK n \in Nat : n = Len(answers)
  OBVIOUS
<1>2. PICK D : D = 1 .. n
  OBVIOUS
<1>3. DOMAIN answers = D /\ \A i \in D : answers[i] \in AllRows
  BY <1>1, <1>2
<1>4. IsFiniteSet(D) /\ Cardinality(D) = n
  <2>1. 1 \in Int /\ n \in Int
    OBVIOUS
  <2>2. /\ IsFiniteSet(1 .. n)
        /\ Cardinality(1 .. n) = IF 1 > n THEN 0 ELSE n - 1 + 1
    BY <2>1, FS_Interval
  <2>. QED
    BY <1>2, <2>2
<1>5. \A i \in D : /\ Found(answers[i].found)
                   /\ answers[i].left \in Markets /\ answers[i].right \in Markets
  BY <1>3, RowFields
<1>6. PICK is : is = [i \in D |-> answers[i].found.permission]
  OBVIOUS
<1>7. \A i \in D : is[i] = answers[i].found.permission /\ is[i] \in Range(Permission)
  BY <1>5, <1>6 DEF Found, Range
<1>8. PICK counts : counts = [p \in Range(Permission) |-> Cardinality({i \in D : answers[i].found.permission = p})]
  OBVIOUS
<1>9. SumFunction(counts) = n
  <2>1. \A p : {i \in D : answers[i].found.permission = p} = {i \in D : is[i] = p}
    BY <1>7
  <2>2. DOMAIN counts = Range(Permission)
        /\ \A p \in Range(Permission) : counts[p] = Cardinality({i \in D : is[i] = p})
    BY <1>8, <2>1
  <2>3. IsFiniteSet(Range(Permission))
    <3>1. IsFiniteSet({"COMPARABLE", "COMPARABLE_WITH_HAIRCUT", "MANUAL_REVIEW", "DO_NOT_COMPARE"})
      BY ONLY FourAreFinite, Zenon
    <3>. QED
      BY ONLY <3>1, PermissionsNamed, Zenon
  <2>. QED
    BY <1>4, <1>7, <2>2, <2>3, PartsAddUp
<1>10. PICK some : some = UNION {{i \in D : answers[i].found.permission = p} : p \in Comparable}
  OBVIOUS
<1>11. Cardinality(some) \in Nat /\ Cardinality(some) <= n
  <2>1. some \subseteq D
    BY <1>10
  <2>. QED
    BY <1>4, <2>1, FS_Subset, FS_CardinalityType
<1>12. PICK scores : scores = [i \in D |-> answers[i].found.score]
  OBVIOUS
<1>13. SumFunction(scores) \in Nat /\ SumFunction(scores) <= 100 * n
  <2>1. DOMAIN scores = D /\ \A i \in D : scores[i] \in 0 .. 100
    BY <1>5, <1>12 DEF Found
  <2>. QED
    BY <1>4, <2>1, SumOfManyScores DEF SumFunction
<1>14. PICK about : about = UNION {Pair(answers[i]) : i \in D}
  OBVIOUS
<1>15. Cardinality(about) <= Cardinality(Markets)
  <2>1. about \subseteq Markets
    BY <1>5, <1>14 DEF Pair
  <2>. QED
    BY <2>1, ContractsAssumption, FS_Subset
<1>16. ScanSummary(answers, built) =
         [assessments |-> n, classes |-> Cardinality(built), permissions |-> counts,
          comparable |-> Cardinality(some), scores |-> SumFunction(scores), markets |-> Cardinality(about)]
  <2> DEFINE Report(E) ==
         [assessments |-> Len(answers), classes |-> Cardinality(built),
          permissions |-> [p \in Range(Permission) |-> Cardinality({i \in E : answers[i].found.permission = p})],
          comparable |-> Cardinality(UNION {{i \in E : answers[i].found.permission = p} : p \in Comparable}),
          scores |-> SumFunction([i \in E |-> answers[i].found.score]),
          markets |-> Cardinality(UNION {Pair(answers[i]) : i \in E})]
  <2>1. ScanSummary(answers, built) = Report(DOMAIN answers)
    BY Zenon DEF ScanSummary
  <2>2. Report(DOMAIN answers) = Report(D)
    <3>. HIDE DEF Report
    <3>. QED
      BY <1>3
  <2>3. Report(D) =
         [assessments |-> n, classes |-> Cardinality(built), permissions |-> counts,
          comparable |-> Cardinality(some), scores |-> SumFunction(scores), markets |-> Cardinality(about)]
    BY <1>1, <1>8, <1>10, <1>12, <1>14, Zenon
  <2>. HIDE DEF Report
  <2>. QED
    BY <2>1, <2>2, <2>3
<1>. QED
  BY <1>9, <1>11, <1>13, <1>15, <1>16 DEF ScanSummaryRow

-----------------------------------------------------------------------------
(* Markets and rules are some of those there can be; every stored row is    *)
(* what its comparison found in what it was made from, with its mappings,  *)
(* and one row stands for a finding; candidates, classes and the last       *)
(* report are as declared.                                                 *)
EquivalenceInv ==
  /\ RulesKept /\ RowsKept(eqRows, eqMappings)
  /\ \A c \in candidates : CandidateRow(c)
  /\ \A c \in classes : ClassRow(c)
  /\ paired # None /\ "markets" \in DOMAIN paired => ScanSummaryRow(paired)

LEMMA EquivalenceInit_Inv == EquivalenceInit => EquivalenceInv
<1>. SUFFICES ASSUME EquivalenceInit PROVE EquivalenceInv
  OBVIOUS
<1>1. IsFiniteSet({})
  BY FS_EmptySet
<1>2. contracts \in [Markets -> Listings]
  <2>1. contracts = [m \in Markets |-> Contracts[m]]
    BY DEF EquivalenceInit
  <2>. QED
    BY <2>1 DEF Listings, Range, Markets
<1>. QED
  BY <1>1, <1>2 DEF EquivalenceInit, EquivalenceInv, RulesKept, RowsKept

(* What a call leaves behind is kept.                                      *)
LEMMA CallStep ==
  ASSUME EquivalenceInv, UNCHANGED <<contracts, eqRules>>,
         NEW tables, TablesHold(tables), StoreTables(tables),
         \A c \in candidates' : CandidateRow(c), \A c \in classes' : ClassRow(c),
         paired' # None /\ "markets" \in DOMAIN paired' => ScanSummaryRow(paired')
  PROVE  EquivalenceInv'
<1>1. RulesKept'
  BY DEF EquivalenceInv, RulesKept
<1>2. RowsKept(eqRows, eqMappings)'
  BY DEF TablesHold, StoreTables, RowsKept
<1>. QED
  BY <1>1, <1>2 DEF EquivalenceInv

(* What is captured, listed or analysed again leaves the tables alone.       *)
LEMMA ListingStep ==
  ASSUME EquivalenceInv, RulesKept',
         UNCHANGED <<eqRows, eqMappings, candidates, classes, paired>>
  PROVE  EquivalenceInv'
BY DEF EquivalenceInv, RowsKept

(* The pairs of a scan are of two markets and promising.                   *)
LEMMA PairsOfScan ==
  ASSUME RulesKept
  PROVE  /\ IsFiniteSet(ScanPairs)
         /\ \A p \in ScanPairs : /\ p[1] \in Markets /\ p[2] \in Markets /\ p[1] # p[2]
                                 /\ CandidateScore(CandidateOfPair(p)) \in MinCandidate .. 100
<1>1. IsFiniteSet(Markets \X Markets)
  BY ContractsAssumption, FS_Product
<1>2. \A p \in ScanPairs :
        /\ p \in Markets \X Markets /\ p[1] < p[2]
        /\ CandidateScore(CandidateOfPair(p)) >= MinCandidate
  BY DEF ScanPairs
<1>3. IsFiniteSet(ScanPairs)
  <2>1. ScanPairs \subseteq Markets \X Markets
    BY <1>2
  <2>. QED
    BY <1>1, <2>1, FS_Subset
<1>4. ASSUME NEW p \in ScanPairs
      PROVE  /\ p[1] \in Markets /\ p[2] \in Markets /\ p[1] # p[2]
             /\ CandidateScore(CandidateOfPair(p)) \in MinCandidate .. 100
  <2>1. p[1] \in Markets /\ p[2] \in Markets /\ p[1] < p[2]
    BY <1>2
  <2>2. p[1] # p[2]
    <3>1. \A a, b \in Int : a < b => a # b
      OBVIOUS
    <3>2. p[1] \in Int /\ p[2] \in Int
      BY <2>1, ContractsAssumption
    <3>. QED
      BY <2>1, <3>1, <3>2
  <2>3. PICK l \in Listings : l = contracts[p[1]]
    BY <2>1 DEF RulesKept
  <2>4. PICK r \in Listings : r = contracts[p[2]]
    BY <2>1 DEF RulesKept
  <2>5. PICK c : c = CandidateOf(l, r)
    OBVIOUS
  <2>6. c.title = Alike(l.title, r.title)
    BY <2>5 DEF CandidateOf
  <2>7. PICK a \in 0 .. 100 : a = c.title
    BY <2>6, ContractsAssumption, AlikeScores
  <2>8. PICK shared \in Nat : shared = IF c.shared # {} THEN 10 ELSE 0
    OBVIOUS
  <2>9. PICK n \in Nat : n = 85 * a + 100 * (shared + (IF c.category THEN 5 ELSE 0))
    BY <2>7, <2>8
  <2>10. HalfEven(n, 100) \in Int
    BY HalfEvenIsInt
  <2>11. CandidateScore(c) = Lesser(100, HalfEven(n, 100))
    BY <2>7, <2>8, <2>9, Zenon DEF CandidateScore
  <2>12. CandidateScore(c) \in Int /\ CandidateScore(c) <= 100
    BY <2>10, <2>11 DEF Lesser
  <2>13. CandidateOfPair(p) = c
    BY <2>3, <2>4, <2>5 DEF CandidateOfPair
  <2>. QED
    BY <1>2, <2>1, <2>2, <2>12, <2>13, ScanAssumption
<1>. QED
  BY <1>3, <1>4

LEMMA TodaysTables == ASSUME RowsKept(eqRows, eqMappings) PROVE TablesHold(Tables)
<1>1. Tables = [rows |-> eqRows, mappings |-> eqMappings, answers |-> <<>>]
  BY DEF Tables
<1>2. <<>> \in Seq(AllRows)
  OBVIOUS
<1>. QED
  BY <1>1, <1>2 DEF TablesHold

(* A rule is captured, or analysed again; a market changes.                 *)
LEMMA CaptureStep ==
  ASSUME EquivalenceInv, NEW m \in Markets, NEW terms \in RuleTerms, NEW at \in Days,
         CaptureTerms(m, terms, at)
  PROVE  EquivalenceInv'
<1>1. PICK same : same = {r \in RulesOf(m) : RuleIn(r.terms) = RuleIn(terms)}
  OBVIOUS
<1>2. PICK kept : kept = IF same = {} THEN terms ELSE (CHOOSE r \in same : TRUE).terms
  OBVIOUS
<1>3. eqRules' = (eqRules \ same) \cup {[market |-> m, at |-> at, terms |-> kept]}
  BY <1>1, <1>2, Zenon DEF CaptureTerms
<1>4. kept \in RuleTerms
  <2>1. \A r \in same : r.terms \in RuleTerms
    BY <1>1 DEF EquivalenceInv, RulesKept, RulesOf, Rules
  <2>. QED
    BY <1>2, <2>1
<1>5. [market |-> m, at |-> at, terms |-> kept] \in Rules
  BY <1>4 DEF Rules
<1>6. UNCHANGED <<contracts, eqRows, eqMappings, candidates, classes, paired>>
  BY DEF CaptureTerms
<1>7. RulesKept'
  BY <1>3, <1>5, <1>6 DEF EquivalenceInv, RulesKept
<1>. QED
  BY <1>6, <1>7, ListingStep

LEMMA AnalyzeStep ==
  ASSUME EquivalenceInv, NEW rule \in eqRules, NEW terms \in RuleTerms, AnalyzeAgain(rule, terms)
  PROVE  EquivalenceInv'
<1>1. /\ eqRules' = (eqRules \ {rule}) \cup {[rule EXCEPT !.terms = terms]}
      /\ UNCHANGED <<contracts, eqRows, eqMappings, candidates, classes, paired>>
  BY DEF AnalyzeAgain
<1>2. rule \in Rules
  BY DEF EquivalenceInv, RulesKept
<1>3. [rule EXCEPT !.terms = terms] \in Rules
  BY <1>2 DEF Rules
<1>4. RulesKept'
  BY <1>1, <1>3 DEF EquivalenceInv, RulesKept
<1>. QED
  BY <1>1, <1>4, ListingStep

LEMMA UpdateStep ==
  ASSUME EquivalenceInv, NEW m \in Markets, NEW c \in Listings, UpdateContract(m, c)
  PROVE  EquivalenceInv'
<1>1. /\ contracts' = [contracts EXCEPT ![m] = c]
      /\ UNCHANGED <<eqRules, eqRows, eqMappings, candidates, classes, paired>>
  BY DEF UpdateContract
<1>2. RulesKept'
  BY <1>1 DEF EquivalenceInv, RulesKept
<1>. QED
  BY <1>1, <1>2, ListingStep

(* A pair is assessed.                                                     *)
LEMMA AssessStep ==
  ASSUME EquivalenceInv, NEW l \in Markets, NEW r \in Markets, NEW t \in Days, NEW force,
         AssessPair(l, r, t, force)
  PROVE  EquivalenceInv'
<1>1. RulesKept /\ RowsKept(eqRows, eqMappings)
  BY DEF EquivalenceInv
<1>2. PICK tables : tables = Stored(Tables, l, r, t, force)
  OBVIOUS
<1>3. l # r /\ UNCHANGED <<contracts, eqRules, candidates, classes>> /\ StoreTables(tables)
      /\ paired' = [left |-> l, right |-> r, at |-> t, answer |-> tables.answers[1]]
  BY <1>2 DEF AssessPair, PairCall, AnswerPair
<1>4. TablesHold(tables)
  BY <1>1, <1>2, <1>3, StoredKeeps, TodaysTables
<1>5. DOMAIN paired' = {"left", "right", "at", "answer"}
  BY <1>3
<1>6. "markets" \notin DOMAIN paired'
  BY <1>5
<1>7. (\A c \in candidates' : CandidateRow(c)) /\ (\A c \in classes' : ClassRow(c))
  BY <1>3 DEF EquivalenceInv
<1>. QED
  BY <1>3, <1>4, <1>6, <1>7, CallStep

(* A scan.                                                                 *)
LEMMA ScanStep ==
  ASSUME EquivalenceInv, NEW t \in Days, NEW force, Scan(t, force)
  PROVE  EquivalenceInv'
<1>1. RulesKept /\ RowsKept(eqRows, eqMappings)
  BY DEF EquivalenceInv
<1>2. UNCHANGED <<contracts, eqRules>>
  BY DEF Scan, PairCall
<1>3. PICK order \in SetToSeqs(ScanPairs) : StoreScan(StoredAll(order, t, force), t)
  BY DEF Scan
<1>4. PICK n \in Nat : order \in [1 .. n -> ScanPairs] /\ Len(order) = n
  BY <1>1, <1>3, PairsOfScan, OrdersOfPairs
<1>5. PICK tables : tables = StoredAll(order, t, force)
  OBVIOUS
<1>6. TablesHold(tables)
  <2>1. \A i \in 1 .. n : order[i] \in ScanPairs
    BY <1>4
  <2>2. \A i \in 1 .. n : order[i][1] \in Markets /\ order[i][2] \in Markets /\ order[i][1] # order[i][2]
    BY <1>1, <2>1, PairsOfScan
  <2>3. TablesHold(Tables)
    BY <1>1, TodaysTables
  <2>. QED
    BY <1>1, <1>4, <1>5, <2>2, <2>3, ScanKeeps
<1>7. /\ StoreTables(tables) /\ classes' = classes \cup ClassesOf(tables.rows, t)
      /\ paired' = ScanSummary(tables.answers, ClassesOf(tables.rows, t))
  BY <1>3, <1>5 DEF StoreScan
<1>8. \A c \in candidates' : CandidateRow(c)
  <2>1. candidates' = candidates \cup
          {[pair |-> p, at |-> t, candidate |-> CandidateOfPair(p)] : p \in ScanPairs}
    BY DEF Scan
  <2>2. \A p \in ScanPairs : CandidateRow([pair |-> p, at |-> t, candidate |-> CandidateOfPair(p)])
    BY <1>1, PairsOfScan DEF CandidateRow
  <2>. QED
    BY <2>1, <2>2 DEF EquivalenceInv
<1>9. \A c \in classes' : ClassRow(c)
  <2>1. tables.rows \in SUBSET AllRows /\ IsFiniteSet(tables.rows)
    BY <1>6 DEF TablesHold, RowsKept
  <2>2. \A c \in ClassesOf(tables.rows, t) : ClassRow(c)
    BY <1>1, <2>1, ClassesKept
  <2>. QED
    BY <1>7, <2>2 DEF EquivalenceInv
<1>10. ScanSummaryRow(paired')
  <2>1. tables.answers \in Seq(AllRows)
    BY <1>6 DEF TablesHold
  <2>2. ScanSummaryRow(ScanSummary(tables.answers, ClassesOf(tables.rows, t)))
    BY <1>1, <2>1, SummaryKept
  <2>. QED
    BY <1>7, <2>2
<1>. QED
  BY <1>2, <1>6, <1>7, <1>8, <1>9, <1>10, CallStep

LEMMA EquivalenceStep == EquivalenceInv /\ [EquivalenceNext]_equivalenceVars => EquivalenceInv'
<1>. SUFFICES ASSUME EquivalenceInv, [EquivalenceNext]_equivalenceVars PROVE EquivalenceInv'
  OBVIOUS
<1>1. ASSUME NEW m \in Markets, NEW c \in Listings, UpdateContract(m, c) PROVE EquivalenceInv'
  BY <1>1, UpdateStep
<1>2. ASSUME NEW m \in Markets, NEW terms \in RuleTerms, NEW at \in Days, CaptureTerms(m, terms, at)
      PROVE  EquivalenceInv'
  BY <1>2, CaptureStep
<1>3. ASSUME NEW rule \in eqRules, NEW terms \in RuleTerms, AnalyzeAgain(rule, terms)
      PROVE  EquivalenceInv'
  BY <1>3, AnalyzeStep
<1>4. ASSUME NEW l \in Markets, NEW r \in Markets, NEW t \in Days, NEW force \in BOOLEAN,
             AssessPair(l, r, t, force)
      PROVE  EquivalenceInv'
  BY <1>4, AssessStep
<1>5. ASSUME NEW t \in Days, NEW force \in BOOLEAN, Scan(t, force) PROVE EquivalenceInv'
  BY <1>5, ScanStep
<1>6. CASE UNCHANGED equivalenceVars
  <2>1. UNCHANGED <<contracts, eqRules, eqRows, eqMappings, candidates, classes, paired>>
    BY <1>6 DEF equivalenceVars
  <2>2. RulesKept'
    BY <2>1 DEF EquivalenceInv, RulesKept
  <2>. QED
    BY <2>1, <2>2, ListingStep
<1>. QED
  BY <1>1, <1>2, <1>3, <1>4, <1>5, <1>6 DEF EquivalenceNext

(* What the invariant says of the tables.                                  *)
LEMMA EquivalenceInvSound == EquivalenceInv => EquivalenceSound
<1>. SUFFICES ASSUME EquivalenceInv PROVE EquivalenceSound
  OBVIOUS
<1>1. RulesKept /\ RowsKept(eqRows, eqMappings)
  BY DEF EquivalenceInv
<1>2. \A row \in eqRows : row \in AllRows
  BY <1>1 DEF RowsKept
<1>3. EquivalenceTypeOK
  <2>1. \A row \in eqRows : EquivalenceRow(row)
    BY <1>2, RowFields DEF EquivalenceRow, Found
  <2>2. \A row \in eqRows : \A m \in MapOutcomes(row.basis.left, row.basis.right) :
          [found |-> row.found, left |-> row.left, right |-> row.right, mapping |-> m] \in eqMappings
    BY <1>1 DEF RowsKept, Outcomes, MappingOf
  <2>3. (\A row, other \in eqRows : row.found = other.found => row = other)
        /\ (\A m \in eqMappings : MappingRow(m))
    BY <1>1 DEF RowsKept
  <2>. QED
    BY <2>1, <2>2, <2>3 DEF EquivalenceTypeOK, EquivalenceInv
<1>4. ASSUME NEW row \in eqRows
      PROVE  \E p \in MaybeTerms, q \in MaybeTerms, l \in Listings, r \in Listings :
               /\ p = TermsIn(row.basis.leftRule) /\ q = TermsIn(row.basis.rightRule)
               /\ l = row.basis.left /\ r = row.basis.right
               /\ row.found = Aggregate(Dimensions(l, r, p, q), MapOutcomes(l, r))
               /\ FoundIn(Mirrored(row.basis)) = Aggregate(Dimensions(r, l, q, p), MapOutcomes(r, l))
  <2>1. row.basis \in Bases /\ row.found = FoundIn(row.basis)
    BY <1>2, RowFields
  <2>2. PICK b : b = row.basis
    OBVIOUS
  <2>3. PICK p \in MaybeTerms : p = TermsIn(b.leftRule)
    BY <2>1, <2>2, TermsAreKnown DEF Bases
  <2>4. PICK q \in MaybeTerms : q = TermsIn(b.rightRule)
    BY <2>1, <2>2, TermsAreKnown DEF Bases
  <2>5. FoundIn(b) = Aggregate(Dimensions(b.left, b.right, p, q), MapOutcomes(b.left, b.right))
    BY <2>3, <2>4, Zenon DEF FoundIn
  <2>6. PICK o : o = Mirrored(b)
    OBVIOUS
  <2>7. o.left = b.right /\ o.right = b.left /\ o.leftRule = b.rightRule /\ o.rightRule = b.leftRule
    BY <2>6 DEF Mirrored
  <2>8. FoundIn(o) = Aggregate(Dimensions(b.right, b.left, q, p), MapOutcomes(b.right, b.left))
    BY <2>3, <2>4, <2>7, Zenon DEF FoundIn
  <2>. b.left \in Listings /\ b.right \in Listings
    BY <2>1, <2>2 DEF Bases
  <2>. WITNESS p \in MaybeTerms, q \in MaybeTerms, b.left \in Listings, b.right \in Listings
  <2>. QED
    BY <2>1, <2>2, <2>3, <2>4, <2>5, <2>6, <2>8, Zenon
<1>5. ComparableTermsAgree
  <2>1. ASSUME NEW row \in eqRows, row.found.permission \in Comparable
        PROVE  /\ TermsAgree(TermsIn(row.basis.leftRule), TermsIn(row.basis.rightRule))
               /\ row.basis.leftRule.at <= row.at /\ row.basis.rightRule.at <= row.at
    <3>1. PICK p \in MaybeTerms, q \in MaybeTerms, l \in Listings, r \in Listings :
             /\ p = TermsIn(row.basis.leftRule) /\ q = TermsIn(row.basis.rightRule)
             /\ row.found = Aggregate(Dimensions(l, r, p, q), MapOutcomes(l, r))
      BY <1>4, Zenon
    <3>2. TermsAgree(p, q)
      BY <2>1, <3>1, ComparableAgree
    <3>3. row.basis.leftRule # None /\ row.basis.rightRule # None
      BY <3>1, <3>2 DEF TermsAgree, TermsIn
    <3>4. row.basis.leftRule.at <= row.at /\ row.basis.rightRule.at <= row.at
      BY <1>2, <3>3, RowFields DEF ByThen
    <3>. QED
      BY <3>1, <3>2, <3>4
  <2>. QED
    BY <2>1 DEF ComparableTermsAgree, TermsAgree
<1>6. SidesDoNotMatter
  <2>1. ASSUME NEW row \in eqRows, YesNo(row.basis.left), YesNo(row.basis.right)
        PROVE  FoundIn(Mirrored(row.basis)) = row.found
    <3>1. PICK p \in MaybeTerms, q \in MaybeTerms, l \in Listings, r \in Listings :
             /\ l = row.basis.left /\ r = row.basis.right
             /\ row.found = Aggregate(Dimensions(l, r, p, q), MapOutcomes(l, r))
             /\ FoundIn(Mirrored(row.basis)) = Aggregate(Dimensions(r, l, q, p), MapOutcomes(r, l))
      BY <1>4
    <3>2. /\ Dimensions(l, r, p, q) = Dimensions(r, l, q, p)
          /\ MapOutcomes(l, r) = MapOutcomes(r, l)
      BY <2>1, <3>1, SidesMirrored
    <3>. QED
      BY <3>1, <3>2
  <2>. QED
    BY <2>1 DEF SidesDoNotMatter
<1>7. ClassesSeparateMarkets
  <2>1. eqRows \in SUBSET AllRows
    BY <1>2
  <2>. QED
    BY <2>1, ClassesSeparate, Zenon DEF ClassesSeparateMarkets
<1>. QED
  BY <1>3, <1>5, <1>6, <1>7 DEF EquivalenceSound

(* Whatever order rules arrive in, though they return, are analysed again    *)
(* and their markets change, an equivalence assessment permits a comparison *)
(* only of terms that agreed when it was made, is the same for either order *)
(* of the markets, and the classes built from the stored ones separate the  *)
(* markets (equivalence/service.py:55, aggregation.py:209).                 *)
THEOREM EquivalenceIsSound == EquivalenceSpec => []EquivalenceSound
<1>1. EquivalenceInit => EquivalenceInv
  BY EquivalenceInit_Inv
<1>2. EquivalenceInv /\ [EquivalenceNext]_equivalenceVars => EquivalenceInv'
  BY EquivalenceStep
<1>3. EquivalenceInv => EquivalenceSound
  BY EquivalenceInvSound
<1>. QED
  BY <1>1, <1>2, <1>3, PTL DEF EquivalenceSpec
=============================================================================
