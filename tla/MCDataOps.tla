------------------------------ MODULE MCDataOps ------------------------------
(***************************************************************************)
(* The five parts of data operations, one per behaviour: the part is       *)
(* chosen at the start and the others stay as they are.                    *)
(***************************************************************************)
EXTENDS Backfill, Collection, Coverage, VendorData, Normalizers

CONSTANTS a, b, k1, k2, p1, t1, t2, c1, g1, e1

VARIABLE part
vars == <<part, backfillVars, collectionVars, coverageVars, vendorVars, feedVars>>

-----------------------------------------------------------------------------
MCPoints == [m \in Markets |-> IF m = a THEN {0, 2} ELSE {1}]
MCRank == [x \in Markets \cup EndpointTypes \cup {None} |->
             IF x = a THEN 1 ELSE IF x = b THEN 2 ELSE IF x = "ORDERBOOK" THEN 3
             ELSE IF x = "PRICE_HISTORY" THEN 4 ELSE 0]
MCJobRequests ==
  [venue : {"polymarket"}, markets : {{}, {a, b}}, endpoints : {{"PRICE_HISTORY"}, EndpointTypes},
   start : {0, 2}, end : {2}, interval : {1, None}, max : {3, 9}]
  \cup [venue : {"kalshi"}, markets : {{a}}, endpoints : {EndpointTypes},
        start : {0}, end : {1}, interval : {None}, max : {9}]

-----------------------------------------------------------------------------
MCVenueMarkets == [v \in VenueNames |-> IF v = "kalshi" THEN <<k1, k2>> ELSE <<p1>>]
MCFixtures ==
  [v \in VenueNames |-> <<[endpoint |-> "MARKET_LIST", market |-> None],
                          [endpoint |-> "ORDERBOOK", market |-> IF v = "kalshi" THEN k1 ELSE p1]>>]
MCTokens == [m \in {k1, k2, p1} |-> IF m = p1 THEN <<t1, t2>> ELSE <<>>]
Asking(mode, network, venues, endpoints, markets, max) ==
  [mode |-> mode, network |-> network, venues |-> venues, endpoints |-> endpoints,
   markets |-> markets, max |-> max, planMax |-> None]
Both == <<"kalshi", "polymarket">>
MCCollections ==
  {Asking("FIXTURE", FALSE, <<"polymarket">>, <<>>, {}, None),
   Asking("MIXED", FALSE, Both, <<>>, {}, None),
   Asking("MANUAL_PUBLIC_FETCH", TRUE, Both, <<>>, {}, 1),
   Asking("MANUAL_PUBLIC_FETCH", TRUE, <<"polymarket">>, <<"MARKET_DETAIL", "ORDERBOOK">>, {}, 2),
   Asking("MANUAL_PUBLIC_FETCH", TRUE, <<"polymarket">>, <<"PRICE_HISTORY">>, {p1}, None),
   Asking("MANUAL_PUBLIC_FETCH", TRUE, Both, <<"PRICE_HISTORY">>, {}, 2),
   Asking("MIXED", TRUE, <<"kalshi">>, <<"MARKET_LIST", "TRADES">>, {}, 2)}

-----------------------------------------------------------------------------
MCHeld == {[market |-> a, kind |-> k, at |-> 0] : k \in Kinds \ {"price"}}
   \cup {[market |-> b, kind |-> k, at |-> 0] : k \in Kinds \ {"orderbook"}}

\* the markets of a scope are visited in one order, a scope again as of the same time; rows arrive
\* for one of the two markets, and one closes once
Walking ==
  \/ \E t \in 0 .. today, force \in BOOLEAN : (force => builds = 1) /\ BuildMarketUniverse(t, force)
  \/ \E scope \in {"GLOBAL", "UNIVERSE"}, t \in 0 .. today :
       /\ cycles = 1 => scope = report.scope /\ t = report.asof
       /\ BeginCycle(scope, t)
  \/ /\ walk.left # {}
     /\ LET x == CHOOSE x \in walk.left : TRUE IN VisitForReport(x) \/ VisitForGaps(x)
  \/ SaveReport \/ SaveGaps
  \/ \E kind \in {"price", "rule"}, t \in 0 .. today : StoreFact(a, kind, t)
  \/ \E f \in facts, t \in 0 .. today : t # f.at /\ RecurRule(f, t)
  \/ b \in open /\ ChangeStatus(b)
  \/ CoverageTick

-----------------------------------------------------------------------------
MCColumns == <<"ask_price", "bid_price", "market_id", "price", "resolved", "side", "size", "timestamp",
               "token_id", "trade_id", "winner", "yes_ask", "yes_bid">>
\* "bid_price" ends with "_price", a trade name as well as a price name
MCRoles == [c \in ToSet(MCColumns) |->
  CASE c \in {"ask_price", "bid_price"} -> {"price", "book", "trade"}
    [] c = "price" -> {"price", "trade"}
    [] c = "market_id" -> {"market"}
    [] c = "side" -> {"book"}
    [] c = "resolved" -> {"resolution"}
    [] c = "winner" -> {}
    [] c = "size" -> {"size", "trade"}
    [] c = "timestamp" -> {"time"}
    [] c = "token_id" -> {"token"}
    [] c = "trade_id" -> {"trade"}
    [] OTHER -> {"price"}]
Priced(stamp, price) == [timestamp |-> stamp, market_id |-> "id", price |-> price]
Sized(side) == [timestamp |-> "stamp", market_id |-> "id", token_id |-> "id2", price |-> "low",
                size |-> "high", side |-> side]
Empty == [timestamp |-> "stamp", market_id |-> "id", token_id |-> "id2", bid_price |-> None,
          ask_price |-> None]
Quoted2(bid, ask) == [timestamp |-> "stamp", market_id |-> "id", yes_bid |-> bid, yes_ask |-> ask,
                      resolved |-> "yes", winner |-> "id2"]
MCFiles == {<<Priced("stamp", "low"), Priced("text", "high")>>,
            <<Priced("stamp", "zero"), Priced("zero", "over"), Priced("naive", "nan")>>,
            <<Sized("buy"), Sized(None)>>, <<Empty>>,
            <<Quoted2("low", "high"), Quoted2("high", "low")>>}
MCMappings ==
  {None, [name |-> "quotes", kind |-> "top_of_book_quotes", quotes |-> <<"yes_bid", "yes_ask">>,
          resolved |-> "resolved", winner |-> "winner",
          columns |-> [r \in {"time", "market", "token", "price", "book", "trade", "resolution"} |-> <<>>]]}

-----------------------------------------------------------------------------
KalshiEntry(ticker, status, bidCents, bidDollars, askCents, askDollars) ==
  [ticker |-> ticker, event |-> None, series |-> None, status |-> status, bidCents |-> bidCents,
   rules |-> IF bidCents = None THEN "ruleA" ELSE "ruleB", bidDollars |-> bidDollars, askCents |-> askCents, askDollars |-> askDollars]
MCKalshiEntries ==
  {KalshiEntry(k1, "open", 98, None, None, None), KalshiEntry(k1, "halted", None, None, 1, 500),
   KalshiEntry(k1, "settled", 0, 610, None, 600), KalshiEntry(None, "finalized", None, None, None, None)}
Level(price, size) == [price |-> price, size |-> size]
MCKalshiBodies ==
  {[ticker |-> k1, event |-> e1, yes |-> {Level(58000, 120), Level(57000, 90)}, no |-> {Level(39000, 1)}],
   [ticker |-> k1, event |-> None, yes |-> {Level(6000, 2)}, no |-> {Level(93000, 2)}],
   [ticker |-> k1, event |-> None, yes |-> {Level(580, 3), Level(990, 0)}, no |-> {Level(430, 3)}],
   [ticker |-> k1, event |-> None, yes |-> {Level(1000, 5)}, no |-> {Level(96000, 2)}],
   [ticker |-> None, event |-> None, yes |-> {Level(580, 1)}, no |-> {}],
   [ticker |-> k1, event |-> None, yes |-> {}, no |-> {Level(101000, 1)}]}

Ids == <<[outcome |-> "Yes", id |-> t1], [outcome |-> "No", id |-> t2]>>
GammaEntry(condition, gamma, bid, ask, mid) ==
  [condition |-> condition, gamma |-> gamma, event |-> None, slug |-> None,
   rules |-> IF condition = None THEN None ELSE IF gamma = None THEN "ruleA" ELSE "ruleB", outcomes |-> <<"Yes", "No">>,
   clob |-> <<t1, t2>>, objects |-> <<>>, published |-> Ids, open |-> TRUE,
   bid |-> bid, ask |-> ask, mid |-> mid, resolved |-> FALSE, closed |-> FALSE, active |-> TRUE]
MCGammaEntries ==
  {[GammaEntry(c1, g1, 600, 640, None) EXCEPT !.event = e1],
   [GammaEntry(None, g1, None, None, 500) EXCEPT !.clob = None, !.objects = Ids],
   [GammaEntry(c1, g1, 985, None, None) EXCEPT !.outcomes = None, !.open = None, !.closed = TRUE],
   [GammaEntry(c1, None, None, 5, None) EXCEPT !.clob = <<t1>>, !.resolved = TRUE],
   GammaEntry(None, None, None, 1000, None)}
Body(condition, about, asset, bids, asks, points) ==
  [condition |-> condition, market |-> c1, asset |-> asset,
   about |-> about, asked |-> asset, bids |-> bids, asks |-> asks, points |-> points]
Point(token, at, price, available) ==
  [token |-> token, at |-> at, price |-> price, available |-> available]
MCTokenBodies ==
  {Body(c1, c1, t1, {Level(610, 100)}, {Level(640, 95)}, {Point(t1, 1, 620, 2)}),
   Body(c1, c1, t2, {Level(360, 80), Level(380, 0)}, {Level(390, 110)}, {Point(t2, 1, 370, None)})}
MCLiveBodies ==
  {Body(None, None, t1, {Level(610, 100)}, {Level(640, 95)}, {Point(None, 1, 620, None)}),
   Body(None, None, t2, {Level(360, 80)}, {}, {}),
   Body(None, None, None, {}, {Level(1200, 1)}, {Point(None, 1, 1200, None)})}

-----------------------------------------------------------------------------
Parts == {"backfill", "collection", "coverage", "vendor", "feed"}
Init == part \in Parts
        /\ BackfillInit /\ CollectionInit /\ CoverageInit /\ VendorInit /\ FeedInit

Backfilling == BackfillNext /\ UNCHANGED <<collectionVars, coverageVars, vendorVars, feedVars>>
Collecting == CollectionNext /\ UNCHANGED <<backfillVars, coverageVars, vendorVars, feedVars>>
Covering == Walking /\ UNCHANGED <<backfillVars, collectionVars, vendorVars, feedVars>>
Feeding == FeedNext /\ UNCHANGED <<backfillVars, collectionVars, coverageVars, vendorVars>>
Vending == VendorNext /\ UNCHANGED <<backfillVars, collectionVars, coverageVars, feedVars>>

Next ==
  /\ UNCHANGED part
  /\ \/ part = "backfill" /\ Backfilling
     \/ part = "collection" /\ Collecting
     \/ part = "coverage" /\ Covering
     \/ part = "vendor" /\ Vending
     \/ part = "feed" /\ Feeding

Spec == Init /\ [][Next]_vars
=============================================================================
