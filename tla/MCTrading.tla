------------------------------ MODULE MCTrading ------------------------------
(***************************************************************************)
(* The pre-trade service and paper simulation runs.  A behaviour is of one *)
(* part, chosen at the start.                                              *)
(***************************************************************************)
EXTENDS GateService, PaperRun

CONSTANTS m1, m2, m3, yes, v1, ev, r1, r2

VARIABLE part
tradingVars == <<part, evidenceVars, gateVars, vars, runVars>>

-----------------------------------------------------------------------------
\* two markets of one event and venue
Place(n, m) == [place |-> n, MARKET |-> m, EVENT |-> ev, VENUE |-> v1]
MCPlaces == m1 :> Place(1, m1) @@ m2 :> Place(2, m2)
Fact(kind, m, n, content) == [kind |-> kind, markets |-> {m}, at |-> 1, n |-> n, content |-> content]
MCFirstRows ==
  {Fact("rule", m1, 1, [risk |-> 20]), Fact("book", m1, 2, [thin |-> FALSE]),
   Fact("rule", m2, 3, [risk |-> 60])}
\* ids in another order than their numbers, and all different
MCIdOrder == [n \in Nat |-> (41 * (n \div 41)) + ((17 * n) % 41)]
MCLimits ==
  [maxOrder |-> 1, maxMarket |-> 5, maxEvent |-> 10, maxVenue |-> 20, maxStrategy |-> None,
   maxSpread |-> 10, maxSpreadBps |-> 1000, needActive |-> TRUE, needRule |-> TRUE,
   needVerdict |-> FALSE, needQuality |-> FALSE, allowUnknownExposure |-> TRUE, minQuality |-> 60,
   maxResolution |-> 80, maxIntegrity |-> 80, maxDivergence |-> 70, maxStale |-> 3600]
LaterPolicy ==
  [id |-> "later", created |-> 1, active |-> TRUE, from |-> 2, until |-> None,
   limits |-> [MCLimits EXCEPT !.maxOrder = 2, !.needActive = FALSE]]

Rule(type, scope, target, until) ==
  [type |-> type, cap |-> None, scope |-> scope, target |-> target, active |-> TRUE, from |-> None,
   until |-> until]
MCSavedRules == {Rule("NO_TRADE", "EVENT", ev, 1), [Rule("SIZE_LIMIT", "MARKET", m1, None) EXCEPT !.cap = 1]}
Held(m, asof, units) ==
  [gen |-> 0, MARKET |-> m, EVENT |-> None, VENUE |-> None, strategy |-> None, asof |-> asof,
   units |-> [market |-> units, event |-> units, venue |-> units, strategy |-> None]]
MCSavedExposures == {Held(m1, 1, 4), Held(None, 2, 0), Held(None, 1, 5)}
Intent(strategy, t) ==
  [market |-> m1, strategy |-> strategy, type |-> "AGGRESSIVE_LIMIT", size |-> 2, asof |-> t]
MCRequests ==
  [intent : {Intent("RESEARCH", 1), Intent("RESEARCH", 2), Intent("CROSS_VENUE_COMPARISON", 1)},
   policy : {None, "later"}, force : BOOLEAN]
MCRunRequests == [markets : {{}, {m2, m3}}, asof : {2}, policy : {None, "later"}, most : {1, 10}]
MCSavedPolicies == {LaterPolicy}
Row(kind, ms, t, content) == [kind |-> kind, markets |-> ms, at |-> t, content |-> content]
MCFacts ==
  {Row("integrity", {m1}, 2, [risk |-> 85, hint |-> "NONE"]), Row("quality", {m1}, 1, [score |-> 40, stale |-> None]),
   Row("liquidity", {m1}, 1, [spread |-> 20]),
   Row("divergence", {m1, m2}, 1, [status |-> "DO_NOT_COMPARE", score |-> 0])}
    \cup {Row("rule", {m1}, t, [risk |-> 90]) : t \in Times}
    \cup {Row("equivalence", {m1, m2}, 1, [permission |-> permission]) : permission \in {"COMPARABLE", "MANUAL_REVIEW"}}

\* one fact before the first check and one between it and the second, of the same intent
Arrived == Cardinality({r \in rows : r.kind # "verdict"}) - Cardinality(FirstRows)
Arriving ==
  /\ Arrived <= Len(checks)
  /\ \E f \in Facts : StoreFact(f.kind, f.markets, f.at, f.content)

\* a behaviour ends with its second check, or with a run
Checking ==
  /\ UNCHANGED <<vars, runVars>>
  /\ Len(checks) < MaxChecks /\ gateRuns = <<>>
  /\ \/ Arriving
     \/ \E r \in SavedRules : SaveRestriction(r)
     \/ \E e \in SavedExposures : SaveExposure(e)
     \/ \E p \in SavedPolicies : SaveGatePolicy(p)
     \/ checks # <<>> /\ ChangeStatus(m1)
     \/ \E q \in Requests :
          /\ checks # <<>> => q.intent = checks[1].intent
          /\ q.force => checks # <<>>
          /\ CheckIntent(q.intent, q.policy, q.force)
     \/ \E q \in RunRequests : RunChecks(q.markets, q.asof, q.policy, q.most)

-----------------------------------------------------------------------------
Level(p, q) == [price |-> p, qty |-> q]
Order(side, size, asof) ==
  [mkt |-> m1, out |-> yes, ven |-> v1, run |-> None, side |-> side,
   type |-> "AGGRESSIVE_LIMIT", limit |-> None, size |-> size, asof |-> asof]
Bought == Order("BUY", 2, 1)
Sold == Order("SELL", 1, 2)
MCMarketOrder == <<m1, m2>>
MCAlive == m1 :> [from |-> 1, to |-> 2] @@ m2 :> [from |-> 3, to |-> 3]
MCPlans ==
  {<<Bought, Sold>>, <<Sold, Bought>>, <<Bought, [Bought EXCEPT !.mkt = m3, !.asof = 3]>>, <<>>,
   GridPlan(Bought, 1, 2, 1)}
MCIntents == {[i EXCEPT !.run = id] : i \in UNION {Range(p) : p \in MCPlans}, id \in {r1, r2}}
MCDecisions == {[act |-> "ALLOW", final |-> 2], [act |-> "ALLOW", final |-> 1],
                [act |-> "NO_TRADE", final |-> 0]}
MCPaperPolicies ==
  {[id |-> "default", model |-> "IMMEDIATE_WALK_BOOK", shorts |-> FALSE, partial |-> TRUE,
    smaller |-> TRUE, passive |-> TRUE, rejectMR |-> TRUE, rejectNT |-> TRUE,
    requireAllow |-> TRUE, feeBps |-> 5000]}
MCBooks == {[mkt |-> m1, captured |-> 1, asks |-> {Level(3, 1), Level(4, 2)},
             bids |-> {Level(1, 5), Level(2, 1)}]}

Running == UNCHANGED <<evidenceVars, gateVars>> /\ RunNext

-----------------------------------------------------------------------------
Parts == {"gate", "runs"}
TradingInit == part \in Parts /\ GateServiceInit /\ RunInit
TradingNext ==
  /\ UNCHANGED part
  /\ \/ part = "gate" /\ Checking
     \/ part = "runs" /\ Running
TradingSpec == TradingInit /\ [][TradingNext]_tradingVars
=============================================================================
