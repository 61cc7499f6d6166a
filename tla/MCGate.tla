-------------------------------- MODULE MCGate --------------------------------
(***************************************************************************)
(* Instances of the pre-trade gate.  The inputs vary in three groups, with *)
(* the other groups at a value that asks for nothing.                      *)
(***************************************************************************)
EXTENDS PreTradeGate

Intent(strategy, type) == [strategy |-> strategy, type |-> type, size |-> 10]
AllIntents ==
  {Intent(s, t) : s \in {"SINGLE_MARKET", "CROSS_VENUE_COMPARISON"},
                  t \in {"PASSIVE_LIMIT", "MARKET_LIKE"}}

Policy ==
  [maxOrder |-> 10, maxMarket |-> 12, maxEvent |-> 12, maxVenue |-> 12, maxStrategy |-> 12,
   maxSpread |-> 5, maxSpreadBps |-> 100,
   needActive |-> TRUE, needRule |-> TRUE, needVerdict |-> TRUE, needQuality |-> TRUE,
   allowUnknownExposure |-> FALSE,
   minQuality |-> 50, maxResolution |-> 60, maxIntegrity |-> 60, maxDivergence |-> 70,
   maxStale |-> 300]

SomePolicies ==
  {Policy,
   [Policy EXCEPT !.maxOrder = 6, !.allowUnknownExposure = TRUE, !.maxStrategy = None,
                  !.needActive = FALSE, !.needQuality = FALSE, !.maxSpread = None]}

(* Every context whose fields take their values from the sets of v.        *)
Vary(v) ==
  [active : v.active, rule : v.rule, verdict : v.verdict, restrictions : v.restrictions,
   quality : v.quality, spread : v.spread, spreadBps : v.spreadBps, integrity : v.integrity,
   equivalence : v.equivalence, divergences : v.divergences, exposure : v.exposure]

Quiet ==
  [active |-> {TRUE}, rule |-> {TRUE}, verdict |-> {[act |-> "ALLOW", risk |-> 0]},
   restrictions |-> {{}}, quality |-> {[score |-> 90, stale |-> 0]},
   spread |-> {1}, spreadBps |-> {None}, integrity |-> {None},
   equivalence |-> {TRUE}, divergences |-> {{[status |-> "CLEAN", score |-> 0]}},
   exposure |-> {[market |-> 0, event |-> 0, venue |-> 0, strategy |-> 0]}]

Limit(cap) == [type |-> "SIZE_LIMIT", cap |-> cap]
Rule(type) == [type |-> type, cap |-> None]
Rules ==
  {Limit(3), Limit(7), Limit(None)} \cup
  {Rule(t) : t \in {"NO_TRADE", "MANUAL_REVIEW", "PASSIVE_ONLY"}}
RuleSets == {{}} \cup {{q, r} : q, r \in Rules}

SizeContexts ==
  Vary([Quiet EXCEPT
    !.active = BOOLEAN, !.restrictions = RuleSets,
    !.exposure = {None} \cup [market : {0, 8}, event : {5, 12}, venue : {5},
                              strategy : {None, 10}]])

RiskContexts ==
  Vary([Quiet EXCEPT
    !.verdict = [act : PreTradeActions, risk : {0, 60, 80}],
    !.integrity = {None, [risk |-> 60, hint |-> "NONE"]}
                     \cup [risk : {59}, hint : {"MANUAL_REVIEW", "NO_TRADE"}],
    !.quality = {None, [score |-> 49, stale |-> 300]} \cup [score : {50}, stale : {300, 301}],
    !.spread = {5, 6}])

VenueContexts ==
  Vary([Quiet EXCEPT
    !.divergences = {{}} \cup {{d} : d \in [status : {"WATCH", "NEEDS_REVIEW", "DO_NOT_COMPARE"},
                                           score : {70, 71}]},
    !.equivalence = BOOLEAN, !.rule = BOOLEAN,
    !.restrictions = {{}, {Limit(0)}, {Rule("NO_TRADE")}, {Rule("PASSIVE_ONLY")}}])

AllContexts == SizeContexts \cup RiskContexts \cup VenueContexts
=============================================================================
