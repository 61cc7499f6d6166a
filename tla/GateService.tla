----------------------------- MODULE GateService -----------------------------
(***************************************************************************)
(* The pre-trade service and its runner (pretrade/service.py, runner.py)   *)
(* around the gate: what a check reads as of the time of its intent, the   *)
(* input snapshot it stores, the policy it falls back to, the verdict it   *)
(* builds on the way, and the rules and exposures an operator saves.  The  *)
(* gate's decision is the one GatePromise states and PreTradeGate is       *)
(* proved to give.  The market's status and the rules are read as they are *)
(* now, everything else as of the intent.  A check of a market that is not *)
(* there, or under a policy that is not, raises and changes nothing.       *)
(***************************************************************************)
EXTENDS Evidence

CONSTANTS
  Places,        \* [market -> [place, MARKET, EVENT, VENUE, CATEGORY]]
  FirstRows,     \* what is known of the markets at the start
  DefaultLimits, \* build_default_pretrade_policy
  Facts,         \* what other components may store: kind, markets, at, content
  Requests,      \* the checks asked for: intent, policy, force
  RunRequests,   \* the runs asked for: markets, asof, policy, most
  SavedRules, SavedExposures, SavedPolicies,  \* what an operator may save
  MaxSaved, MaxChecks   \* bounds

VARIABLES
  active,        \* the markets whose status is ACTIVE
  restrictions,  \* market_restriction_rules
  exposures,     \* exposure_snapshots, `gen' their created_at
  policies,      \* pretrade_policies
  inputRows,     \* pretrade_input_snapshots, by the hash of what they name
  decisions,     \* pretrade_decisions, `gen' their generated_at
  checks,        \* the answers given, in order
  gateRuns       \* pretrade_runs
gateVars == <<active, restrictions, exposures, policies, inputRows, decisions, checks, gateRuns>>
operatorVars == <<active, restrictions, exposures, policies>>
answerVars == <<inputRows, decisions, checks, gateRuns>>

Gate(i, p, c) ==
  INSTANCE GatePromise WITH intent <- i, policy <- p, context <- c, decision <- None,
    Intents <- {i}, Policies <- {p}, Contexts <- {c}, None <- None

-----------------------------------------------------------------------------
\* restrictions.py: the window is inclusive, an absent target matches nothing
InWindow(x, t) == (x.from # None => x.from <= t) /\ (x.until # None => t <= x.until)
MatchesScope(r, m) == r.scope = "GLOBAL" \/ r.target = Places[m][r.scope]
Applicable(m, t) == {r \in restrictions : r.active /\ InWindow(r, t) /\ MatchesScope(r, m)}

\* repositories.py: an absent scope matches every market; the newest of any scope is taken
Covers(e, i) ==
  /\ \A scope \in {"MARKET", "EVENT", "VENUE"} : e[scope] \in {None, Places[i.market][scope]}
  /\ e.strategy \in {None, i.strategy}
LatestExposure(i) ==
  LET S == {e \in exposures : Covers(e, i) /\ e.asof <= i.asof}
  IN  IF S = {} THEN None
      ELSE CHOOSE e \in S : \A f \in S \ {e} : f.asof < e.asof \/ (f.asof = e.asof /\ f.gen < e.gen)

DefaultPolicy == [id |-> "default", created |-> 0, active |-> TRUE, from |-> None, until |-> None,
                  limits |-> DefaultLimits]
ActivePolicies(t) == {p \in policies : p.active /\ InWindow(p, t)}
NeedsDefault(id, t) == id = None /\ ActivePolicies(t) = {}
\* service.py: _policy
PolicyFor(id, t) ==
  IF id # None THEN CHOOSE p \in policies : p.id = id
  ELSE IF NeedsDefault(id, t) THEN DefaultPolicy
  ELSE CHOOSE p \in ActivePolicies(t) : \A q \in ActivePolicies(t) : q.created <= p.created
PolicyFound(id) == id = None \/ \E p \in policies : p.id = id
PoliciesAfter(id, t) ==
  IF NeedsDefault(id, t) THEN {p \in policies : p.id # "default"} \cup {DefaultPolicy} ELSE policies

-----------------------------------------------------------------------------
Content(kind, m, t) == IF Latest(kind, m, t) = None THEN None ELSE Latest(kind, m, t).content
\* the gate takes any verdict of exactly its time
GateVerdict(m, t) ==
  LET old == Latest("verdict", m, t)
  IN  IF old # None /\ old.at = t THEN old ELSE BuiltVerdict(m, t)
Verdict(i, force) ==
  IF force THEN BuiltVerdict(i.market, i.asof) ELSE GateVerdict(i.market, i.asof)

\* what _build_decision looks at
Context(i, verdict) ==
  LET m == i.market
      t == i.asof
      liquidity == Content("liquidity", m, t)
      exposure == LatestExposure(i)
  IN  [active |-> m \in active, rule |-> Latest("rule", m, t) # None,
       verdict |-> [act |-> verdict.content.action, risk |-> verdict.content.risk],
       restrictions |-> {[type |-> r.type, cap |-> r.cap] : r \in Applicable(m, t)},
       quality |-> Content("quality", m, t),
       spread |-> IF liquidity = None THEN None ELSE liquidity.spread,
       spreadBps |-> None,
       integrity |-> Content("integrity", m, t),
       divergences |-> {r.content : r \in AsOf("divergence", m, t)},
       equivalence |-> AsOf("equivalence", m, t) # {},
       exposure |-> IF exposure = None THEN None ELSE exposure.units]

\* models.py: the input hash names every row the decision rests on
\* Faulty: the restriction rules are left out.
FaultyInputs(i, verdict, policy) ==
  [intent |-> i, active |-> i.market \in active, verdict |-> verdict.n, policy |-> policy.id,
   exposure |-> LatestExposure(i), restrictions |-> {},
   evidence |-> {Latest(kind, i.market, i.asof) : kind \in {"rule", "quality", "integrity", "liquidity"}}
              \cup AsOf("divergence", i.market, i.asof) \cup AsOf("equivalence", i.market, i.asof)]
Inputs(i, verdict, policy) ==
  [intent |-> i, active |-> i.market \in active, verdict |-> verdict.n, policy |-> policy.id,
   exposure |-> LatestExposure(i), restrictions |-> Applicable(i.market, i.asof),
   evidence |-> {Latest(kind, i.market, i.asof) : kind \in {"rule", "quality", "integrity", "liquidity"}}
              \cup AsOf("divergence", i.market, i.asof) \cup AsOf("equivalence", i.market, i.asof)]

\* gate.py: how many of the assessments say what; a market compared twice counts once
EquivalenceCounts(i) ==
  LET With(permissions) ==
        {r \in AsOf("equivalence", i.market, i.asof) : r.content.permission \in permissions}
      comparable == With({"COMPARABLE", "COMPARABLE_WITH_HAIRCUT"})
  IN  [comparable |-> Cardinality(UNION {r.markets : r \in comparable} \ {i.market}),
       review |-> Cardinality(With({"MANUAL_REVIEW"})), apart |-> Cardinality(With({"DO_NOT_COMPARE"}))]
DivergenceCounts(i) ==
  [status \in {"WATCH", "MATERIAL_DIVERGENCE", "NEEDS_REVIEW", "DO_NOT_COMPARE"} |->
     Cardinality({r \in AsOf("divergence", i.market, i.asof) : r.content.status = status})]

\* exposure.py: how near the order comes to its limits
ExposureRisk(gateCap, remaining, i, limits, units) ==
  IF units = None /\ ~limits.allowUnknownExposure THEN 70
  ELSE IF units # None /\ remaining <= 0 THEN 100
  ELSE Max({0} \cup (IF gateCap < i.size THEN {40} ELSE {})
                   \cup (IF units = None THEN {20} ELSE IF remaining < gateCap THEN {60} ELSE {}))
ExposureRiskOf(i, limits, context) ==
  ExposureRisk(Gate(i, limits, context)!OrderCap,
               IF context.exposure = None THEN 0 ELSE Gate(i, limits, context)!RemainingCapacity,
               i, limits, context.exposure)
\* the scores a decision reports, and the worst of them; an absent quality counts as 50
Scores(i, limits, context) ==
  [resolution |-> context.verdict.risk,
   quality |-> IF context.quality = None THEN None ELSE context.quality.score,
   integrity |-> IF context.integrity = None THEN None ELSE context.integrity.risk,
   divergence |-> IF context.divergences = {} THEN None ELSE Max({d.score : d \in context.divergences}),
   exposure |-> ExposureRiskOf(i, limits, context)]
CompositeRisk(scores) ==
  Max(({scores[k] : k \in DOMAIN scores \ {"quality"}} \ {None})
             \cup {IF scores.quality = None THEN 50 ELSE 100 - scores.quality})

Ruling(i, limits, context, inputs) ==
  [inputs |-> inputs, act |-> Gate(i, limits, context)!Act,
   final |-> CHOOSE n \in Gate(i, limits, context)!FinalSizes : TRUE,
   scores |-> Scores(i, limits, context), risk |-> CompositeRisk(Scores(i, limits, context))]
Decision(i, verdict, policy) ==
  Ruling(i, policy.limits, Context(i, verdict), Inputs(i, verdict, policy))
\* the input snapshot a decision leaves: what is hashed, and the counts
InputSnapshot(d) ==
  [hash |-> d.inputs, equivalence |-> EquivalenceCounts(d.inputs.intent),
   divergence |-> DivergenceCounts(d.inputs.intent)]

\* a decision's id hashes its outcome and its input hash: a repeated check replaces the row
Generated(d) == [d |-> d, gen |-> Len(checks) + 1]
Merged(stored, new) ==
  {x \in stored : \A y \in new : x.d # y.d} \cup new

\* the rows a check may see, for comparing one check with another
Seen(i) ==
  [status |-> i.market \in active, restrictions |-> Applicable(i.market, i.asof),
   exposures |-> {e \in exposures : e.asof <= i.asof}, policies |-> policies,
   facts |-> {r \in rows : r.kind # "verdict" /\ i.market \in r.markets /\ r.at <= i.asof}]

-----------------------------------------------------------------------------
Reply(i, id, force, verdict) ==
  [intent |-> i, policy |-> id, forced |-> force, seen |-> Seen(i), rules |-> restrictions,
   decision |-> Decision(i, verdict, PolicyFor(id, i.asof))]

StoreAnswer(answer, verdict) ==
  /\ rows' = rows \cup {verdict}
  /\ stamp' = Greater(stamp, verdict.n)
  /\ inputRows' = inputRows \cup {InputSnapshot(answer.decision)}
  /\ decisions' = Merged(decisions, {Generated(answer.decision)})
  /\ checks' = Append(checks, answer)
AnswerWith(verdict, i, id, force) == StoreAnswer(Reply(i, id, force, verdict), verdict)
CheckIntent(i, id, force) ==
  /\ Len(checks) < MaxChecks
  /\ PolicyFound(id)
  /\ AnswerWith(Verdict(i, force), i, id, force)
  /\ policies' = PoliciesAfter(id, i.asof)
  /\ UNCHANGED <<active, restrictions, exposures, gateRuns>>

\* build_trade_intent_from_defaults
DefaultIntent(m, t) ==
  [market |-> m, strategy |-> "RESEARCH", type |-> "RESEARCH_ONLY", size |-> 1, asof |-> t]

\* runner.py: the markets asked for that exist, or all of them; one that raises is an error
Checked(ms) == IF ms = {} THEN DOMAIN Places ELSE ms \cap DOMAIN Places
ChecksStatus(errors) == IF errors = {} THEN "COMPLETED" ELSE "PARTIAL"
\* the verdicts that are built on the way are stored in the order of the markets
Before(m, ms) == Cardinality({k \in ms : Places[k].place < Places[m].place})
Numbered(verdictOf) ==
  [m \in DOMAIN verdictOf |->
     IF verdictOf[m] \in rows THEN verdictOf[m]
     ELSE [verdictOf[m] EXCEPT !.n = @ + Before(m, DOMAIN verdictOf)]]
StoreAnswers(answer, verdictOf) ==
  /\ rows' = rows \cup Range(verdictOf)
  /\ stamp' = stamp + Cardinality(DOMAIN verdictOf)
  /\ inputRows' = inputRows \cup {InputSnapshot(answer[m]) : m \in DOMAIN answer}
  /\ decisions' = Merged(decisions, {Generated(answer[m]) : m \in DOMAIN answer})
Answers(verdictOf, t, id) ==
  [m \in DOMAIN verdictOf |-> Decision(DefaultIntent(m, t), verdictOf[m], PolicyFor(id, t))]
\* a rate is a count over the total, which the summary keeps
RunSummary(answer) ==
  [total |-> Cardinality(DOMAIN answer),
   counts |-> [a \in Range(Actions) |-> Cardinality({m \in DOMAIN answer : answer[m].act = a})],
   blocked |-> Cardinality({m \in DOMAIN answer : answer[m].act = "NO_TRADE"}),
   risk |-> SumFunction([m \in DOMAIN answer |-> answer[m].risk]),
   requested |-> SumFunction([m \in DOMAIN answer |-> answer[m].inputs.intent.size]),
   allowed |-> SumFunction([m \in DOMAIN answer |-> answer[m].final])]
RunRow(ms, t, most, answer) ==
  [asked |-> ms, markets |-> Checked(ms), asof |-> t, most |-> most,
   created |-> Cardinality(DOMAIN answer), errors |-> Cardinality(Checked(ms) \ DOMAIN answer),
   status |-> ChecksStatus(Checked(ms) \ DOMAIN answer), summary |-> RunSummary(answer)]
StoreRun(answer, verdictOf, ms, t, most) ==
  /\ StoreAnswers(answer, verdictOf)
  /\ gateRuns' = Append(gateRuns, RunRow(ms, t, most, answer))
RunOver(verdictOf, ms, t, id, most) == StoreRun(Answers(verdictOf, t, id), verdictOf, ms, t, most)
\* a run of more markets than it may check raises before it stores anything
RunChecks(ms, t, id, most) ==
  /\ Len(gateRuns) < MaxChecks
  /\ Cardinality(Checked(ms)) <= most
  /\ LET answered == IF PolicyFound(id) THEN Checked(ms) ELSE {}
     IN  /\ RunOver(Numbered([m \in answered |-> Verdict(DefaultIntent(m, t), FALSE)]), ms, t, id, most)
         /\ policies' = IF answered # {} THEN PoliciesAfter(id, t) ELSE policies
  /\ UNCHANGED <<active, restrictions, exposures, checks>>

StoreFact(kind, ms, t, content) == KnowRow(kind, ms, t, content) /\ UNCHANGED gateVars

Saved == Cardinality(restrictions) + Cardinality(exposures)
SaveRestriction(r) ==
  /\ Saved < MaxSaved
  /\ restrictions' = restrictions \cup {r}
  /\ UNCHANGED <<evidenceVars, active, exposures, policies, answerVars>>
SaveExposure(e) ==
  /\ Saved < MaxSaved
  /\ exposures' = exposures \cup {[e EXCEPT !.gen = Saved]}
  /\ UNCHANGED <<evidenceVars, active, restrictions, policies, answerVars>>
SaveGatePolicy(p) ==
  /\ p \notin policies
  /\ policies' = {q \in policies : q.id # p.id} \cup {p}
  /\ UNCHANGED <<evidenceVars, active, restrictions, exposures, answerVars>>
\* an ingestion pass sees another status
ChangeStatus(m) ==
  /\ active' = IF m \in active THEN active \ {m} ELSE active \cup {m}
  /\ UNCHANGED <<evidenceVars, restrictions, exposures, policies, answerVars>>

\* the shape of the rows
StrategyContexts == {"SINGLE_MARKET", "CROSS_VENUE_COMPARISON", "MARKET_MAKING", "RESEARCH", "UNKNOWN"}
TradeIntent ==
  [market : DOMAIN Places, size : Nat \ {0}, asof : Times, strategy : StrategyContexts,
   type : {"PASSIVE_LIMIT", "AGGRESSIVE_LIMIT", "MARKET_LIKE", "RESEARCH_ONLY", "UNKNOWN"}]
PlaceOrNone(scope) == {Places[m][scope] : m \in DOMAIN Places} \cup {None}
MarketRestrictionRule ==
  [type : {"NO_TRADE", "MANUAL_REVIEW", "PASSIVE_ONLY", "SIZE_LIMIT"}, cap : Nat \cup {None},
   scope : {"GLOBAL", "VENUE", "EVENT", "MARKET", "CATEGORY"},
   target : UNION {PlaceOrNone(scope) : scope \in {"VENUE", "EVENT", "MARKET"}},
   active : BOOLEAN, from : Nat \cup {None}, until : Nat \cup {None}]
ExposureSnapshot ==
  [gen : Nat, MARKET : PlaceOrNone("MARKET"), EVENT : PlaceOrNone("EVENT"), VENUE : PlaceOrNone("VENUE"),
   strategy : StrategyContexts \cup {None}, asof : Times,
   units : [market : Nat, event : Nat, venue : Nat, strategy : Nat \cup {None}]]
PreTradePolicyOK(p) ==
  /\ DOMAIN p.limits = DOMAIN DefaultLimits /\ p.created \in Nat /\ p.active \in BOOLEAN
  /\ p.from \in Nat \cup {None} /\ p.until \in Nat \cup {None}
ScoreOrNone == (0 .. 100) \cup {None}
PreTradeDecision ==
  [inputs : {x.hash : x \in inputRows}, act : Range(Actions), final : Nat, risk : 0 .. 100,
   scores : [{"resolution", "quality", "integrity", "divergence", "exposure"} -> ScoreOrNone]]
PreTradeRunOK(r) ==
  /\ r.markets \subseteq DOMAIN Places /\ r.asof \in Times /\ r.status \in {"COMPLETED", "PARTIAL"}
  /\ r.created + r.errors = Cardinality(r.markets)

\* models.py: what the fields must satisfy together
ValidRequest(check) ==
  check.intent \in TradeIntent /\ check.policy \in {p.id : p \in policies} \cup {None} /\ check.forced \in BOOLEAN
ValidPolicy(p) ==
  /\ {p.limits.minQuality, p.limits.maxResolution, p.limits.maxIntegrity, p.limits.maxDivergence}
       \subseteq 0 .. 100
  /\ {p.limits.needActive, p.limits.needRule, p.limits.needVerdict, p.limits.needQuality,
      p.limits.allowUnknownExposure} \subseteq BOOLEAN
  /\ {p.limits.maxOrder, p.limits.maxMarket, p.limits.maxEvent, p.limits.maxVenue} \subseteq Nat
  /\ {p.limits.maxStrategy, p.limits.maxSpread, p.limits.maxSpreadBps} \subseteq Nat \cup {None}
\* a policy is named by its id, and the rows it names are as old as the check
ValidSnapshot(x) ==
  /\ DOMAIN x.hash = {"intent", "active", "verdict", "policy", "exposure", "restrictions", "evidence"}
  /\ x.hash.active \in BOOLEAN /\ x.hash.restrictions \subseteq restrictions
  /\ x.hash.exposure \in exposures \cup {None}
  /\ x.hash.exposure # None => x.hash.exposure.asof <= x.hash.intent.asof
  /\ \E p \in policies : p.id = x.hash.policy
  /\ \E r \in rows : r.kind = "verdict" /\ r.n = x.hash.verdict
  /\ \A r \in x.hash.evidence \ {None} : r \in rows /\ r.at <= x.hash.intent.asof
  /\ x.equivalence \in [{"comparable", "review", "apart"} -> Nat]
  /\ x.divergence \in [{"WATCH", "MATERIAL_DIVERGENCE", "NEEDS_REVIEW", "DO_NOT_COMPARE"} -> Nat]
\* every score a decision reports is within its composite risk
ValidDecision(d) ==
  /\ d.final <= d.inputs.intent.size
  /\ d.act \in {"MANUAL_REVIEW", "NO_TRADE"} => d.final = 0
  /\ d.act = "ALLOW" => d.final = d.inputs.intent.size
  /\ \A k \in {"resolution", "integrity", "divergence", "exposure"} :
       d.scores[k] # None => d.scores[k] <= d.risk
  /\ d.scores.quality # None => 100 - d.scores.quality <= d.risk
ValidRun(r) == r.created <= r.most /\ (r.status = "COMPLETED" <=> r.errors = 0)
\* the actions of a run are all its decisions, and it allows no more than was asked for
ValidSummary(r) ==
  /\ r.summary.total = r.created
  /\ SumFunction(r.summary.counts) = r.summary.total
  /\ r.summary.blocked = r.summary.counts["NO_TRADE"]
  /\ r.summary.allowed <= r.summary.requested
  /\ r.summary.risk <= 100 * r.summary.total

GateServiceInit ==
  /\ rows = FirstRows /\ stamp = Cardinality(FirstRows)
  /\ active = DOMAIN Places
  /\ restrictions = {} /\ exposures = {} /\ policies = {}
  /\ inputRows = {} /\ decisions = {} /\ checks = <<>> /\ gateRuns = <<>>

GateServiceNext ==
  \/ \E f \in Facts : StoreFact(f.kind, f.markets, f.at, f.content)
  \/ \E q \in Requests : CheckIntent(q.intent, q.policy, q.force)
  \/ \E q \in RunRequests : RunChecks(q.markets, q.asof, q.policy, q.most)
  \/ \E r \in SavedRules : SaveRestriction(r)
  \/ \E e \in SavedExposures : SaveExposure(e)
  \/ \E p \in SavedPolicies : SaveGatePolicy(p)
  \/ \E m \in DOMAIN Places : ChangeStatus(m)

GateServiceSpec == GateServiceInit /\ [][GateServiceNext]_<<evidenceVars, gateVars>>

-----------------------------------------------------------------------------
(* What the constants may be.                                              *)
EvidenceRow ==
  [kind : {"rule", "book", "integrity", "quality", "liquidity", "divergence", "equivalence"},
   markets : SUBSET DOMAIN Places, at : Times, n : Nat,
   content : {f.content : f \in Facts \cup FirstRows}]
VerdictRow ==
  [kind : {"verdict"}, markets : {{m} : m \in DOMAIN Places}, at : Times, n : Nat,
   content : [action : Range(Actions), risk : 0 .. 100, inputs : SUBSET Nat]]
Scored(r) ==
  /\ r.kind \in {"rule", "integrity"} => r.content.risk \in 0 .. 100
  /\ r.kind \in {"quality", "divergence"} => r.content.score \in 0 .. 100

ASSUME TimesAssumption == LastTime \in Nat
ASSUME AbsentAssumption ==
  None \notin Int /\ None \notin EvidenceRow /\ None \notin VerdictRow /\ None \notin ExposureSnapshot
ASSUME PlacesAssumption ==
  /\ IsFiniteSet(DOMAIN Places)
  /\ \A m, n \in DOMAIN Places : Places[m].place \in Int /\ (m # n => Places[m].place # Places[n].place)
ASSUME FactsAssumption ==
  /\ IsFiniteSet(FirstRows) /\ FirstRows \subseteq EvidenceRow
  /\ \A r \in FirstRows : r.n \in 1 .. Cardinality(FirstRows) /\ \A q \in FirstRows : q.n = r.n => q = r
  /\ \A f \in Facts : [kind |-> f.kind, markets |-> f.markets, at |-> f.at, n |-> 0, content |-> f.content]
                         \in EvidenceRow
  /\ \A r \in FirstRows \cup Facts : Scored(r)
ASSUME RequestsAssumption ==
  /\ \A q \in Requests : q.intent \in TradeIntent /\ q.force \in BOOLEAN
  /\ \A q \in RunRequests : q.asof \in Times /\ q.most \in Nat
ASSUME SavedAssumption ==
  /\ SavedRules \subseteq MarketRestrictionRule /\ SavedExposures \subseteq ExposureSnapshot
  /\ \A p \in SavedPolicies \cup {DefaultPolicy} : PreTradePolicyOK(p) /\ ValidPolicy(p)

-----------------------------------------------------------------------------
\* Every decision is of an input snapshot that is stored, and a decision that stops leaves no size.
GateServiceTypeOK ==
  /\ active \subseteq DOMAIN Places
  /\ \A x \in decisions :
       /\ x.d \in PreTradeDecision /\ x.gen \in Nat
       /\ x.d.inputs.intent \in TradeIntent /\ ValidDecision(x.d)
  /\ \A x \in inputRows : ValidSnapshot(x)
  /\ \A check \in Range(checks) : ValidRequest(check)
  /\ restrictions \subseteq MarketRestrictionRule /\ exposures \subseteq ExposureSnapshot
  /\ \A p \in policies : PreTradePolicyOK(p) /\ ValidPolicy(p)
  /\ \A r \in Range(gateRuns) : PreTradeRunOK(r) /\ ValidRun(r) /\ ValidSummary(r)

\* A NO_TRADE rule that is saved, in force at the time of the intent and of the market, its event or
\* its venue, decides every check from then on, whatever the policy and however old the verdict.
RestrictedMeansBlocked ==
  \A i \in DOMAIN checks :
    \A r \in checks[i].rules :
      /\ r.type = "NO_TRADE" /\ r.active /\ InWindow(r, checks[i].intent.asof)
      /\ \E s \in {"MARKET", "EVENT", "VENUE"} : r.scope = s /\ r.target = Places[checks[i].intent.market][s]
      => checks[i].decision.act = "NO_TRADE"

\* One input snapshot has one decision: the rows and values it names are all the gate looks at.
OneDecisionPerInputs ==
  \A x, y \in decisions : x.d.inputs = y.d.inputs => x.d = y.d

\* A check repeated without force answers the same while the status, the rules, the policies and what
\* is dated at or before its time are the same, whatever arrived for later times, and although the
\* first check leaves a verdict for the second to find.
UnchangedChecksRepeat ==
  \A i, j \in DOMAIN checks :
    /\ i < j /\ checks[i].intent = checks[j].intent /\ checks[i].policy = checks[j].policy
    /\ checks[i].seen = checks[j].seen
    /\ \A k \in i .. j :
         checks[k].forced => <<checks[k].intent.market, checks[k].intent.asof>>
                               # <<checks[i].intent.market, checks[i].intent.asof>>
    => checks[i].decision = checks[j].decision

\* A completed run has left a decision, as of its time, for each of its markets.
CompletedRunsDecided ==
  \A i \in DOMAIN gateRuns :
    gateRuns[i].status = "COMPLETED" =>
      /\ gateRuns[i].created = Cardinality(gateRuns[i].markets)
      /\ \A m \in gateRuns[i].markets :
           \E x \in decisions : x.d.inputs.intent = DefaultIntent(m, gateRuns[i].asof)

\* The gate as a service answers from its inputs alone: a restricted market is blocked, equal
\* inputs have one decision, a repeated check repeats, and a completed run has decided.
GateServiceSound ==
  /\ GateServiceTypeOK /\ RestrictedMeansBlocked /\ OneDecisionPerInputs /\ UnchangedChecksRepeat
  /\ CompletedRunsDecided
=============================================================================
