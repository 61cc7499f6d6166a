------------------------------ MODULE GateInputs ------------------------------
(***************************************************************************)
(* The inputs of one pre-trade evaluation: the intent, the active policy   *)
(* and the input snapshot that the as-of reads of _evaluate_pretrade_gate  *)
(* returned, with the conditions _build_decision and its helpers test.     *)
(* None of the three changes during an evaluation.                         *)
(***************************************************************************)
EXTENDS Integers, FiniteSets, FiniteSetsExt

CONSTANTS
  Intents,   \* hypothetical intents: [strategy, type, size]
  Policies,  \* pre-trade policies
  Contexts,  \* input snapshots
  None       \* Python's None

PreTradeActions == {"ALLOW", "ALLOW_SMALLER_SIZE", "PASSIVE_ONLY", "MANUAL_REVIEW", "NO_TRADE"}
RestrictionTypes == {"NO_TRADE", "MANUAL_REVIEW", "PASSIVE_ONLY", "SIZE_LIMIT"}
IntegrityHints == PreTradeActions \cup {"NONE"}
Maybe(S) == S \cup {None}

ASSUME NoneAssumption == None \notin Int

ASSUME IntentsAssumption ==
  \A i \in Intents : i.size \in Nat \ {0}

ASSUME PoliciesAssumption ==
  \A p \in Policies :
    /\ {p.maxOrder, p.maxMarket, p.maxEvent, p.maxVenue} \subseteq Nat
    /\ {p.maxStrategy, p.maxSpread, p.maxSpreadBps} \subseteq Maybe(Nat)
    /\ {p.needActive, p.needRule, p.needVerdict, p.needQuality, p.allowUnknownExposure}
         \subseteq BOOLEAN
    /\ {p.minQuality, p.maxResolution, p.maxIntegrity, p.maxDivergence, p.maxStale} \subseteq Nat

ASSUME ContextsAssumption ==
  \A c \in Contexts :
    /\ {c.active, c.rule, c.equivalence} \subseteq BOOLEAN
    /\ c.verdict # None => c.verdict.act \in PreTradeActions /\ c.verdict.risk \in Nat
    /\ \A r \in c.restrictions : r.type \in RestrictionTypes /\ r.cap \in Maybe(Nat)
    /\ c.quality # None => c.quality.score \in Nat /\ c.quality.stale \in Maybe(Int)
    /\ {c.spread, c.spreadBps} \subseteq Maybe(Int)
    /\ c.integrity # None => c.integrity.risk \in Nat /\ c.integrity.hint \in IntegrityHints
    /\ \A d \in c.divergences : d.score \in Nat
    /\ c.exposure # None =>
         /\ {c.exposure.market, c.exposure.event, c.exposure.venue} \subseteq Int
         /\ c.exposure.strategy \in Maybe(Int)

VARIABLES intent, policy, context

inputs == <<intent, policy, context>>

ChooseInputs == intent \in Intents /\ policy \in Policies /\ context \in Contexts
-----------------------------------------------------------------------------
MarketBlocked == policy.needActive /\ ~context.active

MissingRequired ==
  \/ policy.needRule /\ ~context.rule
  \/ policy.needVerdict /\ context.verdict = None

(* SIZE_LIMIT rules whose metadata parses to a size.                       *)
SizeLimits == {r \in context.restrictions : r.type = "SIZE_LIMIT" /\ r.cap # None}

VerdictAction == IF context.verdict = None THEN "ALLOW" ELSE context.verdict.act

ResolutionTooHigh == context.verdict # None /\ context.verdict.risk >= policy.maxResolution
ResolutionBlocks == ResolutionTooHigh /\ context.verdict.risk >= 80

QualityNeedsReview ==
  \/ context.quality = None /\ policy.needQuality
  \/ context.quality # None /\ context.quality.score < policy.minQuality
  \/ context.quality # None /\ context.quality.stale # None
       /\ context.quality.stale > policy.maxStale

Exceeds(value, limit) == value # None /\ limit # None /\ value > limit

(* _apply_quality returns before it looks at the spread when there is no   *)
(* quality report.                                                         *)
SpreadTooWide ==
  /\ context.quality # None
  /\ \/ Exceeds(context.spread, policy.maxSpread)
     \/ Exceeds(context.spreadBps, policy.maxSpreadBps)

IntegrityTooRisky ==
  context.integrity # None /\ context.integrity.risk >= policy.maxIntegrity

IntegrityHint(h) == context.integrity # None /\ context.integrity.hint = h

CrossVenue == intent.strategy = "CROSS_VENUE_COMPARISON"

Diverges(status) == \E d \in context.divergences : d.status = status

DivergenceNeedsReview ==
  \/ Diverges("NEEDS_REVIEW")
  \/ \E d \in context.divergences : d.score > policy.maxDivergence
  \/ ~context.equivalence \/ context.divergences = {}

Aggressive == intent.type \in {"AGGRESSIVE_LIMIT", "MARKET_LIKE"}

Capacities ==
  LET e == context.exposure
  IN  {policy.maxMarket - e.market, policy.maxEvent - e.event, policy.maxVenue - e.venue}
      \cup IF policy.maxStrategy # None /\ e.strategy # None
             THEN {policy.maxStrategy - e.strategy} ELSE {}

RemainingCapacity == Min({IF x > 0 THEN x ELSE 0 : x \in Capacities})

(* Faulty: the order limit is taken for what is left of it.                *)
FaultyOrderCap == policy.maxOrder - intent.size

OrderCap == Min({intent.size, policy.maxOrder})
=============================================================================
