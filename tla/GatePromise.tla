------------------------------ MODULE GatePromise ------------------------------
(***************************************************************************)
(* What the pre-trade gate promises about a decision, with no stages: the  *)
(* action is the most restrictive one any input asks for, and the size is  *)
(* the smallest of the request and every applicable cap, or nothing when   *)
(* the action is MANUAL_REVIEW or NO_TRADE.                                *)
(***************************************************************************)
EXTENDS GateInputs

VARIABLE decision  \* None, then [act, final]

vars == <<inputs, decision>>
-----------------------------------------------------------------------------
Restricts(type) == \E r \in context.restrictions : r.type = type

CapacityExhausted == context.exposure # None /\ \E x \in Capacities : x <= 0
ExposureUnknown == context.exposure = None /\ ~policy.allowUnknownExposure

(* Every size the decision may not exceed.                                 *)
Caps ==
  {policy.maxOrder} \cup {r.cap : r \in SizeLimits}
    \cup IF context.exposure = None THEN {} ELSE Capacities

AsksForBlock ==
  \/ MarketBlocked \/ Restricts("NO_TRADE") \/ VerdictAction = "NO_TRADE"
  \/ ResolutionBlocks \/ IntegrityHint("NO_TRADE")
  \/ CrossVenue /\ Diverges("DO_NOT_COMPARE")
  \/ CapacityExhausted

AsksForPassive ==
  Restricts("PASSIVE_ONLY") \/ VerdictAction = "PASSIVE_ONLY" \/ SpreadTooWide

AsksForReview ==
  \/ MissingRequired \/ Restricts("MANUAL_REVIEW") \/ VerdictAction = "MANUAL_REVIEW"
  \/ ResolutionTooHigh \/ QualityNeedsReview
  \/ IntegrityTooRisky \/ IntegrityHint("MANUAL_REVIEW")
  \/ CrossVenue /\ DivergenceNeedsReview
  \/ AsksForPassive /\ Aggressive
  \/ ExposureUnknown

AsksForLess ==
  VerdictAction = "ALLOW_SMALLER_SIZE" \/ \E cap \in Caps : cap < intent.size

Act ==
  IF AsksForBlock THEN "NO_TRADE"
  ELSE IF AsksForReview THEN "MANUAL_REVIEW"
  ELSE IF AsksForPassive THEN "PASSIVE_ONLY"
  ELSE IF AsksForLess THEN "ALLOW_SMALLER_SIZE"
  ELSE "ALLOW"

FinalSizes ==
  IF Act \in {"MANUAL_REVIEW", "NO_TRADE"} THEN {0}
  ELSE {n \in {intent.size} \cup Caps : \A cap \in {intent.size} \cup Caps : n <= cap}
-----------------------------------------------------------------------------
Init == ChooseInputs /\ decision = None

Decide ==
  /\ decision = None
  /\ \E n \in FinalSizes : decision' = [act |-> Act, final |-> n]
  /\ UNCHANGED inputs

Spec == Init /\ [][Decide]_vars
=============================================================================
