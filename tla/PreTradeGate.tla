----------------------------- MODULE PreTradeGate -----------------------------
(***************************************************************************)
(* One evaluation of the pre-trade gate: _build_decision, its helpers, the *)
(* restriction loop and the exposure limits.  Each stage of the function   *)
(* is one action that escalates the action taken so far, shrinks the       *)
(* allowed size and records hard blockers.                                 *)
(*                                                                         *)
(* Restrictions are applied in the order of restriction_id, which is a     *)
(* random uuid: the loop takes them in any order.                          *)
(***************************************************************************)
EXTENDS GateInputs

VARIABLES
  stage,       \* where in _build_decision the evaluation is
  todo,        \* restrictions not applied yet
  action,      \* the action so far
  maxAllowed,  \* max_allowed_size
  blockers,    \* hard_blockers
  final        \* final_allowed_size_units, None until decided

vars == <<inputs, stage, todo, action, maxAllowed, blockers, final>>

Stages == {"market", "restrictions", "verdict", "quality", "integrity", "divergence",
           "passive", "exposure", "size", "done"}
-----------------------------------------------------------------------------
(* Faulty: a review outranks a block.                                      *)
FaultyRank(a) ==
  CASE a = "ALLOW" -> 0 [] a = "ALLOW_SMALLER_SIZE" -> 1 [] a = "PASSIVE_ONLY" -> 2
    [] a = "MANUAL_REVIEW" -> 4 [] a = "NO_TRADE" -> 3

Rank(a) ==
  CASE a = "ALLOW" -> 0 [] a = "ALLOW_SMALLER_SIZE" -> 1 [] a = "PASSIVE_ONLY" -> 2
    [] a = "MANUAL_REVIEW" -> 3 [] a = "NO_TRADE" -> 4

MaxAction(left, right) == IF Rank(left) >= Rank(right) THEN left ELSE right

Escalate(flag, a, b) == IF flag THEN MaxAction(a, b) ELSE a
-----------------------------------------------------------------------------
Init ==
  /\ ChooseInputs
  /\ stage = "market"
  /\ todo = context.restrictions
  /\ action = "ALLOW"
  /\ maxAllowed = intent.size
  /\ blockers = {}
  /\ final = None

Go(next) == stage' = next /\ UNCHANGED inputs

CheckMarket ==
  /\ stage = "market"
  /\ LET a == IF MarketBlocked THEN "NO_TRADE" ELSE action
     IN  action' = Escalate(MissingRequired, a, "MANUAL_REVIEW")
  /\ blockers' = blockers \cup {b \in {"MARKET_NOT_ACTIVE"} : MarketBlocked}
  /\ Go("restrictions")
  /\ UNCHANGED <<todo, maxAllowed, final>>

(* One iteration of the loop in apply_restrictions.                        *)
ApplyRestriction(r) ==
  /\ stage = "restrictions" /\ r \in todo
  /\ todo' = todo \ {r}
  /\ LET cap == IF r \in SizeLimits THEN Min({maxAllowed, r.cap}) ELSE maxAllowed
     IN  /\ maxAllowed' = cap
         /\ action' = CASE r.type = "NO_TRADE" -> "NO_TRADE"
                        [] r.type \in {"MANUAL_REVIEW", "PASSIVE_ONLY"} -> MaxAction(action, r.type)
                        [] r.type = "SIZE_LIMIT" ->
                             Escalate(r \in SizeLimits /\ cap < intent.size, action, "ALLOW_SMALLER_SIZE")
  /\ blockers' = blockers \cup {b \in {"RESTRICTION"} : r.type = "NO_TRADE"}
  /\ UNCHANGED <<inputs, stage, final>>

EndRestrictions ==
  /\ stage = "restrictions" /\ todo = {}
  /\ Go("verdict")
  /\ UNCHANGED <<todo, action, maxAllowed, blockers, final>>

ApplyVerdict ==
  /\ stage = "verdict"
  /\ LET a == MaxAction(action, VerdictAction)
     IN  action' = IF ResolutionBlocks THEN "NO_TRADE"
                   ELSE Escalate(ResolutionTooHigh, a, "MANUAL_REVIEW")
  /\ blockers' = blockers \cup {b \in {"RESOLUTION_RISK_ABOVE_POLICY_LIMIT"} : ResolutionBlocks}
  /\ Go("quality")
  /\ UNCHANGED <<todo, maxAllowed, final>>

ApplyQuality ==
  /\ stage = "quality"
  /\ action' = Escalate(SpreadTooWide, Escalate(QualityNeedsReview, action, "MANUAL_REVIEW"),
                        "PASSIVE_ONLY")
  /\ Go("integrity")
  /\ UNCHANGED <<todo, maxAllowed, blockers, final>>

ApplyIntegrity ==
  /\ stage = "integrity"
  /\ LET a == Escalate(IntegrityTooRisky, action, "MANUAL_REVIEW")
     IN  action' = IF IntegrityHint("NO_TRADE") THEN "NO_TRADE"
                   ELSE Escalate(IntegrityHint("MANUAL_REVIEW"), a, "MANUAL_REVIEW")
  /\ blockers' = blockers \cup {b \in {"INTEGRITY_ACTION_HINT_NO_TRADE"} : IntegrityHint("NO_TRADE")}
  /\ Go("divergence")
  /\ UNCHANGED <<todo, maxAllowed, final>>

ApplyDivergence ==
  /\ stage = "divergence"
  /\ action' = IF CrossVenue /\ Diverges("DO_NOT_COMPARE") THEN "NO_TRADE"
               ELSE Escalate(CrossVenue /\ DivergenceNeedsReview, action, "MANUAL_REVIEW")
  /\ blockers' = blockers \cup
       {b \in {"DIVERGENCE_DO_NOT_COMPARE_CONTEXT"} : Diverges("DO_NOT_COMPARE")}
  /\ Go("passive")
  /\ UNCHANGED <<todo, maxAllowed, final>>

(* Faulty: an aggressive order passes under PASSIVE_ONLY.                  *)
FaultyApplyPassiveOnly ==
  /\ stage = "passive"
  /\ Go("exposure")
  /\ UNCHANGED <<todo, action, maxAllowed, blockers, final>>

ApplyPassiveOnly ==
  /\ stage = "passive"
  /\ action' = Escalate(action = "PASSIVE_ONLY" /\ Aggressive, action, "MANUAL_REVIEW")
  /\ Go("exposure")
  /\ UNCHANGED <<todo, maxAllowed, blockers, final>>

(* evaluate_exposure_limits: its action, its size and its blockers.        *)
ExposureAction(cap) == IF cap < intent.size THEN "ALLOW_SMALLER_SIZE" ELSE "ALLOW"

ApplyExposure ==
  /\ stage = "exposure"
  /\ \/ /\ context.exposure = None
        /\ LET cap == IF policy.allowUnknownExposure THEN OrderCap ELSE 0
           IN  /\ maxAllowed' = Min({maxAllowed, cap})
               /\ action' = MaxAction(action, IF policy.allowUnknownExposure THEN ExposureAction(cap)
                                              ELSE "MANUAL_REVIEW")
        /\ UNCHANGED blockers
     \/ /\ context.exposure # None /\ RemainingCapacity <= 0
        /\ maxAllowed' = Min({maxAllowed, 0})
        /\ action' = MaxAction(action, "NO_TRADE")
        /\ blockers' = blockers \cup {"EXPOSURE_LIMIT_BREACH"}
     \/ /\ context.exposure # None /\ RemainingCapacity > 0
        /\ LET cap == Min({OrderCap, RemainingCapacity})
           IN  /\ maxAllowed' = Min({maxAllowed, cap})
               /\ action' = MaxAction(action, ExposureAction(cap))
        /\ UNCHANGED blockers
  /\ Go("size")
  /\ UNCHANGED <<todo, final>>

(* Faulty: an intent under review keeps its size.                          *)
FaultyFinalSize(decided, size) == IF decided = "NO_TRADE" THEN 0 ELSE size

FinalSize(decided, size) == IF decided \in {"MANUAL_REVIEW", "NO_TRADE"} THEN 0 ELSE size

DecideSize ==
  /\ stage = "size"
  /\ LET allowed == IF action = "NO_TRADE" THEN 0 ELSE maxAllowed
         size    == Min({intent.size, allowed})
         decided == IF size < intent.size /\ action = "ALLOW" THEN "ALLOW_SMALLER_SIZE" ELSE action
     IN  /\ maxAllowed' = allowed
         /\ action' = decided
         /\ final' = FinalSize(decided, size)
  /\ Go("done")
  /\ UNCHANGED <<todo, blockers>>

Next ==
  \/ CheckMarket
  \/ \E r \in todo : ApplyRestriction(r)
  \/ EndRestrictions
  \/ ApplyVerdict \/ ApplyQuality \/ ApplyIntegrity \/ ApplyDivergence
  \/ ApplyPassiveOnly \/ ApplyExposure \/ DecideSize

Spec == Init /\ [][Next]_vars
-----------------------------------------------------------------------------
(* The evaluation is always in one of its stages with an action of the     *)
(* enumeration, an allowed size between nothing and the request, and no    *)
(* final size before the last stage.                                       *)
TypeOK ==
  /\ ChooseInputs
  /\ stage \in Stages
  /\ todo \subseteq context.restrictions
  /\ action \in PreTradeActions
  /\ maxAllowed \in 0..intent.size
  /\ IF stage = "done" THEN final \in 0..intent.size ELSE final = None

(* No stage of _build_decision relaxes the action of an earlier one,       *)
(* although some stages assign it instead of taking the maximum.           *)
Escalates == [][Rank(action') >= Rank(action)]_vars

(* The order of the stages and the random order of the restrictions leave  *)
(* no trace: the finished evaluation decides exactly what GatePromise says *)
(* the inputs ask for.                                                     *)
Promise == INSTANCE GatePromise WITH
  decision <- IF stage = "done" THEN [act |-> action, final |-> final] ELSE None
KeepsPromise == Promise!Spec

(* A finished decision never contradicts itself the way a caller would     *)
(* notice: it allows no more than was asked, nothing under MANUAL_REVIEW   *)
(* and NO_TRADE, and everything under ALLOW.  PaperExecution relies on it. *)
DecisionContract ==
  stage = "done" =>
    /\ final <= intent.size
    /\ action \in {"MANUAL_REVIEW", "NO_TRADE"} => final = 0
    /\ action = "ALLOW" => final = intent.size

(* A hard blocker recorded by any stage survives every later stage: the    *)
(* finished action is NO_TRADE.  The divergence blocker is the exception,  *)
(* it counts in a cross-venue comparison only.                             *)
BlockersBlock ==
  stage = "done" =>
    \/ action = "NO_TRADE"
    \/ blockers = {}
    \/ blockers = {"DIVERGENCE_DO_NOT_COMPARE_CONTEXT"} /\ ~CrossVenue
-----------------------------------------------------------------------------
(* The argument for KeepsPromise.  What the stages passed so far ask for:  *)
(* the promise restricted to the inputs they have looked at.               *)
StageNumber(s) ==
  CASE s = "market" -> 0 [] s = "restrictions" -> 1 [] s = "verdict" -> 2 [] s = "quality" -> 3
    [] s = "integrity" -> 4 [] s = "divergence" -> 5 [] s = "passive" -> 6
    [] s = "exposure" -> 7 [] s = "size" -> 8 [] s = "done" -> 9

Passed(s) == StageNumber(stage) > StageNumber(s)
Applied == context.restrictions \ todo
AppliedRule(type) == \E r \in Applied : r.type = type

LimitsSoFar ==
  {r.cap : r \in SizeLimits \cap Applied}
    \cup IF ~Passed("exposure") THEN {}
         ELSE {policy.maxOrder} \cup IF context.exposure = None THEN {} ELSE Capacities

BlockSoFar ==
  \/ Passed("market") /\ MarketBlocked
  \/ AppliedRule("NO_TRADE")
  \/ Passed("verdict") /\ (VerdictAction = "NO_TRADE" \/ ResolutionBlocks)
  \/ Passed("integrity") /\ IntegrityHint("NO_TRADE")
  \/ Passed("divergence") /\ CrossVenue /\ Diverges("DO_NOT_COMPARE")
  \/ Passed("exposure") /\ Promise!CapacityExhausted

PassiveSoFar ==
  \/ AppliedRule("PASSIVE_ONLY")
  \/ Passed("verdict") /\ VerdictAction = "PASSIVE_ONLY"
  \/ Passed("quality") /\ SpreadTooWide

ReviewSoFar ==
  \/ Passed("market") /\ MissingRequired
  \/ AppliedRule("MANUAL_REVIEW")
  \/ Passed("verdict") /\ (VerdictAction = "MANUAL_REVIEW" \/ ResolutionTooHigh)
  \/ Passed("quality") /\ QualityNeedsReview
  \/ Passed("integrity") /\ (IntegrityTooRisky \/ IntegrityHint("MANUAL_REVIEW"))
  \/ Passed("divergence") /\ CrossVenue /\ DivergenceNeedsReview
  \/ Passed("passive") /\ PassiveSoFar /\ Aggressive
  \/ Passed("exposure") /\ Promise!ExposureUnknown

LessSoFar ==
  \/ Passed("verdict") /\ VerdictAction = "ALLOW_SMALLER_SIZE"
  \/ \E cap \in LimitsSoFar : cap < intent.size

ActFor(block, review, passive, less) ==
  IF block THEN "NO_TRADE" ELSE IF review THEN "MANUAL_REVIEW"
  ELSE IF passive THEN "PASSIVE_ONLY" ELSE IF less THEN "ALLOW_SMALLER_SIZE" ELSE "ALLOW"

ActionSoFar == action = ActFor(BlockSoFar, ReviewSoFar, PassiveSoFar, LessSoFar)

SizeSoFar ==
  IF Passed("exposure") /\ (Promise!CapacityExhausted \/ Promise!ExposureUnknown)
  THEN maxAllowed = 0
  ELSE /\ maxAllowed \in {intent.size} \cup LimitsSoFar
       /\ \A cap \in {intent.size} \cup LimitsSoFar : maxAllowed <= cap

(* Every stage keeps the action at the most restrictive one asked for so   *)
(* far and the size at the smallest limit seen so far: the inductive       *)
(* invariant behind KeepsPromise.                                          *)
StagesAgree ==
  /\ stage = "market" => todo = context.restrictions
  /\ Passed("restrictions") => todo = {}
  /\ ActionSoFar
  /\ stage # "done" => SizeSoFar
  /\ stage = "done" => final \in Promise!FinalSizes
=============================================================================
