-------------------------- MODULE PreTradeGateProofs --------------------------
(***************************************************************************)
(* Theorems about the pre-trade gate, for every set of intents, policies   *)
(* and input snapshots the assumptions of GateInputs admit.                *)
(***************************************************************************)
EXTENDS PreTradeGate, DeskLemmas, TLAPS

(* What the assumptions say of the inputs of an evaluation.                *)
LEMMA InputTypes ==
  ASSUME ChooseInputs
  PROVE  /\ None \notin Int
         /\ intent.size \in Nat \ {0}
         /\ policy.maxOrder \in Nat
         /\ VerdictAction \in PreTradeActions
         /\ \A r \in context.restrictions : r.type \in RestrictionTypes
         /\ \A r \in SizeLimits : r \in context.restrictions /\ r.cap \in Nat
BY NoneAssumption, IntentsAssumption, PoliciesAssumption, ContextsAssumption
DEF ChooseInputs, VerdictAction, PreTradeActions, SizeLimits, Maybe

(* What is left of an exposure limit: nothing when any limit is used up,   *)
(* otherwise the smallest remaining capacity.                              *)
LEMMA RemainingCapacityIsLeast ==
  ASSUME ChooseInputs, context.exposure # None
  PROVE  /\ Capacities \subseteq Int
         /\ RemainingCapacity \in Nat
         /\ (RemainingCapacity <= 0) <=> \E x \in Capacities : x <= 0
         /\ RemainingCapacity > 0 =>
              /\ RemainingCapacity \in Capacities
              /\ \A x \in Capacities : RemainingCapacity <= x
<1> DEFINE Clip(x) == IF x > 0 THEN x ELSE 0
           T == {Clip(x) : x \in Capacities}
<1>1. PICK a \in Int, b \in Int, c \in Int, d \in Int : Capacities = {a, b, c, d}
  <2>1. /\ {policy.maxMarket, policy.maxEvent, policy.maxVenue} \subseteq Int
        /\ policy.maxStrategy # None => policy.maxStrategy \in Int
    BY PoliciesAssumption, NoneAssumption DEF ChooseInputs, Maybe
  <2>2. /\ {context.exposure.market, context.exposure.event, context.exposure.venue} \subseteq Int
        /\ context.exposure.strategy # None => context.exposure.strategy \in Int
    BY ContextsAssumption, NoneAssumption DEF ChooseInputs, Maybe
  <2> DEFINE mkt == policy.maxMarket - context.exposure.market
             evt == policy.maxEvent - context.exposure.event
             ven == policy.maxVenue - context.exposure.venue
             str == policy.maxStrategy - context.exposure.strategy
  <2>3. CASE policy.maxStrategy # None /\ context.exposure.strategy # None
    <3>1. Capacities = {mkt, evt, ven, str}
      BY <2>3 DEF Capacities
    <3>2. mkt \in Int /\ evt \in Int /\ ven \in Int /\ str \in Int
      BY <2>1, <2>2, <2>3
    <3>. HIDE DEF mkt, evt, ven, str
    <3>. QED
      BY <3>1, <3>2
  <2>4. CASE ~(policy.maxStrategy # None /\ context.exposure.strategy # None)
    <3>1. Capacities = {mkt, evt, ven, ven}
      BY <2>4 DEF Capacities
    <3>2. mkt \in Int /\ evt \in Int /\ ven \in Int
      BY <2>1, <2>2
    <3>. HIDE DEF mkt, evt, ven
    <3>. QED
      BY <3>1, <3>2
  <2>. QED
    BY <2>3, <2>4
<1>2. T = {Clip(a), Clip(b), Clip(c), Clip(d)}
  BY <1>1
<1>3. Clip(a) \in Nat /\ Clip(b) \in Nat /\ Clip(c) \in Nat /\ Clip(d) \in Nat
  OBVIOUS
<1>4. PICK m \in T : \A x \in T : m <= x
  BY <1>2, <1>3, LeastOfFour
<1>5. RemainingCapacity = m
  BY <1>2, <1>3, <1>4, MinIsLeast DEF RemainingCapacity
<1>6. m \in Nat /\ Capacities \subseteq Int
  BY <1>1, <1>2, <1>3
<1>7. (m <= 0) <=> \E x \in Capacities : x <= 0
  BY <1>4, <1>6
<1>8. m > 0 => m \in Capacities /\ \A x \in Capacities : m <= x
  BY <1>4, <1>6, <1>7
<1>. QED
  BY <1>5, <1>6, <1>7, <1>8
-----------------------------------------------------------------------------
(* The order of the actions.                                               *)
LEMMA RankType ==
  ASSUME NEW a \in PreTradeActions
  PROVE  Rank(a) \in 0..4
BY DEF PreTradeActions, Rank

LEMMA MaxActionType ==
  ASSUME NEW a \in PreTradeActions, NEW b \in PreTradeActions
  PROVE  /\ MaxAction(a, b) \in PreTradeActions
         /\ Rank(MaxAction(a, b)) >= Rank(a)
         /\ Rank(MaxAction(a, b)) >= Rank(b)
BY DEF PreTradeActions, Rank, MaxAction
-----------------------------------------------------------------------------
(* Type correctness: whatever the inputs, every stage leaves an action of  *)
(* the enumeration and an allowed size between nothing and the request.    *)
THEOREM TypeCorrect == Spec => []TypeOK
<1>1. Init => TypeOK
  BY InputTypes DEF Init, TypeOK, Stages, PreTradeActions
<1>2. TypeOK /\ [Next]_vars => TypeOK'
  <2> SUFFICES ASSUME TypeOK, [Next]_vars
               PROVE  TypeOK'
    OBVIOUS
  <2> USE DEF TypeOK
  <2>1. /\ ChooseInputs /\ intent.size \in Nat
        /\ maxAllowed \in Nat /\ maxAllowed <= intent.size
    BY InputTypes
  <2>2. UNCHANGED inputs => ChooseInputs'
    BY DEF ChooseInputs, inputs
  <2>3. CASE CheckMarket
    BY <2>1, <2>2, <2>3, MaxActionType
    DEF CheckMarket, Go, Escalate, inputs, Stages, PreTradeActions
  <2>4. ASSUME NEW r \in todo, ApplyRestriction(r)
        PROVE  TypeOK'
    <3>1. r \in SizeLimits => r.cap \in Nat
      BY InputTypes
    <3>2. maxAllowed' = IF r \in SizeLimits THEN Min({maxAllowed, r.cap}) ELSE maxAllowed
      BY <2>4 DEF ApplyRestriction
    <3>4. maxAllowed' \in 0..intent.size
      BY <2>1, <3>1, <3>2, MinOfTwo
    <3>3. action' \in PreTradeActions
      BY <2>1, <2>4, InputTypes, MaxActionType
      DEF ApplyRestriction, Escalate, RestrictionTypes, PreTradeActions
    <3>. QED
      BY <2>2, <2>4, <3>3, <3>4 DEF ApplyRestriction, inputs
  <2>5. CASE EndRestrictions
    BY <2>2, <2>5 DEF EndRestrictions, Go, inputs, Stages
  <2>6. CASE ApplyVerdict
    <3>1. action' \in PreTradeActions
      BY <2>1, <2>6, InputTypes, MaxActionType DEF ApplyVerdict, Escalate, PreTradeActions
    <3>. QED
      BY <2>2, <2>6, <3>1 DEF ApplyVerdict, Go, inputs, Stages
  <2>7. CASE ApplyQuality
    <3>1. action' \in PreTradeActions
      BY <2>7, MaxActionType DEF ApplyQuality, Escalate, PreTradeActions
    <3>. QED
      BY <2>2, <2>7, <3>1 DEF ApplyQuality, Go, inputs, Stages
  <2>8. CASE ApplyIntegrity
    <3>1. action' \in PreTradeActions
      BY <2>8, MaxActionType DEF ApplyIntegrity, Escalate, PreTradeActions
    <3>. QED
      BY <2>2, <2>8, <3>1 DEF ApplyIntegrity, Go, inputs, Stages
  <2>9. CASE ApplyDivergence
    <3>1. action' \in PreTradeActions
      BY <2>9, MaxActionType DEF ApplyDivergence, Escalate, PreTradeActions
    <3>. QED
      BY <2>2, <2>9, <3>1 DEF ApplyDivergence, Go, inputs, Stages
  <2>10. CASE ApplyPassiveOnly
    <3>1. action' \in PreTradeActions
      BY <2>10, MaxActionType DEF ApplyPassiveOnly, Escalate, PreTradeActions
    <3>. QED
      BY <2>2, <2>10, <3>1 DEF ApplyPassiveOnly, Go, inputs, Stages
  <2>11. CASE ApplyExposure
    <3>1. OrderCap \in Nat
      BY <2>1, InputTypes, MinOfTwo DEF OrderCap
    <3>2. context.exposure # None => RemainingCapacity \in Nat
      BY <2>1, RemainingCapacityIsLeast
    <3>3. PICK cap \in Nat : maxAllowed' = Min({maxAllowed, cap})
      <4>1. context.exposure # None => Min({OrderCap, RemainingCapacity}) \in Nat
        BY <3>1, <3>2, MinOfTwo
      <4>. QED
        BY <2>11, <3>1, <4>1 DEF ApplyExposure
    <3>5. maxAllowed' \in 0..intent.size
      BY <2>1, <3>3, MinOfTwo
    <3>4. action' \in PreTradeActions
      BY <2>11, MaxActionType DEF ApplyExposure, ExposureAction, PreTradeActions
    <3>. QED
      BY <2>2, <2>11, <3>4, <3>5 DEF ApplyExposure, Go, inputs, Stages
  <2>12. CASE DecideSize
    <3>1. intent.size \in Nat
      BY <2>1, InputTypes
    <3>2. maxAllowed' \in 0..intent.size /\ final' \in 0..intent.size
      BY <2>1, <2>12, <3>1, MinOfTwo DEF DecideSize, FinalSize
    <3>3. action' \in PreTradeActions
      BY <2>12 DEF DecideSize, PreTradeActions
    <3>. QED
      BY <2>2, <2>12, <3>2, <3>3 DEF DecideSize, Go, inputs, Stages
  <2>13. CASE UNCHANGED vars
    BY <2>2, <2>13 DEF vars, inputs
  <2>. QED
    BY <2>3, <2>4, <2>5, <2>6, <2>7, <2>8, <2>9, <2>10, <2>11, <2>12, <2>13 DEF Next
<1>. QED
  BY <1>1, <1>2, PTL DEF Spec
-----------------------------------------------------------------------------
(* No stage relaxes the action: each either keeps it, takes a maximum with *)
(* it, or assigns NO_TRADE, the most restrictive one.                      *)
THEOREM ActionEscalates == Spec => Escalates
<1>1. TypeOK /\ [Next]_vars => [Rank(action') >= Rank(action)]_vars
  <2> SUFFICES ASSUME TypeOK, Next
               PROVE  Rank(action') >= Rank(action)
    BY DEF vars
  <2>1. action \in PreTradeActions /\ ChooseInputs
    BY DEF TypeOK
  <2>2. Rank(action) \in 0..4 /\ Rank("NO_TRADE") = 4
    BY <2>1, RankType DEF Rank
  <2>3. CASE CheckMarket
    BY <2>1, <2>2, <2>3, MaxActionType DEF CheckMarket, Escalate, PreTradeActions, Rank
  <2>4. ASSUME NEW r \in todo, ApplyRestriction(r)
        PROVE  Rank(action') >= Rank(action)
    <3>1. r.type \in RestrictionTypes
      BY <2>1, <2>4, InputTypes DEF TypeOK
    <3>. QED
      BY <2>1, <2>2, <2>4, <3>1, MaxActionType
      DEF ApplyRestriction, Escalate, RestrictionTypes, PreTradeActions
  <2>5. CASE EndRestrictions
    BY <2>2, <2>5 DEF EndRestrictions
  <2>11. CASE ApplyPassiveOnly
    BY <2>1, <2>11 DEF ApplyPassiveOnly, Escalate, MaxAction, PreTradeActions, Rank
  <2>12. CASE ApplyQuality
    BY <2>1, <2>12 DEF ApplyQuality, Escalate, MaxAction, PreTradeActions, Rank
  <2>6. CASE ApplyVerdict
    BY <2>1, <2>6, InputTypes DEF ApplyVerdict, Escalate, MaxAction, PreTradeActions, Rank
  <2>7. CASE ApplyIntegrity
    BY <2>1, <2>7 DEF ApplyIntegrity, Escalate, MaxAction, PreTradeActions, Rank
  <2>8. CASE ApplyDivergence
    BY <2>1, <2>8 DEF ApplyDivergence, Escalate, MaxAction, PreTradeActions, Rank
  <2>9. CASE ApplyExposure
    BY <2>1, <2>9 DEF ApplyExposure, ExposureAction, MaxAction, PreTradeActions, Rank
  <2>10. CASE DecideSize
    BY <2>1, <2>10 DEF DecideSize, PreTradeActions, Rank
  <2>. QED
    BY <2>3, <2>4, <2>5, <2>6, <2>7, <2>8, <2>9, <2>10, <2>11, <2>12 DEF Next
<1>. QED
  BY <1>1, TypeCorrect, PTL DEF Spec, Escalates

(* A recorded hard blocker means NO_TRADE from the stage that records it   *)
(* on, except the divergence blocker outside a cross-venue comparison.     *)
Counts(b) == b # "DIVERGENCE_DO_NOT_COMPARE_CONTEXT" \/ CrossVenue
BlockedMeansNoTrade == \A b \in blockers : Counts(b) => action = "NO_TRADE"

(* No stage lets a hard blocker of an earlier stage be traded over, for    *)
(* every input.                                                            *)
THEOREM HardBlockersBlock == Spec => []BlockersBlock
<1>1. Init => BlockedMeansNoTrade
  BY DEF Init, BlockedMeansNoTrade
<1>2. TypeOK /\ BlockedMeansNoTrade /\ [Next]_vars => BlockedMeansNoTrade'
  <2> SUFFICES ASSUME TypeOK, BlockedMeansNoTrade, [Next]_vars
               PROVE  BlockedMeansNoTrade'
    OBVIOUS
  <2> USE DEF BlockedMeansNoTrade
  <2>1. UNCHANGED inputs => (CrossVenue' <=> CrossVenue) /\ \A b : Counts(b)' <=> Counts(b)
    BY DEF CrossVenue, Counts, inputs
  <2>2. CASE CheckMarket
    BY <2>1, <2>2 DEF CheckMarket, Go, Escalate, MaxAction, Rank
  <2>3. ASSUME NEW r \in todo, ApplyRestriction(r)
        PROVE  BlockedMeansNoTrade'
    <3>1. r.type \in RestrictionTypes
      BY <2>3, InputTypes DEF TypeOK
    <3>. QED
      BY <2>1, <2>3, <3>1
      DEF ApplyRestriction, inputs, Escalate, MaxAction, Rank, RestrictionTypes
  <2>4. CASE EndRestrictions
    BY <2>1, <2>4 DEF EndRestrictions, Go
  <2>5. CASE ApplyVerdict
    <3>1. VerdictAction \in PreTradeActions
      BY InputTypes DEF TypeOK
    <3>. QED
      BY <2>1, <2>5, <3>1 DEF ApplyVerdict, Go, Escalate, MaxAction, Rank, PreTradeActions
  <2>6. CASE ApplyQuality
    BY <2>1, <2>6 DEF ApplyQuality, Go, Escalate, MaxAction, Rank
  <2>7. CASE ApplyIntegrity
    BY <2>1, <2>7 DEF ApplyIntegrity, Go, Escalate, MaxAction, Rank
  <2>8. CASE ApplyDivergence
    <3>1. \A b \in blockers' : b \in blockers \/
            (b = "DIVERGENCE_DO_NOT_COMPARE_CONTEXT" /\ Diverges("DO_NOT_COMPARE"))
      BY <2>8 DEF ApplyDivergence
    <3>2. CrossVenue /\ Diverges("DO_NOT_COMPARE") => action' = "NO_TRADE"
      BY <2>8 DEF ApplyDivergence
    <3>3. action = "NO_TRADE" => action' = "NO_TRADE"
      BY <2>8 DEF ApplyDivergence, Escalate, MaxAction, Rank
    <3>. QED
      BY <2>1, <2>8, <3>1, <3>2, <3>3 DEF ApplyDivergence, Go, Counts
  <2>9. CASE ApplyPassiveOnly
    BY <2>1, <2>9 DEF ApplyPassiveOnly, Go, Escalate, MaxAction, Rank
  <2>10. CASE ApplyExposure
    BY <2>1, <2>10 DEF ApplyExposure, Go, ExposureAction, MaxAction, Rank, TypeOK, PreTradeActions
  <2>11. CASE DecideSize
    BY <2>1, <2>11 DEF DecideSize, Go
  <2>12. CASE UNCHANGED vars
    BY <2>1, <2>12 DEF vars
  <2>. QED
    BY <2>2, <2>3, <2>4, <2>5, <2>6, <2>7, <2>8, <2>9, <2>10, <2>11, <2>12 DEF Next
<1>3. BlockedMeansNoTrade => BlockersBlock
  BY DEF BlockedMeansNoTrade, BlockersBlock, Counts
<1>. QED
  BY <1>1, <1>2, <1>3, TypeCorrect, PTL DEF Spec

-----------------------------------------------------------------------------
(***************************************************************************)
(* The staged evaluation implements GatePromise.  The inductive invariant  *)
(* is StagesAgree: what the stages passed so far ask for is what the       *)
(* action and the size say so far.                                         *)
(***************************************************************************)

(* The promise in terms of the conditions the evaluation itself tests.     *)
LEMMA PromiseConditions ==
  /\ Promise!CapacityExhausted <=> context.exposure # None /\ \E x \in Capacities : x <= 0
  /\ Promise!ExposureUnknown <=> context.exposure = None /\ ~policy.allowUnknownExposure
  /\ Promise!Caps = {policy.maxOrder} \cup {r.cap : r \in SizeLimits}
                      \cup IF context.exposure = None THEN {} ELSE Capacities
  /\ \A t : Promise!Restricts(t) <=> \E r \in context.restrictions : r.type = t
  /\ Promise!AsksForBlock <=>
       \/ MarketBlocked \/ Promise!Restricts("NO_TRADE") \/ VerdictAction = "NO_TRADE"
       \/ ResolutionBlocks \/ IntegrityHint("NO_TRADE")
       \/ CrossVenue /\ Diverges("DO_NOT_COMPARE")
       \/ Promise!CapacityExhausted
  /\ Promise!AsksForPassive <=>
       Promise!Restricts("PASSIVE_ONLY") \/ VerdictAction = "PASSIVE_ONLY" \/ SpreadTooWide
  /\ Promise!AsksForReview <=>
       \/ MissingRequired \/ Promise!Restricts("MANUAL_REVIEW") \/ VerdictAction = "MANUAL_REVIEW"
       \/ ResolutionTooHigh \/ QualityNeedsReview
       \/ IntegrityTooRisky \/ IntegrityHint("MANUAL_REVIEW")
       \/ CrossVenue /\ DivergenceNeedsReview
       \/ Promise!AsksForPassive /\ Aggressive
       \/ Promise!ExposureUnknown
  /\ Promise!AsksForLess <=>
       VerdictAction = "ALLOW_SMALLER_SIZE" \/ \E cap \in Promise!Caps : cap < intent.size
<1>1. /\ Promise!Capacities = Capacities /\ Promise!SizeLimits = SizeLimits
      /\ Promise!MarketBlocked <=> MarketBlocked
      /\ Promise!MissingRequired <=> MissingRequired
      /\ Promise!VerdictAction = VerdictAction
  BY DEF Promise!Capacities, Capacities, Promise!SizeLimits, SizeLimits, Promise!MarketBlocked,
         MarketBlocked, Promise!MissingRequired, MissingRequired, Promise!VerdictAction,
         VerdictAction
<1>2. /\ Promise!ResolutionTooHigh <=> ResolutionTooHigh
      /\ Promise!ResolutionBlocks <=> ResolutionBlocks
      /\ Promise!QualityNeedsReview <=> QualityNeedsReview
      /\ Promise!SpreadTooWide <=> SpreadTooWide
      /\ Promise!IntegrityTooRisky <=> IntegrityTooRisky
  BY DEF Promise!ResolutionTooHigh, ResolutionTooHigh, Promise!ResolutionBlocks,
         ResolutionBlocks, Promise!QualityNeedsReview, QualityNeedsReview,
         Promise!SpreadTooWide, SpreadTooWide, Promise!Exceeds, Exceeds,
         Promise!IntegrityTooRisky, IntegrityTooRisky
<1>3. \A h : Promise!IntegrityHint(h) <=> IntegrityHint(h)
  BY DEF Promise!IntegrityHint, IntegrityHint
<1>4. \A s : Promise!Diverges(s) <=> Diverges(s)
  BY DEF Promise!Diverges, Diverges
<1>5. /\ Promise!CrossVenue <=> CrossVenue
      /\ Promise!Aggressive <=> Aggressive
      /\ Promise!DivergenceNeedsReview <=> DivergenceNeedsReview
  BY <1>4 DEF Promise!CrossVenue, CrossVenue, Promise!Aggressive, Aggressive,
              Promise!DivergenceNeedsReview, DivergenceNeedsReview
<1>6. /\ Promise!CapacityExhausted <=> context.exposure # None /\ \E x \in Capacities : x <= 0
      /\ Promise!ExposureUnknown <=> context.exposure = None /\ ~policy.allowUnknownExposure
  BY <1>1 DEF Promise!CapacityExhausted, Promise!ExposureUnknown
<1>7. /\ Promise!Caps = {policy.maxOrder} \cup {r.cap : r \in SizeLimits}
                          \cup IF context.exposure = None THEN {} ELSE Capacities
      /\ \A t : Promise!Restricts(t) <=> \E r \in context.restrictions : r.type = t
  BY <1>1 DEF Promise!Caps, Promise!Restricts
<1>8. Promise!AsksForBlock <=>
       \/ MarketBlocked \/ Promise!Restricts("NO_TRADE") \/ VerdictAction = "NO_TRADE"
       \/ ResolutionBlocks \/ IntegrityHint("NO_TRADE")
       \/ CrossVenue /\ Diverges("DO_NOT_COMPARE")
       \/ Promise!CapacityExhausted
  BY <1>1, <1>2, <1>3, <1>4, <1>5 DEF Promise!AsksForBlock
<1>9. Promise!AsksForPassive <=>
       Promise!Restricts("PASSIVE_ONLY") \/ VerdictAction = "PASSIVE_ONLY" \/ SpreadTooWide
  BY <1>1, <1>2 DEF Promise!AsksForPassive
<1>10. Promise!AsksForReview <=>
       \/ MissingRequired \/ Promise!Restricts("MANUAL_REVIEW") \/ VerdictAction = "MANUAL_REVIEW"
       \/ ResolutionTooHigh \/ QualityNeedsReview
       \/ IntegrityTooRisky \/ IntegrityHint("MANUAL_REVIEW")
       \/ CrossVenue /\ DivergenceNeedsReview
       \/ Promise!AsksForPassive /\ Aggressive
       \/ Promise!ExposureUnknown
  BY <1>1, <1>2, <1>3, <1>5 DEF Promise!AsksForReview
<1>11. Promise!AsksForLess <=>
       VerdictAction = "ALLOW_SMALLER_SIZE" \/ \E cap \in Promise!Caps : cap < intent.size
  BY <1>1 DEF Promise!AsksForLess
<1>. QED
  BY <1>6, <1>7, <1>8, <1>9, <1>10, <1>11

(* The conditions read only the inputs, which no stage changes.            *)
LEMMA ConditionsFixed ==
  ASSUME inputs' = inputs
  PROVE  /\ intent' = intent /\ policy' = policy /\ context' = context
         /\ MarketBlocked' = MarketBlocked /\ MissingRequired' = MissingRequired
         /\ SizeLimits' = SizeLimits /\ VerdictAction' = VerdictAction
         /\ ResolutionTooHigh' = ResolutionTooHigh /\ ResolutionBlocks' = ResolutionBlocks
         /\ QualityNeedsReview' = QualityNeedsReview /\ SpreadTooWide' = SpreadTooWide
         /\ IntegrityTooRisky' = IntegrityTooRisky
         /\ \A h : IntegrityHint(h)' = IntegrityHint(h)
         /\ CrossVenue' = CrossVenue /\ DivergenceNeedsReview' = DivergenceNeedsReview
         /\ \A s : Diverges(s)' = Diverges(s)
         /\ Aggressive' = Aggressive /\ Capacities' = Capacities
         /\ Promise!CapacityExhausted' = Promise!CapacityExhausted
         /\ Promise!ExposureUnknown' = Promise!ExposureUnknown
<1>1. intent' = intent /\ policy' = policy /\ context' = context
  BY DEF inputs
<1>2. /\ MarketBlocked' = MarketBlocked /\ MissingRequired' = MissingRequired
      /\ SizeLimits' = SizeLimits /\ VerdictAction' = VerdictAction
      /\ ResolutionTooHigh' = ResolutionTooHigh /\ ResolutionBlocks' = ResolutionBlocks
  BY <1>1 DEF MarketBlocked, MissingRequired, SizeLimits, VerdictAction, ResolutionTooHigh,
              ResolutionBlocks
<1>3. /\ QualityNeedsReview' = QualityNeedsReview /\ SpreadTooWide' = SpreadTooWide
      /\ IntegrityTooRisky' = IntegrityTooRisky
      /\ \A h : IntegrityHint(h)' = IntegrityHint(h)
  BY <1>1 DEF QualityNeedsReview, SpreadTooWide, IntegrityTooRisky, IntegrityHint, Exceeds
<1>4. /\ CrossVenue' = CrossVenue /\ DivergenceNeedsReview' = DivergenceNeedsReview
      /\ \A s : Diverges(s)' = Diverges(s)
      /\ Aggressive' = Aggressive /\ Capacities' = Capacities
  BY <1>1 DEF CrossVenue, DivergenceNeedsReview, Diverges, Aggressive, Capacities
<1>5. /\ Promise!CapacityExhausted' = Promise!CapacityExhausted
      /\ Promise!ExposureUnknown' = Promise!ExposureUnknown
  BY <1>1 DEF Promise!CapacityExhausted, Promise!ExposureUnknown, Promise!Capacities
<1>. QED
  BY <1>1, <1>2, <1>3, <1>4, <1>5

(* Escalating the action an asking condition at a time.                    *)
LEMMA EscalateActFor ==
  ASSUME NEW b \in BOOLEAN, NEW r \in BOOLEAN, NEW p \in BOOLEAN, NEW l \in BOOLEAN
  PROVE  /\ ActFor(b, r, p, l) \in PreTradeActions
         /\ MaxAction(ActFor(b, r, p, l), "NO_TRADE") = ActFor(TRUE, r, p, l)
         /\ MaxAction(ActFor(b, r, p, l), "MANUAL_REVIEW") = ActFor(b, TRUE, p, l)
         /\ MaxAction(ActFor(b, r, p, l), "PASSIVE_ONLY") = ActFor(b, r, TRUE, l)
         /\ MaxAction(ActFor(b, r, p, l), "ALLOW_SMALLER_SIZE") = ActFor(b, r, p, TRUE)
         /\ MaxAction(ActFor(b, r, p, l), "ALLOW") = ActFor(b, r, p, l)
         /\ ActFor(TRUE, r, p, l) = "NO_TRADE"
BY DEF ActFor, MaxAction, Rank, PreTradeActions

LEMMA SoFarBoolean ==
  /\ BlockSoFar \in BOOLEAN /\ ReviewSoFar \in BOOLEAN
  /\ PassiveSoFar \in BOOLEAN /\ LessSoFar \in BOOLEAN
BY DEF BlockSoFar, ReviewSoFar, PassiveSoFar, LessSoFar
-----------------------------------------------------------------------------
(* Passing a stage adds what that stage asks for, and nothing else.        *)
LEMMA PassStage ==
  ASSUME NEW s \in Stages \ {"done"}, stage = s, stage' \in Stages,
         StageNumber(stage') = StageNumber(s) + 1,
         inputs' = inputs, todo' = todo
  PROVE  /\ \A q \in Stages : Passed(q)' <=> Passed(q) \/ q = s
         /\ s # "exposure" => LimitsSoFar' = LimitsSoFar
         /\ BlockSoFar' <=>
              \/ BlockSoFar
              \/ s = "market" /\ MarketBlocked
              \/ s = "verdict" /\ (VerdictAction = "NO_TRADE" \/ ResolutionBlocks)
              \/ s = "integrity" /\ IntegrityHint("NO_TRADE")
              \/ s = "divergence" /\ CrossVenue /\ Diverges("DO_NOT_COMPARE")
              \/ s = "exposure" /\ Promise!CapacityExhausted
         /\ PassiveSoFar' <=>
              \/ PassiveSoFar
              \/ s = "verdict" /\ VerdictAction = "PASSIVE_ONLY"
              \/ s = "quality" /\ SpreadTooWide
         /\ ReviewSoFar' <=>
              \/ ReviewSoFar
              \/ s = "market" /\ MissingRequired
              \/ s = "verdict" /\ (VerdictAction = "MANUAL_REVIEW" \/ ResolutionTooHigh)
              \/ s = "quality" /\ QualityNeedsReview
              \/ s = "integrity" /\ (IntegrityTooRisky \/ IntegrityHint("MANUAL_REVIEW"))
              \/ s = "divergence" /\ CrossVenue /\ DivergenceNeedsReview
              \/ s = "passive" /\ PassiveSoFar /\ Aggressive
              \/ s = "exposure" /\ Promise!ExposureUnknown
         /\ s # "exposure" =>
              (LessSoFar' <=> LessSoFar \/ (s = "verdict" /\ VerdictAction = "ALLOW_SMALLER_SIZE"))
<1>1. \A q \in Stages : Passed(q)' <=> Passed(q) \/ q = s
  BY DEF Passed, StageNumber, Stages
<1>2. /\ ~Passed(s)
      /\ s \in {"market", "verdict", "quality"} => ~Passed("passive")
  <2>1. \A q \in Stages : StageNumber(q) \in Nat
    BY DEF StageNumber, Stages
  <2>2. ~Passed(s)
    BY <2>1 DEF Passed
  <2>3. s \in {"market", "verdict", "quality"} => StageNumber(s) < StageNumber("passive")
    BY DEF StageNumber
  <2>4. StageNumber("passive") \in Nat
    BY DEF StageNumber
  <2>. QED
    BY <2>1, <2>2, <2>3, <2>4 DEF Passed
<1>3. /\ {"market", "verdict", "quality", "integrity", "divergence", "passive", "exposure"}
           \subseteq Stages
  BY DEF Stages
<1>4. Applied' = Applied /\ \A t : AppliedRule(t)' <=> AppliedRule(t)
  BY DEF Applied, AppliedRule, inputs
<1>5. BlockSoFar' <=>
        \/ BlockSoFar
        \/ s = "market" /\ MarketBlocked
        \/ s = "verdict" /\ (VerdictAction = "NO_TRADE" \/ ResolutionBlocks)
        \/ s = "integrity" /\ IntegrityHint("NO_TRADE")
        \/ s = "divergence" /\ CrossVenue /\ Diverges("DO_NOT_COMPARE")
        \/ s = "exposure" /\ Promise!CapacityExhausted
  BY <1>1, <1>3, <1>4, ConditionsFixed DEF BlockSoFar
<1>6. PassiveSoFar' <=>
        \/ PassiveSoFar
        \/ s = "verdict" /\ VerdictAction = "PASSIVE_ONLY"
        \/ s = "quality" /\ SpreadTooWide
  BY <1>1, <1>3, <1>4, ConditionsFixed DEF PassiveSoFar
<1>7. ReviewSoFar' <=>
        \/ ReviewSoFar
        \/ s = "market" /\ MissingRequired
        \/ s = "verdict" /\ (VerdictAction = "MANUAL_REVIEW" \/ ResolutionTooHigh)
        \/ s = "quality" /\ QualityNeedsReview
        \/ s = "integrity" /\ (IntegrityTooRisky \/ IntegrityHint("MANUAL_REVIEW"))
        \/ s = "divergence" /\ CrossVenue /\ DivergenceNeedsReview
        \/ s = "passive" /\ PassiveSoFar /\ Aggressive
        \/ s = "exposure" /\ Promise!ExposureUnknown
  BY <1>1, <1>2, <1>3, <1>4, <1>6, ConditionsFixed DEF ReviewSoFar
<1>8. s # "exposure" => LimitsSoFar' = LimitsSoFar
  BY <1>1, <1>3, <1>4, ConditionsFixed DEF LimitsSoFar
<1>9. s # "exposure" =>
        (LessSoFar' <=> LessSoFar \/ (s = "verdict" /\ VerdictAction = "ALLOW_SMALLER_SIZE"))
  <2> SUFFICES ASSUME s # "exposure"
               PROVE  LessSoFar' <=>
                        LessSoFar \/ (s = "verdict" /\ VerdictAction = "ALLOW_SMALLER_SIZE")
    OBVIOUS
  <2>1. Passed("verdict")' <=> Passed("verdict") \/ s = "verdict"
    BY <1>1, <1>3
  <2>2. VerdictAction' = VerdictAction /\ intent' = intent
    BY ConditionsFixed
  <2>3. (\E cap \in LimitsSoFar : cap < intent.size)' <=>
          \E cap \in LimitsSoFar : cap < intent.size
    BY <1>8, <2>2
  <2>. QED
    BY <2>1, <2>2, <2>3 DEF LessSoFar
<1>. QED
  BY <1>1, <1>5, <1>6, <1>7, <1>8, <1>9
-----------------------------------------------------------------------------
LEMMA InitAgrees == Init => StagesAgree
<1> SUFFICES ASSUME Init
             PROVE  StagesAgree
  OBVIOUS
<1>1. /\ \A q \in Stages : ~Passed(q)
      /\ Applied = {}
  BY DEF Init, Passed, StageNumber, Stages, Applied
<1>2. LimitsSoFar = {} /\ ~BlockSoFar /\ ~PassiveSoFar /\ ~ReviewSoFar /\ ~LessSoFar
  BY <1>1 DEF LimitsSoFar, BlockSoFar, PassiveSoFar, ReviewSoFar, LessSoFar, AppliedRule, Stages
<1>3. ActionSoFar
  BY <1>2 DEF Init, ActionSoFar, ActFor
<1>4. SizeSoFar
  <2>1. intent.size \in Nat
    BY InputTypes DEF Init
  <2>. QED
    BY <1>1, <1>2, <2>1 DEF Init, SizeSoFar, Stages
<1>. QED
  BY <1>1, <1>3, <1>4 DEF Init, StagesAgree, Stages

(* A stage that only asks for an action keeps the invariant when it leaves *)
(* the action the promise gives for everything asked for.                  *)
LEMMA ActionStage ==
  ASSUME TypeOK, StagesAgree,
         NEW s \in Stages \ {"exposure", "size", "done"}, stage = s, stage' \in Stages,
         StageNumber(stage') = StageNumber(s) + 1,
         inputs' = inputs, todo' = todo, maxAllowed' = maxAllowed,
         s = "restrictions" => todo = {},
         ActionSoFar'
  PROVE  StagesAgree'
<1>1. /\ \A q \in Stages : Passed(q)' <=> Passed(q) \/ q = s
      /\ LimitsSoFar' = LimitsSoFar
  BY PassStage
<1>2. "exposure" \in Stages /\ "restrictions" \in Stages
  BY DEF Stages
<1>3. SizeSoFar'
  <2>1. SizeSoFar
    BY DEF StagesAgree
  <2>2. Passed("exposure")' <=> Passed("exposure")
    BY <1>1, <1>2
  <2>. QED
    BY <1>1, <2>1, <2>2, ConditionsFixed DEF SizeSoFar
<1>4. Passed("restrictions")' => todo' = {}
  BY <1>1, <1>2 DEF StagesAgree
<1>5. stage' # "market" /\ stage' # "done"
  BY DEF StageNumber, Stages
<1>. QED
  BY <1>3, <1>4, <1>5 DEF StagesAgree

LEMMA CheckMarketAgrees ==
  ASSUME TypeOK, StagesAgree, CheckMarket
  PROVE  StagesAgree'
<1>1. /\ stage = "market" /\ stage' = "restrictions" /\ inputs' = inputs
      /\ todo' = todo /\ maxAllowed' = maxAllowed
  BY DEF CheckMarket, Go
<1>2. StageNumber(stage') = StageNumber("market") + 1
  BY <1>1 DEF StageNumber
<1>3. /\ BlockSoFar' <=> BlockSoFar \/ MarketBlocked
      /\ ReviewSoFar' <=> ReviewSoFar \/ MissingRequired
      /\ PassiveSoFar' <=> PassiveSoFar
      /\ LessSoFar' <=> LessSoFar
  BY <1>1, <1>2, PassStage DEF Stages
<1>4. ActionSoFar'
  BY <1>3 DEF CheckMarket, Escalate, StagesAgree, ActionSoFar, ActFor, MaxAction, Rank
<1>. QED
  BY <1>1, <1>2, <1>4, ActionStage DEF Stages

LEMMA VerdictAgrees ==
  ASSUME TypeOK, StagesAgree, ApplyVerdict
  PROVE  StagesAgree'
<1>1. /\ stage = "verdict" /\ stage' = "quality" /\ inputs' = inputs
      /\ todo' = todo /\ maxAllowed' = maxAllowed
  BY DEF ApplyVerdict, Go
<1>2. StageNumber(stage') = StageNumber("verdict") + 1
  BY <1>1 DEF StageNumber
<1>3. /\ BlockSoFar' <=> BlockSoFar \/ VerdictAction = "NO_TRADE" \/ ResolutionBlocks
      /\ ReviewSoFar' <=> ReviewSoFar \/ VerdictAction = "MANUAL_REVIEW" \/ ResolutionTooHigh
      /\ PassiveSoFar' <=> PassiveSoFar \/ VerdictAction = "PASSIVE_ONLY"
      /\ LessSoFar' <=> LessSoFar \/ VerdictAction = "ALLOW_SMALLER_SIZE"
  BY <1>1, <1>2, PassStage DEF Stages
<1>4. ActionSoFar'
  BY <1>3, InputTypes DEF ApplyVerdict, Escalate, StagesAgree, ActionSoFar, ActFor, MaxAction, Rank, TypeOK, PreTradeActions
<1>. QED
  BY <1>1, <1>2, <1>4, ActionStage DEF Stages

LEMMA QualityAgrees ==
  ASSUME TypeOK, StagesAgree, ApplyQuality
  PROVE  StagesAgree'
<1>1. /\ stage = "quality" /\ stage' = "integrity" /\ inputs' = inputs
      /\ todo' = todo /\ maxAllowed' = maxAllowed
  BY DEF ApplyQuality, Go
<1>2. StageNumber(stage') = StageNumber("quality") + 1
  BY <1>1 DEF StageNumber
<1>3. /\ BlockSoFar' <=> BlockSoFar
      /\ ReviewSoFar' <=> ReviewSoFar \/ QualityNeedsReview
      /\ PassiveSoFar' <=> PassiveSoFar \/ SpreadTooWide
      /\ LessSoFar' <=> LessSoFar
  BY <1>1, <1>2, PassStage DEF Stages
<1>4. ActionSoFar'
  BY <1>3 DEF ApplyQuality, Escalate, StagesAgree, ActionSoFar, ActFor, MaxAction, Rank, TypeOK
<1>. QED
  BY <1>1, <1>2, <1>4, ActionStage DEF Stages

LEMMA IntegrityAgrees ==
  ASSUME TypeOK, StagesAgree, ApplyIntegrity
  PROVE  StagesAgree'
<1>1. /\ stage = "integrity" /\ stage' = "divergence" /\ inputs' = inputs
      /\ todo' = todo /\ maxAllowed' = maxAllowed
  BY DEF ApplyIntegrity, Go
<1>2. StageNumber(stage') = StageNumber("integrity") + 1
  BY <1>1 DEF StageNumber
<1>3. /\ BlockSoFar' <=> BlockSoFar \/ IntegrityHint("NO_TRADE")
      /\ ReviewSoFar' <=> ReviewSoFar \/ IntegrityTooRisky \/ IntegrityHint("MANUAL_REVIEW")
      /\ PassiveSoFar' <=> PassiveSoFar
      /\ LessSoFar' <=> LessSoFar
  BY <1>1, <1>2, PassStage DEF Stages
<1>4. ActionSoFar'
  BY <1>3 DEF ApplyIntegrity, Escalate, StagesAgree, ActionSoFar, ActFor, MaxAction, Rank, TypeOK
<1>. QED
  BY <1>1, <1>2, <1>4, ActionStage DEF Stages

LEMMA DivergenceAgrees ==
  ASSUME TypeOK, StagesAgree, ApplyDivergence
  PROVE  StagesAgree'
<1>1. /\ stage = "divergence" /\ stage' = "passive" /\ inputs' = inputs
      /\ todo' = todo /\ maxAllowed' = maxAllowed
  BY DEF ApplyDivergence, Go
<1>2. StageNumber(stage') = StageNumber("divergence") + 1
  BY <1>1 DEF StageNumber
<1>3. /\ BlockSoFar' <=> BlockSoFar \/ (CrossVenue /\ Diverges("DO_NOT_COMPARE"))
      /\ ReviewSoFar' <=> ReviewSoFar \/ (CrossVenue /\ DivergenceNeedsReview)
      /\ PassiveSoFar' <=> PassiveSoFar
      /\ LessSoFar' <=> LessSoFar
  BY <1>1, <1>2, PassStage DEF Stages
<1>4. ActionSoFar'
  BY <1>3 DEF ApplyDivergence, Escalate, StagesAgree, ActionSoFar, ActFor, MaxAction, Rank, TypeOK
<1>. QED
  BY <1>1, <1>2, <1>4, ActionStage DEF Stages

LEMMA PassiveOnlyAgrees ==
  ASSUME TypeOK, StagesAgree, ApplyPassiveOnly
  PROVE  StagesAgree'
<1>1. /\ stage = "passive" /\ stage' = "exposure" /\ inputs' = inputs
      /\ todo' = todo /\ maxAllowed' = maxAllowed
  BY DEF ApplyPassiveOnly, Go
<1>2. StageNumber(stage') = StageNumber("passive") + 1
  BY <1>1 DEF StageNumber
<1>3. /\ BlockSoFar' <=> BlockSoFar
      /\ ReviewSoFar' <=> ReviewSoFar \/ (PassiveSoFar /\ Aggressive)
      /\ PassiveSoFar' <=> PassiveSoFar
      /\ LessSoFar' <=> LessSoFar
  BY <1>1, <1>2, PassStage DEF Stages
<1>4. ActionSoFar'
  BY <1>3 DEF ApplyPassiveOnly, Escalate, StagesAgree, ActionSoFar, ActFor, MaxAction, Rank, TypeOK
<1>. QED
  BY <1>1, <1>2, <1>4, ActionStage DEF Stages

LEMMA EndRestrictionsAgrees ==
  ASSUME TypeOK, StagesAgree, EndRestrictions
  PROVE  StagesAgree'
<1>1. /\ stage = "restrictions" /\ stage' = "verdict" /\ inputs' = inputs
      /\ todo' = todo /\ maxAllowed' = maxAllowed /\ action' = action /\ todo = {}
  BY DEF EndRestrictions, Go
<1>2. StageNumber(stage') = StageNumber("restrictions") + 1
  BY <1>1 DEF StageNumber
<1>3. /\ BlockSoFar' <=> BlockSoFar
      /\ ReviewSoFar' <=> ReviewSoFar
      /\ PassiveSoFar' <=> PassiveSoFar
      /\ LessSoFar' <=> LessSoFar
  BY <1>1, <1>2, PassStage DEF Stages
<1>4. ActionSoFar'
  BY <1>1, <1>3 DEF StagesAgree, ActionSoFar, ActFor
<1>. QED
  BY <1>1, <1>2, <1>4, ActionStage DEF Stages

(* The limits are integers, and the size is theirs or the request.         *)
LEMMA LimitTypes ==
  ASSUME TypeOK
  PROVE  LimitsSoFar \subseteq Int /\ intent.size \in Nat \ {0} /\ maxAllowed \in Nat
<1>1. ChooseInputs
  BY DEF TypeOK
<1>2. policy.maxOrder \in Nat /\ \A r \in SizeLimits : r.cap \in Nat
  BY <1>1, InputTypes
<1>3. context.exposure # None => Capacities \subseteq Int
  BY <1>1, RemainingCapacityIsLeast
<1>. QED
  BY <1>1, <1>2, <1>3, InputTypes DEF LimitsSoFar, TypeOK

(* The least of the request and the limits is below the request exactly    *)
(* when some limit is.                                                     *)
LEMMA LeastBelowRequest ==
  ASSUME NEW S \in SUBSET Int, NEW size \in Int, NEW m \in {size} \cup S,
         \A x \in {size} \cup S : m <= x
  PROVE  m < size <=> \E x \in S : x < size
<1>1. m < size => m \in S
  OBVIOUS
<1>2. ASSUME NEW x \in S, x < size
      PROVE  m < size
  <2>1. m \in Int /\ x \in Int /\ m <= x
    OBVIOUS
  <2>. QED
    BY <1>2, <2>1
<1>. QED
  BY <1>1, <1>2

(* One restriction adds what its type asks for; a size limit escalates the *)
(* action exactly when it, or a limit before it, is below the request.     *)
LEMMA RestrictionAgrees ==
  ASSUME TypeOK, StagesAgree, NEW r \in todo, ApplyRestriction(r)
  PROVE  StagesAgree'
<1> DEFINE binds == r \in SizeLimits /\ r.cap < intent.size
<1>1. /\ stage = "restrictions" /\ stage' = stage /\ inputs' = inputs /\ todo' = todo \ {r}
      /\ r \in context.restrictions
  BY DEF ApplyRestriction, TypeOK
<1>2. \A q : Passed(q)' <=> Passed(q)
  BY <1>1 DEF Passed
<1>3. ~Passed("exposure") /\ ~Passed("passive") /\ ~Passed("restrictions") /\ ~Passed("verdict")
  BY <1>1 DEF Passed, StageNumber
<1>4. Applied' = Applied \cup {r} /\ \A t : AppliedRule(t)' <=> AppliedRule(t) \/ r.type = t
  BY <1>1 DEF Applied, AppliedRule, inputs
<1>5. LimitsSoFar' = LimitsSoFar \cup (IF r \in SizeLimits THEN {r.cap} ELSE {})
  BY <1>1, <1>2, <1>3, <1>4, ConditionsFixed DEF LimitsSoFar
<1>6. BlockSoFar' <=> BlockSoFar \/ r.type = "NO_TRADE"
  BY <1>1, <1>2, <1>4, ConditionsFixed DEF BlockSoFar
<1>7. PassiveSoFar' <=> PassiveSoFar \/ r.type = "PASSIVE_ONLY"
  BY <1>1, <1>2, <1>4, ConditionsFixed DEF PassiveSoFar
<1>8. ReviewSoFar' <=> ReviewSoFar \/ r.type = "MANUAL_REVIEW"
  BY <1>1, <1>2, <1>3, <1>4, ConditionsFixed DEF ReviewSoFar
<1>9. LessSoFar' <=> LessSoFar \/ binds
  <2>1. intent' = intent
    BY <1>1, ConditionsFixed
  <2>. QED
    BY <1>2, <1>3, <1>5, <2>1 DEF LessSoFar
<1>10. r.type \in RestrictionTypes /\ (r \in SizeLimits => r.cap \in Nat /\ r.type = "SIZE_LIMIT")
  BY <1>1, InputTypes DEF TypeOK, SizeLimits
<1>11. SizeSoFar
  BY <1>1 DEF StagesAgree
<1>12. /\ maxAllowed' \in {intent.size} \cup LimitsSoFar'
       /\ \A cap \in {intent.size} \cup LimitsSoFar' : maxAllowed' <= cap
  <2>1. /\ maxAllowed \in {intent.size} \cup LimitsSoFar
        /\ \A cap \in {intent.size} \cup LimitsSoFar : maxAllowed <= cap
    BY <1>3, <1>11 DEF SizeSoFar
  <2>2. CASE r \in SizeLimits
    <3>1. maxAllowed' = IF maxAllowed <= r.cap THEN maxAllowed ELSE r.cap
      BY <1>10, <2>2, LimitTypes, MinOfTwo DEF ApplyRestriction
    <3>2. LimitsSoFar' = LimitsSoFar \cup {r.cap}
      BY <1>5, <2>2
    <3>. QED
      BY <1>10, <2>1, <2>2, <3>1, <3>2, LimitTypes
  <2>3. CASE r \notin SizeLimits
    <3>1. maxAllowed' = maxAllowed /\ LimitsSoFar' = LimitsSoFar
      BY <1>5, <2>3 DEF ApplyRestriction
    <3>. QED
      BY <2>1, <3>1
  <2>. QED
    BY <2>2, <2>3
<1>13. SizeSoFar'
  BY <1>1, <1>2, <1>3, <1>12, ConditionsFixed DEF SizeSoFar
<1>14. ActionSoFar'
  <2>1. action = ActFor(BlockSoFar, ReviewSoFar, PassiveSoFar, LessSoFar)
    BY DEF StagesAgree, ActionSoFar
  <2>2. CASE r.type = "NO_TRADE"
    BY <1>6, <2>2 DEF ApplyRestriction, ActionSoFar, ActFor
  <2>3. CASE r.type \in {"MANUAL_REVIEW", "PASSIVE_ONLY"}
    <3>1. action' = MaxAction(action, r.type) /\ ~binds
      BY <1>10, <2>3 DEF ApplyRestriction
    <3>. QED
      BY <1>6, <1>7, <1>8, <1>9, <2>1, <2>3, <3>1 DEF ActionSoFar, ActFor, MaxAction, Rank
  <2>4. CASE r.type = "SIZE_LIMIT"
    <3>1. maxAllowed' < intent.size <=> \E cap \in LimitsSoFar' : cap < intent.size
      <4>1. LimitsSoFar' \subseteq Int /\ intent.size \in Int
        BY <1>5, <1>10, LimitTypes
      <4>. QED
        BY <1>12, <4>1, LeastBelowRequest
    <3>2. r \in SizeLimits /\ maxAllowed' < intent.size => LessSoFar'
      BY <3>1, <1>1, ConditionsFixed DEF LessSoFar
    <3>3. binds => maxAllowed' < intent.size
      <4>1. binds => r.cap \in LimitsSoFar' /\ r.cap < intent.size
        BY <1>5
      <4>. HIDE DEF binds
      <4>2. binds => \E cap \in LimitsSoFar' : cap < intent.size
        BY <4>1
      <4>. QED
        BY <3>1, <4>2
    <3>4. action' = IF r \in SizeLimits /\ maxAllowed' < intent.size
                      THEN MaxAction(action, "ALLOW_SMALLER_SIZE") ELSE action
      BY <2>4 DEF ApplyRestriction, Escalate
    <3>5. /\ BlockSoFar' <=> BlockSoFar
          /\ PassiveSoFar' <=> PassiveSoFar
          /\ ReviewSoFar' <=> ReviewSoFar
      BY <1>6, <1>7, <1>8, <2>4
    <3>6. CASE r \in SizeLimits /\ maxAllowed' < intent.size
      BY <2>1, <3>2, <3>4, <3>5, <3>6 DEF ActionSoFar, ActFor, MaxAction, Rank
    <3>7. CASE ~(r \in SizeLimits /\ maxAllowed' < intent.size)
      BY <1>9, <2>1, <3>3, <3>4, <3>5, <3>7 DEF ActionSoFar, ActFor
    <3>. QED
      BY <3>6, <3>7
  <2>. QED
    BY <1>10, <2>2, <2>3, <2>4 DEF RestrictionTypes
<1>. QED
  BY <1>1, <1>2, <1>3, <1>13, <1>14 DEF StagesAgree

(* The exposure stage adds the order limit and, when the exposure is       *)
(* known, the remaining capacities to the limits.                          *)
LEMMA ExposureAgrees ==
  ASSUME TypeOK, StagesAgree, ApplyExposure
  PROVE  StagesAgree'
<1> DEFINE known == context.exposure # None
           new == {policy.maxOrder} \cup IF known THEN Capacities ELSE {}
<1>1. /\ stage = "exposure" /\ stage' = "size" /\ inputs' = inputs /\ todo' = todo
  BY DEF ApplyExposure, Go
<1>2. StageNumber(stage') = StageNumber("exposure") + 1
  BY <1>1 DEF StageNumber
<1>3. /\ \A q \in Stages : Passed(q)' <=> Passed(q) \/ q = "exposure"
      /\ BlockSoFar' <=> BlockSoFar \/ Promise!CapacityExhausted
      /\ ReviewSoFar' <=> ReviewSoFar \/ Promise!ExposureUnknown
      /\ PassiveSoFar' <=> PassiveSoFar
  BY <1>1, <1>2, PassStage DEF Stages
<1>4. Passed("exposure")' /\ ~Passed("exposure") /\ Passed("restrictions")' = Passed("restrictions")
  BY <1>1, <1>3 DEF Passed, StageNumber, Stages
<1>5. Applied' = Applied /\ SizeLimits' = SizeLimits
  BY <1>1, ConditionsFixed DEF Applied
<1>6. LimitsSoFar' = LimitsSoFar \cup new
  BY <1>1, <1>4, <1>5, ConditionsFixed DEF LimitsSoFar
<1>7. LessSoFar' <=> LessSoFar \/ \E cap \in new : cap < intent.size
  <2>1. Passed("verdict")' <=> Passed("verdict")
    BY <1>1, <1>3 DEF Stages
  <2>. QED
    BY <1>1, <1>6, <2>1, ConditionsFixed DEF LessSoFar
<1>8. /\ intent.size \in Nat \ {0} /\ policy.maxOrder \in Nat /\ maxAllowed \in Nat
      /\ LimitsSoFar \subseteq Int /\ ChooseInputs
  BY InputTypes, LimitTypes DEF TypeOK
<1>9. OrderCap = IF intent.size <= policy.maxOrder THEN intent.size ELSE policy.maxOrder
  BY <1>8, MinOfTwo DEF OrderCap
<1>10. /\ maxAllowed \in {intent.size} \cup LimitsSoFar
       /\ \A cap \in {intent.size} \cup LimitsSoFar : maxAllowed <= cap
  BY <1>1, <1>4 DEF StagesAgree, SizeSoFar
<1>11. action = ActFor(BlockSoFar, ReviewSoFar, PassiveSoFar, LessSoFar)
  BY DEF StagesAgree, ActionSoFar
<1>12. Promise!CapacityExhausted' = Promise!CapacityExhausted
       /\ Promise!ExposureUnknown' = Promise!ExposureUnknown /\ intent' = intent
  BY <1>1, ConditionsFixed
<1>13. CASE ~known /\ ~policy.allowUnknownExposure
  <2>1. Promise!ExposureUnknown /\ ~Promise!CapacityExhausted
    BY <1>13, PromiseConditions
  <2>2. maxAllowed' = Min({maxAllowed, 0}) /\ action' = MaxAction(action, "MANUAL_REVIEW")
    BY <1>13 DEF ApplyExposure
  <2>3. maxAllowed' = 0
    BY <1>8, <2>2, MinOfTwo
  <2>4. ActionSoFar'
    BY <1>3, <1>11, <2>1, <2>2 DEF ActionSoFar, ActFor, MaxAction, Rank
  <2>5. SizeSoFar'
    BY <1>4, <1>12, <2>1, <2>3 DEF SizeSoFar
  <2>. QED
    BY <1>1, <1>4, <2>4, <2>5 DEF StagesAgree
<1>14. CASE known /\ RemainingCapacity <= 0
  <2>1. Promise!CapacityExhausted
    BY <1>8, <1>14, PromiseConditions, RemainingCapacityIsLeast
  <2>2. RemainingCapacity \in Nat
    BY <1>8, <1>14, RemainingCapacityIsLeast
  <2>3. maxAllowed' = Min({maxAllowed, 0}) /\ action' = MaxAction(action, "NO_TRADE")
    BY <1>14, <2>2 DEF ApplyExposure
  <2>4. maxAllowed' = 0
    BY <1>8, <2>3, MinOfTwo
  <2>5. ActionSoFar'
    BY <1>3, <1>11, <2>1, <2>3 DEF ActionSoFar, ActFor, MaxAction, Rank
  <2>6. SizeSoFar'
    BY <1>4, <1>12, <2>1, <2>4 DEF SizeSoFar
  <2>. QED
    BY <1>1, <1>4, <2>5, <2>6 DEF StagesAgree
<1>15. CASE (known /\ RemainingCapacity > 0) \/ (~known /\ policy.allowUnknownExposure)
  <2>1. PICK cap \in {intent.size} \cup new :
          /\ \A c \in {intent.size} \cup new : cap <= c
          /\ maxAllowed' = Min({maxAllowed, cap})
          /\ action' = MaxAction(action, ExposureAction(cap))
    <3>1. CASE ~known
      <4>1. OrderCap \in {intent.size} \cup new /\ \A c \in {intent.size} \cup new : OrderCap <= c
        BY <1>8, <1>9, <3>1
      <4>. QED
        BY <1>15, <3>1, <4>1 DEF ApplyExposure
    <3>2. CASE known
      <4>1. /\ RemainingCapacity \in Nat /\ RemainingCapacity > 0
            /\ RemainingCapacity \in Capacities /\ Capacities \subseteq Int
            /\ \A x \in Capacities : RemainingCapacity <= x
        BY <1>8, <1>15, <3>2, RemainingCapacityIsLeast
      <4>4. /\ Min({OrderCap, RemainingCapacity}) \in {intent.size, policy.maxOrder} \cup Capacities
            /\ \A c \in {intent.size, policy.maxOrder} \cup Capacities :
                 Min({OrderCap, RemainingCapacity}) <= c
        <5> DEFINE S == {intent.size, policy.maxOrder}
        <5>1. /\ S \in SUBSET Int /\ OrderCap \in S
              /\ \A c \in S : OrderCap <= c
          BY <1>8, <1>9
        <5>2. Capacities \in SUBSET Int
          BY <4>1
        <5>. HIDE DEF S
        <5>3. /\ Min({OrderCap, RemainingCapacity}) \in S \cup Capacities
              /\ \A c \in S \cup Capacities : Min({OrderCap, RemainingCapacity}) <= c
          BY <4>1, <5>1, <5>2, LeastOfUnion
        <5>. QED
          BY <5>3 DEF S
      <4>6. {intent.size, policy.maxOrder} \cup Capacities = {intent.size} \cup new
        BY <3>2
      <4>5. /\ maxAllowed' = Min({maxAllowed, Min({OrderCap, RemainingCapacity})})
            /\ action' = MaxAction(action, ExposureAction(Min({OrderCap, RemainingCapacity})))
        BY <3>2, <4>1 DEF ApplyExposure
      <4>. QED
        BY <4>4, <4>5, <4>6
    <3>. QED
      BY <3>1, <3>2
  <2>2. new \subseteq Int
    BY <1>8, RemainingCapacityIsLeast
  <2>3. ~Promise!CapacityExhausted /\ ~Promise!ExposureUnknown
    BY <1>8, <1>15, PromiseConditions, RemainingCapacityIsLeast
  <2>5. /\ maxAllowed' \in {intent.size} \cup LimitsSoFar'
        /\ \A c \in {intent.size} \cup LimitsSoFar' : maxAllowed' <= c
    <3> DEFINE S == {intent.size} \cup LimitsSoFar
               T == {intent.size} \cup new
    <3>1. S \in SUBSET Int
      <4>1. intent.size \in Int /\ LimitsSoFar \in SUBSET Int
        BY <1>8
      <4>. QED
        BY <4>1
    <3>2. T \in SUBSET Int
      <4>1. intent.size \in Int
        BY <1>8
      <4>. HIDE DEF new
      <4>. QED
        BY <2>2, <4>1
    <3>4. maxAllowed \in S /\ cap \in T /\ (\A x \in S : maxAllowed <= x) /\ (\A x \in T : cap <= x)
      BY <1>10, <2>1
    <3>5. Min({maxAllowed, cap}) \in S \cup T /\ \A c \in S \cup T : Min({maxAllowed, cap}) <= c
      <4>. HIDE DEF S, T
      <4>. QED
        BY <3>1, <3>2, <3>4, LeastOfUnion
    <3>3. S \cup T = {intent.size} \cup LimitsSoFar'
      BY <1>6
    <3>. HIDE DEF S, T
    <3>. QED
      BY <2>1, <3>3, <3>5
  <2>6. SizeSoFar'
    BY <1>12, <2>3, <2>5 DEF SizeSoFar
  <2>7. cap < intent.size <=> \E c \in new : c < intent.size
    BY <1>8, <2>1, <2>2, LeastBelowRequest
  <2>8. ActionSoFar'
    <3>1. action' = IF cap < intent.size THEN MaxAction(action, "ALLOW_SMALLER_SIZE")
                    ELSE MaxAction(action, "ALLOW")
      BY <2>1 DEF ExposureAction
    <3>2. /\ BlockSoFar' <=> BlockSoFar
          /\ ReviewSoFar' <=> ReviewSoFar
          /\ PassiveSoFar' <=> PassiveSoFar
          /\ LessSoFar' <=> LessSoFar \/ cap < intent.size
      BY <1>3, <1>7, <2>3, <2>7
    <3>. QED
      BY <1>11, <3>1, <3>2 DEF ActionSoFar, ActFor, MaxAction, Rank
  <2>. QED
    BY <1>1, <1>4, <2>6, <2>8 DEF StagesAgree
<1>. QED
  <2>1. known => RemainingCapacity \in Nat
    BY <1>8, RemainingCapacityIsLeast
  <2>. QED
    BY <1>13, <1>14, <1>15, <2>1
-----------------------------------------------------------------------------
(* Once every stage has been passed, what was asked for so far is what the *)
(* promise says, so the action is the promised one.                        *)
LEMMA AllPassed ==
  ASSUME StagesAgree, stage \in {"size", "done"}
  PROVE  /\ LimitsSoFar = Promise!Caps
         /\ action = Promise!Act
<1>1. /\ Passed("market") /\ Passed("restrictions") /\ Passed("verdict") /\ Passed("quality")
      /\ Passed("integrity") /\ Passed("divergence") /\ Passed("passive") /\ Passed("exposure")
  <2>1. CASE stage = "size"
    BY <2>1 DEF Passed, StageNumber
  <2>2. CASE stage = "done"
    BY <2>2 DEF Passed, StageNumber
  <2>. QED
    BY <2>1, <2>2
<1>2. Applied = context.restrictions /\ \A t : AppliedRule(t) <=> Promise!Restricts(t)
  BY <1>1, PromiseConditions DEF StagesAgree, Applied, AppliedRule
<1>3. SizeLimits \cap Applied = SizeLimits
  BY <1>2 DEF SizeLimits
<1>4. LimitsSoFar = Promise!Caps
  BY <1>1, <1>3, PromiseConditions DEF LimitsSoFar
<1>5. BlockSoFar <=> Promise!AsksForBlock
  BY <1>1, <1>2, PromiseConditions DEF BlockSoFar
<1>6. PassiveSoFar <=> Promise!AsksForPassive
  BY <1>1, <1>2, PromiseConditions DEF PassiveSoFar
<1>7. ReviewSoFar <=> Promise!AsksForReview
  BY <1>1, <1>2, <1>6, PromiseConditions DEF ReviewSoFar
<1>8. LessSoFar <=> Promise!AsksForLess
  BY <1>1, <1>4, PromiseConditions DEF LessSoFar
<1>. QED
  BY <1>4, <1>5, <1>6, <1>7, <1>8 DEF StagesAgree, ActionSoFar, ActFor, Promise!Act

(* The last stage decides the promised size and leaves the action alone:   *)
(* its own escalation of ALLOW to ALLOW_SMALLER_SIZE never applies.        *)
LEMMA DecideSizeDecides ==
  ASSUME TypeOK, StagesAgree, DecideSize
  PROVE  /\ action' = action /\ action = Promise!Act
         /\ final' \in Promise!FinalSizes
<1>1. stage = "size" /\ action = Promise!Act /\ LimitsSoFar = Promise!Caps /\ Passed("exposure")
  BY AllPassed DEF DecideSize, Passed, StageNumber
<1>2. /\ intent.size \in Nat \ {0} /\ maxAllowed \in Nat /\ maxAllowed <= intent.size
      /\ Promise!Caps \subseteq Int
  BY <1>1, LimitTypes DEF TypeOK
<1>3. Promise!CapacityExhausted => Promise!Act = "NO_TRADE"
  BY PromiseConditions DEF Promise!Act
<1>4. Promise!ExposureUnknown => Promise!Act \in {"NO_TRADE", "MANUAL_REVIEW"}
  BY PromiseConditions DEF Promise!Act
<1>5. CASE action \in {"NO_TRADE", "MANUAL_REVIEW"}
  BY <1>1, <1>5 DEF DecideSize, FinalSize, Promise!FinalSizes
<1>6. CASE action \notin {"NO_TRADE", "MANUAL_REVIEW"}
  <2>1. /\ maxAllowed \in {intent.size} \cup Promise!Caps
        /\ \A cap \in {intent.size} \cup Promise!Caps : maxAllowed <= cap
    BY <1>1, <1>3, <1>4, <1>6 DEF StagesAgree, SizeSoFar
  <2>2. Min({intent.size, maxAllowed}) = maxAllowed
    BY <1>2, MinOfTwo
  <2>3. maxAllowed < intent.size <=> \E cap \in Promise!Caps : cap < intent.size
    BY <1>2, <2>1, LeastBelowRequest
  <2>4. maxAllowed < intent.size => action # "ALLOW"
    BY <1>1, <2>3, PromiseConditions DEF Promise!Act
  <2>5. action' = action /\ final' = maxAllowed
    BY <1>6, <2>2, <2>4 DEF DecideSize, FinalSize
  <2>. QED
    BY <1>1, <1>6, <2>1, <2>5 DEF Promise!FinalSizes
<1>. QED
  BY <1>5, <1>6

(* The promise reads only the inputs.                                      *)
LEMMA FinalSizesFixed ==
  ASSUME inputs' = inputs
  PROVE  Promise!FinalSizes' = Promise!FinalSizes
<1>1. intent' = intent /\ policy' = policy /\ context' = context
  BY DEF inputs
<1>2. Promise!Caps' = Promise!Caps
  BY <1>1 DEF Promise!Caps, Promise!SizeLimits, Promise!Capacities
<1>3. Promise!AsksForBlock' <=> Promise!AsksForBlock
  BY <1>1 DEF Promise!AsksForBlock, Promise!MarketBlocked, Promise!Restricts,
              Promise!VerdictAction, Promise!ResolutionBlocks, Promise!ResolutionTooHigh,
              Promise!IntegrityHint, Promise!CrossVenue, Promise!Diverges,
              Promise!CapacityExhausted, Promise!Capacities
<1>4. Promise!AsksForPassive' <=> Promise!AsksForPassive
  BY <1>1 DEF Promise!AsksForPassive, Promise!Restricts, Promise!VerdictAction,
              Promise!SpreadTooWide, Promise!Exceeds
<1>5. Promise!AsksForReview' <=> Promise!AsksForReview
  <2>1. Promise!Aggressive' <=> Promise!Aggressive
    BY <1>1 DEF Promise!Aggressive
  <2>2. /\ Promise!MissingRequired' <=> Promise!MissingRequired
        /\ Promise!ResolutionTooHigh' <=> Promise!ResolutionTooHigh
        /\ Promise!QualityNeedsReview' <=> Promise!QualityNeedsReview
        /\ Promise!IntegrityTooRisky' <=> Promise!IntegrityTooRisky
    BY <1>1 DEF Promise!MissingRequired, Promise!ResolutionTooHigh, Promise!QualityNeedsReview,
                Promise!IntegrityTooRisky
  <2>. QED
    BY <1>1, <1>4, <2>1, <2>2
    DEF Promise!AsksForReview, Promise!Restricts, Promise!VerdictAction, Promise!IntegrityHint,
        Promise!CrossVenue, Promise!DivergenceNeedsReview, Promise!Diverges,
        Promise!ExposureUnknown
<1>6. Promise!AsksForLess' <=> Promise!AsksForLess
  BY <1>1, <1>2 DEF Promise!AsksForLess, Promise!VerdictAction
<1>7. Promise!Act' = Promise!Act
  BY <1>3, <1>4, <1>5, <1>6 DEF Promise!Act
<1>. QED
  BY <1>1, <1>2, <1>7 DEF Promise!FinalSizes

LEMMA DecideSizeAgrees ==
  ASSUME TypeOK, StagesAgree, DecideSize
  PROVE  StagesAgree'
<1>1. /\ stage = "size" /\ stage' = "done" /\ inputs' = inputs /\ todo' = todo
  BY DEF DecideSize, Go
<1>2. StageNumber(stage') = StageNumber("size") + 1
  BY <1>1 DEF StageNumber
<1>3. /\ BlockSoFar' <=> BlockSoFar
      /\ ReviewSoFar' <=> ReviewSoFar
      /\ PassiveSoFar' <=> PassiveSoFar
      /\ LessSoFar' <=> LessSoFar
      /\ Passed("restrictions")' <=> Passed("restrictions")
  BY <1>1, <1>2, PassStage DEF Stages
<1>4. ActionSoFar'
  BY <1>3, DecideSizeDecides DEF StagesAgree, ActionSoFar, ActFor
<1>5. final' \in Promise!FinalSizes'
  BY <1>1, FinalSizesFixed, DecideSizeDecides
<1>. QED
  BY <1>1, <1>3, <1>4, <1>5 DEF StagesAgree
-----------------------------------------------------------------------------
(* The inductive invariant of the refinement, for every instance: the      *)
(* action and the size are at every stage what the promise makes of the    *)
(* inputs looked at so far.                                                *)
THEOREM StagesAlwaysAgree == Spec => []StagesAgree
<1>1. TypeOK /\ StagesAgree /\ [Next]_vars => StagesAgree'
  <2> SUFFICES ASSUME TypeOK, StagesAgree, [Next]_vars
               PROVE  StagesAgree'
    OBVIOUS
  <2>1. ASSUME NEW r \in todo, ApplyRestriction(r)
        PROVE  StagesAgree'
    BY <2>1, RestrictionAgrees
  <2>2. CASE UNCHANGED vars
    <3>1. /\ inputs' = inputs /\ stage' = stage /\ todo' = todo /\ action' = action
          /\ maxAllowed' = maxAllowed /\ final' = final
      BY <2>2 DEF vars
    <3>2. \A q : Passed(q)' <=> Passed(q)
      BY <3>1 DEF Passed
    <3>3. Applied' = Applied /\ \A t : AppliedRule(t)' <=> AppliedRule(t)
      BY <3>1, ConditionsFixed DEF Applied, AppliedRule
    <3>4. LimitsSoFar' = LimitsSoFar
      BY <3>1, <3>2, <3>3, ConditionsFixed DEF LimitsSoFar
    <3>5. /\ BlockSoFar' <=> BlockSoFar
          /\ PassiveSoFar' <=> PassiveSoFar
          /\ LessSoFar' <=> LessSoFar
      BY <3>1, <3>2, <3>3, <3>4, ConditionsFixed DEF BlockSoFar, PassiveSoFar, LessSoFar
    <3>6. ReviewSoFar' <=> ReviewSoFar
      BY <3>1, <3>2, <3>3, <3>5, ConditionsFixed DEF ReviewSoFar
    <3>7. ActionSoFar'
      BY <3>1, <3>5, <3>6 DEF StagesAgree, ActionSoFar, ActFor
    <3>8. SizeSoFar => SizeSoFar'
      BY <3>1, <3>2, <3>4, ConditionsFixed DEF SizeSoFar
    <3>. QED
      BY <3>1, <3>2, <3>7, <3>8, ConditionsFixed, FinalSizesFixed DEF StagesAgree
  <2>. QED
    BY <2>1, <2>2, CheckMarketAgrees, EndRestrictionsAgrees, VerdictAgrees, QualityAgrees,
       IntegrityAgrees, DivergenceAgrees, PassiveOnlyAgrees, ExposureAgrees, DecideSizeAgrees
    DEF Next
<1>. QED
  BY <1>1, InitAgrees, TypeCorrect, PTL DEF Spec

(* The staged evaluation implements the promise: its first nine stages are *)
(* stuttering steps, and the last one decides what the inputs ask for,     *)
(* whatever the order in which the restrictions were applied.              *)
THEOREM GateKeepsPromise == Spec => KeepsPromise
<1> DEFINE decision == IF stage = "done" THEN [act |-> action, final |-> final] ELSE None
<1>1. Init => Promise!Init
  BY DEF Init, ChooseInputs, Promise!Init, Promise!ChooseInputs
<1>2. TypeOK /\ StagesAgree /\ [Next]_vars => [Promise!Decide]_Promise!vars
  <2> SUFFICES ASSUME TypeOK, StagesAgree, [Next]_vars
               PROVE  Promise!Decide \/ UNCHANGED Promise!vars
    OBVIOUS
  <2>1. CASE DecideSize
    <3>1. stage = "size" /\ stage' = "done" /\ inputs' = inputs
      BY <2>1 DEF DecideSize, Go
    <3>2. decision = None /\ decision' = [act |-> Promise!Act, final |-> final']
      BY <2>1, <3>1, DecideSizeDecides
    <3>3. final' \in Promise!FinalSizes
      BY <2>1, DecideSizeDecides
    <3>4. UNCHANGED Promise!inputs
      BY <3>1 DEF inputs, Promise!inputs
    <3>. QED
      BY <3>2, <3>3, <3>4 DEF Promise!Decide
  <2>2. CASE UNCHANGED vars
    BY <2>2 DEF vars, inputs, Promise!vars, Promise!inputs
  <2>3. CASE Next /\ ~DecideSize
    <3>1. stage # "done" /\ stage' # "done" /\ inputs' = inputs
      BY <2>3 DEF Next, CheckMarket, ApplyRestriction, EndRestrictions, ApplyVerdict,
         ApplyQuality, ApplyIntegrity, ApplyDivergence, ApplyPassiveOnly, ApplyExposure, Go
    <3>. QED
      BY <3>1 DEF inputs, Promise!vars, Promise!inputs
  <2>. QED
    BY <2>1, <2>2, <2>3
<1>. QED
  BY <1>1, <1>2, TypeCorrect, StagesAlwaysAgree, PTL DEF Spec, KeepsPromise, Promise!Spec

(* A finished decision honours the contract the paper service relies on:   *)
(* no more than was asked, nothing under MANUAL_REVIEW and NO_TRADE,       *)
(* everything under ALLOW.                                                 *)
THEOREM DecisionsKeepContract == Spec => []DecisionContract
<1>1. TypeOK /\ StagesAgree => DecisionContract
  <2> SUFFICES ASSUME TypeOK, StagesAgree, stage = "done"
               PROVE  /\ final <= intent.size
                      /\ action \in {"MANUAL_REVIEW", "NO_TRADE"} => final = 0
                      /\ action = "ALLOW" => final = intent.size
    BY DEF DecisionContract
  <2>1. action = Promise!Act /\ LimitsSoFar = Promise!Caps
    BY AllPassed
  <2>2. final \in Promise!FinalSizes
    BY DEF StagesAgree
  <2>3. intent.size \in Nat /\ Promise!Caps \subseteq Int
    BY <2>1, LimitTypes
  <2>4. final \in Int /\ final <= intent.size
    BY <2>3 DEF TypeOK
  <2>5. action \in {"MANUAL_REVIEW", "NO_TRADE"} => final = 0
    BY <2>1, <2>2 DEF Promise!FinalSizes
  <2>6. ASSUME action = "ALLOW"
        PROVE  final = intent.size
    <3>1. ~Promise!AsksForLess
      BY <2>1, <2>6 DEF Promise!Act
    <3>2. \A cap \in Promise!Caps : ~(cap < intent.size)
      BY <3>1, PromiseConditions
    <3>3. final \in {intent.size} \cup Promise!Caps
      BY <2>1, <2>2, <2>6 DEF Promise!FinalSizes
    <3>. QED
      BY <2>3, <2>4, <3>2, <3>3
  <2>. QED
    BY <2>4, <2>5, <2>6
<1>. QED
  BY <1>1, TypeCorrect, StagesAlwaysAgree, PTL
=============================================================================
