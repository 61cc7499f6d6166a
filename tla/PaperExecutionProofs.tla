-------------------------- MODULE PaperExecutionProofs --------------------------
(***************************************************************************)
(* Theorems about the paper execution simulator, for any number of         *)
(* sessions, intents, policies, books and retries.                         *)
(***************************************************************************)
EXTENDS PaperExecution, DeskLemmas, TLAPS

(* The orders in which the as-of reads look for the newest row.            *)
BookOrder == {e \in Books \X Books : e[1].captured <= e[2].captured}
QuoteOrder == {e \in Quotes \X Quotes : e[1].available <= e[2].available}
PositionOrder ==
  {e \in (DOMAIN digest) \X (DOMAIN digest) :
     \/ e[1].asof < e[2].asof
     \/ e[1].asof = e[2].asof /\ digest[e[2]] <= digest[e[1]]}

(* Every as-of read finds a newest row, and every position row that is     *)
(* stored or about to be stored has a digest.                              *)
RowsOrdered ==
  /\ \A p \in DOMAIN digest : PositionOK(p) /\ digest[p] \in Nat
  /\ positions \subseteq DOMAIN digest
  /\ \A s \in Sessions : pc[s] # "idle" /\ tx[s].row # None => tx[s].row \in DOMAIN digest
  /\ HasNewest(books, BookOrder)
  /\ HasNewest(quotes, QuoteOrder)
  /\ HasNewest(positions, PositionOrder)
-----------------------------------------------------------------------------
(* Arithmetic of sizes and money.                                          *)
LEMMA ProductType ==
  ASSUME NEW a \in Nat, NEW b \in Nat
  PROVE  a * b \in Nat
OBVIOUS

LEMMA QuotientType ==
  ASSUME NEW a \in Nat, NEW b \in Nat \ {0}
  PROVE  a \div b \in Nat
OBVIOUS

LEMMA NotionalType ==
  ASSUME NEW price \in Nat, NEW size \in Nat
  PROVE  Notional(price, size) \in Nat
<1>1. price * size \in Nat
  BY ProductType
<1>. QED
  BY <1>1, ProductType, ScaleAssumption DEF Notional

LEMMA FeeType ==
  ASSUME NEW pol \in Policies, NEW n \in Nat
  PROVE  SimulatedFee(pol, n) \in Nat
<1>1. n * pol.feeBps \in Nat
  BY ProductType, PoliciesAssumption
<1>. QED
  BY <1>1, QuotientType DEF SimulatedFee
-----------------------------------------------------------------------------
(* The as-of reads return a stored row or None.                            *)
LEMMA LatestBookType ==
  ASSUME TypeOK, RowsOrdered, NEW m, NEW t
  PROVE  LatestBook(m, t) \in books \cup {None}
<1> DEFINE seen == {b \in books : b.mkt = m /\ b.captured <= t}
<1>1. CASE seen # {}
  <2>1. \E b \in seen : \A c \in seen : <<c, b>> \in BookOrder
    BY <1>1 DEF RowsOrdered, HasNewest
  <2>2. \E b \in seen : \A c \in seen : c.captured <= b.captured
    BY <2>1 DEF BookOrder
  <2>. QED
    BY <1>1, <2>2, Zenon DEF LatestBook
<1>. QED
  BY <1>1 DEF LatestBook

LEMMA LatestQuoteType ==
  ASSUME TypeOK, RowsOrdered, NEW m, NEW t
  PROVE  LatestQuote(m, t) \in quotes \cup {None}
<1> DEFINE seen == {q \in quotes : q.mkt = m /\ q.available <= t}
<1>1. CASE seen # {}
  <2>1. \E q \in seen : \A r \in seen : <<r, q>> \in QuoteOrder
    BY <1>1 DEF RowsOrdered, HasNewest
  <2>2. \E q \in seen : \A r \in seen : r.available <= q.available
    BY <2>1 DEF QuoteOrder
  <2>. QED
    BY <1>1, <2>2, Zenon DEF LatestQuote
<1>. QED
  BY <1>1 DEF LatestQuote

LEMMA LatestPositionType ==
  ASSUME TypeOK, RowsOrdered, NEW i \in Intents
  PROVE  LatestPaperPosition(i) \in positions \cup {None}
<1> DEFINE seen == {p \in positions : InScope(p, i) /\ p.asof <= i.asof}
<1>1. CASE seen # {}
  <2>1. \E p \in seen : \A q \in seen : <<q, p>> \in PositionOrder
    BY <1>1 DEF RowsOrdered, HasNewest
  <2>2. \E p \in seen : \A q \in seen :
          \/ q.asof < p.asof
          \/ q.asof = p.asof /\ digest[p] <= digest[q]
    BY <2>1 DEF PositionOrder
  <2>. QED
    BY <1>1, <2>2, Zenon DEF LatestPaperPosition
<1>. QED
  BY <1>1 DEF LatestPaperPosition

LEMMA MarkType ==
  ASSUME NEW q \in Quotes \cup {None}
  PROVE  MarkPrice(q) \in Nat \cup {None}
<1>1. CASE q = None
  BY <1>1 DEF MarkPrice
<1>2. CASE q # None
  <2>1. {q.price, q.mid, q.last, q.bid, q.ask} \subseteq Nat \cup {None}
    BY <1>2, QuotesAssumption
  <2>. QED
    BY <1>2, <2>1 DEF MarkPrice
<1>. QED
  BY <1>1, <1>2

LEMMA PreviousType ==
  ASSUME TypeOK, RowsOrdered, NEW i \in Intents
  PROVE  /\ MoneyOK(PreviousPosition(i))
         /\ NoShortPolicy /\ SnapshotsLongOnly => PreviousPosition(i).units >= 0
<1>1. CASE LatestPaperPosition(i) = None
  BY <1>1 DEF PreviousPosition, Flat, MoneyOK
<1>2. CASE LatestPaperPosition(i) # None
  <2>1. LatestPaperPosition(i) \in positions
    BY <1>2, LatestPositionType
  <2>2. MoneyOK(LatestPaperPosition(i))
    BY <2>1 DEF TypeOK, PositionOK
  <2>3. NoShortPolicy /\ SnapshotsLongOnly => LatestPaperPosition(i).units >= 0
    BY <2>1 DEF SnapshotsLongOnly
  <2>. QED
    BY <1>2, <2>2, <2>3 DEF PreviousPosition, MoneyOK
<1>. QED
  BY <1>1, <1>2
-----------------------------------------------------------------------------
(* What the gate hand-over makes of an intent and a decision that keeps    *)
(* the gate's contract.                                                    *)
LEMMA AcceptedType ==
  ASSUME NEW i \in Intents, NEW pol \in Policies, NEW d \in DecisionSpace, GateContract(i, d)
  PROVE  /\ AcceptedSize(i, pol, d) \in Nat
         /\ AcceptedSize(i, pol, d) <= i.size
         /\ AcceptedSize(i, pol, d) <= d.final
<1>1. i.size \in Nat /\ d.final \in Nat
  BY IntentsAssumption, DecisionsAssumption
<1>2. Min({i.size, d.final}) \in Nat /\ Min({i.size, d.final}) <= i.size
        /\ Min({i.size, d.final}) <= d.final
  BY <1>1, MinOfTwo
<1>. QED
  BY <1>1, <1>2 DEF AcceptedSize, GateContract

LEMMA OrderFromPretradeType ==
  ASSUME NEW i \in Intents, NEW d \in DecisionSpace, policy \in Policies, GateContract(i, d),
         NEW o, o = OrderFromPretrade(i, policy, d)
  PROVE  /\ OrderOK(o) /\ o.id.intent = i /\ o.id.decision = d /\ WithinGate(o)
         /\ o.filled = 0 /\ o.remaining = o.accepted
         /\ o.accepted = AcceptedSize(i, policy, d)
         /\ o.status = IF RejectedByGate(i, policy, d) THEN "REJECTED" ELSE "ACCEPTED"
<1>1. /\ AcceptedSize(i, policy, d) \in Nat
      /\ AcceptedSize(i, policy, d) <= i.size
      /\ AcceptedSize(i, policy, d) <= d.final
  BY AcceptedType
<1>. HIDE DEF AcceptedSize
<1>. QED
  BY <1>1 DEF OrderFromPretrade, OrderOK, Statuses, WithinGate

(* The levels of a walk are levels of a captured book, with the numbers    *)
(* the assumption on books gives them; an order of no side has none.       *)
LEMMA CandidateLevelsType ==
  ASSUME NEW i \in Intents, NEW b \in Books, NEW model,
         NEW levels \in LevelsOf(CandidateLevels(i, b), i, model)
  PROVE  /\ \A l \in levels : l.price \in Nat /\ l.qty \in Nat
         /\ CandidateLevels(i, b) # {} => i.side \in {"BUY", "SELL"}
<1> DEFINE side == CASE i.side = "BUY" -> b.asks [] i.side = "SELL" -> b.bids [] OTHER -> {}
<1>1. \A l \in CandidateLevels(i, b) : l \in side
  BY DEF CandidateLevels
<1>2. \A l \in side : l \in b.asks \cup b.bids /\ i.side \in {"BUY", "SELL"}
  <2>1. i.side \in {"BUY", "SELL", "UNKNOWN"}
    BY IntentsAssumption DEF Sides
  <2>. QED
    BY <2>1
<1>3. \A l \in b.asks \cup b.bids : l.price \in Nat /\ l.qty \in Nat
  BY BooksAssumption
<1>4. levels \subseteq CandidateLevels(i, b)
  BY DEF LevelsOf
<1>. HIDE DEF side
<1>. QED
  BY <1>1, <1>2, <1>3, <1>4

LEMMA FillRowType ==
  ASSUME NEW t, TxOK(t), NEW l, l.price \in Nat, NEW size \in Nat \ {0},
         NEW f, f = FillRow(t.order, t.book, t.policy, l, size)
  PROVE  /\ FillOK(f) /\ f.order.intent = t.intent /\ f.size = size
<1>1. Notional(l.price, size) \in Nat /\ t.policy \in Policies
  BY NotionalType DEF TxOK
<1>2. SimulatedFee(t.policy, Notional(l.price, size)) \in Nat
  BY <1>1, FeeType
<1>3. t.order.id.intent = t.intent /\ t.intent \in Intents
  BY DEF TxOK
<1>. QED
  BY <1>2, <1>3 DEF FillRow, FillOK

(* A purchase adds to the units and a sale takes from them; the cost stays *)
(* non-negative because the code clamps it.                                *)
LEMMA UpdatePositionType ==
  ASSUME NEW pos, MoneyOK(pos), NEW f, FillOK(f)
  PROVE  /\ MoneyOK(UpdatePosition(pos, f))
         /\ UpdatePosition(pos, f).units =
              IF f.order.intent.side = "BUY" THEN pos.units + f.size ELSE pos.units - f.size
<1> DEFINE notional == Notional(f.price, f.size)
           closed == IF pos.avg = None THEN 0 ELSE pos.avg * f.size
           units == IF f.order.intent.side = "BUY" THEN pos.units + f.size ELSE pos.units - f.size
           cost == IF f.order.intent.side = "BUY" THEN pos.cost + notional
                   ELSE Max({0, pos.cost - closed})
           realized == IF f.order.intent.side = "BUY" THEN pos.realized
                       ELSE pos.realized + notional - closed - f.fee
<1>1. f.price \in Nat /\ f.size \in Nat \ {0} /\ f.fee \in Nat
  BY DEF FillOK
<1>2. pos.units \in Int /\ pos.cost \in Nat /\ pos.avg \in Int \cup {None} /\ pos.realized \in Int
  BY DEF MoneyOK
<1>3. notional \in Nat
  BY <1>1, NotionalType
<1>4. closed \in Int
  BY <1>1, <1>2
<1>. HIDE DEF notional, closed
<1>5. units \in Int /\ realized \in Int
  BY <1>1, <1>2, <1>3, <1>4
<1>6. cost \in Nat
  <2>1. pos.cost - closed \in Int
    BY <1>2, <1>4
  <2>2. Max({0, pos.cost - closed}) \in Nat
    BY <2>1, MaxOfTwo
  <2>. QED
    BY <1>2, <1>3, <2>2
<1>7. UpdatePosition(pos, f) =
        [units |-> units, cost |-> cost, avg |-> IF units > 0 THEN cost \div units ELSE None,
         realized |-> realized]
  BY DEF UpdatePosition, notional, closed
<1>8. units > 0 => cost \div units \in Int
  <2>. HIDE DEF units, cost
  <2>. QED
    BY <1>5, <1>6, QuotientType
<1>9. UpdatePosition(pos, f).units = units
  BY <1>7
<1>10. MoneyOK(UpdatePosition(pos, f))
  <2>. HIDE DEF units, cost, realized
  <2>. QED
    BY <1>5, <1>6, <1>7, <1>8 DEF MoneyOK
<1>. QED
  BY <1>9, <1>10

LEMMA PositionRowType ==
  ASSUME NEW i \in Intents, NEW pos, MoneyOK(pos), NEW mark \in Nat \cup {None}
  PROVE  /\ PositionOK(PositionRow(i, pos, mark))
         /\ PositionRow(i, pos, mark).units = pos.units
         /\ PositionRow(i, pos, mark) # None
<1>1. pos.units \in Int /\ pos.cost \in Nat /\ pos.avg \in Int \cup {None} /\ pos.realized \in Int
  BY DEF MoneyOK
<1>2. i.asof \in Nat
  BY IntentsAssumption
<1>3. mark # None /\ pos.avg # None => (mark * Scale - pos.avg) * pos.units \in Int
  <2>1. ASSUME mark # None, pos.avg # None
        PROVE  (mark * Scale - pos.avg) * pos.units \in Int
    <3>1. mark * Scale \in Int
      BY <2>1, ScaleAssumption
    <3>2. mark * Scale - pos.avg \in Int
      BY <1>1, <2>1, <3>1
    <3>. QED
      BY <1>1, <3>2
  <2>. QED
    BY <2>1
<1>4. PICK unrealized \in Int :
        unrealized = IF mark # None /\ pos.avg # None /\ pos.units > 0
                       THEN (mark * Scale - pos.avg) * pos.units ELSE 0
  BY <1>3
<1>5. PositionRow(i, pos, mark) =
        [run |-> i.run, mkt |-> i.mkt, out |-> i.out, ven |-> i.ven, asof |-> i.asof,
         units |-> pos.units, cost |-> pos.cost, avg |-> pos.avg, realized |-> pos.realized,
         unrealized |-> unrealized, mark |-> mark]
  BY <1>4 DEF PositionRow
<1>6. PositionRow(i, pos, mark) # None
  BY <1>1, <1>2, <1>5, NoRowAssumption
<1>. QED
  BY <1>1, <1>2, <1>5, <1>6 DEF PositionOK, MoneyOK
-----------------------------------------------------------------------------
(* Steps that only move one session keep the types.                        *)
LEMMA SessionStepTypes ==
  ASSUME TypeOK, NEW s \in Sessions, NEW p \in {"walk", "ready", "saved"}, NEW t, TxOK(t),
         pc' = [pc EXCEPT ![s] = p], tx' = [tx EXCEPT ![s] = t],
         UNCHANGED <<market, policy, orders, fills, positions>>,
         attempts' \in [Intents -> Nat], clock' \in Int
  PROVE  TypeOK'
<1>1. pc' \in [Sessions -> {"idle", "walk", "ready", "saved"}] /\ DOMAIN tx' = Sessions
  BY DEF TypeOK
<1>2. \A r \in Sessions : IF pc'[r] = "idle" THEN tx'[r] = None ELSE TxOK(tx'[r])
  <2> SUFFICES ASSUME NEW r \in Sessions
               PROVE  IF pc'[r] = "idle" THEN tx'[r] = None ELSE TxOK(tx'[r])
    OBVIOUS
  <2>1. CASE r = s
    <3>1. pc'[r] = p /\ tx'[r] = t
      BY <2>1 DEF TypeOK
    <3>. QED
      BY <3>1
  <2>2. CASE r # s
    <3>1. pc'[r] = pc[r] /\ tx'[r] = tx[r]
      BY <2>2 DEF TypeOK
    <3>. QED
      BY <3>1 DEF TypeOK
  <2>. QED
    BY <2>1, <2>2
<1>. QED
  BY <1>1, <1>2 DEF TypeOK, market

LEMMA SubmitTypes ==
  ASSUME TypeOK, NEW s \in Sessions, NEW i \in Intents, NEW d, Submit(s, i, d)
  PROVE  attempts' \in [Intents -> Nat] /\ clock' \in Int
<1>1. i.asof \in Int
  BY IntentsAssumption
<1>. QED
  BY <1>1 DEF TypeOK, Submit

LEMMA TransactionType ==
  ASSUME TypeOK, RowsOrdered, NEW i \in Intents, NEW order, OrderOK(order), order.id.intent = i,
         NEW left, \A l \in left : l.price \in Nat /\ l.qty \in Nat,
         NEW remaining \in Int, NEW pos, MoneyOK(pos)
  PROVE  TxOK(Transaction(i, order, left, remaining, pos))
<1>1. MarkPrice(LatestQuote(i.mkt, i.asof)) \in Nat \cup {None}
  <2>1. LatestQuote(i.mkt, i.asof) \in Quotes \cup {None}
    BY LatestQuoteType DEF TypeOK
  <2>. QED
    BY <2>1, MarkType
<1>2. policy \in Policies
  BY DEF TypeOK
<1>. HIDE DEF MarkPrice, LatestQuote, LatestBook
<1>. QED
  BY <1>1, <1>2 DEF Transaction, TxOK

(* Evaluating an intent opens a transaction of the right shape.            *)
LEMMA EnterTypes ==
  ASSUME TypeOK, RowsOrdered, NEW s \in Sessions, NEW i \in Intents, NEW d \in DecisionSpace,
         RejectIntent(s, i, d) \/ RestOrder(s, i, d) \/ StartWalk(s, i, d)
  PROVE  TypeOK'
<1>1. policy \in Policies /\ GateContract(i, d) /\ Submit(s, i, d)
  BY DEF TypeOK, RejectIntent, RestOrder, StartWalk, Submit
<1>2. PICK order : order = OrderFromPretrade(i, policy, d)
  OBVIOUS
<1>3. OrderOK(order) /\ order.id.intent = i
  BY <1>1, <1>2, OrderFromPretradeType
<1>4. attempts' \in [Intents -> Nat] /\ clock' \in Int
  BY <1>1, SubmitTypes
<1>5. MoneyOK(Flat)
  BY DEF Flat, MoneyOK
<1>6. \A st \in Statuses :
        /\ OrderOK([order EXCEPT !.status = st])
        /\ [order EXCEPT !.status = st].id.intent = i
  BY <1>3 DEF OrderOK
<1>7. CASE RejectIntent(s, i, d)
  <2>1. PICK o : o = [order EXCEPT !.status = "REJECTED"]
    OBVIOUS
  <2>2. OrderOK(o) /\ o.id.intent = i
    BY <1>6, <2>1 DEF Statuses
  <2>3. TxOK(Transaction(i, o, {}, 0, Flat))
    BY <1>5, <2>2, TransactionType
  <2>4. Enter(s, "ready", Transaction(i, o, {}, 0, Flat))
    BY <1>2, <1>7, <2>1 DEF RejectIntent
  <2>. HIDE DEF Transaction
  <2>. QED
    BY <1>4, <2>3, <2>4, SessionStepTypes DEF Enter, tables
<1>8. CASE RestOrder(s, i, d)
  <2>1. PICK o : o = [order EXCEPT !.status = "RESTING_UNFILLED"]
    OBVIOUS
  <2>2. OrderOK(o) /\ o.id.intent = i
    BY <1>6, <2>1 DEF Statuses
  <2>3. TxOK(Transaction(i, o, {}, 0, Flat))
    BY <1>5, <2>2, TransactionType
  <2>4. Enter(s, "ready", Transaction(i, o, {}, 0, Flat))
    BY <1>2, <1>8, <2>1 DEF RestOrder
  <2>. HIDE DEF Transaction
  <2>. QED
    BY <1>4, <2>3, <2>4, SessionStepTypes DEF Enter, tables
<1>9. CASE StartWalk(s, i, d)
  <2> DEFINE candidates == CandidateLevels(i, LatestBook(i.mkt, i.asof))
             limit == FillLimit(i, policy, order.accepted)
  <2>. PICK levels \in LevelsOf(candidates, i, policy.model) :
         Enter(s, "walk", Transaction(i, order, levels, limit, PreviousPosition(i)))
    BY <1>2, <1>9 DEF StartWalk
  <2>1. \A l \in levels : l.price \in Nat /\ l.qty \in Nat
    <3>1. LatestBook(i.mkt, i.asof) # None
      BY <1>9 DEF StartWalk, Rests, NeverFills
    <3>2. LatestBook(i.mkt, i.asof) \in Books
      BY <3>1, LatestBookType DEF TypeOK
    <3>. QED
      BY <3>2, CandidateLevelsType
  <2>2. MoneyOK(PreviousPosition(i))
    BY PreviousType
  <2>3. limit \in Int
    <3>1. order.accepted \in Int /\ PreviousPosition(i).units \in Int
      BY <1>3, <2>2 DEF OrderOK, MoneyOK
    <3>. QED
      BY <3>1, MinOfTwo DEF FillLimit
  <2>. HIDE DEF candidates, limit
  <2>4. TxOK(Transaction(i, order, levels, limit, PreviousPosition(i)))
    BY <1>3, <2>1, <2>2, <2>3, TransactionType
  <2>. QED
    BY <1>4, <2>4, SessionStepTypes DEF Enter, tables
<1>. QED
  BY <1>7, <1>8, <1>9
-----------------------------------------------------------------------------
(* What an iteration of the walk does to its transaction: some size, which *)
(* is zero for an empty level, moves from what may still be filled to what *)
(* is filled and to the position, and is a fill of a level still to visit. *)
Took(t, f, size) ==
  /\ f.order = t.order.id /\ f.book = t.book /\ f.size = size
  /\ f.level \in t.left /\ f.level.price = f.price /\ size <= f.level.qty

Moves(t, u, size) ==
  /\ u.intent = t.intent /\ u.order = t.order /\ u.row = t.row
  /\ size <= t.remaining
  /\ u.filled = t.filled + size /\ u.remaining = t.remaining - size
  /\ u.pos.units = IF t.intent.side = "BUY" THEN t.pos.units + size ELSE t.pos.units - size
  /\ u.fills # {} => t.fills # {} \/ size > 0
  /\ u.book = t.book /\ u.mark = t.mark /\ u.left \subseteq t.left
  /\ \/ size = 0 /\ u.fills = t.fills /\ u.pos = t.pos
     \/ /\ size > 0
        /\ \E f : /\ Took(t, f, size) /\ f.level \notin u.left /\ u.fills = t.fills \cup {f}
                 /\ u.pos = UpdatePosition(t.pos, f)

LEMMA FillLevelEffect ==
  ASSUME TypeOK, NEW s \in Sessions, FillLevel(s)
  PROVE  \E u : /\ tx' = [tx EXCEPT ![s] = u] /\ TxOK(u)
                /\ \E size \in Nat : Moves(tx[s], u, size)
<1>1. PICK t : t = tx[s]
  OBVIOUS
<1>2. TxOK(t) /\ t.remaining > 0
  BY <1>1 DEF TypeOK, FillLevel
<1>3. PICK l \in t.left :
        tx' = [tx EXCEPT ![s] =
          IF Min({t.remaining, l.qty}) <= 0 THEN [t EXCEPT !.left = @ \ {l}]
          ELSE [t EXCEPT !.left = @ \ {l},
                         !.fills = @ \cup {FillRow(t.order, t.book, t.policy, l,
                                                   Min({t.remaining, l.qty}))},
                         !.pos = UpdatePosition(@, FillRow(t.order, t.book, t.policy, l,
                                                           Min({t.remaining, l.qty}))),
                         !.filled = @ + Min({t.remaining, l.qty}),
                         !.remaining = @ - Min({t.remaining, l.qty})]]
  BY <1>1, Zenon DEF FillLevel
<1>4. PICK size : size = Min({t.remaining, l.qty})
  OBVIOUS
<1>5. l.price \in Nat /\ l.qty \in Nat /\ t.remaining \in Int /\ t.filled \in Nat
  BY <1>2 DEF TxOK
<1>6. size \in Nat /\ size <= t.remaining
  BY <1>2, <1>4, <1>5, MinOfTwo
<1>7. CASE size = 0
  <2>1. PICK u : u = [t EXCEPT !.left = @ \ {l}]
    OBVIOUS
  <2>2. tx' = [tx EXCEPT ![s] = u]
    <3>1. Min({t.remaining, l.qty}) <= 0
      BY <1>4, <1>7
    <3>. QED
      BY <1>3, <2>1, <3>1, Zenon
  <2>3. TxOK(u)
    BY <1>2, <2>1 DEF TxOK
  <2>4. t.pos.units \in Int
    BY <1>2 DEF TxOK, MoneyOK
  <2>5. /\ u.book = t.book /\ u.mark = t.mark /\ u.left \subseteq t.left
        /\ u.fills = t.fills /\ u.pos = t.pos
    BY <1>2, <2>1 DEF TxOK
  <2>6. Moves(t, u, 0)
    BY <1>2, <1>5, <2>1, <2>4, <2>5 DEF Moves, TxOK
  <2>. QED
    BY <1>1, <2>2, <2>3, <2>6
<1>8. CASE size # 0
  <2>1. PICK f : f = FillRow(t.order, t.book, t.policy, l, size)
    OBVIOUS
  <2>2. FillOK(f) /\ f.order.intent = t.intent /\ f.size = size
    BY <1>2, <1>5, <1>6, <1>8, <2>1, FillRowType
  <2>3. PICK pos : pos = UpdatePosition(t.pos, f)
    OBVIOUS
  <2>4. /\ MoneyOK(pos)
        /\ pos.units = IF t.intent.side = "BUY" THEN t.pos.units + size ELSE t.pos.units - size
    BY <1>2, <2>2, <2>3, UpdatePositionType DEF TxOK
  <2>5. PICK u : u = [t EXCEPT !.left = @ \ {l}, !.fills = @ \cup {f}, !.pos = pos,
                               !.filled = @ + size, !.remaining = @ - size]
    OBVIOUS
  <2>6. tx' = [tx EXCEPT ![s] = u]
    <3>1. u = [t EXCEPT !.left = @ \ {l}, !.fills = @ \cup {f}, !.pos = UpdatePosition(@, f),
                        !.filled = @ + size, !.remaining = @ - size]
      BY <2>3, <2>5
    <3>2. ~(Min({t.remaining, l.qty}) <= 0)
      BY <1>4, <1>6, <1>8
    <3>. QED
      BY <1>3, <1>4, <2>1, <3>1, <3>2, Zenon
  <2>7. TxOK(u)
    BY <1>2, <1>5, <1>6, <2>2, <2>4, <2>5 DEF TxOK
  <2>8. /\ u.book = t.book /\ u.mark = t.mark /\ u.left = t.left \ {l} /\ f.level = l
        /\ u.fills = t.fills \cup {f} /\ u.pos = UpdatePosition(t.pos, f)
    BY <1>2, <2>1, <2>3, <2>5 DEF TxOK, FillRow
  <2>9. Took(t, f, size)
    BY <1>4, <1>5, <1>6, <2>1, MinOfTwo DEF Took, FillRow
  <2>10. Moves(t, u, size)
    BY <1>2, <1>6, <1>8, <2>4, <2>5, <2>8, <2>9 DEF Moves, TxOK
  <2>. QED
    BY <1>1, <1>6, <2>6, <2>7, <2>10
<1>. QED
  BY <1>7, <1>8
-----------------------------------------------------------------------------
(* How the walk ends: unfilled, with the fills undone, or with its fills,  *)
(* the sizes of the order and a position row that has a digest.            *)
EndsUnfilled(t, u) ==
  /\ u.fills = {} /\ u.row = t.row /\ u.order.filled = t.order.filled
  /\ u.order.remaining = t.order.remaining /\ u.order.status = "RESTING_UNFILLED"

EndsFilled(t, u) ==
  /\ t.fills # {} /\ u.fills = t.fills
  /\ u.row = PositionRow(t.intent, t.pos, t.mark)
  /\ u.order.filled = t.filled
  /\ u.order.remaining = Max({0, t.order.accepted - t.filled})
  /\ u.order.status = IF t.filled >= t.order.accepted THEN "FILLED" ELSE "PARTIALLY_FILLED"

Ends(t, u) ==
  /\ u.intent = t.intent /\ u.remaining = t.remaining /\ u.pos = t.pos
  /\ u.book = t.book /\ u.left = t.left
  /\ u.order.id = t.order.id /\ u.order.accepted = t.order.accepted
  /\ EndsUnfilled(t, u) \/ EndsFilled(t, u)

LEMMA FinishWalkEffect ==
  ASSUME TypeOK, NEW s \in Sessions, FinishWalk(s)
  PROVE  \E u : tx' = [tx EXCEPT ![s] = u] /\ TxOK(u) /\ Ends(tx[s], u)
<1>1. PICK t : t = tx[s]
  OBVIOUS
<1>2. TxOK(t) /\ DOMAIN tx = Sessions
  BY <1>1 DEF TypeOK, FinishWalk
<1>3. OrderOK(t.order) /\ t.filled \in Nat /\ t.order.accepted \in Nat
  BY <1>2 DEF TxOK, OrderOK
<1>4. CASE tx' = [tx EXCEPT ![s].order.status = "RESTING_UNFILLED", ![s].fills = {}]
  <2>1. PICK o : o = [t.order EXCEPT !.status = "RESTING_UNFILLED"]
    OBVIOUS
  <2>2. PICK u : u = [t EXCEPT !.order = o, !.fills = {}]
    OBVIOUS
  <2>3. tx' = [tx EXCEPT ![s] = u]
    BY <1>1, <1>2, <1>3, <1>4, <2>1, <2>2 DEF TxOK, OrderOK
  <2>4. OrderOK(o) /\ o.id = t.order.id /\ o.accepted = t.order.accepted
          /\ o.filled = t.order.filled /\ o.remaining = t.order.remaining
          /\ o.status = "RESTING_UNFILLED"
    BY <1>3, <2>1 DEF OrderOK, Statuses
  <2>5. TxOK(u)
    BY <1>2, <2>2, <2>4 DEF TxOK
  <2>6. Ends(t, u)
    BY <1>2, <2>2, <2>4 DEF Ends, EndsUnfilled, TxOK
  <2>. QED
    BY <1>1, <2>3, <2>5, <2>6
<1>5. CASE /\ t.fills # {}
           /\ tx' = [tx EXCEPT ![s].order.filled = t.filled,
                               ![s].order.remaining = Max({0, t.order.accepted - t.filled}),
                               ![s].order.status = IF t.filled >= t.order.accepted
                                                     THEN "FILLED" ELSE "PARTIALLY_FILLED",
                               ![s].row = PositionRow(t.intent, t.pos, t.mark)]
  <2>1. PICK row : row = PositionRow(t.intent, t.pos, t.mark)
    OBVIOUS
  <2>2. PositionOK(row)
    BY <1>2, <2>1, PositionRowType DEF TxOK
  <2>3. PICK rest : rest = Max({0, t.order.accepted - t.filled})
    OBVIOUS
  <2>4. rest \in Nat
    <3>1. t.order.accepted - t.filled \in Int
      BY <1>3
    <3>. QED
      BY <2>3, <3>1, MaxOfTwo
  <2>5. PICK st \in Statuses : st = IF t.filled >= t.order.accepted
                                    THEN "FILLED" ELSE "PARTIALLY_FILLED"
    BY DEF Statuses
  <2>6. PICK o : o = [t.order EXCEPT !.filled = t.filled, !.remaining = rest, !.status = st]
    OBVIOUS
  <2>7. PICK u : u = [t EXCEPT !.order = o, !.row = row]
    OBVIOUS
  <2>8. tx' = [tx EXCEPT ![s] = u]
    <3>1. tx' = [tx EXCEPT ![s].order.filled = t.filled, ![s].order.remaining = rest,
                           ![s].order.status = st, ![s].row = row]
      BY <1>5, <2>1, <2>3, <2>5, Zenon
    <3>2. [t EXCEPT !.order.filled = t.filled, !.order.remaining = rest,
                    !.order.status = st, !.row = row] = u
      BY <1>2, <1>3, <2>6, <2>7 DEF TxOK, OrderOK
    <3>3. tx' = [tx EXCEPT ![s] = [t EXCEPT !.order.filled = t.filled, !.order.remaining = rest,
                                            !.order.status = st, !.row = row]]
      BY <1>1, <3>1
    <3>. QED
      BY <3>2, <3>3, Zenon
  <2>9. /\ OrderOK(o) /\ o.id = t.order.id /\ o.accepted = t.order.accepted
        /\ o.filled = t.filled /\ o.remaining = rest /\ o.status = st
    BY <1>3, <2>4, <2>6 DEF OrderOK
  <2>10. TxOK(u)
    BY <1>2, <2>2, <2>7, <2>9 DEF TxOK
  <2>11. u.order = o /\ u.row = row /\ u.intent = t.intent /\ u.remaining = t.remaining
           /\ u.pos = t.pos /\ u.book = t.book /\ u.left = t.left /\ u.fills = t.fills
    BY <1>2, <2>7 DEF TxOK
  <2>12. Ends(t, u)
    BY <1>5, <2>1, <2>3, <2>5, <2>9, <2>11, Zenon DEF Ends, EndsFilled
  <2>. QED
    BY <1>1, <2>8, <2>10, <2>12
<1>. QED
  BY <1>1, <1>4, <1>5, Zenon DEF FinishWalk
-----------------------------------------------------------------------------
(* The as-of reads keep finding a newest row: a step that stores no rows   *)
(* and forgets no digest, ...                                              *)
LEMMA RowsKept ==
  ASSUME RowsOrdered, UNCHANGED <<books, quotes, positions>>,
         DOMAIN digest \subseteq DOMAIN digest',
         \A p \in DOMAIN digest : digest'[p] = digest[p],
         \A p \in DOMAIN digest' : PositionOK(p) /\ digest'[p] \in Nat,
         \A r \in Sessions : pc'[r] # "idle" /\ tx'[r].row # None => tx'[r].row \in DOMAIN digest'
  PROVE  RowsOrdered'
<1>1. PositionOrder \subseteq PositionOrder'
  <2> SUFFICES ASSUME NEW e \in PositionOrder
               PROVE  e \in PositionOrder'
    OBVIOUS
  <2>1. /\ e \in (DOMAIN digest) \X (DOMAIN digest)
        /\ e[1].asof < e[2].asof \/ (e[1].asof = e[2].asof /\ digest[e[2]] <= digest[e[1]])
    BY Zenon DEF PositionOrder
  <2>2. e[1] \in DOMAIN digest /\ e[2] \in DOMAIN digest /\ e \in (DOMAIN digest') \X (DOMAIN digest')
    BY <2>1
  <2>3. digest'[e[1]] = digest[e[1]] /\ digest'[e[2]] = digest[e[2]]
    BY <2>2
  <2>. QED
    BY <2>1, <2>2, <2>3, Zenon DEF PositionOrder
<1>2. HasNewest(positions, PositionOrder')
  BY <1>1 DEF RowsOrdered, HasNewest
<1>. QED
  BY <1>2 DEF RowsOrdered

(* ... a session that moves without touching its row, ...                  *)
LEMMA SessionKeepsRows ==
  ASSUME TypeOK, RowsOrdered, NEW s \in Sessions, NEW p, NEW t,
         pc' = [pc EXCEPT ![s] = p], tx' = [tx EXCEPT ![s] = t],
         p = "idle" \/ t.row = None \/ t.row \in DOMAIN digest,
         UNCHANGED <<books, quotes, positions, digest>>
  PROVE  RowsOrdered'
<1>1. ASSUME NEW r \in Sessions, pc'[r] # "idle", tx'[r].row # None
      PROVE  tx'[r].row \in DOMAIN digest'
  <2>1. CASE r = s
    <3>1. pc'[r] = p /\ tx'[r] = t
      BY <2>1 DEF TypeOK
    <3>. QED
      BY <1>1, <3>1
  <2>2. CASE r # s
    <3>1. pc'[r] = pc[r] /\ tx'[r] = tx[r]
      BY <2>2 DEF TypeOK
    <3>. QED
      BY <1>1, <3>1 DEF RowsOrdered
  <2>. QED
    BY <2>1, <2>2
<1>2. \A q \in DOMAIN digest' : PositionOK(q) /\ digest'[q] \in Nat
  BY DEF RowsOrdered
<1>. QED
  BY <1>1, <1>2, RowsKept

(* ... and the rows a commit stores.                                       *)
LEMMA PositionOrderTotal ==
  ASSUME RowsOrdered
  PROVE  /\ \A a, b \in DOMAIN digest : <<a, b>> \in PositionOrder \/ <<b, a>> \in PositionOrder
         /\ \A a, b, c \in DOMAIN digest :
              <<a, b>> \in PositionOrder /\ <<b, c>> \in PositionOrder => <<a, c>> \in PositionOrder
<1>1. \A p \in DOMAIN digest : p.asof \in Nat /\ digest[p] \in Nat
  BY DEF RowsOrdered, PositionOK
<1>2. \A a, b \in DOMAIN digest :
        <<a, b>> \in PositionOrder
          <=> (a.asof < b.asof \/ (a.asof = b.asof /\ digest[b] <= digest[a]))
  <2> SUFFICES ASSUME NEW a \in DOMAIN digest, NEW b \in DOMAIN digest
               PROVE  <<a, b>> \in PositionOrder
                        <=> (a.asof < b.asof \/ (a.asof = b.asof /\ digest[b] <= digest[a]))
    OBVIOUS
  <2>1. PICK e : e = <<a, b>>
    OBVIOUS
  <2>2. e[1] = a /\ e[2] = b /\ e \in (DOMAIN digest) \X (DOMAIN digest)
    BY <2>1
  <2>3. e \in PositionOrder
          <=> (e[1].asof < e[2].asof \/ (e[1].asof = e[2].asof /\ digest[e[2]] <= digest[e[1]]))
    BY <2>2, Zenon DEF PositionOrder
  <2>. QED
    BY <2>1, <2>2, <2>3, Zenon
<1>3. ASSUME NEW a \in DOMAIN digest, NEW b \in DOMAIN digest
      PROVE  <<a, b>> \in PositionOrder \/ <<b, a>> \in PositionOrder
  BY <1>1, <1>2
<1>4. ASSUME NEW a \in DOMAIN digest, NEW b \in DOMAIN digest, NEW c \in DOMAIN digest,
             <<a, b>> \in PositionOrder, <<b, c>> \in PositionOrder
      PROVE  <<a, c>> \in PositionOrder
  BY <1>1, <1>2, <1>4
<1>. QED
  BY <1>3, <1>4

LEMMA FinishWalkRows ==
  ASSUME TypeOK, RowsOrdered, NEW s \in Sessions, FinishWalk(s)
  PROVE  RowsOrdered'
<1> DEFINE row == PositionRow(tx[s].intent, tx[s].pos, tx[s].mark)
<1>1. /\ pc' = [pc EXCEPT ![s] = "ready"] /\ pc[s] = "walk"
      /\ UNCHANGED <<books, quotes, positions>>
  BY DEF FinishWalk, market, tables
<1>2. PositionOK(row)
  BY <1>1, PositionRowType DEF TypeOK, TxOK
<1>3. CASE /\ tx' = [tx EXCEPT ![s].order.status = "RESTING_UNFILLED", ![s].fills = {}]
           /\ UNCHANGED digest
  <2>1. tx'[s].row = tx[s].row /\ \A r \in Sessions : r # s => tx'[r] = tx[r] /\ pc'[r] = pc[r]
    BY <1>1, <1>3 DEF TypeOK, TxOK
  <2>2. \A r \in Sessions : pc'[r] # "idle" /\ tx'[r].row # None => tx'[r].row \in DOMAIN digest'
    BY <1>1, <1>3, <2>1 DEF RowsOrdered
  <2>3. \A p \in DOMAIN digest' : PositionOK(p) /\ digest'[p] \in Nat
    BY <1>3 DEF RowsOrdered
  <2>. QED
    BY <1>1, <1>3, <2>2, <2>3, RowsKept
<1>4. CASE /\ tx' = [tx EXCEPT ![s].order.filled = tx[s].filled,
                               ![s].order.remaining = Max({0, tx[s].order.accepted - tx[s].filled}),
                               ![s].order.status = IF tx[s].filled >= tx[s].order.accepted
                                                     THEN "FILLED" ELSE "PARTIALLY_FILLED",
                               ![s].row = row]
           /\ IF row \in DOMAIN digest THEN UNCHANGED digest
              ELSE \E h \in HashRanks :
                     /\ \A p \in DOMAIN digest : p.asof = row.asof => digest[p] # h
                     /\ digest' = [p \in DOMAIN digest \cup {row} |->
                                     IF p = row THEN h ELSE digest[p]]
  <2>1. tx'[s].row = row /\ \A r \in Sessions : r # s => tx'[r] = tx[r] /\ pc'[r] = pc[r]
    BY <1>1, <1>4 DEF TypeOK, TxOK
  <2>. HIDE DEF row
  <2>2. /\ DOMAIN digest' = DOMAIN digest \cup {row}
        /\ \A p \in DOMAIN digest : digest'[p] = digest[p]
        /\ row \in DOMAIN digest \/ digest'[row] \in HashRanks
    BY <1>4
  <2>3. \A p \in DOMAIN digest' : PositionOK(p) /\ digest'[p] \in Nat
    <3>1. \A p \in DOMAIN digest : PositionOK(p) /\ digest[p] \in Nat
      BY DEF RowsOrdered
    <3>2. HashRanks \subseteq Nat
      BY HashRanksAssumption
    <3>. QED
      BY <1>2, <2>2, <3>1, <3>2
  <2>4. \A r \in Sessions : pc'[r] # "idle" /\ tx'[r].row # None => tx'[r].row \in DOMAIN digest'
    BY <2>1, <2>2 DEF RowsOrdered
  <2>. QED
    BY <1>1, <2>2, <2>3, <2>4, RowsKept
<1>. QED
  BY <1>3, <1>4, Zenon DEF FinishWalk

LEMMA CommitRows ==
  ASSUME TypeOK, RowsOrdered, NEW s \in Sessions, Commit(s)
  PROVE  RowsOrdered'
<1>1. /\ pc' = [pc EXCEPT ![s] = "idle"] /\ UNCHANGED <<books, quotes, digest>>
      /\ pc[s] = "saved" /\ tx' = [tx EXCEPT ![s] = None]
  BY DEF Commit, Leave, market
<1>2. \A r \in Sessions : pc'[r] # "idle" /\ tx'[r].row # None => tx'[r].row \in DOMAIN digest
  BY <1>1 DEF RowsOrdered, TypeOK
<1>3. CASE tx[s].row = None
  <2>1. UNCHANGED positions
    BY <1>3 DEF Commit, PositionsAfter
  <2>. QED
    BY <1>1, <1>2, <2>1, RowsKept DEF RowsOrdered
<1>4. CASE tx[s].row # None
  <2>1. PICK row \in DOMAIN digest : row = tx[s].row
    BY <1>1, <1>4 DEF RowsOrdered
  <2>2. positions' = positions \cup {row}
    BY <1>4, <2>1 DEF Commit, PositionsAfter
  <2>3. PICK R : R = PositionOrder
    OBVIOUS
  <2>4. HasNewest(positions \cup {row}, R)
    <3>1. positions \subseteq DOMAIN digest /\ HasNewest(positions, R)
      BY <2>3 DEF RowsOrdered
    <3>2. /\ \A a, b \in DOMAIN digest : <<a, b>> \in R \/ <<b, a>> \in R
          /\ \A a, b, c \in DOMAIN digest : <<a, b>> \in R /\ <<b, c>> \in R => <<a, c>> \in R
      BY <2>3, PositionOrderTotal
    <3>. QED
      BY <3>1, <3>2, NewestOfMore
  <2>5. PositionOrder' = R
    BY <1>1, <2>3 DEF PositionOrder
  <2>6. positions' \subseteq DOMAIN digest
    BY <2>1, <2>2 DEF RowsOrdered
  <2>. QED
    BY <1>1, <1>2, <2>2, <2>4, <2>5, <2>6 DEF RowsOrdered
<1>. QED
  BY <1>3, <1>4
-----------------------------------------------------------------------------
(* The types and the order of the rows are kept by every step.             *)
LEMMA StepTypes ==
  ASSUME TypeOK, RowsOrdered, [Next]_vars
  PROVE  TypeOK' /\ RowsOrdered'
<1>1. ASSUME NEW b \in Books, CaptureBook(b)
      PROVE  TypeOK' /\ RowsOrdered'
  <2>1. TypeOK'
    BY <1>1 DEF TypeOK, CaptureBook, tables, caller
  <2>2. PICK R : R = BookOrder
    OBVIOUS
  <2>3. \A a, c \in Books : <<a, c>> \in R <=> a.captured <= c.captured
    BY <2>2 DEF BookOrder
  <2>4. \A a \in Books : a.captured \in Nat
    BY BooksAssumption
  <2>5. \A a, c \in Books : <<a, c>> \in R \/ <<c, a>> \in R
    <3> SUFFICES ASSUME NEW a \in Books, NEW c \in Books
                 PROVE  <<a, c>> \in R \/ <<c, a>> \in R
      OBVIOUS
    <3>1. a.captured <= c.captured \/ c.captured <= a.captured
      BY <2>4
    <3>. QED
      BY <2>3, <3>1
  <2>6. \A a, c, e \in Books : <<a, c>> \in R /\ <<c, e>> \in R => <<a, e>> \in R
    BY <2>3, <2>4
  <2>7. HasNewest(books, R) /\ books \subseteq Books
    BY <2>2 DEF RowsOrdered, TypeOK
  <2>8. HasNewest(books \cup {b}, R)
    BY <2>5, <2>6, <2>7, NewestOfMore
  <2>. QED
    BY <1>1, <2>1, <2>2, <2>8 DEF RowsOrdered, CaptureBook, tables, PositionOrder
<1>2. ASSUME NEW q \in Quotes, DeriveQuote(q)
      PROVE  TypeOK' /\ RowsOrdered'
  <2>1. TypeOK'
    BY <1>2 DEF TypeOK, DeriveQuote, tables, caller
  <2>2. PICK R : R = QuoteOrder
    OBVIOUS
  <2>3. \A a, c \in Quotes : <<a, c>> \in R <=> a.available <= c.available
    BY <2>2 DEF QuoteOrder
  <2>4. \A a \in Quotes : a.available \in Nat
    BY QuotesAssumption
  <2>5. \A a, c \in Quotes : <<a, c>> \in R \/ <<c, a>> \in R
    <3> SUFFICES ASSUME NEW a \in Quotes, NEW c \in Quotes
                 PROVE  <<a, c>> \in R \/ <<c, a>> \in R
      OBVIOUS
    <3>1. a.available <= c.available \/ c.available <= a.available
      BY <2>4
    <3>. QED
      BY <2>3, <3>1
  <2>6. \A a, c, e \in Quotes : <<a, c>> \in R /\ <<c, e>> \in R => <<a, e>> \in R
    BY <2>3, <2>4
  <2>7. HasNewest(quotes, R) /\ quotes \subseteq Quotes
    BY <2>2 DEF RowsOrdered, TypeOK
  <2>8. HasNewest(quotes \cup {q}, R)
    BY <2>5, <2>6, <2>7, NewestOfMore
  <2>. QED
    BY <1>2, <2>1, <2>2, <2>8 DEF RowsOrdered, DeriveQuote, tables, PositionOrder
<1>3. ASSUME NEW p \in Policies, SavePolicy(p)
      PROVE  TypeOK' /\ RowsOrdered'
  BY <1>3 DEF TypeOK, RowsOrdered, SavePolicy, market, tables, caller, PositionOrder
<1>4. ASSUME NEW s \in Sessions, NEW i \in Intents, NEW d \in DecisionSpace,
             RejectIntent(s, i, d) \/ RestOrder(s, i, d) \/ StartWalk(s, i, d)
      PROVE  TypeOK' /\ RowsOrdered'
  <2>1. PICK p, order, left, remaining, pos :
          Enter(s, p, Transaction(i, order, left, remaining, pos))
    BY <1>4, Zenon DEF RejectIntent, RestOrder, StartWalk
  <2>2. PICK t : t = Transaction(i, order, left, remaining, pos)
    OBVIOUS
  <2>3. t.row = None
    BY <2>2 DEF Transaction
  <2>4. RowsOrdered'
    BY <2>1, <2>2, <2>3, SessionKeepsRows DEF Enter, market, tables
  <2>. QED
    BY <1>4, <2>4, EnterTypes
<1>5. ASSUME NEW s \in Sessions, FillLevel(s)
      PROVE  TypeOK' /\ RowsOrdered'
  <2>1. PICK u : /\ tx' = [tx EXCEPT ![s] = u] /\ TxOK(u)
                 /\ \E size \in Nat : Moves(tx[s], u, size)
    BY <1>5, FillLevelEffect
  <2>2. u.row = tx[s].row
    BY <2>1 DEF Moves
  <2>3. /\ pc[s] = "walk" /\ pc' = [pc EXCEPT ![s] = "walk"]
        /\ UNCHANGED <<market, policy, tables, digest, caller>>
    BY <1>5 DEF FillLevel, TypeOK
  <2>4. TypeOK'
    BY <2>1, <2>3, SessionStepTypes DEF TypeOK, tables, caller
  <2>5. u.row = None \/ u.row \in DOMAIN digest
    BY <2>2, <2>3 DEF RowsOrdered
  <2>. QED
    BY <2>1, <2>3, <2>4, <2>5, SessionKeepsRows DEF market, tables
<1>6. ASSUME NEW s \in Sessions, FinishWalk(s)
      PROVE  TypeOK' /\ RowsOrdered'
  <2>1. PICK u : tx' = [tx EXCEPT ![s] = u] /\ TxOK(u)
    BY <1>6, FinishWalkEffect
  <2>2. pc' = [pc EXCEPT ![s] = "ready"] /\ UNCHANGED <<market, policy, tables, caller>>
    BY <1>6 DEF FinishWalk
  <2>3. TypeOK'
    BY <2>1, <2>2, SessionStepTypes DEF TypeOK, tables, caller
  <2>. QED
    BY <1>6, <2>3, FinishWalkRows
<1>7. ASSUME NEW s \in Sessions, SavePortfolio(s)
      PROVE  TypeOK' /\ RowsOrdered'
  <2>1. TxOK(tx[s])
    BY <1>7 DEF TypeOK, SavePortfolio
  <2>2. PICK u : u = [tx[s] EXCEPT !.portfolio = ComputePortfolio(tx[s])]
    OBVIOUS
  <2>3. TxOK(u) /\ u.row = tx[s].row
    BY <2>1, <2>2 DEF TxOK
  <2>4. /\ tx' = [tx EXCEPT ![s] = u] /\ pc[s] = "ready" /\ pc' = [pc EXCEPT ![s] = "saved"]
        /\ UNCHANGED <<market, policy, tables, digest, caller>>
    BY <1>7, <2>2 DEF SavePortfolio
  <2>5. TypeOK'
    BY <2>3, <2>4, SessionStepTypes DEF TypeOK, tables, caller
  <2>6. u.row = None \/ u.row \in DOMAIN digest
    BY <2>3, <2>4 DEF RowsOrdered
  <2>. QED
    BY <2>4, <2>5, <2>6, SessionKeepsRows DEF market, tables
<1>8. ASSUME NEW s \in Sessions, Commit(s)
      PROVE  TypeOK' /\ RowsOrdered'
  <2>1. TxOK(tx[s])
    BY <1>8 DEF TypeOK, Commit
  <2>2. \A o \in orders' : OrderOK(o)
    BY <1>8, <2>1 DEF Commit, OrdersAfter, TypeOK, TxOK
  <2>3. \A f \in fills' : FillOK(f)
    BY <1>8, <2>1 DEF Commit, FillsAfter, TypeOK, TxOK
  <2>4. \A p \in positions' : PositionOK(p)
    BY <1>8, <2>1 DEF Commit, PositionsAfter, TypeOK, TxOK
  <2>5. /\ UNCHANGED <<books, quotes, policy, attempts, clock>>
        /\ pc' = [pc EXCEPT ![s] = "idle"] /\ tx' = [tx EXCEPT ![s] = None]
    BY <1>8 DEF Commit, Leave, market, caller
  <2>6. /\ pc' \in [Sessions -> {"idle", "walk", "ready", "saved"}] /\ DOMAIN tx' = Sessions
        /\ \A r \in Sessions : IF pc'[r] = "idle" THEN tx'[r] = None ELSE TxOK(tx'[r])
    BY <2>5 DEF TypeOK
  <2>7. TypeOK'
    BY <2>2, <2>3, <2>4, <2>5, <2>6 DEF TypeOK
  <2>. QED
    BY <1>8, <2>7, CommitRows
<1>9. ASSUME NEW s \in Sessions, Abort(s)
      PROVE  TypeOK' /\ RowsOrdered'
  <2>1. /\ UNCHANGED <<market, policy, tables, digest, caller>>
        /\ pc' = [pc EXCEPT ![s] = "idle"] /\ tx' = [tx EXCEPT ![s] = None]
    BY <1>9 DEF Abort, Leave
  <2>2. /\ pc' \in [Sessions -> {"idle", "walk", "ready", "saved"}] /\ DOMAIN tx' = Sessions
        /\ \A r \in Sessions : IF pc'[r] = "idle" THEN tx'[r] = None ELSE TxOK(tx'[r])
    BY <2>1 DEF TypeOK
  <2>3. TypeOK'
    BY <2>1, <2>2 DEF TypeOK, market, tables, caller
  <2>. QED
    BY <2>1, <2>3, SessionKeepsRows DEF market, tables
<1>10. CASE UNCHANGED vars
  BY <1>10 DEF vars, TypeOK, RowsOrdered, market, tables, caller, PositionOrder
<1>. QED
  BY <1>1, <1>2, <1>3, <1>4, <1>5, <1>6, <1>7, <1>8, <1>9, <1>10 DEF Next, Step, Proceed

LEMMA InitTypes ==
  ASSUME Init
  PROVE  TypeOK /\ RowsOrdered
<1>1. TypeOK
  BY DEF Init, TypeOK
<1>2. RowsOrdered
  BY DEF Init, RowsOrdered, HasNewest
<1>. QED
  BY <1>1, <1>2

(* Every reachable state of the simulator is of the right shape, and every *)
(* as-of read of it finds a newest row.                                    *)
THEOREM TypeCorrect == Spec => [](TypeOK /\ RowsOrdered)
<1>1. Init => TypeOK /\ RowsOrdered
  BY InitTypes
<1>2. TypeOK /\ RowsOrdered /\ [Next]_vars => (TypeOK /\ RowsOrdered)'
  BY StepTypes
<1>. QED
  BY <1>1, <1>2, PTL DEF Spec
-----------------------------------------------------------------------------
(* A transaction at control point p is consistent.                         *)
Consistent(p, t) ==
  /\ t.remaining >= 0
  /\ NoShortPolicy => LongOnlyTransaction(t)
  /\ IF p = "walk" THEN WalkConsistent(t) ELSE SizesAgree(t.order)

LEMMA SessionStepConsistent ==
  ASSUME TypeOK, TransactionsConsistent, NEW s \in Sessions, NEW p, NEW t,
         pc' = [pc EXCEPT ![s] = p], tx' = [tx EXCEPT ![s] = t],
         p # "idle" => Consistent(p, t)
  PROVE  TransactionsConsistent'
<1> SUFFICES ASSUME NEW r \in Sessions, pc'[r] # "idle"
             PROVE  Consistent(pc'[r], tx'[r])
  BY Zenon DEF TransactionsConsistent, Consistent
<1>1. CASE r = s
  <2>1. pc'[r] = p /\ tx'[r] = t
    BY <1>1 DEF TypeOK
  <2>. QED
    BY <2>1, Zenon
<1>2. CASE r # s
  <2>1. pc'[r] = pc[r] /\ tx'[r] = tx[r]
    BY <1>2 DEF TypeOK
  <2>2. Consistent(pc[r], tx[r])
    BY <2>1, Zenon DEF TransactionsConsistent, Consistent
  <2>. QED
    BY <2>1, <2>2, Zenon
<1>. QED
  BY <1>1, <1>2

(* Evaluating an intent: a rejected or resting order has filled nothing,   *)
(* and a sale starts with no more to sell than the position it read.       *)
LEMMA EnterConsistent ==
  ASSUME TypeOK, RowsOrdered, SnapshotsLongOnly, TransactionsConsistent,
         NEW s \in Sessions, NEW i \in Intents, NEW d \in DecisionSpace,
         RejectIntent(s, i, d) \/ RestOrder(s, i, d) \/ StartWalk(s, i, d)
  PROVE  TransactionsConsistent'
<1>1. policy \in Policies /\ GateContract(i, d)
  BY DEF TypeOK, RejectIntent, RestOrder, StartWalk, Submit
<1>2. PICK order : order = OrderFromPretrade(i, policy, d)
  OBVIOUS
<1>3. /\ OrderOK(order) /\ WithinGate(order)
      /\ order.filled = 0 /\ order.remaining = order.accepted
      /\ order.accepted = AcceptedSize(i, policy, d)
      /\ order.status = IF RejectedByGate(i, policy, d) THEN "REJECTED" ELSE "ACCEPTED"
  BY <1>1, <1>2, OrderFromPretradeType
<1>4. order.accepted \in Nat
  BY <1>3 DEF OrderOK
<1>5. ASSUME NEW st \in {"REJECTED", "RESTING_UNFILLED"},
             Enter(s, "ready", Transaction(i, [order EXCEPT !.status = st], {}, 0, Flat))
      PROVE  TransactionsConsistent'
  <2>1. PICK o : o = [order EXCEPT !.status = st]
    OBVIOUS
  <2>2. SizesAgree(o)
    BY <1>3, <1>4, <2>1 DEF SizesAgree, WithinGate, OrderOK
  <2>3. PICK t : t = Transaction(i, o, {}, 0, Flat)
    OBVIOUS
  <2>4. t.order = o /\ t.remaining = 0 /\ t.pos = Flat /\ t.row = None
    BY <2>3 DEF Transaction
  <2>5. Consistent("ready", t)
    BY <2>2, <2>4 DEF Consistent, LongOnlyTransaction, Flat
  <2>. QED
    BY <1>5, <2>1, <2>3, <2>5, SessionStepConsistent DEF Enter
<1>6. CASE StartWalk(s, i, d)
  <2> DEFINE candidates == CandidateLevels(i, LatestBook(i.mkt, i.asof))
             limit == FillLimit(i, policy, order.accepted)
             prev == PreviousPosition(i)
  <2>. PICK levels \in LevelsOf(candidates, i, policy.model) :
         Enter(s, "walk", Transaction(i, order, levels, limit, prev))
    BY <1>2, <1>6 DEF StartWalk
  <2>1. PICK t : t = Transaction(i, order, levels, limit, prev)
    OBVIOUS
  <2>2. /\ ~RejectedByGate(i, policy, d) /\ ~(order.accepted <= 0)
        /\ ~NeverFills(i, policy) /\ ~ShortBlocked(i, policy) /\ candidates # {}
    BY <1>3, <1>6 DEF StartWalk, Rejects, Rests
  <2>3. i.side \in {"BUY", "SELL"}
    <3>1. LatestBook(i.mkt, i.asof) \in Books
      BY <2>2, LatestBookType DEF NeverFills, TypeOK
    <3>. QED
      BY <2>2, <3>1, CandidateLevelsType
  <2>4. MoneyOK(prev) /\ (NoShortPolicy => prev.units >= 0)
    BY PreviousType
  <2>5. prev.units \in Int
    BY <2>4 DEF MoneyOK
  <2>6. limit \in Int /\ limit >= 0 /\ limit <= order.accepted
          /\ (NoShortPolicy /\ i.side # "BUY" => limit <= prev.units)
    <3>1. CASE LongOnlySale(i, policy)
      <4>1. prev.units > 0
        BY <2>2, <2>5, <3>1 DEF ShortBlocked
      <4>2. limit = Min({order.accepted, prev.units})
        BY <3>1 DEF FillLimit
      <4>. HIDE DEF limit, prev
      <4>. QED
        BY <1>4, <2>5, <4>1, <4>2, MinOfTwo
    <3>2. CASE ~LongOnlySale(i, policy)
      <4>1. limit = order.accepted
        BY <3>2 DEF FillLimit
      <4>2. NoShortPolicy => i.side = "BUY"
        BY <1>1, <2>3, <3>2 DEF LongOnlySale, NoShortPolicy
      <4>. HIDE DEF limit, prev
      <4>. QED
        BY <1>4, <4>1, <4>2
    <3>. QED
      BY <3>1, <3>2
  <2>7. /\ t.intent = i /\ t.order = order /\ t.remaining = limit /\ t.filled = 0
        /\ t.fills = {} /\ t.pos = prev /\ t.row = None
    BY <2>1 DEF Transaction
  <2>8. Enter(s, "walk", t)
    BY <2>1
  <2>. HIDE DEF candidates, limit, prev
  <2>9. order.status = "ACCEPTED"
    BY <1>3, <2>2
  <2>10. WalkConsistent(t)
    BY <1>3, <1>4, <2>6, <2>7, <2>9 DEF WalkConsistent
  <2>11. NoShortPolicy => LongOnlyTransaction(t)
    BY <2>4, <2>5, <2>6, <2>7 DEF LongOnlyTransaction
  <2>12. Consistent("walk", t)
    BY <2>6, <2>7, <2>10, <2>11 DEF Consistent
  <2>. QED
    BY <2>8, <2>12, SessionStepConsistent DEF Enter
<1>7. CASE RejectIntent(s, i, d)
  BY <1>2, <1>5, <1>7 DEF RejectIntent
<1>8. CASE RestOrder(s, i, d)
  BY <1>2, <1>5, <1>8 DEF RestOrder
<1>. QED
  BY <1>6, <1>7, <1>8

(* An iteration of the walk moves some size within what may still be       *)
(* filled, so a sale takes no more units than the position holds.          *)
LEMMA FillLevelConsistent ==
  ASSUME TypeOK, TransactionsConsistent, NEW s \in Sessions, FillLevel(s)
  PROVE  TransactionsConsistent'
<1>1. PICK u : tx' = [tx EXCEPT ![s] = u] /\ \E size \in Nat : Moves(tx[s], u, size)
  BY FillLevelEffect
<1>2. PICK size \in Nat : Moves(tx[s], u, size)
  BY <1>1
<1>3. PICK t : t = tx[s]
  OBVIOUS
<1>4. pc[s] = "walk" /\ pc' = [pc EXCEPT ![s] = "walk"]
  BY DEF FillLevel, TypeOK
<1>5. /\ t.remaining \in Int /\ t.filled \in Nat /\ t.order.accepted \in Nat /\ t.pos.units \in Int
  BY <1>3, <1>4 DEF TypeOK, TxOK, OrderOK, MoneyOK
<1>6. t.remaining >= 0 /\ WalkConsistent(t) /\ (NoShortPolicy => LongOnlyTransaction(t))
  BY <1>3, <1>4 DEF TransactionsConsistent
<1>7. Moves(t, u, size)
  BY <1>2, <1>3
<1>8. u.remaining >= 0
  BY <1>5, <1>7 DEF Moves
<1>9. WalkConsistent(u)
  <2>1. u.order = t.order
    BY <1>7 DEF Moves
  <2>2. u.filled + u.remaining <= u.order.accepted
    BY <1>5, <1>6, <1>7 DEF Moves, WalkConsistent
  <2>3. u.fills # {} => u.filled > 0
    BY <1>5, <1>6, <1>7 DEF Moves, WalkConsistent
  <2>. QED
    BY <1>6, <2>1, <2>2, <2>3 DEF WalkConsistent
<1>10. NoShortPolicy => LongOnlyTransaction(u)
  BY <1>5, <1>6, <1>7 DEF Moves, LongOnlyTransaction
<1>. QED
  BY <1>1, <1>4, <1>8, <1>9, <1>10, SessionStepConsistent DEF Consistent

(* The end of the walk: the sizes of the order add up, and the row has the *)
(* units the walk left.                                                    *)
LEMMA FinishWalkConsistent ==
  ASSUME TypeOK, TransactionsConsistent, NEW s \in Sessions, FinishWalk(s)
  PROVE  TransactionsConsistent'
<1>1. PICK u : tx' = [tx EXCEPT ![s] = u] /\ Ends(tx[s], u)
  BY FinishWalkEffect
<1>2. PICK t : t = tx[s]
  OBVIOUS
<1>3. pc[s] = "walk" /\ pc' = [pc EXCEPT ![s] = "ready"]
  BY DEF FinishWalk
<1>4. /\ TxOK(t) /\ OrderOK(t.order)
      /\ t.remaining \in Int /\ t.filled \in Nat /\ t.order.accepted \in Nat /\ t.pos.units \in Int
  BY <1>2, <1>3 DEF TypeOK, TxOK, OrderOK, MoneyOK
<1>5. t.remaining >= 0 /\ WalkConsistent(t) /\ (NoShortPolicy => LongOnlyTransaction(t))
  BY <1>2, <1>3 DEF TransactionsConsistent
<1>6. Ends(t, u)
  BY <1>1, <1>2
<1>7. /\ u.remaining >= 0 /\ u.pos = t.pos /\ u.intent = t.intent /\ u.remaining = t.remaining
      /\ u.order.id = t.order.id /\ u.order.accepted = t.order.accepted /\ WithinGate(u.order)
  BY <1>5, <1>6 DEF Ends, WalkConsistent, WithinGate
<1>8. SizesAgree(u.order) /\ (NoShortPolicy => LongOnlyTransaction(u))
  <2>1. CASE EndsUnfilled(t, u)
    <3>1. SizesAgree(u.order)
      BY <1>4, <1>5, <1>7, <2>1 DEF EndsUnfilled, WalkConsistent, SizesAgree
    <3>2. u.row = t.row
      BY <2>1 DEF EndsUnfilled
    <3>. QED
      BY <1>5, <1>7, <3>1, <3>2 DEF LongOnlyTransaction
  <2>2. CASE EndsFilled(t, u)
    <3>1. t.filled > 0 /\ t.filled <= t.order.accepted
      BY <1>4, <1>5, <2>2 DEF EndsFilled, WalkConsistent
    <3>2. t.order.accepted - t.filled \in Int
      BY <1>4
    <3>3. Max({0, t.order.accepted - t.filled}) = t.order.accepted - t.filled
      BY <1>4, <3>1, <3>2, MaxOfTwo
    <3>4. /\ u.order.filled = t.filled
          /\ u.order.remaining = t.order.accepted - t.filled
          /\ u.order.status = IF t.filled >= t.order.accepted THEN "FILLED" ELSE "PARTIALLY_FILLED"
      BY <2>2, <3>3 DEF EndsFilled
    <3>5. SizesAgree(u.order)
      BY <1>4, <1>7, <3>1, <3>4 DEF SizesAgree
    <3>6. u.row.units = t.pos.units
      <4>1. t.intent \in Intents /\ MoneyOK(t.pos) /\ t.mark \in Nat \cup {None}
        BY <1>4 DEF TxOK
      <4>2. PositionRow(t.intent, t.pos, t.mark).units = t.pos.units
        BY <4>1, PositionRowType
      <4>. QED
        BY <2>2, <4>2 DEF EndsFilled
    <3>. QED
      BY <1>5, <1>7, <3>5, <3>6 DEF LongOnlyTransaction
  <2>. QED
    BY <1>6, <2>1, <2>2 DEF Ends
<1>. QED
  BY <1>1, <1>3, <1>7, <1>8, SessionStepConsistent DEF Consistent

(* A step leaves the stored orders and positions alone or commits those of *)
(* a consistent transaction.                                               *)
LEMMA StepConsistent ==
  ASSUME TypeOK, RowsOrdered, TransactionsConsistent, OrderSizesAgree, SnapshotsLongOnly,
         [Next]_vars
  PROVE  TransactionsConsistent' /\ OrderSizesAgree' /\ SnapshotsLongOnly'
<1>1. ASSUME UNCHANGED <<orders, positions>>
      PROVE  OrderSizesAgree' /\ SnapshotsLongOnly'
  BY <1>1 DEF OrderSizesAgree, SnapshotsLongOnly
<1>2. ASSUME UNCHANGED <<orders, positions, pc, tx>>
      PROVE  TransactionsConsistent' /\ OrderSizesAgree' /\ SnapshotsLongOnly'
  BY <1>1, <1>2 DEF TransactionsConsistent
<1>3. ASSUME NEW s \in Sessions, NEW i \in Intents, NEW d \in DecisionSpace,
             RejectIntent(s, i, d) \/ RestOrder(s, i, d) \/ StartWalk(s, i, d)
      PROVE  TransactionsConsistent' /\ OrderSizesAgree' /\ SnapshotsLongOnly'
  BY <1>1, <1>3, EnterConsistent DEF RejectIntent, RestOrder, StartWalk, Enter, tables
<1>4. ASSUME NEW s \in Sessions, FillLevel(s)
      PROVE  TransactionsConsistent' /\ OrderSizesAgree' /\ SnapshotsLongOnly'
  BY <1>1, <1>4, FillLevelConsistent DEF FillLevel, tables
<1>5. ASSUME NEW s \in Sessions, FinishWalk(s)
      PROVE  TransactionsConsistent' /\ OrderSizesAgree' /\ SnapshotsLongOnly'
  <2>1. UNCHANGED <<orders, positions>>
    BY <1>5 DEF FinishWalk, tables
  <2>. QED
    BY <1>1, <1>5, <2>1, FinishWalkConsistent
<1>6. ASSUME NEW s \in Sessions, SavePortfolio(s)
      PROVE  TransactionsConsistent' /\ OrderSizesAgree' /\ SnapshotsLongOnly'
  <2>1. PICK u : u = [tx[s] EXCEPT !.portfolio = ComputePortfolio(tx[s])]
    OBVIOUS
  <2>2. /\ tx' = [tx EXCEPT ![s] = u] /\ pc[s] = "ready" /\ pc' = [pc EXCEPT ![s] = "saved"]
        /\ UNCHANGED <<orders, positions>>
    BY <1>6, <2>1 DEF SavePortfolio, tables
  <2>3. /\ u.order = tx[s].order /\ u.remaining = tx[s].remaining /\ u.pos = tx[s].pos
        /\ u.intent = tx[s].intent /\ u.row = tx[s].row
    BY <2>1, <2>2 DEF TypeOK, TxOK
  <2>4. Consistent("ready", tx[s])
    BY <2>2 DEF TransactionsConsistent, Consistent
  <2>5. Consistent("saved", u)
    BY <2>3, <2>4 DEF Consistent, LongOnlyTransaction
  <2>. QED
    BY <1>1, <2>2, <2>5, SessionStepConsistent
<1>7. ASSUME NEW s \in Sessions, Commit(s)
      PROVE  TransactionsConsistent' /\ OrderSizesAgree' /\ SnapshotsLongOnly'
  <2>1. Consistent("saved", tx[s])
    BY <1>7 DEF Commit, TransactionsConsistent, Consistent
  <2>2. OrderSizesAgree'
    BY <1>7, <2>1 DEF Commit, OrdersAfter, OrderSizesAgree, Consistent
  <2>3. SnapshotsLongOnly'
    BY <1>7, <2>1 DEF Commit, PositionsAfter, SnapshotsLongOnly, Consistent, LongOnlyTransaction
  <2>4. pc' = [pc EXCEPT ![s] = "idle"] /\ tx' = [tx EXCEPT ![s] = None]
    BY <1>7 DEF Commit, Leave
  <2>. QED
    BY <2>2, <2>3, <2>4, SessionStepConsistent
<1>8. ASSUME NEW s \in Sessions, Abort(s)
      PROVE  TransactionsConsistent' /\ OrderSizesAgree' /\ SnapshotsLongOnly'
  <2>1. /\ pc' = [pc EXCEPT ![s] = "idle"] /\ tx' = [tx EXCEPT ![s] = None]
        /\ UNCHANGED <<orders, positions>>
    BY <1>8 DEF Abort, Leave, tables
  <2>. QED
    BY <1>1, <2>1, SessionStepConsistent
<1>9. CASE \/ \E b \in Books : CaptureBook(b)
           \/ \E q \in Quotes : DeriveQuote(q)
           \/ \E p \in Policies : SavePolicy(p)
           \/ UNCHANGED vars
  BY <1>2, <1>9 DEF CaptureBook, DeriveQuote, SavePolicy, vars, tables
<1>. QED
  BY <1>3, <1>4, <1>5, <1>6, <1>7, <1>8, <1>9 DEF Next, Step, Proceed

(* The inductive invariant: the types, the order of the rows and the       *)
(* consistency of what is open and what is stored.                         *)
Consistency ==
  /\ TypeOK /\ RowsOrdered
  /\ TransactionsConsistent /\ OrderSizesAgree /\ SnapshotsLongOnly

LEMMA ConsistencyHolds == Spec => []Consistency
<1>1. Init => Consistency
  <2>1. Init => TransactionsConsistent /\ OrderSizesAgree /\ SnapshotsLongOnly
    BY DEF Init, TransactionsConsistent, OrderSizesAgree, SnapshotsLongOnly
  <2>. QED
    BY <2>1, InitTypes DEF Consistency
<1>2. Consistency /\ [Next]_vars => Consistency'
  BY StepTypes, StepConsistent DEF Consistency
<1>. QED
  BY <1>1, <1>2, PTL DEF Spec
-----------------------------------------------------------------------------
(* While no policy enables shorts, no snapshot the simulator stores is     *)
(* negative, however many sessions race, retry or backdate their intents.  *)
THEOREM NoSnapshotIsShort == Spec => []SnapshotsLongOnly
<1>1. Consistency => SnapshotsLongOnly
  BY DEF Consistency
<1>. QED
  BY <1>1, ConsistencyHolds, PTL

(* Every stored order's sizes agree with each other, with the request,     *)
(* with the gate's final size and with the order's status.                 *)
THEOREM StoredOrdersAgree == Spec => []OrderSizesAgree
<1>1. Consistency => OrderSizesAgree
  BY DEF Consistency
<1>. QED
  BY <1>1, ConsistencyHolds, PTL

(* No open transaction has filled more than it may or sold more than it    *)
(* read, at any point of the walk.                                         *)
THEOREM OpenTransactionsConsistent == Spec => []TransactionsConsistent
<1>1. Consistency => TransactionsConsistent
  BY DEF Consistency
<1>. QED
  BY <1>1, ConsistencyHolds, PTL

-----------------------------------------------------------------------------
(***************************************************************************)
(* The rows that are stored: what a fill was taken from, and that the rows *)
(* of one call stay together.                                              *)
(***************************************************************************)

(* A fill took a level of a book that was captured by the as-of time of    *)
(* its intent, and no more than the level and the gate allowed.            *)
HadABook(f) ==
  LET i == f.order.intent
  IN  /\ f.book \in books /\ f.book.mkt = i.mkt /\ f.book.captured <= i.asof
      /\ \E l \in CandidateLevels(i, f.book) : l.price = f.price /\ f.size <= l.qty
      /\ f.size <= f.order.decision.final

(* The row is the position of the intent's run, instrument and time.       *)
RowOf(row, i) ==
  row.run = i.run /\ row.mkt = i.mkt /\ row.out = i.out /\ row.asof = i.asof

(* What an open transaction will store: its levels are levels of a book    *)
(* captured in time, its fills are fills of its order that took such       *)
(* levels, and an order that is filled comes with fills and a row.         *)
TransactionBacked(t) ==
  /\ t.order.id.decision \in DecisionSpace
  /\ t.left # {} => /\ t.book \in books /\ t.book.mkt = t.intent.mkt
                    /\ t.book.captured <= t.intent.asof
                    /\ t.left \subseteq CandidateLevels(t.intent, t.book)
  /\ \A f \in t.fills : f.order = t.order.id /\ HadABook(f)
  /\ t.order.filled > 0 => /\ t.fills # {}
                           /\ t.row # None /\ RowOf(t.row, t.intent)

TransactionsBacked == \A s \in Sessions : pc[s] # "idle" => TransactionBacked(tx[s])

(* The inductive invariant behind FillsHadABook and RowsCommitTogether.    *)
Backing == Consistency /\ TransactionsBacked /\ FillsHadABook /\ RowsCommitTogether
-----------------------------------------------------------------------------
(* The book a call reads was captured, for its market, by its time.        *)
LEMMA LatestBookFound ==
  ASSUME TypeOK, RowsOrdered, NEW m, NEW t, LatestBook(m, t) # None
  PROVE  /\ LatestBook(m, t) \in books /\ LatestBook(m, t).mkt = m
         /\ LatestBook(m, t).captured <= t
<1> DEFINE seen == {b \in books : b.mkt = m /\ b.captured <= t}
<1>1. seen # {}
  BY DEF LatestBook
<1>2. \E b \in seen : \A c \in seen : <<c, b>> \in BookOrder
  BY <1>1 DEF RowsOrdered, HasNewest
<1>3. \E b \in seen : \A c \in seen : c.captured <= b.captured
  BY <1>2 DEF BookOrder
<1>4. LatestBook(m, t) \in seen
  BY <1>1, <1>3, Zenon DEF LatestBook
<1>. QED
  BY <1>4

(* Opening a transaction, or moving one on, keeps every transaction        *)
(* backed, as long as the books only grow.                                 *)
LEMMA SessionStepBacked ==
  ASSUME TypeOK, TransactionsBacked, NEW s \in Sessions, NEW p, NEW t,
         pc' = [pc EXCEPT ![s] = p], tx' = [tx EXCEPT ![s] = t], UNCHANGED books,
         p # "idle" => TransactionBacked(t)
  PROVE  TransactionsBacked'
<1> SUFFICES ASSUME NEW r \in Sessions, pc'[r] # "idle"
             PROVE  TransactionBacked(tx'[r])
  BY DEF TransactionsBacked, TransactionBacked, HadABook
<1>1. CASE r = s
  <2>1. pc'[r] = p /\ tx'[r] = t
    BY <1>1 DEF TypeOK
  <2>. QED
    BY <2>1
<1>2. CASE r # s
  <2>1. pc'[r] = pc[r] /\ tx'[r] = tx[r]
    BY <1>2 DEF TypeOK
  <2>. QED
    BY <2>1 DEF TransactionsBacked
<1>. QED
  BY <1>1, <1>2

(* A walk starts on levels of the book it read.                            *)
LEMMA EnterBacked ==
  ASSUME TypeOK, RowsOrdered, TransactionsBacked,
         NEW s \in Sessions, NEW i \in Intents, NEW d \in DecisionSpace,
         RejectIntent(s, i, d) \/ RestOrder(s, i, d) \/ StartWalk(s, i, d)
  PROVE  TransactionsBacked'
<1>1. policy \in Policies /\ GateContract(i, d)
  BY DEF TypeOK, RejectIntent, RestOrder, StartWalk, Submit
<1>2. PICK order : order = OrderFromPretrade(i, policy, d)
  OBVIOUS
<1>3. OrderOK(order) /\ order.filled = 0 /\ order.id.decision = d
  BY <1>1, <1>2, OrderFromPretradeType
<1>4. ASSUME NEW st \in Statuses,
             Enter(s, "ready", Transaction(i, [order EXCEPT !.status = st], {}, 0, Flat))
      PROVE  TransactionsBacked'
  <2>1. PICK t : t = Transaction(i, [order EXCEPT !.status = st], {}, 0, Flat)
    OBVIOUS
  <2>2. t.left = {} /\ t.fills = {} /\ t.order.filled = 0 /\ t.order.id = order.id
    BY <1>3, <2>1 DEF Transaction, OrderOK
  <2>3. TransactionBacked(t)
    BY <1>3, <2>2 DEF TransactionBacked
  <2>. QED
    BY <1>4, <2>1, <2>3, SessionStepBacked DEF Enter, market
<1>5. CASE StartWalk(s, i, d)
  <2> DEFINE book == LatestBook(i.mkt, i.asof)
             limit == FillLimit(i, policy, order.accepted)
  <2>. PICK levels \in LevelsOf(CandidateLevels(i, book), i, policy.model) :
         Enter(s, "walk", Transaction(i, order, levels, limit, PreviousPosition(i)))
    BY <1>2, <1>5 DEF StartWalk
  <2>1. PICK t : t = Transaction(i, order, levels, limit, PreviousPosition(i))
    OBVIOUS
  <2>2. book # None
    BY <1>5 DEF StartWalk, Rests, NeverFills
  <2>3. book \in books /\ book.mkt = i.mkt /\ book.captured <= i.asof
    BY <2>2, LatestBookFound
  <2>4. levels \subseteq CandidateLevels(i, book)
    BY DEF LevelsOf
  <2>5. /\ t.intent = i /\ t.order = order /\ t.book = book /\ t.left = levels /\ t.fills = {}
    BY <2>1 DEF Transaction
  <2>. HIDE DEF book, limit
  <2>6. TransactionBacked(t)
    BY <1>3, <2>3, <2>4, <2>5 DEF TransactionBacked
  <2>. QED
    BY <2>1, <2>6, SessionStepBacked DEF Enter, market
<1>6. CASE RejectIntent(s, i, d)
  BY <1>2, <1>4, <1>6 DEF RejectIntent, Statuses
<1>7. CASE RestOrder(s, i, d)
  BY <1>2, <1>4, <1>7 DEF RestOrder, Statuses
<1>. QED
  BY <1>5, <1>6, <1>7

(* An iteration adds at most a fill of one of the levels still to visit,   *)
(* no larger than what the gate's final size leaves.                       *)
LEMMA FillLevelBacked ==
  ASSUME TypeOK, TransactionsConsistent, TransactionsBacked, NEW s \in Sessions, FillLevel(s)
  PROVE  TransactionsBacked'
<1>1. PICK u : tx' = [tx EXCEPT ![s] = u] /\ \E size \in Nat : Moves(tx[s], u, size)
  BY FillLevelEffect
<1>2. PICK size \in Nat : Moves(tx[s], u, size)
  BY <1>1
<1>3. PICK t : t = tx[s]
  OBVIOUS
<1>4. pc[s] = "walk" /\ pc' = [pc EXCEPT ![s] = "walk"] /\ UNCHANGED books
  BY DEF FillLevel, TypeOK, market
<1>5. TxOK(t) /\ WalkConsistent(t) /\ TransactionBacked(t)
  BY <1>3, <1>4 DEF TypeOK, TransactionsConsistent, TransactionsBacked
<1>6. /\ u.intent = t.intent /\ u.order = t.order /\ u.book = t.book
      /\ u.left \subseteq t.left /\ size <= t.remaining
      /\ \A f \in u.fills : f \in t.fills \/ Took(t, f, size)
  BY <1>2, <1>3 DEF Moves
<1>7. size <= t.order.id.decision.final
  <2>1. /\ t.order.accepted <= t.order.id.decision.final /\ t.order.accepted \in Nat
        /\ t.filled + t.remaining <= t.order.accepted /\ t.filled \in Nat /\ t.remaining \in Int
    BY <1>5 DEF WalkConsistent, WithinGate, TxOK, OrderOK
  <2>2. size <= t.order.accepted
    BY <1>6, <2>1
  <2>. QED
    BY <1>5, <2>1, <2>2, DecisionsAssumption DEF TransactionBacked
<1>8. ASSUME NEW f, Took(t, f, size)
      PROVE  f.order = t.order.id /\ HadABook(f)
  <2>1. PICK l \in t.left : l.price = f.price /\ size <= l.qty
    BY <1>8, Zenon DEF Took
  <2>2. f.order = t.order.id /\ f.book = t.book /\ f.size = size /\ f.order.intent = t.intent
    BY <1>5, <1>8 DEF Took, TxOK
  <2>3. /\ t.book \in books /\ t.book.mkt = t.intent.mkt /\ t.book.captured <= t.intent.asof
        /\ l \in CandidateLevels(t.intent, t.book)
    BY <1>5, <2>1 DEF TransactionBacked
  <2>. QED
    BY <1>7, <2>1, <2>2, <2>3 DEF HadABook
<1>9. u.order.filled = 0
  BY <1>5, <1>6 DEF WalkConsistent
<1>10. TransactionBacked(u)
  BY <1>5, <1>6, <1>8, <1>9 DEF TransactionBacked
<1>. QED
  BY <1>1, <1>4, <1>10, SessionStepBacked

(* The end of the walk undoes the fills or adds the row of the intent.     *)
LEMMA FinishWalkBacked ==
  ASSUME TypeOK, TransactionsConsistent, TransactionsBacked, NEW s \in Sessions, FinishWalk(s)
  PROVE  TransactionsBacked'
<1>1. PICK u : tx' = [tx EXCEPT ![s] = u] /\ TxOK(u) /\ Ends(tx[s], u)
  BY FinishWalkEffect
<1>2. PICK t : t = tx[s]
  OBVIOUS
<1>3. pc[s] = "walk" /\ pc' = [pc EXCEPT ![s] = "ready"] /\ UNCHANGED books
  BY DEF FinishWalk, market
<1>4. TxOK(t) /\ WalkConsistent(t) /\ TransactionBacked(t)
  BY <1>2, <1>3 DEF TypeOK, TransactionsConsistent, TransactionsBacked
<1>5. /\ u.intent = t.intent /\ u.book = t.book /\ u.left = t.left /\ u.order.id = t.order.id
      /\ EndsUnfilled(t, u) \/ EndsFilled(t, u)
  BY <1>1, <1>2 DEF Ends
<1>6. CASE EndsUnfilled(t, u)
  <2>1. u.fills = {} /\ u.order.filled = 0
    BY <1>4, <1>6 DEF EndsUnfilled, WalkConsistent
  <2>2. TransactionBacked(u)
    BY <1>4, <1>5, <2>1 DEF TransactionBacked
  <2>. QED
    BY <1>1, <1>3, <2>2, SessionStepBacked
<1>7. CASE EndsFilled(t, u)
  <2>1. u.fills = t.fills /\ t.fills # {} /\ u.row = PositionRow(t.intent, t.pos, t.mark)
    BY <1>7 DEF EndsFilled
  <2>2. u.row # None /\ RowOf(u.row, t.intent)
    <3>1. t.intent \in Intents /\ MoneyOK(t.pos) /\ t.mark \in Nat \cup {None}
      BY <1>4 DEF TxOK
    <3>2. u.row # None
      <4>1. PICK i \in Intents, mark \in Nat \cup {None} : i = t.intent /\ mark = t.mark
        BY <3>1
      <4>2. PICK pos : pos = t.pos
        OBVIOUS
      <4>3. MoneyOK(pos)
        BY <3>1, <4>2, Zenon
      <4>4. PositionRow(i, pos, mark) # None
        BY <4>3, PositionRowType
      <4>. QED
        BY <2>1, <4>1, <4>2, <4>4, Zenon
    <3>3. RowOf(PositionRow(t.intent, t.pos, t.mark), t.intent)
      BY DEF PositionRow, RowOf
    <3>. QED
      BY <2>1, <3>2, <3>3
  <2>3. TransactionBacked(u)
    BY <1>4, <1>5, <2>1, <2>2 DEF TransactionBacked
  <2>. QED
    BY <1>1, <1>3, <2>3, SessionStepBacked
<1>. QED
  BY <1>5, <1>6, <1>7
-----------------------------------------------------------------------------
(* The ids of fills: the same content but for the fee.                     *)
LEMMA SameFillIsSameId ==
  /\ \A f, g : SameFill(f, g) => SameFill(g, f)
  /\ \A f, g, h : SameFill(f, g) /\ SameFill(g, h) => SameFill(f, h)
BY DEF SameFill

LEMMA SameFillSameOrder ==
  ASSUME NEW f, FillOK(f), NEW g, FillOK(g), SameFill(f, g)
  PROVE  f.order = g.order
<1>1. [f EXCEPT !.fee = 0].order = f.order /\ [g EXCEPT !.fee = 0].order = g.order
  BY DEF FillOK
<1>. QED
  BY <1>1 DEF SameFill

(* A ledger entry carries the id of the fill it was made for.              *)
LEMMA EntryOfFill ==
  ASSUME NEW f, FillOK(f), NEW e \in LedgerEntries(f)
  PROVE  SameFill(e.fill, f)
<1>1. e.fill = [f EXCEPT !.fee = 0]
  BY DEF LedgerEntries
<1>2. [[f EXCEPT !.fee = 0] EXCEPT !.fee = 0] = [f EXCEPT !.fee = 0]
  BY DEF FillOK
<1>. QED
  BY <1>1, <1>2 DEF SameFill

(* A commit keeps a fill of every id that was stored.                      *)
LEMMA FillsKept ==
  ASSUME NEW t, NEW f \in fills
  PROVE  \E g \in FillsAfter(t) : g = f \/ (g \in t.fills /\ SameFill(f, g))
BY DEF FillsAfter

(* Storing the rows of a backed transaction keeps the rows together.       *)
LEMMA CommitBacked ==
  ASSUME TypeOK, FillsHadABook, RowsCommitTogether, NEW s \in Sessions, Commit(s),
         TransactionBacked(tx[s])
  PROVE  FillsHadABook' /\ RowsCommitTogether'
<1>1. PICK t : t = tx[s]
  OBVIOUS
<1>2. TxOK(t) /\ TransactionBacked(t)
  BY <1>1 DEF TypeOK, Commit
<1>3. /\ orders' = {o \in orders : o.id # t.order.id} \cup {t.order}
      /\ fills' = FillsAfter(t)
      /\ ledger' = ledger \cup UNION {LedgerEntries(f) : f \in t.fills}
      /\ positions' = IF t.row = None THEN positions ELSE positions \cup {t.row}
      /\ books' = books
  BY <1>1 DEF Commit, OrdersAfter, LedgerAfter, PositionsAfter, market
<1>4. \A f \in fills' : f \in fills \/ f \in t.fills
  BY <1>3 DEF FillsAfter
<1>5. t.fills \subseteq fills'
  BY <1>3 DEF FillsAfter
<1>6. \A f \in fills : FillOK(f)
  BY DEF TypeOK
<1>7. \A f \in t.fills : FillOK(f) /\ f.order = t.order.id /\ HadABook(f)
  BY <1>2 DEF TxOK, TransactionBacked
<1>8. FillsHadABook'
  BY <1>3, <1>4, <1>7 DEF FillsHadABook, HadABook, CandidateLevels, Crosses
<1>9. \A f \in fills' : LedgerEntries(f) \subseteq ledger' /\ \E o \in orders' : o.id = f.order
  <2> SUFFICES ASSUME NEW f \in fills'
               PROVE  LedgerEntries(f) \subseteq ledger' /\ \E o \in orders' : o.id = f.order
    OBVIOUS
  <2>1. CASE f \in t.fills
    BY <1>3, <1>7, <2>1
  <2>2. CASE f \in fills
    <3>1. LedgerEntries(f) \subseteq ledger /\ \E o \in orders : o.id = f.order
      BY <2>2 DEF RowsCommitTogether
    <3>. QED
      BY <1>3, <3>1
  <2>. QED
    BY <1>4, <2>1, <2>2
<1>10. \A e \in ledger' : \E f \in fills' : SameFill(e.fill, f)
  <2> SUFFICES ASSUME NEW e \in ledger'
               PROVE  \E f \in fills' : SameFill(e.fill, f)
    OBVIOUS
  <2>1. CASE e \in ledger
    <3>1. PICK f \in fills : SameFill(e.fill, f)
      BY <2>1 DEF RowsCommitTogether
    <3>2. \E g \in fills' : g = f \/ SameFill(f, g)
      BY <1>3, FillsKept
    <3>. QED
      BY <3>1, <3>2, SameFillIsSameId
  <2>2. CASE e \notin ledger
    <3>1. PICK f \in t.fills : e \in LedgerEntries(f)
      BY <1>3, <2>2
    <3>. QED
      BY <1>5, <1>7, <3>1, EntryOfFill
  <2>. QED
    BY <2>1, <2>2
<1>11. ASSUME NEW o \in orders', o.filled > 0
       PROVE  /\ \E f \in fills' : f.order = o.id
              /\ \E p \in positions' : RowOf(p, o.id.intent)
  <2>1. CASE o = t.order
    <3>1. t.fills # {} /\ t.row # None /\ RowOf(t.row, t.intent) /\ t.order.id.intent = t.intent
      BY <1>2, <1>11, <2>1 DEF TransactionBacked, TxOK
    <3>2. t.row \in positions'
      BY <1>3, <3>1
    <3>. QED
      BY <1>5, <1>7, <2>1, <3>1, <3>2
  <2>2. CASE o # t.order
    <3>1. o \in orders
      BY <1>3, <2>2
    <3>2. /\ \E f \in fills : f.order = o.id
          /\ \E p \in positions : RowOf(p, o.id.intent)
      BY <1>11, <3>1 DEF RowsCommitTogether, RowOf
    <3>3. PICK f \in fills : f.order = o.id
      BY <3>2
    <3>4. PICK g \in fills' : g = f \/ (g \in t.fills /\ SameFill(f, g))
      BY <1>3, FillsKept
    <3>5. g.order = o.id
      BY <1>6, <1>7, <3>3, <3>4, SameFillSameOrder
    <3>6. positions \subseteq positions'
      BY <1>3
    <3>. QED
      BY <3>2, <3>5, <3>6
  <2>. QED
    BY <2>1, <2>2
<1>12. RowsCommitTogether'
  BY <1>9, <1>10, <1>11 DEF RowsCommitTogether, RowOf, LedgerEntries, SameFill
<1>. QED
  BY <1>8, <1>12

(* Every step keeps the rows together.                                     *)
LEMMA StepBacked ==
  ASSUME Backing, [Next]_vars
  PROVE  TransactionsBacked' /\ FillsHadABook' /\ RowsCommitTogether'
<1>0. TypeOK /\ RowsOrdered /\ TransactionsConsistent /\ TransactionsBacked
        /\ FillsHadABook /\ RowsCommitTogether
  BY DEF Backing, Consistency
<1>1. ASSUME books \subseteq books', UNCHANGED tables
      PROVE  FillsHadABook' /\ RowsCommitTogether'
  BY <1>0, <1>1 DEF FillsHadABook, RowsCommitTogether, tables
<1>2. ASSUME books \subseteq books', UNCHANGED <<pc, tx>>
      PROVE  TransactionsBacked'
  <2> SUFFICES ASSUME NEW r \in Sessions, pc[r] # "idle"
               PROVE  TransactionBacked(tx[r])'
    BY <1>2 DEF TransactionsBacked
  <2>1. TransactionBacked(tx[r]) /\ tx'[r] = tx[r]
    BY <1>0, <1>2 DEF TransactionsBacked
  <2>. QED
    BY <1>2, <2>1 DEF TransactionBacked, HadABook
<1>3. CASE \/ \E b \in Books : CaptureBook(b)
           \/ \E q \in Quotes : DeriveQuote(q)
           \/ \E p \in Policies : SavePolicy(p)
           \/ UNCHANGED vars
  <2>1. books \subseteq books' /\ UNCHANGED <<tables, pc, tx>>
    BY <1>3 DEF CaptureBook, DeriveQuote, SavePolicy, vars, market
  <2>. QED
    BY <1>1, <1>2, <2>1
<1>4. ASSUME NEW s \in Sessions, NEW i \in Intents, NEW d \in DecisionSpace,
             RejectIntent(s, i, d) \/ RestOrder(s, i, d) \/ StartWalk(s, i, d)
      PROVE  TransactionsBacked' /\ FillsHadABook' /\ RowsCommitTogether'
  BY <1>0, <1>1, <1>4, EnterBacked DEF RejectIntent, RestOrder, StartWalk, Enter, market
<1>5. ASSUME NEW s \in Sessions, FillLevel(s)
      PROVE  TransactionsBacked' /\ FillsHadABook' /\ RowsCommitTogether'
  BY <1>0, <1>1, <1>5, FillLevelBacked DEF FillLevel, market
<1>6. ASSUME NEW s \in Sessions, FinishWalk(s)
      PROVE  TransactionsBacked' /\ FillsHadABook' /\ RowsCommitTogether'
  <2>1. UNCHANGED <<books, tables>>
    BY <1>6 DEF FinishWalk, market
  <2>. QED
    BY <1>0, <1>1, <1>6, <2>1, FinishWalkBacked
<1>7. ASSUME NEW s \in Sessions, SavePortfolio(s)
      PROVE  TransactionsBacked' /\ FillsHadABook' /\ RowsCommitTogether'
  <2>1. PICK u : u = [tx[s] EXCEPT !.portfolio = ComputePortfolio(tx[s])]
    OBVIOUS
  <2>2. /\ tx' = [tx EXCEPT ![s] = u] /\ pc[s] = "ready" /\ pc' = [pc EXCEPT ![s] = "saved"]
        /\ UNCHANGED <<books, tables>>
    BY <1>7, <2>1 DEF SavePortfolio, market
  <2>3. /\ u.order = tx[s].order /\ u.fills = tx[s].fills /\ u.left = tx[s].left
        /\ u.intent = tx[s].intent /\ u.row = tx[s].row /\ u.book = tx[s].book
    BY <1>0, <2>1, <2>2 DEF TypeOK, TxOK
  <2>4. TransactionBacked(u)
    BY <1>0, <2>2, <2>3 DEF TransactionsBacked, TransactionBacked
  <2>. QED
    BY <1>0, <1>1, <2>2, <2>4, SessionStepBacked
<1>8. ASSUME NEW s \in Sessions, Commit(s)
      PROVE  TransactionsBacked' /\ FillsHadABook' /\ RowsCommitTogether'
  <2>1. TransactionBacked(tx[s])
    BY <1>0, <1>8 DEF Commit, TransactionsBacked
  <2>2. pc' = [pc EXCEPT ![s] = "idle"] /\ tx' = [tx EXCEPT ![s] = None] /\ UNCHANGED books
    BY <1>8 DEF Commit, Leave, market
  <2>3. TransactionsBacked'
    BY <1>0, <2>2, SessionStepBacked
  <2>. QED
    BY <1>0, <1>8, <2>1, <2>3, CommitBacked
<1>9. ASSUME NEW s \in Sessions, Abort(s)
      PROVE  TransactionsBacked' /\ FillsHadABook' /\ RowsCommitTogether'
  <2>1. /\ pc' = [pc EXCEPT ![s] = "idle"] /\ tx' = [tx EXCEPT ![s] = None]
        /\ UNCHANGED <<books, tables>>
    BY <1>9 DEF Abort, Leave, market
  <2>. QED
    BY <1>0, <1>1, <2>1, SessionStepBacked
<1>. QED
  BY <1>3, <1>4, <1>5, <1>6, <1>7, <1>8, <1>9 DEF Next, Step, Proceed

LEMMA BackingHolds == Spec => []Backing
<1>1. Init => TransactionsBacked /\ FillsHadABook /\ RowsCommitTogether
  BY DEF Init, TransactionsBacked, FillsHadABook, RowsCommitTogether
<1>2. Backing /\ Consistency' /\ [Next]_vars => Backing'
  BY StepBacked DEF Backing
<1>3. Init /\ Consistency => Backing
  BY <1>1 DEF Backing
<1>. QED
  BY <1>2, <1>3, ConsistencyHolds, PTL DEF Spec
-----------------------------------------------------------------------------
(* No stored fill took a level with hindsight: its book was captured by    *)
(* the as-of time of its intent, and it took no more than the level held   *)
(* and the gate allowed, however many sessions race, retry or backdate.    *)
THEOREM NoFillHasHindsight == Spec => []FillsHadABook
<1>1. Backing => FillsHadABook
  BY DEF Backing
<1>. QED
  BY <1>1, BackingHolds, PTL

(* Fills, ledger entries, orders and position snapshots are stored         *)
(* together and never taken apart, also where a retry merges a fill into   *)
(* the row of an earlier one.                                              *)
THEOREM RowsStayTogether == Spec => []RowsCommitTogether
<1>1. Backing => RowsCommitTogether
  BY DEF Backing
<1>. QED
  BY <1>1, BackingHolds, PTL

-----------------------------------------------------------------------------
(***************************************************************************)
(* What the stored rows add up to, when callers use strictly increasing    *)
(* as-of timestamps: the fills of an order to its filled size, and the     *)
(* ledger to the positions.                                                *)
(***************************************************************************)

(* The sums of the model, as functions that take one element at a time.    *)
LEMMA SizeSumIs ==
  ASSUME NEW S, IsFiniteSet(S), \A x \in S : x.size \in Int
  PROVE  \E iter \in [SUBSET S -> Int] :
           SumOver(iter, S, [x \in S |-> x.size]) /\ SizeSum(S) = iter[S]
<1> DEFINE g == [x \in S |-> x.size]
           Rec(iter) == iter = [s \in SUBSET S |->
                          IF s = {} THEN 0
                          ELSE (CHOOSE x \in s : TRUE).size + iter[s \ {CHOOSE x \in s : TRUE}]]
           it == CHOOSE iter : Rec(iter)
<1>1. \A s \in SUBSET S : s # {} => (CHOOSE x \in s : TRUE) \in S
  OBVIOUS
<1>2. \A iter : IsSum(iter, S, g) <=> Rec(iter)
  BY <1>1 DEF IsSum
<1>3. SizeSum(S) = it[S]
  BY DEF SizeSum, MapThenSumSet, MapThenFoldSet
<1>4. g \in [S -> Int]
  OBVIOUS
<1>5. PICK iter \in [SUBSET S -> Int] : IsSum(iter, S, g)
  <2>. HIDE DEF g
  <2>. QED
    BY <1>4, SumExists
<1>6. Rec(it)
  <2>. HIDE DEF Rec, g
  <2>. QED
    BY <1>2, <1>5
<1>7. IsSum(it, S, g)
  <2>. HIDE DEF Rec, g, it
  <2>. QED
    BY <1>2, <1>6
<1>8. it[S] = iter[S]
  <2>. HIDE DEF g, it
  <2>. QED
    BY <1>5, <1>7, SumUnique
<1>. QED
  BY <1>3, <1>4, <1>5, <1>8 DEF SumOver

LEMMA AmountSumIs ==
  ASSUME NEW S, IsFiniteSet(S), \A x \in S : x.amount \in Int
  PROVE  \E iter \in [SUBSET S -> Int] :
           SumOver(iter, S, [x \in S |-> x.amount]) /\ AmountSum(S) = iter[S]
<1> DEFINE g == [x \in S |-> x.amount]
           Rec(iter) == iter = [s \in SUBSET S |->
                          IF s = {} THEN 0
                          ELSE (CHOOSE x \in s : TRUE).amount + iter[s \ {CHOOSE x \in s : TRUE}]]
           it == CHOOSE iter : Rec(iter)
<1>1. \A s \in SUBSET S : s # {} => (CHOOSE x \in s : TRUE) \in S
  OBVIOUS
<1>2. \A iter : IsSum(iter, S, g) <=> Rec(iter)
  BY <1>1 DEF IsSum
<1>3. AmountSum(S) = it[S]
  BY DEF AmountSum, MapThenSumSet, MapThenFoldSet
<1>4. g \in [S -> Int]
  OBVIOUS
<1>5. PICK iter \in [SUBSET S -> Int] : IsSum(iter, S, g)
  <2>. HIDE DEF g
  <2>. QED
    BY <1>4, SumExists
<1>6. Rec(it)
  <2>. HIDE DEF Rec, g
  <2>. QED
    BY <1>2, <1>5
<1>7. IsSum(it, S, g)
  <2>. HIDE DEF Rec, g, it
  <2>. QED
    BY <1>2, <1>6
<1>8. it[S] = iter[S]
  <2>. HIDE DEF g, it
  <2>. QED
    BY <1>5, <1>7, SumUnique
<1>. QED
  BY <1>3, <1>4, <1>5, <1>8 DEF SumOver

(* The sum of sizes is an integer and grows by the size of a new element.  *)
LEMMA SizeSumStep ==
  ASSUME NEW S, IsFiniteSet(S), \A x \in S : x.size \in Int
  PROVE  /\ SizeSum(S) \in Int /\ (S = {} => SizeSum(S) = 0)
         /\ \A x : x \notin S /\ x.size \in Int => SizeSum(S \cup {x}) = SizeSum(S) + x.size
<1>1. PICK jter \in [SUBSET S -> Int] :
        SumOver(jter, S, [x \in S |-> x.size]) /\ SizeSum(S) = jter[S]
  BY SizeSumIs
<1>2. S = {} => SizeSum(S) = 0
  BY <1>1 DEF SumOver, IsSum
<1>3. ASSUME NEW x, x \notin S, x.size \in Int
      PROVE  SizeSum(S \cup {x}) = SizeSum(S) + x.size
  <2>. PICK T : T = S \cup {x}
    OBVIOUS
  <2>1. IsFiniteSet(T) /\ \A y \in T : y.size \in Int
    BY <1>3, FS_AddElement
  <2>2. PICK iter \in [SUBSET T -> Int] :
          SumOver(iter, T, [y \in T |-> y.size]) /\ SizeSum(T) = iter[T]
    BY <2>1, SizeSumIs
  <2> DEFINE g == [y \in T |-> y.size]
             h == [y \in S |-> y.size]
  <2>3. g \in [T -> Int] /\ g[x] = x.size /\ \A y \in S : g[y] = h[y]
    BY <2>1
  <2>4. SumOver(iter, T, g) /\ SumOver(jter, S, h) /\ x \in T /\ S = T \ {x}
    BY <1>1, <1>3, <2>2
  <2>. HIDE DEF g, h
  <2>5. iter[T] = g[x] + jter[S]
    BY <2>3, <2>4, SumOfOneMore
  <2>. QED
    BY <1>1, <1>3, <2>2, <2>3, <2>5
<1>. QED
  BY <1>1, <1>2, <1>3

LEMMA AmountSumStep ==
  ASSUME NEW S, IsFiniteSet(S), \A x \in S : x.amount \in Int
  PROVE  /\ AmountSum(S) \in Int /\ (S = {} => AmountSum(S) = 0)
         /\ \A x : x \notin S /\ x.amount \in Int => AmountSum(S \cup {x}) = AmountSum(S) + x.amount
<1>1. PICK jter \in [SUBSET S -> Int] :
        SumOver(jter, S, [x \in S |-> x.amount]) /\ AmountSum(S) = jter[S]
  BY AmountSumIs
<1>2. S = {} => AmountSum(S) = 0
  BY <1>1 DEF SumOver, IsSum
<1>3. ASSUME NEW x, x \notin S, x.amount \in Int
      PROVE  AmountSum(S \cup {x}) = AmountSum(S) + x.amount
  <2>. PICK T : T = S \cup {x}
    OBVIOUS
  <2>1. IsFiniteSet(T) /\ \A y \in T : y.amount \in Int
    BY <1>3, FS_AddElement
  <2>2. PICK iter \in [SUBSET T -> Int] :
          SumOver(iter, T, [y \in T |-> y.amount]) /\ AmountSum(T) = iter[T]
    BY <2>1, AmountSumIs
  <2> DEFINE g == [y \in T |-> y.amount]
             h == [y \in S |-> y.amount]
  <2>3. g \in [T -> Int] /\ g[x] = x.amount /\ \A y \in S : g[y] = h[y]
    BY <2>1
  <2>4. SumOver(iter, T, g) /\ SumOver(jter, S, h) /\ x \in T /\ S = T \ {x}
    BY <1>1, <1>3, <2>2
  <2>. HIDE DEF g, h
  <2>5. iter[T] = g[x] + jter[S]
    BY <2>3, <2>4, SumOfOneMore
  <2>. QED
    BY <1>1, <1>3, <2>2, <2>3, <2>5
<1>. QED
  BY <1>1, <1>2, <1>3
-----------------------------------------------------------------------------
(* Callers that advance: no stored fill is of the time of an open          *)
(* transaction, and no two open transactions are of one time.              *)
TimesAdvance ==
  /\ \A f \in fills : f.order.intent.asof <= clock
  /\ \A s \in Sessions : pc[s] # "idle" =>
       /\ tx[s].intent.asof <= clock
       /\ \A f \in fills : f.order.intent.asof # tx[s].intent.asof
       /\ \A r \in Sessions : r # s /\ pc[r] # "idle" => tx[r].intent.asof # tx[s].intent.asof

(* The fills of a transaction add up to what it has filled; a walk does    *)
(* not come back to a level it has taken.                                  *)
TransactionAddsUp(phase, t) ==
  /\ IsFiniteSet(t.fills)
  /\ phase = "walk" => /\ SizeSum(t.fills) = t.filled
                       /\ \A f \in t.fills : f.level \notin t.left
  /\ \A f, g \in t.fills : f.level = g.level => f = g
  /\ phase # "walk" => SizeSum(t.fills) = t.order.filled

TransactionsAddUp == \A s \in Sessions : pc[s] # "idle" => TransactionAddsUp(pc[s], tx[s])

(* The inductive invariant behind OrdersBackedByFills.                     *)
Totals == Backing /\ TimesAdvance /\ TransactionsAddUp /\ OrdersBackedByFills

LEMMA SizeSumOfNone == SizeSum({}) = 0
<1>1. IsFiniteSet({}) /\ \A x \in {} : x.size \in Int
  BY FS_EmptySet
<1>. QED
  BY <1>1, SizeSumStep

(* A step that moves one session on, or ends it, leaves the times alone.   *)
LEMMA SessionKeepsTimes ==
  ASSUME TypeOK, TimesAdvance, NEW s \in Sessions, NEW p, NEW t,
         pc' = [pc EXCEPT ![s] = p], tx' = [tx EXCEPT ![s] = t], UNCHANGED <<fills, clock>>,
         p # "idle" => pc[s] # "idle" /\ t.intent = tx[s].intent
  PROVE  TimesAdvance'
<1>1. \A r \in Sessions : /\ pc'[r] = IF r = s THEN p ELSE pc[r]
                          /\ tx'[r] = IF r = s THEN t ELSE tx[r]
  BY DEF TypeOK
<1>2. \A r \in Sessions : pc'[r] # "idle" => pc[r] # "idle" /\ tx'[r].intent = tx[r].intent
  BY <1>1
<1>. QED
  BY <1>2 DEF TimesAdvance

LEMMA EnterAdvances ==
  ASSUME TypeOK, TimesAdvance, MonotoneCallers,
         NEW s \in Sessions, NEW i \in Intents, NEW d \in DecisionSpace, Submit(s, i, d),
         NEW next, NEW t, Enter(s, next, t), t.intent = i
  PROVE  TimesAdvance'
<1>1. i.asof \in Nat /\ clock \in Int /\ clock' = i.asof /\ clock < i.asof
  BY IntentsAssumption DEF TypeOK, Submit
<1>2. \A r \in Sessions : /\ pc'[r] = IF r = s THEN next ELSE pc[r]
                          /\ tx'[r] = IF r = s THEN t ELSE tx[r]
  BY DEF TypeOK, Enter
<1>3. \A f \in fills : f.order.intent.asof \in Nat
  BY IntentsAssumption DEF TypeOK, FillOK
<1>4. \A r \in Sessions : pc[r] # "idle" => tx[r].intent.asof \in Nat
  BY IntentsAssumption DEF TypeOK, TxOK
<1>5. fills' = fills
  BY DEF Enter, tables
<1>6. \A f \in fills : f.order.intent.asof < i.asof
  BY <1>1, <1>3 DEF TimesAdvance
<1>7. \A r \in Sessions : pc[r] # "idle" => tx[r].intent.asof < i.asof
  BY <1>1, <1>4 DEF TimesAdvance
<1>8. \A f \in fills' : f.order.intent.asof <= clock'
  BY <1>1, <1>3, <1>5, <1>6
<1>9. ASSUME NEW q \in Sessions, pc'[q] # "idle"
      PROVE  /\ tx'[q].intent.asof <= clock'
             /\ \A f \in fills' : f.order.intent.asof # tx'[q].intent.asof
             /\ \A r \in Sessions : r # q /\ pc'[r] # "idle" =>
                  tx'[r].intent.asof # tx'[q].intent.asof
  <2>1. CASE q = s
    <3>1. tx'[q].intent.asof = i.asof
      BY <1>2, <2>1
    <3>2. \A r \in Sessions : r # q /\ pc'[r] # "idle" => tx'[r].intent.asof < i.asof
      BY <1>2, <1>7, <2>1
    <3>3. \A r \in Sessions : r # q /\ pc'[r] # "idle" => tx'[r].intent.asof # i.asof
      BY <1>1, <1>2, <1>4, <3>2, <2>1
    <3>. QED
      BY <1>1, <1>3, <1>5, <1>6, <3>1, <3>3
  <2>2. CASE q # s
    <3>1. pc[q] # "idle" /\ tx'[q] = tx[q]
      BY <1>2, <1>9, <2>2
    <3>2. tx[q].intent.asof < i.asof /\ tx[q].intent.asof \in Nat
      BY <1>4, <1>7, <3>1
    <3>3. \A f \in fills : f.order.intent.asof # tx[q].intent.asof
      BY <3>1 DEF TimesAdvance
    <3>4. ASSUME NEW r \in Sessions, r # q, pc'[r] # "idle"
          PROVE  tx'[r].intent.asof # tx[q].intent.asof
      <4>1. CASE r = s
        BY <1>1, <1>2, <3>2, <4>1
      <4>2. CASE r # s
        BY <1>2, <3>1, <3>4, <4>2 DEF TimesAdvance
      <4>. QED
        BY <4>1, <4>2
    <3>. QED
      BY <1>1, <1>5, <3>1, <3>2, <3>3, <3>4
  <2>. QED
    BY <2>1, <2>2
<1>. QED
  BY <1>8, <1>9 DEF TimesAdvance

(* What a commit stores is of the time of its own transaction.             *)
LEMMA CommitAdvances ==
  ASSUME TypeOK, TransactionsBacked, TimesAdvance, NEW s \in Sessions, Commit(s)
  PROVE  TimesAdvance'
<1>1. PICK t : t = tx[s]
  OBVIOUS
<1>2. pc[s] # "idle" /\ TxOK(t) /\ TransactionBacked(t)
  BY <1>1 DEF TypeOK, Commit, TransactionsBacked
<1>3. \A f \in fills' : f \in fills \/ f \in t.fills
  BY <1>1 DEF Commit, FillsAfter
<1>4. \A f \in t.fills : f.order.intent = t.intent
  BY <1>2 DEF TransactionBacked, TxOK
<1>5. \A r \in Sessions : /\ pc'[r] = IF r = s THEN "idle" ELSE pc[r]
                          /\ r # s => tx'[r] = tx[r]
  BY DEF TypeOK, Commit, Leave
<1>6. clock' = clock
  BY DEF Commit, caller
<1>7. t.intent.asof <= clock
  BY <1>1, <1>2 DEF TimesAdvance
<1>8. \A r \in Sessions : r # s /\ pc[r] # "idle" => tx[r].intent.asof # t.intent.asof
  BY <1>1, <1>2 DEF TimesAdvance
<1>9. \A f \in fills' : f.order.intent.asof <= clock'
  BY <1>3, <1>4, <1>6, <1>7 DEF TimesAdvance
<1>10. ASSUME NEW q \in Sessions, pc'[q] # "idle"
       PROVE  /\ tx'[q].intent.asof <= clock'
              /\ \A f \in fills' : f.order.intent.asof # tx'[q].intent.asof
              /\ \A r \in Sessions : r # q /\ pc'[r] # "idle" =>
                   tx'[r].intent.asof # tx'[q].intent.asof
  <2>1. q # s /\ pc[q] # "idle" /\ tx'[q] = tx[q]
    BY <1>5, <1>10
  <2>2. /\ tx[q].intent.asof <= clock
        /\ \A f \in fills : f.order.intent.asof # tx[q].intent.asof
        /\ \A r \in Sessions : r # q /\ pc[r] # "idle" => tx[r].intent.asof # tx[q].intent.asof
    BY <2>1 DEF TimesAdvance
  <2>3. \A f \in fills' : f.order.intent.asof # tx[q].intent.asof
    BY <1>3, <1>4, <1>8, <2>1, <2>2
  <2>4. \A r \in Sessions : pc'[r] # "idle" => pc[r] # "idle" /\ tx'[r] = tx[r]
    BY <1>5
  <2>. QED
    BY <1>6, <2>1, <2>2, <2>3, <2>4
<1>. QED
  BY <1>9, <1>10 DEF TimesAdvance
-----------------------------------------------------------------------------
LEMMA SessionStepAddsUp ==
  ASSUME TypeOK, TransactionsAddUp, NEW s \in Sessions, NEW p, NEW t,
         pc' = [pc EXCEPT ![s] = p], tx' = [tx EXCEPT ![s] = t],
         p # "idle" => TransactionAddsUp(p, t)
  PROVE  TransactionsAddUp'
<1>1. \A r \in Sessions : /\ pc'[r] = IF r = s THEN p ELSE pc[r]
                          /\ tx'[r] = IF r = s THEN t ELSE tx[r]
  BY DEF TypeOK
<1>. QED
  BY <1>1 DEF TransactionsAddUp

(* A new transaction has filled nothing.                                   *)
LEMMA EnterAddsUp ==
  ASSUME TypeOK, TransactionsAddUp, NEW s \in Sessions, NEW i \in Intents,
         NEW order, order.filled = 0, NEW left, NEW remaining, NEW pos, NEW next,
         Enter(s, next, Transaction(i, order, left, remaining, pos))
  PROVE  TransactionsAddUp'
<1>1. PICK t : t = Transaction(i, order, left, remaining, pos)
  OBVIOUS
<1>2. t.fills = {} /\ t.filled = 0 /\ t.order = order
  BY <1>1 DEF Transaction
<1>3. TransactionAddsUp(next, t)
  BY <1>2, SizeSumOfNone, FS_EmptySet DEF TransactionAddsUp
<1>. QED
  BY <1>1, <1>3, SessionStepAddsUp DEF Enter

(* An iteration adds a fill of a level it has not taken before.            *)
LEMMA FillLevelAddsUp ==
  ASSUME TypeOK, TransactionsAddUp, NEW s \in Sessions, FillLevel(s)
  PROVE  TransactionsAddUp'
<1>1. PICK u : tx' = [tx EXCEPT ![s] = u] /\ TxOK(u) /\ \E size \in Nat : Moves(tx[s], u, size)
  BY FillLevelEffect
<1>2. PICK size \in Nat : Moves(tx[s], u, size)
  BY <1>1
<1>3. PICK t : t = tx[s]
  OBVIOUS
<1>4. pc[s] = "walk" /\ pc' = [pc EXCEPT ![s] = "walk"]
  BY DEF FillLevel, TypeOK
<1>5. TxOK(t) /\ TransactionAddsUp("walk", t)
  BY <1>3, <1>4 DEF TypeOK, TransactionsAddUp
<1>6. IsFiniteSet(t.fills) /\ SizeSum(t.fills) = t.filled /\ \A f \in t.fills : f.level \notin t.left
  BY <1>5 DEF TransactionAddsUp
<1>7. u.left \subseteq t.left /\ u.filled = t.filled + size
  BY <1>2, <1>3 DEF Moves
<1>8. CASE size = 0 /\ u.fills = t.fills
  <2>1. u.filled = t.filled
    BY <1>5, <1>7, <1>8 DEF TxOK
  <2>2. TransactionAddsUp("walk", u)
    BY <1>5, <1>6, <1>7, <1>8, <2>1 DEF TransactionAddsUp
  <2>. QED
    BY <1>1, <1>4, <2>2, SessionStepAddsUp
<1>9. CASE \E f : Took(t, f, size) /\ f.level \notin u.left /\ u.fills = t.fills \cup {f}
  <2>1. PICK f : Took(t, f, size) /\ f.level \notin u.left /\ u.fills = t.fills \cup {f}
    BY <1>9
  <2>2. f.size = size /\ f.level \in t.left
    BY <2>1 DEF Took
  <2>3. f \notin t.fills
    BY <1>6, <2>2
  <2>4. \A g \in t.fills : g.size \in Int
    BY <1>5 DEF TxOK, FillOK
  <2>5. SizeSum(u.fills) = SizeSum(t.fills) + size
    BY <1>6, <2>1, <2>2, <2>3, <2>4, SizeSumStep
  <2>6. IsFiniteSet(u.fills)
    BY <1>6, <2>1, FS_AddElement
  <2>7. \A g \in u.fills : g.level \notin u.left
    BY <1>6, <1>7, <2>1
  <2>8. \A g, h \in u.fills : g.level = h.level => g = h
    BY <1>5, <1>6, <2>1, <2>2 DEF TransactionAddsUp
  <2>9. TransactionAddsUp("walk", u)
    BY <1>6, <1>7, <2>5, <2>6, <2>7, <2>8 DEF TransactionAddsUp
  <2>. QED
    BY <1>1, <1>4, <2>9, SessionStepAddsUp
<1>. QED
  BY <1>2, <1>3, <1>8, <1>9 DEF Moves

(* The end of a walk turns what is filled into the size of the order.      *)
LEMMA FinishWalkAddsUp ==
  ASSUME TypeOK, TransactionsConsistent, TransactionsAddUp, NEW s \in Sessions, FinishWalk(s)
  PROVE  TransactionsAddUp'
<1>1. PICK u : tx' = [tx EXCEPT ![s] = u] /\ Ends(tx[s], u)
  BY FinishWalkEffect
<1>2. PICK t : t = tx[s]
  OBVIOUS
<1>3. pc[s] = "walk" /\ pc' = [pc EXCEPT ![s] = "ready"]
  BY DEF FinishWalk
<1>4. WalkConsistent(t) /\ TransactionAddsUp("walk", t)
  BY <1>2, <1>3 DEF TypeOK, TransactionsConsistent, TransactionsAddUp
<1>5. CASE EndsUnfilled(t, u)
  <2>1. u.fills = {} /\ u.order.filled = 0
    BY <1>4, <1>5 DEF EndsUnfilled, WalkConsistent
  <2>2. TransactionAddsUp("ready", u)
    BY <2>1, SizeSumOfNone, FS_EmptySet DEF TransactionAddsUp
  <2>. QED
    BY <1>1, <1>3, <2>2, SessionStepAddsUp
<1>6. CASE EndsFilled(t, u)
  <2>1. u.fills = t.fills /\ u.order.filled = t.filled
    BY <1>6 DEF EndsFilled
  <2>2. TransactionAddsUp("ready", u)
    BY <1>4, <2>1 DEF TransactionAddsUp
  <2>. QED
    BY <1>1, <1>3, <2>2, SessionStepAddsUp
<1>. QED
  BY <1>1, <1>2, <1>5, <1>6 DEF Ends

(* No fill of another call is merged away: a commit stores exactly the     *)
(* fills of the transaction beside the others.                             *)
LEMMA CommitAddsFills ==
  ASSUME TypeOK, TransactionsBacked, TimesAdvance, NEW s \in Sessions, Commit(s)
  PROVE  /\ fills' = fills \cup tx[s].fills
         /\ \A f \in fills : f.order # tx[s].order.id
         /\ \A f \in tx[s].fills : f.order = tx[s].order.id
<1>1. PICK t : t = tx[s]
  OBVIOUS
<1>2. pc[s] # "idle" /\ TxOK(t) /\ TransactionBacked(t)
  BY <1>1 DEF TypeOK, Commit, TransactionsBacked
<1>3. \A f \in t.fills : f.order = t.order.id /\ FillOK(f)
  BY <1>2 DEF TransactionBacked, TxOK
<1>4. \A f \in fills : f.order # t.order.id
  <2>1. \A f \in fills : f.order.intent.asof # t.intent.asof
    BY <1>1, <1>2 DEF TimesAdvance
  <2>. QED
    BY <1>2, <2>1 DEF TxOK
<1>5. \A f \in fills, g \in t.fills : ~SameFill(f, g)
  BY <1>3, <1>4, SameFillSameOrder DEF TypeOK
<1>6. fills' = fills \cup t.fills
  BY <1>1, <1>5 DEF Commit, FillsAfter
<1>. QED
  BY <1>1, <1>3, <1>4, <1>6

LEMMA CommitAddsUp ==
  ASSUME TypeOK, TransactionsBacked, TimesAdvance, TransactionsAddUp, OrdersBackedByFills,
         NEW s \in Sessions, Commit(s)
  PROVE  OrdersBackedByFills'
<1>1. PICK t : t = tx[s]
  OBVIOUS
<1>2. /\ fills' = fills \cup t.fills
      /\ \A f \in fills : f.order # t.order.id
      /\ \A f \in t.fills : f.order = t.order.id
  BY <1>1, CommitAddsFills
<1>3. orders' = {o \in orders : o.id # t.order.id} \cup {t.order}
  BY <1>1 DEF Commit, OrdersAfter
<1>4. SizeSum(t.fills) = t.order.filled
  BY <1>1 DEF Commit, TransactionsAddUp, TransactionAddsUp
<1>5. ASSUME NEW o \in orders'
      PROVE  o.filled = SizeSum({f \in fills' : f.order = o.id})
  <2>1. CASE o = t.order
    <3>1. {f \in fills' : f.order = o.id} = t.fills
      BY <1>2, <2>1
    <3>. QED
      BY <1>4, <2>1, <3>1
  <2>2. CASE o # t.order
    <3>1. o \in orders /\ o.id # t.order.id
      BY <1>3, <2>2
    <3>2. {f \in fills' : f.order = o.id} = {f \in fills : f.order = o.id}
      BY <1>2, <3>1
    <3>3. o.filled = SizeSum({f \in fills : f.order = o.id})
      BY <3>1 DEF OrdersBackedByFills
    <3>. QED
      BY <3>2, <3>3
  <2>. QED
    BY <2>1, <2>2
<1>. QED
  BY <1>5 DEF OrdersBackedByFills
-----------------------------------------------------------------------------
LEMMA StepAddsUp ==
  ASSUME Totals, MonotoneCallers, [Next]_vars
  PROVE  TimesAdvance' /\ TransactionsAddUp' /\ OrdersBackedByFills'
<1>0. /\ TypeOK /\ TransactionsConsistent /\ TransactionsBacked
      /\ TimesAdvance /\ TransactionsAddUp /\ OrdersBackedByFills
  BY DEF Totals, Backing, Consistency
<1>1. ASSUME UNCHANGED <<orders, fills>>
      PROVE  OrdersBackedByFills'
  BY <1>0, <1>1 DEF OrdersBackedByFills
<1>2. CASE \/ \E b \in Books : CaptureBook(b)
           \/ \E q \in Quotes : DeriveQuote(q)
           \/ \E p \in Policies : SavePolicy(p)
           \/ UNCHANGED vars
  <2>1. UNCHANGED <<orders, fills, clock, pc, tx>>
    BY <1>2 DEF CaptureBook, DeriveQuote, SavePolicy, vars, tables, caller
  <2>. QED
    BY <1>0, <1>1, <2>1 DEF TimesAdvance, TransactionsAddUp
<1>3. ASSUME NEW s \in Sessions, NEW i \in Intents, NEW d \in DecisionSpace, Submit(s, i, d),
             NEW order, order.filled = 0, NEW left, NEW remaining, NEW pos, NEW next,
             Enter(s, next, Transaction(i, order, left, remaining, pos))
      PROVE  TimesAdvance' /\ TransactionsAddUp' /\ OrdersBackedByFills'
  <2>1. Transaction(i, order, left, remaining, pos).intent = i
    BY DEF Transaction
  <2>2. UNCHANGED <<orders, fills>>
    BY <1>3 DEF Enter, tables
  <2>3. TimesAdvance'
    BY <1>0, <1>3, <2>1, EnterAdvances
  <2>4. TransactionsAddUp'
    BY <1>0, <1>3, EnterAddsUp
  <2>. QED
    BY <1>1, <2>2, <2>3, <2>4
<1>4. ASSUME NEW s \in Sessions, NEW i \in Intents, NEW d \in DecisionSpace,
             RejectIntent(s, i, d) \/ RestOrder(s, i, d) \/ StartWalk(s, i, d)
      PROVE  TimesAdvance' /\ TransactionsAddUp' /\ OrdersBackedByFills'
  <2>1. Submit(s, i, d)
    BY <1>4 DEF RejectIntent, RestOrder, StartWalk
  <2>2. PICK order : order = OrderFromPretrade(i, policy, d)
    OBVIOUS
  <2>3. order.filled = 0 /\ \A st : [order EXCEPT !.status = st].filled = 0
    BY <2>2 DEF OrderFromPretrade
  <2>4. CASE RejectIntent(s, i, d)
    BY <1>3, <2>1, <2>2, <2>3, <2>4 DEF RejectIntent
  <2>5. CASE RestOrder(s, i, d)
    BY <1>3, <2>1, <2>2, <2>3, <2>5 DEF RestOrder
  <2>6. CASE StartWalk(s, i, d)
    BY <1>3, <2>1, <2>2, <2>3, <2>6 DEF StartWalk
  <2>. QED
    BY <1>4, <2>4, <2>5, <2>6
<1>5. ASSUME NEW s \in Sessions, FillLevel(s)
      PROVE  TimesAdvance' /\ TransactionsAddUp' /\ OrdersBackedByFills'
  <2>1. PICK u : tx' = [tx EXCEPT ![s] = u] /\ \E size \in Nat : Moves(tx[s], u, size)
    BY <1>0, <1>5, FillLevelEffect
  <2>2. /\ pc[s] = "walk" /\ pc' = [pc EXCEPT ![s] = "walk"] /\ u.intent = tx[s].intent
        /\ UNCHANGED <<orders, fills, clock>>
    BY <1>0, <1>5, <2>1 DEF FillLevel, TypeOK, tables, caller, Moves
  <2>. QED
    BY <1>0, <1>1, <1>5, <2>1, <2>2, SessionKeepsTimes, FillLevelAddsUp
<1>6. ASSUME NEW s \in Sessions, FinishWalk(s)
      PROVE  TimesAdvance' /\ TransactionsAddUp' /\ OrdersBackedByFills'
  <2>1. PICK u : tx' = [tx EXCEPT ![s] = u] /\ Ends(tx[s], u)
    BY <1>0, <1>6, FinishWalkEffect
  <2>2. /\ pc[s] = "walk" /\ pc' = [pc EXCEPT ![s] = "ready"] /\ u.intent = tx[s].intent
        /\ UNCHANGED <<orders, fills, clock>>
    BY <1>6, <2>1 DEF FinishWalk, tables, caller, Ends
  <2>. QED
    BY <1>0, <1>1, <1>6, <2>1, <2>2, SessionKeepsTimes, FinishWalkAddsUp
<1>7. ASSUME NEW s \in Sessions, SavePortfolio(s)
      PROVE  TimesAdvance' /\ TransactionsAddUp' /\ OrdersBackedByFills'
  <2>1. PICK u : u = [tx[s] EXCEPT !.portfolio = ComputePortfolio(tx[s])]
    OBVIOUS
  <2>2. /\ tx' = [tx EXCEPT ![s] = u] /\ pc[s] = "ready" /\ pc' = [pc EXCEPT ![s] = "saved"]
        /\ UNCHANGED <<orders, fills, clock>>
    BY <1>7, <2>1 DEF SavePortfolio, tables, caller
  <2>3. u.intent = tx[s].intent /\ u.fills = tx[s].fills /\ u.order = tx[s].order
    BY <1>0, <2>1, <2>2 DEF TypeOK, TxOK
  <2>4. TransactionAddsUp("saved", u)
    BY <1>0, <2>2, <2>3 DEF TransactionsAddUp, TransactionAddsUp
  <2>. QED
    BY <1>0, <1>1, <2>2, <2>3, <2>4, SessionKeepsTimes, SessionStepAddsUp
<1>8. ASSUME NEW s \in Sessions, Commit(s)
      PROVE  TimesAdvance' /\ TransactionsAddUp' /\ OrdersBackedByFills'
  <2>1. pc' = [pc EXCEPT ![s] = "idle"] /\ tx' = [tx EXCEPT ![s] = None]
    BY <1>8 DEF Commit, Leave
  <2>. QED
    BY <1>0, <1>8, <2>1, CommitAdvances, SessionStepAddsUp, CommitAddsUp
<1>9. ASSUME NEW s \in Sessions, Abort(s)
      PROVE  TimesAdvance' /\ TransactionsAddUp' /\ OrdersBackedByFills'
  <2>1. /\ pc' = [pc EXCEPT ![s] = "idle"] /\ tx' = [tx EXCEPT ![s] = None]
        /\ UNCHANGED <<orders, fills, clock>>
    BY <1>9 DEF Abort, Leave, tables, caller
  <2>. QED
    BY <1>0, <1>1, <2>1, SessionKeepsTimes, SessionStepAddsUp
<1>. QED
  BY <1>2, <1>4, <1>5, <1>6, <1>7, <1>8, <1>9 DEF Next, Step, Proceed

LEMMA TotalsHold ==
  ASSUME MonotoneCallers
  PROVE  Spec => []Totals
<1>1. Init => TimesAdvance /\ TransactionsAddUp /\ OrdersBackedByFills
  BY DEF Init, TimesAdvance, TransactionsAddUp, OrdersBackedByFills
<1>2. Totals /\ Backing' /\ [Next]_vars => Totals'
  BY StepAddsUp DEF Totals
<1>3. Init /\ Backing => Totals
  BY <1>1 DEF Totals
<1>. QED
  BY <1>2, <1>3, BackingHolds, PTL DEF Spec

(* The fills that carry the id of a stored order add up to the size that   *)
(* the order calls filled, for any number of sessions whose callers use    *)
(* increasing as-of timestamps.                                            *)
THEOREM FillsAddUpToOrders ==
  ASSUME MonotoneCallers
  PROVE  Spec => []OrdersBackedByFills
<1>1. Totals => OrdersBackedByFills
  BY DEF Totals
<1>. QED
  BY <1>1, TotalsHold, PTL
-----------------------------------------------------------------------------
(* The ledger entries of one type that count for a run and an instrument   *)
(* up to a time, and what they net to.                                     *)
Counted(L, run, inst, t, type) ==
  {e \in L : /\ EntryIntent(e).run = run
             /\ <<EntryIntent(e).mkt, EntryIntent(e).out>> = inst
             /\ EntryIntent(e).asof <= t /\ e.type = type}

NetIn(L, run, inst, t) ==
  AmountSum(Counted(L, run, inst, t, "POSITION_INCREASE"))
    - AmountSum(Counted(L, run, inst, t, "POSITION_DECREASE"))

Net(L, i) == NetIn(L, i.run, <<i.mkt, i.out>>, i.asof)
Signed(i, n) == IF i.side = "BUY" THEN n ELSE -n
SameInstrument(i, j) == i.run = j.run /\ i.mkt = j.mkt /\ i.out = j.out

(* Rows of the ledger: integral amounts, of intents callers submit.        *)
EntriesOK(L) ==
  /\ IsFiniteSet(L)
  /\ \A e \in L : e.amount \in Nat /\ EntryIntent(e) \in Intents

(* The position entry of a fill, with the type its side gives it.          *)
PositionType(i) == IF i.side = "BUY" THEN "POSITION_INCREASE" ELSE "POSITION_DECREASE"
PositionEntry(i, f) ==
  [fill |-> [f EXCEPT !.fee = 0], type |-> PositionType(i), amount |-> f.size]

LEMMA NetUnitsIs ==
  ASSUME NEW run, NEW inst, NEW t
  PROVE  NetUnits(run, inst, t) = NetIn(ledger, run, inst, t)
<1> DEFINE entries == {e \in ledger : /\ EntryIntent(e).run = run
                                      /\ <<EntryIntent(e).mkt, EntryIntent(e).out>> = inst
                                      /\ EntryIntent(e).asof <= t}
<1>1. \A type : {e \in entries : e.type = type} = Counted(ledger, run, inst, t, type)
  BY DEF Counted
<1>. QED
  BY <1>1 DEF NetUnits, NetIn

LEMMA NetType ==
  ASSUME NEW L, EntriesOK(L), NEW run, NEW inst, NEW t
  PROVE  NetIn(L, run, inst, t) \in Int
<1>1. \A type : IsFiniteSet(Counted(L, run, inst, t, type))
  BY FS_Subset DEF Counted, EntriesOK
<1>2. \A type : \A e \in Counted(L, run, inst, t, type) : e.amount \in Int
  BY DEF Counted, EntriesOK
<1>3. \A type : AmountSum(Counted(L, run, inst, t, type)) \in Int
  BY <1>1, <1>2, AmountSumStep
<1>. QED
  BY <1>3 DEF NetIn
-----------------------------------------------------------------------------
(* The entries of a fill: one that moves the position, none that moves it  *)
(* the other way.                                                          *)
LEMMA EntriesOfFill ==
  ASSUME NEW f, FillOK(f), NEW i, i = f.order.intent
  PROVE  /\ IsFiniteSet(LedgerEntries(f)) /\ PositionEntry(i, f) \in LedgerEntries(f)
         /\ \A e \in LedgerEntries(f) :
              /\ e.amount \in Nat /\ EntryIntent(e) = i
              /\ e.type \in {"POSITION_INCREASE", "POSITION_DECREASE"} => e = PositionEntry(i, f)
<1>1. f.size \in Nat /\ f.fee \in Nat /\ Notional(f.price, f.size) \in Nat
  BY NotionalType DEF FillOK
<1>2. [f EXCEPT !.fee = 0].order.intent = i
  BY DEF FillOK
<1>3. PICK id : id = [f EXCEPT !.fee = 0]
  OBVIOUS
<1>4. PICK cash : cash = [fill |-> id, amount |-> Notional(f.price, f.size),
                          type |-> IF i.side = "BUY" THEN "CASH_DEBIT" ELSE "CASH_CREDIT"]
  OBVIOUS
<1>5. PICK fee : fee = [fill |-> id, type |-> "FEE_DEBIT", amount |-> f.fee]
  OBVIOUS
<1>6. LedgerEntries(f) = {cash, PositionEntry(i, f)} \cup (IF f.fee > 0 THEN {fee} ELSE {})
  BY <1>3, <1>4, <1>5 DEF LedgerEntries, PositionEntry, PositionType
<1>7. \A e \in {cash, PositionEntry(i, f), fee} : e.amount \in Nat /\ EntryIntent(e) = i
  <2>1. id.order.intent = i
    BY <1>2, <1>3
  <2>2. \A e \in {cash, PositionEntry(i, f), fee} : e.fill = id
    BY <1>3, <1>4, <1>5 DEF PositionEntry
  <2>3. cash.amount \in Nat /\ fee.amount \in Nat /\ PositionEntry(i, f).amount \in Nat
    BY <1>1, <1>4, <1>5 DEF PositionEntry
  <2>. QED
    BY <2>1, <2>2, <2>3 DEF EntryIntent
<1>8. \A e \in {cash, fee} : e.type \notin {"POSITION_INCREASE", "POSITION_DECREASE"}
  BY <1>4, <1>5
<1>9. IsFiniteSet({cash} \cup {PositionEntry(i, f)} \cup {fee}) /\ IsFiniteSet({cash} \cup {PositionEntry(i, f)})
  BY FS_Singleton, FS_AddElement
<1>10. IsFiniteSet(LedgerEntries(f))
  <2>1. LedgerEntries(f) \subseteq {cash} \cup {PositionEntry(i, f)} \cup {fee}
    BY <1>6
  <2>. QED
    BY <1>9, <2>1, FS_Subset
<1>. QED
  BY <1>6, <1>7, <1>8, <1>10

LEMMA EntryPerFill ==
  ASSUME NEW f, FillOK(f), NEW g, FillOK(g), NEW i, PositionEntry(i, f) = PositionEntry(i, g)
  PROVE  f.level = g.level
<1>1. [f EXCEPT !.fee = 0].level = f.level /\ [g EXCEPT !.fee = 0].level = g.level
  BY DEF FillOK
<1>2. PositionEntry(i, f).fill = [f EXCEPT !.fee = 0] /\ PositionEntry(i, g).fill = [g EXCEPT !.fee = 0]
  BY DEF PositionEntry
<1>. QED
  BY <1>1, <1>2

(* The fills of one call: of one intent, one per level.                    *)
FillsOf(F, i) ==
  /\ IsFiniteSet(F) /\ \A f \in F : FillOK(f) /\ f.order.intent = i
  /\ \A f, g \in F : f.level = g.level => f = g

(* Their position entries add to a sum of other entries what they filled.  *)
LEMMA SumOfNewEntries ==
  ASSUME NEW L, IsFiniteSet(L), \A e \in L : e.amount \in Int,
         NEW i, NEW F, FillsOf(F, i), \A f \in F : PositionEntry(i, f) \notin L
  PROVE  /\ IsFiniteSet(L \cup {PositionEntry(i, f) : f \in F})
         /\ AmountSum(L \cup {PositionEntry(i, f) : f \in F}) = AmountSum(L) + SizeSum(F)
<1> DEFINE with(U) == L \cup {PositionEntry(i, f) : f \in U}
           Q == {U \in SUBSET F : /\ IsFiniteSet(with(U)) /\ \A e \in with(U) : e.amount \in Int
                                  /\ AmountSum(with(U)) = AmountSum(L) + SizeSum(U)}
<1>0. \A U \in SUBSET F : IsFiniteSet(U) /\ \A f \in U : f.size \in Int
  BY FS_Subset DEF FillsOf, FillOK
<1>1. AmountSum(L) \in Int /\ \A U \in SUBSET F : SizeSum(U) \in Int
  BY <1>0, AmountSumStep, SizeSumStep
<1>2. {} \in Q
  <2>1. with({}) = L
    OBVIOUS
  <2>2. AmountSum(L) = AmountSum(L) + SizeSum({})
    BY <1>1, SizeSumOfNone
  <2>. QED
    BY <2>1, <2>2
<1>3. ASSUME NEW U \in SUBSET F, NEW x \in F \ U, U \in Q
      PROVE  U \cup {x} \in Q
  <2>1. PICK e : e = PositionEntry(i, x)
    OBVIOUS
  <2>2. e.amount = x.size /\ x.size \in Int
    BY <2>1, <1>0 DEF PositionEntry
  <2>3. e \notin with(U)
    <3>1. \A f \in U : e # PositionEntry(i, f)
      BY <2>1, EntryPerFill DEF FillsOf
    <3>. QED
      BY <2>1, <3>1
  <2>4. PICK W : W = with(U)
    OBVIOUS
  <2>5. with(U \cup {x}) = W \cup {e}
    BY <2>1, <2>4
  <2>6. IsFiniteSet(W) /\ \A d \in W : d.amount \in Int
    BY <1>3, <2>4
  <2>7. AmountSum(W \cup {e}) = AmountSum(W) + e.amount /\ IsFiniteSet(W \cup {e})
    BY <2>2, <2>3, <2>4, <2>6, AmountSumStep, FS_AddElement
  <2>8. SizeSum(U \cup {x}) = SizeSum(U) + x.size
    BY <1>0, <2>2, SizeSumStep
  <2>9. AmountSum(W) = AmountSum(L) + SizeSum(U)
    BY <1>3, <2>4
  <2>10. AmountSum(W \cup {e}) = AmountSum(L) + SizeSum(U \cup {x})
    BY <1>1, <2>2, <2>7, <2>8, <2>9
  <2>11. \A d \in W \cup {e} : d.amount \in Int
    BY <2>2, <2>6
  <2>. QED
    BY <2>5, <2>7, <2>10, <2>11
<1>4. F \in Q
  <2>. HIDE DEF Q
  <2>. QED
    BY <1>2, <1>3, SubsetsByInduction DEF FillsOf
<1>. QED
  BY <1>4

LEMMA NewEntriesFinite ==
  ASSUME NEW L, EntriesOK(L), NEW i \in Intents, NEW F, FillsOf(F, i)
  PROVE  EntriesOK(L \cup UNION {LedgerEntries(f) : f \in F})
<1> DEFINE with(U) == L \cup UNION {LedgerEntries(f) : f \in U}
           Q == {U \in SUBSET F : IsFiniteSet(with(U))}
<1>1. {} \in Q
  <2>1. with({}) = L
    OBVIOUS
  <2>. QED
    BY <2>1 DEF EntriesOK
<1>2. ASSUME NEW U \in SUBSET F, NEW x \in F \ U, U \in Q
      PROVE  U \cup {x} \in Q
  <2>1. with(U \cup {x}) = with(U) \cup LedgerEntries(x)
    OBVIOUS
  <2>2. IsFiniteSet(LedgerEntries(x))
    BY EntriesOfFill DEF FillsOf
  <2>3. IsFiniteSet(with(U) \cup LedgerEntries(x))
    BY <1>2, <2>2, FS_Union
  <2>. QED
    BY <2>1, <2>3
<1>3. F \in Q
  <2>. HIDE DEF Q
  <2>. QED
    BY <1>1, <1>2, SubsetsByInduction DEF FillsOf
<1>4. \A f \in F : \A e \in LedgerEntries(f) : e.amount \in Nat /\ EntryIntent(e) \in Intents
  BY EntriesOfFill DEF FillsOf
<1>. QED
  BY <1>3, <1>4 DEF EntriesOK

(* What storing the entries of a call does to what the ledger nets to.     *)
LEMMA NetAfter ==
  ASSUME NEW L, EntriesOK(L), NEW i \in Intents, NEW F, FillsOf(F, i),
         \A e \in L : EntryIntent(e).asof < i.asof,
         NEW K, K = L \cup UNION {LedgerEntries(f) : f \in F},
         NEW run, NEW inst, NEW t \in Nat
  PROVE  NetIn(K, run, inst, t) =
           NetIn(L, run, inst, t) +
             IF run = i.run /\ inst = <<i.mkt, i.out>> /\ i.asof <= t
               THEN Signed(i, SizeSum(F)) ELSE 0
<1>1. \A f \in F : FillOK(f) /\ f.order.intent = i
  BY DEF FillsOf
<1>2. \A e \in K : e \in L \/ \E f \in F : e \in LedgerEntries(f)
  OBVIOUS
<1>3. NetIn(L, run, inst, t) \in Int
  BY NetType
<1>4. CASE ~(run = i.run /\ inst = <<i.mkt, i.out>> /\ i.asof <= t)
  <2>1. \A type : Counted(K, run, inst, t, type) = Counted(L, run, inst, t, type)
    BY <1>1, <1>2, <1>4, EntriesOfFill DEF Counted
  <2>. QED
    BY <1>3, <1>4, <2>1 DEF NetIn
<1>5. CASE run = i.run /\ inst = <<i.mkt, i.out>> /\ i.asof <= t
  <2> DEFINE mine == PositionType(i)
             other == IF i.side = "BUY" THEN "POSITION_DECREASE" ELSE "POSITION_INCREASE"
             new == {PositionEntry(i, f) : f \in F}
  <2>1. \A f \in F : \A e \in LedgerEntries(f) :
          e.type \in {"POSITION_INCREASE", "POSITION_DECREASE"} => e = PositionEntry(i, f)
    BY <1>1, EntriesOfFill
  <2>2. \A f \in F : PositionEntry(i, f) \in LedgerEntries(f)
                      /\ EntryIntent(PositionEntry(i, f)) = i
    BY <1>1, EntriesOfFill
  <2>3. \A f \in F : PositionEntry(i, f).type = mine
    BY DEF PositionEntry
  <2>4. mine \in {"POSITION_INCREASE", "POSITION_DECREASE"} /\ mine # other
          /\ other \in {"POSITION_INCREASE", "POSITION_DECREASE"}
    BY DEF PositionType
  <2>5. PICK kept : kept = Counted(L, run, inst, t, mine)
    OBVIOUS
  <2>6. Counted(K, run, inst, t, mine) = kept \cup new
    <3>1. \A f \in F : PositionEntry(i, f) \in Counted(K, run, inst, t, mine)
      BY <1>5, <2>2, <2>3 DEF Counted
    <3>2. \A e \in Counted(K, run, inst, t, mine) : e \in kept \/ e \in new
      BY <1>2, <2>1, <2>4, <2>5 DEF Counted
    <3>3. kept \subseteq Counted(K, run, inst, t, mine)
      BY <2>5 DEF Counted
    <3>. QED
      BY <3>1, <3>2, <3>3
  <2>7. Counted(K, run, inst, t, other) = Counted(L, run, inst, t, other)
    <3>1. \A f \in F : \A e \in LedgerEntries(f) : e.type # other
      BY <2>1, <2>3, <2>4
    <3>. QED
      BY <1>2, <3>1 DEF Counted
  <2>8. IsFiniteSet(kept) /\ \A e \in kept : e.amount \in Int
    BY <2>5, FS_Subset DEF Counted, EntriesOK
  <2>9. \A f \in F : PositionEntry(i, f) \notin kept
    <3>1. \A e \in kept : EntryIntent(e).asof < i.asof
      BY <2>5 DEF Counted
    <3>2. i.asof \in Nat
      BY IntentsAssumption
    <3>. QED
      BY <2>2, <3>1, <3>2
  <2>10. AmountSum(kept \cup new) = AmountSum(kept) + SizeSum(F)
    <3>. HIDE DEF mine, other
    <3>. QED
      BY <2>8, <2>9, SumOfNewEntries
  <2>11. /\ AmountSum(kept) \in Int /\ AmountSum(Counted(L, run, inst, t, other)) \in Int
         /\ SizeSum(F) \in Int
    <3>1. IsFiniteSet(Counted(L, run, inst, t, other))
            /\ \A e \in Counted(L, run, inst, t, other) : e.amount \in Int
      BY FS_Subset DEF Counted, EntriesOK
    <3>2. IsFiniteSet(F) /\ \A f \in F : f.size \in Int
      BY DEF FillsOf, FillOK
    <3>. QED
      BY <2>8, <3>1, <3>2, AmountSumStep, SizeSumStep
  <2>12. PICK a, b, n \in Int :
           /\ a = AmountSum(kept) /\ b = AmountSum(Counted(L, run, inst, t, other))
           /\ n = SizeSum(F)
    BY <2>11
  <2>13. CASE i.side = "BUY"
    <3>1. NetIn(L, run, inst, t) = a - b /\ NetIn(K, run, inst, t) = (a + n) - b
      BY <2>5, <2>6, <2>7, <2>10, <2>12, <2>13 DEF NetIn, PositionType
    <3>. QED
      BY <1>5, <2>12, <2>13, <3>1 DEF Signed
  <2>14. CASE i.side # "BUY"
    <3>1. NetIn(L, run, inst, t) = b - a /\ NetIn(K, run, inst, t) = b - (a + n)
      BY <2>5, <2>6, <2>7, <2>10, <2>12, <2>14 DEF NetIn, PositionType
    <3>. QED
      BY <1>5, <2>12, <2>14, <3>1 DEF Signed
  <2>. QED
    BY <2>13, <2>14
<1>. QED
  BY <1>4, <1>5
-----------------------------------------------------------------------------
(* One caller at a time, with increasing timestamps, that names the run    *)
(* and the outcome of what it trades.                                      *)
SingleFile ==
  /\ MonotoneCallers /\ ExclusiveWriter
  /\ \A i \in Intents : i.run # None /\ i.out # None

Held(P, i) == {p \in P : p.run = i.run /\ p.mkt = i.mkt /\ p.out = i.out}

(* PositionsMatchLedger and LedgerLongOnly, of given rows.                 *)
NewestMatch(P, L) ==
  \A i \in Intents : \A p \in Held(P, i) :
    (\A q \in Held(P, i) : q.asof <= p.asof)
      => p.units = NetIn(L, i.run, <<i.mkt, i.out>>, p.asof)

NeverShort(L) == \A i \in Intents : Net(L, i) >= 0

(* Nothing stored is later than the clock, and every ledger entry has a    *)
(* position snapshot of its time.                                          *)
StoredInOrder ==
  /\ EntriesOK(ledger)
  /\ \A e \in ledger : /\ EntryIntent(e).asof <= clock
                       /\ \E p \in positions : RowOf(p, EntryIntent(e))
  /\ None \notin positions /\ \A p \in positions : p.asof <= clock

OneWriter == \A s, r \in Sessions : s # r => pc[s] = "idle" \/ pc[r] = "idle"

(* An open transaction is later than everything stored, and its position   *)
(* is what the ledger nets to with its own fills.                          *)
TransactionMatches(phase, t) ==
  /\ t.intent.asof = clock
  /\ \A e \in ledger : EntryIntent(e).asof < t.intent.asof
  /\ \A p \in positions : p.asof < t.intent.asof
  /\ phase = "walk" =>
       /\ t.row = None
       /\ t.pos.units = Net(ledger, t.intent) + Signed(t.intent, t.filled)
  /\ phase # "walk" =>
       IF t.row = None THEN t.fills = {}
       ELSE /\ RowOf(t.row, t.intent)
            /\ t.row.units = Net(ledger, t.intent) + Signed(t.intent, SizeSum(t.fills))

TransactionsMatch == \A s \in Sessions : pc[s] # "idle" => TransactionMatches(pc[s], tx[s])

LedgerMatches ==
  NewestMatch(positions, ledger) /\ (NoShortPolicy => NeverShort(ledger))

(* The inductive invariant behind LedgerBacksPositions.                    *)
Matching == Totals /\ StoredInOrder /\ OneWriter /\ TransactionsMatch /\ LedgerMatches

(* Later than every entry, it does not matter how much later.              *)
LEMMA NetUpTo ==
  ASSUME NEW L, EntriesOK(L), NEW run, NEW inst, NEW t \in Nat, NEW u \in Nat, t <= u,
         \A e \in L : EntryIntent(e).run = run /\ <<EntryIntent(e).mkt, EntryIntent(e).out>> = inst
                        => EntryIntent(e).asof <= t
  PROVE  NetIn(L, run, inst, t) = NetIn(L, run, inst, u)
<1>1. \A e \in L : EntryIntent(e).asof \in Nat
  BY IntentsAssumption DEF EntriesOK
<1>2. \A type : Counted(L, run, inst, t, type) = Counted(L, run, inst, u, type)
  BY <1>1 DEF Counted
<1>. QED
  BY <1>2 DEF NetIn

(* The position a call starts from is what the ledger nets to.             *)
LEMMA PreviousMatches ==
  ASSUME TypeOK, RowsOrdered, StoredInOrder, NewestMatch(positions, ledger),
         NEW i \in Intents, i.run # None, i.out # None, clock < i.asof
  PROVE  PreviousPosition(i).units = Net(ledger, i)
<1> DEFINE seen == {p \in positions : InScope(p, i) /\ p.asof <= i.asof}
<1>0. i.asof \in Nat /\ clock \in Int /\ \A p \in positions : p.asof \in Nat
  BY IntentsAssumption DEF TypeOK, PositionOK
<1>1. seen = Held(positions, i)
  BY <1>0 DEF Held, InScope, StoredInOrder
<1>2. ASSUME NEW e \in ledger, EntryIntent(e).run = i.run,
             <<EntryIntent(e).mkt, EntryIntent(e).out>> = <<i.mkt, i.out>>
      PROVE  \E q \in Held(positions, i) : q.asof = EntryIntent(e).asof
  <2>1. PICK q \in positions : RowOf(q, EntryIntent(e))
    BY DEF StoredInOrder
  <2>. QED
    BY <1>2, <2>1 DEF RowOf, Held
<1>3. CASE seen = {}
  <2>1. PreviousPosition(i).units = 0
    BY <1>3 DEF PreviousPosition, LatestPaperPosition, Flat
  <2>2. \A type : Counted(ledger, i.run, <<i.mkt, i.out>>, i.asof, type) = {}
    BY <1>1, <1>2, <1>3 DEF Counted
  <2>3. AmountSum({}) = 0
    <3>1. IsFiniteSet({}) /\ \A x \in {} : x.amount \in Int
      BY FS_EmptySet
    <3>. QED
      BY <3>1, AmountSumStep
  <2>. QED
    BY <2>1, <2>2, <2>3 DEF Net, NetIn
<1>4. CASE seen # {}
  <2>1. PICK p : p = LatestPaperPosition(i)
    OBVIOUS
  <2>2. \E x \in seen : \A q \in seen : <<q, x>> \in PositionOrder
    BY <1>4 DEF RowsOrdered, HasNewest
  <2>3. \E x \in seen : \A q \in seen :
          \/ q.asof < x.asof
          \/ q.asof = x.asof /\ digest[x] <= digest[q]
    BY <2>2 DEF PositionOrder
  <2>4. p \in seen /\ \A q \in seen : q.asof < p.asof \/ q.asof = p.asof
    BY <1>4, <2>1, <2>3, Zenon DEF LatestPaperPosition
  <2>5. p \in positions /\ p # None
    <3>1. None \notin positions
      BY DEF StoredInOrder
    <3>. QED
      BY <2>4, <3>1
  <2>6. PreviousPosition(i).units = p.units
    BY <2>1, <2>5 DEF PreviousPosition
  <2>7. p \in Held(positions, i) /\ \A q \in Held(positions, i) : q.asof <= p.asof
    BY <1>0, <1>1, <2>4, <2>5 DEF Held
  <2>8. p.units = NetIn(ledger, i.run, <<i.mkt, i.out>>, p.asof)
    BY <2>7 DEF NewestMatch
  <2>9. p.asof \in Nat /\ p.asof <= i.asof
    BY <1>0, <2>4, <2>5
  <2>10. \A e \in ledger : EntryIntent(e).run = i.run
              /\ <<EntryIntent(e).mkt, EntryIntent(e).out>> = <<i.mkt, i.out>>
            => EntryIntent(e).asof <= p.asof
    BY <1>2, <2>7
  <2>11. NetIn(ledger, i.run, <<i.mkt, i.out>>, p.asof) = Net(ledger, i)
    BY <1>0, <2>9, <2>10, NetUpTo DEF Net, StoredInOrder
  <2>. QED
    BY <2>6, <2>8, <2>11
<1>. QED
  BY <1>3, <1>4
-----------------------------------------------------------------------------
LEMMA SessionStepMatches ==
  ASSUME TypeOK, StoredInOrder, OneWriter, TransactionsMatch, LedgerMatches,
         NEW s \in Sessions, NEW p, NEW t,
         pc' = [pc EXCEPT ![s] = p], tx' = [tx EXCEPT ![s] = t],
         UNCHANGED <<ledger, positions, clock>>,
         p # "idle" => pc[s] # "idle" /\ TransactionMatches(p, t)
  PROVE  StoredInOrder' /\ OneWriter' /\ TransactionsMatch' /\ LedgerMatches'
<1>1. \A r \in Sessions : /\ pc'[r] = IF r = s THEN p ELSE pc[r]
                          /\ tx'[r] = IF r = s THEN t ELSE tx[r]
  BY DEF TypeOK
<1>2. OneWriter'
  BY <1>1 DEF OneWriter
<1>3. \A r \in Sessions : pc'[r] # "idle" => TransactionMatches(pc'[r], tx'[r])
  BY <1>1 DEF TransactionsMatch
<1>4. TransactionsMatch'
  BY <1>3 DEF TransactionsMatch, TransactionMatches
<1>. QED
  BY <1>2, <1>4 DEF StoredInOrder, LedgerMatches

LEMMA SignedType ==
  ASSUME NEW i, NEW a \in Int
  PROVE  Signed(i, a) \in Int /\ (a = 0 => Signed(i, a) = 0)
BY DEF Signed

LEMMA EnterMatches ==
  ASSUME TypeOK, StoredInOrder, OneWriter, LedgerMatches, SingleFile,
         NEW s \in Sessions, NEW i \in Intents, NEW d \in DecisionSpace, Submit(s, i, d),
         NEW next, NEW t, Enter(s, next, t),
         t.intent = i, t.row = None, t.fills = {}, t.filled = 0,
         next = "walk" => t.pos.units = Net(ledger, i)
  PROVE  StoredInOrder' /\ OneWriter' /\ TransactionsMatch' /\ LedgerMatches'
<1>1. i.asof \in Nat /\ clock \in Int /\ clock' = i.asof /\ clock < i.asof
  BY IntentsAssumption DEF TypeOK, Submit, SingleFile
<1>2. \A r \in Sessions : /\ pc[r] = "idle"
                          /\ pc'[r] = IF r = s THEN next ELSE pc[r]
                          /\ tx'[r] = IF r = s THEN t ELSE tx[r]
  BY DEF TypeOK, Enter, Submit, SingleFile
<1>3. UNCHANGED <<ledger, positions>>
  BY DEF Enter, tables
<1>4. \A e \in ledger : EntryIntent(e).asof \in Nat
  BY IntentsAssumption DEF StoredInOrder, EntriesOK
<1>5. \A p \in positions : p.asof \in Nat
  BY DEF TypeOK, PositionOK
<1>6. \A e \in ledger : EntryIntent(e).asof < i.asof
  BY <1>1, <1>4 DEF StoredInOrder
<1>7. \A p \in positions : p.asof < i.asof
  BY <1>1, <1>5 DEF StoredInOrder
<1>8. StoredInOrder'
  BY <1>1, <1>3, <1>4, <1>5, <1>6, <1>7 DEF StoredInOrder
<1>9. OneWriter'
  BY <1>2 DEF OneWriter
<1>10. Signed(i, 0) = 0 /\ Net(ledger, i) \in Int
  <2>1. Signed(i, 0) = 0
    BY SignedType
  <2>2. Net(ledger, i) \in Int
    BY NetType DEF Net, StoredInOrder
  <2>. QED
    BY <2>1, <2>2
<1>11. TransactionsMatch'
  <2> SUFFICES ASSUME NEW r \in Sessions, pc'[r] # "idle"
               PROVE  TransactionMatches(pc[r], tx[r])'
    BY DEF TransactionsMatch
  <2>1. r = s /\ pc'[r] = next /\ tx'[r] = t
    BY <1>2
  <2>2. next = "walk" => t.pos.units = Net(ledger, i) + Signed(i, t.filled)
    BY <1>10
  <2>. QED
    BY <1>1, <1>3, <1>6, <1>7, <2>1, <2>2 DEF TransactionMatches
<1>. QED
  BY <1>3, <1>8, <1>9, <1>11 DEF LedgerMatches

LEMMA FillLevelMatches ==
  ASSUME TypeOK, StoredInOrder, OneWriter, TransactionsMatch, LedgerMatches,
         NEW s \in Sessions, FillLevel(s)
  PROVE  StoredInOrder' /\ OneWriter' /\ TransactionsMatch' /\ LedgerMatches'
<1>1. PICK u : tx' = [tx EXCEPT ![s] = u] /\ \E size \in Nat : Moves(tx[s], u, size)
  BY FillLevelEffect
<1>2. PICK size \in Nat : Moves(tx[s], u, size)
  BY <1>1
<1>3. PICK t : t = tx[s]
  OBVIOUS
<1>4. /\ pc[s] = "walk" /\ pc' = [pc EXCEPT ![s] = "walk"]
      /\ UNCHANGED <<ledger, positions, clock>>
  BY DEF FillLevel, TypeOK, tables, caller
<1>5. TxOK(t) /\ TransactionMatches("walk", t)
  BY <1>3, <1>4 DEF TypeOK, TransactionsMatch
<1>6. /\ u.intent = t.intent /\ u.row = t.row /\ u.filled = t.filled + size
      /\ u.pos.units = IF t.intent.side = "BUY" THEN t.pos.units + size ELSE t.pos.units - size
  BY <1>2, <1>3 DEF Moves
<1>7. PICK n \in Int : n = Net(ledger, t.intent)
  BY NetType DEF Net, StoredInOrder
<1>8. t.filled \in Int /\ t.pos.units = n + Signed(t.intent, t.filled)
  BY <1>5, <1>7 DEF TxOK, TransactionMatches
<1>9. u.pos.units = n + Signed(u.intent, u.filled)
  <2>. PICK i : i = t.intent
    OBVIOUS
  <2>. PICK a \in Int : a = t.filled
    BY <1>8
  <2>1. /\ Signed(i, a) \in Int
        /\ Signed(i, a + size) =
             IF i.side = "BUY" THEN Signed(i, a) + size ELSE Signed(i, a) - size
    BY DEF Signed
  <2>2. PICK b \in Int : b = Signed(i, a)
    BY <2>1
  <2>. QED
    BY <1>6, <1>8, <2>1, <2>2
<1>10. TransactionMatches("walk", u)
  BY <1>5, <1>6, <1>7, <1>9 DEF TransactionMatches
<1>. QED
  BY <1>1, <1>4, <1>10, SessionStepMatches

LEMMA FinishWalkMatches ==
  ASSUME TypeOK, TransactionsAddUp, StoredInOrder, OneWriter, TransactionsMatch, LedgerMatches,
         NEW s \in Sessions, FinishWalk(s)
  PROVE  StoredInOrder' /\ OneWriter' /\ TransactionsMatch' /\ LedgerMatches'
<1>1. PICK u : tx' = [tx EXCEPT ![s] = u] /\ Ends(tx[s], u)
  BY FinishWalkEffect
<1>2. PICK t : t = tx[s]
  OBVIOUS
<1>3. /\ pc[s] = "walk" /\ pc' = [pc EXCEPT ![s] = "ready"]
      /\ UNCHANGED <<ledger, positions, clock>>
  BY DEF FinishWalk, tables, caller
<1>4. TxOK(t) /\ TransactionMatches("walk", t) /\ TransactionAddsUp("walk", t)
  BY <1>2, <1>3 DEF TypeOK, TransactionsMatch, TransactionsAddUp
<1>5. u.intent = t.intent
  BY <1>1, <1>2 DEF Ends
<1>6. CASE EndsUnfilled(t, u)
  <2>1. u.fills = {} /\ u.row = None
    BY <1>4, <1>6 DEF EndsUnfilled, TransactionMatches
  <2>2. TransactionMatches("ready", u)
    BY <1>4, <1>5, <2>1 DEF TransactionMatches
  <2>. QED
    BY <1>1, <1>3, <2>2, SessionStepMatches
<1>7. CASE EndsFilled(t, u)
  <2>1. u.fills = t.fills /\ u.row = PositionRow(t.intent, t.pos, t.mark)
    BY <1>7 DEF EndsFilled
  <2>2. t.intent \in Intents /\ MoneyOK(t.pos) /\ t.mark \in Nat \cup {None}
    BY <1>4 DEF TxOK
  <2>3. u.row # None /\ u.row.units = t.pos.units
    <3>1. /\ PositionRow(t.intent, t.pos, t.mark).units = t.pos.units
          /\ PositionRow(t.intent, t.pos, t.mark) # None
      BY <2>2, PositionRowType
    <3>. QED
      BY <2>1, <3>1
  <2>4. RowOf(u.row, t.intent)
    BY <2>1 DEF PositionRow, RowOf
  <2>5. SizeSum(u.fills) = t.filled
    BY <1>4, <2>1 DEF TransactionAddsUp
  <2>6. TransactionMatches("ready", u)
    BY <1>4, <1>5, <2>3, <2>4, <2>5 DEF TransactionMatches
  <2>. QED
    BY <1>1, <1>3, <2>6, SessionStepMatches
<1>. QED
  BY <1>1, <1>2, <1>6, <1>7 DEF Ends
-----------------------------------------------------------------------------
(* The entries of a commit move what the ledger nets to for their own run, *)
(* instrument and time, by what the transaction filled.                    *)
LEMMA CommitMovesLedger ==
  ASSUME TypeOK, TransactionsBacked, TransactionsAddUp, StoredInOrder, TransactionsMatch,
         NEW s \in Sessions, Commit(s), NEW t, t = tx[s], NEW i, i = t.intent
  PROVE  /\ EntriesOK(ledger')
         /\ \A e \in ledger' : e \in ledger \/ (t.fills # {} /\ EntryIntent(e) = i)
         /\ \A run, inst : \A u \in Nat :
              NetIn(ledger', run, inst, u) =
                NetIn(ledger, run, inst, u) +
                  IF run = i.run /\ inst = <<i.mkt, i.out>> /\ i.asof <= u
                    THEN Signed(i, SizeSum(t.fills)) ELSE 0
<1>1. pc[s] = "saved" /\ TxOK(t) /\ i \in Intents
  BY DEF TypeOK, Commit, TxOK
<1>2. TransactionBacked(t) /\ TransactionAddsUp("saved", t) /\ TransactionMatches("saved", t)
  BY <1>1 DEF TransactionsBacked, TransactionsAddUp, TransactionsMatch
<1>3. FillsOf(t.fills, i)
  <2>1. \A f \in t.fills : FillOK(f) /\ f.order = t.order.id /\ t.order.id.intent = i
    BY <1>1, <1>2 DEF TxOK, TransactionBacked
  <2>. QED
    BY <1>2, <2>1 DEF FillsOf, TransactionAddsUp
<1>4. ledger' = ledger \cup UNION {LedgerEntries(f) : f \in t.fills}
  BY DEF Commit, LedgerAfter
<1>5. EntriesOK(ledger) /\ \A e \in ledger : EntryIntent(e).asof < i.asof
  BY <1>2 DEF StoredInOrder, TransactionMatches
<1>6. EntriesOK(ledger')
  BY <1>1, <1>3, <1>4, <1>5, NewEntriesFinite
<1>7. \A f \in t.fills : \A e \in LedgerEntries(f) : EntryIntent(e) = i
  BY <1>3, EntriesOfFill DEF FillsOf
<1>8. \A e \in ledger' : e \in ledger \/ (t.fills # {} /\ EntryIntent(e) = i)
  BY <1>4, <1>7
<1>9. PICK K : K = ledger'
  OBVIOUS
<1>10. ASSUME NEW run, NEW inst, NEW u \in Nat
       PROVE  NetIn(K, run, inst, u) =
                NetIn(ledger, run, inst, u) +
                  IF run = i.run /\ inst = <<i.mkt, i.out>> /\ i.asof <= u
                    THEN Signed(i, SizeSum(t.fills)) ELSE 0
  BY <1>1, <1>3, <1>4, <1>5, <1>9, NetAfter
<1>. QED
  BY <1>6, <1>8, <1>9, <1>10

(* The row of a commit is the newest of its instrument, and carries what   *)
(* the ledger then nets to; a long-only row is never short.                *)
LEMMA CommitMatches ==
  ASSUME TypeOK, TransactionsConsistent, TransactionsBacked, TransactionsAddUp, StoredInOrder,
         OneWriter, TransactionsMatch, LedgerMatches, NEW s \in Sessions, Commit(s)
  PROVE  StoredInOrder' /\ OneWriter' /\ TransactionsMatch' /\ LedgerMatches'
<1>1. PICK t : t = tx[s]
  OBVIOUS
<1>2. PICK i : i = t.intent
  OBVIOUS
<1>3. /\ pc[s] = "saved" /\ TxOK(t) /\ i \in Intents /\ i.asof \in Nat
  BY <1>1, <1>2, IntentsAssumption DEF TypeOK, Commit, TxOK
<1>4. TransactionMatches("saved", t)
  BY <1>1, <1>3 DEF TransactionsMatch
<1>5. /\ i.asof = clock /\ clock' = clock
      /\ \A e \in ledger : EntryIntent(e).asof < i.asof
      /\ \A p \in positions : p.asof < i.asof
      /\ IF t.row = None THEN t.fills = {}
         ELSE RowOf(t.row, i) /\ t.row.units = Net(ledger, i) + Signed(i, SizeSum(t.fills))
  BY <1>2, <1>4 DEF TransactionMatches, Commit, caller
<1>6. positions' = IF t.row = None THEN positions ELSE positions \cup {t.row}
  BY <1>1 DEF Commit, PositionsAfter
<1>7. /\ EntriesOK(ledger')
      /\ \A e \in ledger' : e \in ledger \/ (t.fills # {} /\ EntryIntent(e) = i)
      /\ \A run, inst : \A u \in Nat :
           NetIn(ledger', run, inst, u) =
             NetIn(ledger, run, inst, u) +
               IF run = i.run /\ inst = <<i.mkt, i.out>> /\ i.asof <= u
                 THEN Signed(i, SizeSum(t.fills)) ELSE 0
  BY <1>1, <1>2, CommitMovesLedger
<1>8. \A r \in Sessions : pc'[r] = "idle"
  BY <1>3 DEF OneWriter, Commit, Leave, TypeOK
<1>9. OneWriter' /\ TransactionsMatch'
  BY <1>8 DEF OneWriter, TransactionsMatch
<1>10. StoredInOrder'
  <2>1. \A e \in ledger' : EntryIntent(e).asof <= clock'
    BY <1>3, <1>5, <1>7 DEF StoredInOrder
  <2>2. ASSUME NEW e \in ledger'
        PROVE  \E p \in positions' : RowOf(p, EntryIntent(e))
    <3>1. CASE e \in ledger
      <4>1. \E p \in positions : RowOf(p, EntryIntent(e))
        BY <3>1 DEF StoredInOrder
      <4>. QED
        BY <1>6, <4>1
    <3>2. CASE t.fills # {} /\ EntryIntent(e) = i
      BY <1>5, <1>6, <3>2
    <3>. QED
      BY <1>7, <3>1, <3>2
  <2>3. \A p \in positions' : p.asof <= clock'
    BY <1>3, <1>5, <1>6 DEF StoredInOrder, RowOf
  <2>4. None \notin positions'
    BY <1>6 DEF StoredInOrder
  <2>. QED
    BY <1>7, <2>1, <2>2, <2>3, <2>4 DEF StoredInOrder
<1>11. CASE t.row = None
  <2>1. t.fills = {} /\ positions' = positions
    BY <1>5, <1>6, <1>11
  <2>2. ledger' = ledger
    BY <1>1, <2>1 DEF Commit, LedgerAfter
  <2>. QED
    BY <1>9, <1>10, <2>1, <2>2 DEF LedgerMatches
<1>12. CASE t.row # None
  <2>1. PICK row : row = t.row
    OBVIOUS
  <2>2. /\ RowOf(row, i) /\ positions' = positions \cup {row}
        /\ row.asof = i.asof /\ row \notin positions
    BY <1>3, <1>5, <1>6, <1>12, <2>1 DEF RowOf
  <2>3. row.units = Net(ledger, i) + Signed(i, SizeSum(t.fills))
    BY <1>5, <1>12, <2>1
  <2>4. \A run, inst : \A u \in Nat : NetIn(ledger, run, inst, u) \in Int
    BY NetType DEF StoredInOrder
  <2>5. ASSUME NEW j \in Intents, SameInstrument(j, i), NEW u \in Nat, i.asof <= u
        PROVE  NetIn(ledger', j.run, <<j.mkt, j.out>>, u) = row.units
    <3>1. j.run = i.run /\ <<j.mkt, j.out>> = <<i.mkt, i.out>>
      BY <2>5 DEF SameInstrument
    <3>2. \A e \in ledger : EntryIntent(e).asof <= i.asof
      BY <1>3, <1>5, IntentsAssumption DEF StoredInOrder, EntriesOK
    <3>3. NetIn(ledger, i.run, <<i.mkt, i.out>>, i.asof) = NetIn(ledger, i.run, <<i.mkt, i.out>>, u)
      BY <1>3, <2>5, <3>2, NetUpTo DEF StoredInOrder
    <3>4. NetIn(ledger', i.run, <<i.mkt, i.out>>, u) =
            NetIn(ledger, i.run, <<i.mkt, i.out>>, u) + Signed(i, SizeSum(t.fills))
      BY <1>7, <2>5
    <3>. QED
      BY <2>3, <3>1, <3>3, <3>4 DEF Net
  <2>6. ASSUME NEW j \in Intents, NEW u \in Nat, ~SameInstrument(j, i) \/ u < i.asof
        PROVE  NetIn(ledger', j.run, <<j.mkt, j.out>>, u) = NetIn(ledger, j.run, <<j.mkt, j.out>>, u)
    <3>1. ~(j.run = i.run /\ <<j.mkt, j.out>> = <<i.mkt, i.out>> /\ i.asof <= u)
      BY <1>3, <2>6 DEF SameInstrument
    <3>2. NetIn(ledger', j.run, <<j.mkt, j.out>>, u) = NetIn(ledger, j.run, <<j.mkt, j.out>>, u) + 0
      BY <1>7, <3>1
    <3>. QED
      BY <2>4, <3>2
  <2>7. ASSUME NEW j \in Intents, NEW p \in Held(positions', j),
               \A q \in Held(positions', j) : q.asof <= p.asof
        PROVE  p.units = NetIn(ledger', j.run, <<j.mkt, j.out>>, p.asof)
    <3>1. CASE SameInstrument(j, i)
      <4>1. row \in Held(positions', j)
        BY <2>2, <3>1 DEF SameInstrument, RowOf, Held
      <4>2. p = row
        <5>1. i.asof <= p.asof
          BY <2>2, <2>7, <4>1
        <5>2. p \in positions \/ p = row
          BY <2>2, <2>7 DEF Held
        <5>3. \A q \in positions : ~(i.asof <= q.asof)
          BY <1>3, <1>5 DEF TypeOK, PositionOK
        <5>. QED
          BY <5>1, <5>2, <5>3
      <4>. QED
        BY <1>3, <2>2, <2>5, <3>1, <4>2
    <3>2. CASE ~SameInstrument(j, i)
      <4>1. Held(positions', j) = Held(positions, j)
        BY <2>2, <3>2 DEF SameInstrument, RowOf, Held
      <4>2. p.units = NetIn(ledger, j.run, <<j.mkt, j.out>>, p.asof)
        BY <2>7, <4>1 DEF LedgerMatches, NewestMatch
      <4>3. p.asof \in Nat
        BY <2>7, <4>1 DEF Held, TypeOK, PositionOK
      <4>. QED
        BY <2>6, <3>2, <4>2, <4>3
    <3>. QED
      BY <3>1, <3>2
  <2>8. ASSUME NoShortPolicy, NEW j \in Intents
        PROVE  Net(ledger', j) >= 0
    <3>1. j.asof \in Nat
      BY IntentsAssumption
    <3>2. CASE SameInstrument(j, i) /\ i.asof <= j.asof
      <4>1. row.units >= 0
        BY <1>1, <1>3, <1>12, <2>1, <2>8 DEF TransactionsConsistent, LongOnlyTransaction
      <4>. QED
        BY <2>5, <3>1, <3>2, <4>1 DEF Net
    <3>3. CASE ~(SameInstrument(j, i) /\ i.asof <= j.asof)
      <4>1. Net(ledger, j) >= 0
        BY <2>8 DEF LedgerMatches, NeverShort
      <4>2. Net(ledger', j) = Net(ledger, j)
        BY <1>3, <2>6, <3>1, <3>3 DEF Net
      <4>. QED
        BY <4>1, <4>2
    <3>. QED
      BY <3>2, <3>3
  <2>9. NewestMatch(positions', ledger')
    BY <2>7 DEF NewestMatch
  <2>10. NoShortPolicy => NeverShort(ledger')
    BY <2>8 DEF NeverShort
  <2>. QED
    BY <1>9, <1>10, <2>9, <2>10 DEF LedgerMatches
<1>. QED
  BY <1>11, <1>12
-----------------------------------------------------------------------------
LEMMA StepMatches ==
  ASSUME Matching, SingleFile, [Next]_vars
  PROVE  StoredInOrder' /\ OneWriter' /\ TransactionsMatch' /\ LedgerMatches'
<1>0. /\ TypeOK /\ RowsOrdered /\ TransactionsConsistent /\ TransactionsBacked
      /\ TransactionsAddUp /\ StoredInOrder /\ OneWriter /\ TransactionsMatch /\ LedgerMatches
  BY DEF Matching, Totals, Backing, Consistency
<1>1. CASE \/ \E b \in Books : CaptureBook(b)
           \/ \E q \in Quotes : DeriveQuote(q)
           \/ \E p \in Policies : SavePolicy(p)
           \/ UNCHANGED vars
  <2>1. UNCHANGED <<ledger, positions, clock, pc, tx>>
    BY <1>1 DEF CaptureBook, DeriveQuote, SavePolicy, vars, tables, caller
  <2>. QED
    BY <1>0, <2>1 DEF StoredInOrder, OneWriter, TransactionsMatch, TransactionMatches, LedgerMatches
<1>2. ASSUME NEW s \in Sessions, NEW i \in Intents, NEW d \in DecisionSpace, Submit(s, i, d),
             NEW order, NEW left, NEW remaining, NEW pos, NEW next,
             Enter(s, next, Transaction(i, order, left, remaining, pos)),
             next = "walk" => pos.units = Net(ledger, i)
      PROVE  StoredInOrder' /\ OneWriter' /\ TransactionsMatch' /\ LedgerMatches'
  <2>1. PICK t : t = Transaction(i, order, left, remaining, pos)
    OBVIOUS
  <2>2. t.intent = i /\ t.row = None /\ t.fills = {} /\ t.filled = 0 /\ t.pos = pos
    BY <2>1 DEF Transaction
  <2>. QED
    BY <1>0, <1>2, <2>1, <2>2, EnterMatches
<1>3. ASSUME NEW s \in Sessions, NEW i \in Intents, NEW d \in DecisionSpace,
             RejectIntent(s, i, d) \/ RestOrder(s, i, d) \/ StartWalk(s, i, d)
      PROVE  StoredInOrder' /\ OneWriter' /\ TransactionsMatch' /\ LedgerMatches'
  <2>1. Submit(s, i, d)
    BY <1>3 DEF RejectIntent, RestOrder, StartWalk
  <2>2. clock < i.asof
    BY <2>1, IntentsAssumption, <1>0 DEF Submit, SingleFile, TypeOK
  <2>3. PreviousPosition(i).units = Net(ledger, i)
    BY <1>0, <2>2, PreviousMatches DEF SingleFile, LedgerMatches
  <2>4. CASE RejectIntent(s, i, d)
    BY <1>2, <2>1, <2>4 DEF RejectIntent
  <2>5. CASE RestOrder(s, i, d)
    BY <1>2, <2>1, <2>5 DEF RestOrder
  <2>6. CASE StartWalk(s, i, d)
    BY <1>2, <2>1, <2>3, <2>6 DEF StartWalk
  <2>. QED
    BY <1>3, <2>4, <2>5, <2>6
<1>4. ASSUME NEW s \in Sessions, FillLevel(s)
      PROVE  StoredInOrder' /\ OneWriter' /\ TransactionsMatch' /\ LedgerMatches'
  BY <1>0, <1>4, FillLevelMatches
<1>5. ASSUME NEW s \in Sessions, FinishWalk(s)
      PROVE  StoredInOrder' /\ OneWriter' /\ TransactionsMatch' /\ LedgerMatches'
  BY <1>0, <1>5, FinishWalkMatches
<1>6. ASSUME NEW s \in Sessions, SavePortfolio(s)
      PROVE  StoredInOrder' /\ OneWriter' /\ TransactionsMatch' /\ LedgerMatches'
  <2>1. PICK u : u = [tx[s] EXCEPT !.portfolio = ComputePortfolio(tx[s])]
    OBVIOUS
  <2>2. /\ tx' = [tx EXCEPT ![s] = u] /\ pc[s] = "ready" /\ pc' = [pc EXCEPT ![s] = "saved"]
        /\ UNCHANGED <<ledger, positions, clock>>
    BY <1>6, <2>1 DEF SavePortfolio, tables, caller
  <2>3. u.intent = tx[s].intent /\ u.fills = tx[s].fills /\ u.row = tx[s].row
    BY <1>0, <2>1, <2>2 DEF TypeOK, TxOK
  <2>4. TransactionMatches("ready", tx[s])
    BY <1>0, <2>2 DEF TransactionsMatch
  <2>5. TransactionMatches("saved", u)
    BY <2>3, <2>4 DEF TransactionMatches
  <2>. QED
    BY <1>0, <2>2, <2>5, SessionStepMatches
<1>7. ASSUME NEW s \in Sessions, Commit(s)
      PROVE  StoredInOrder' /\ OneWriter' /\ TransactionsMatch' /\ LedgerMatches'
  BY <1>0, <1>7, CommitMatches
<1>8. ASSUME NEW s \in Sessions, Abort(s)
      PROVE  StoredInOrder' /\ OneWriter' /\ TransactionsMatch' /\ LedgerMatches'
  <2>1. /\ pc' = [pc EXCEPT ![s] = "idle"] /\ tx' = [tx EXCEPT ![s] = None]
        /\ UNCHANGED <<ledger, positions, clock>>
    BY <1>8 DEF Abort, Leave, tables, caller
  <2>. QED
    BY <1>0, <2>1, SessionStepMatches
<1>. QED
  BY <1>1, <1>3, <1>4, <1>5, <1>6, <1>7, <1>8 DEF Next, Step, Proceed

LEMMA MatchingHolds ==
  ASSUME SingleFile
  PROVE  Spec => []Matching
<1>1. Init => StoredInOrder /\ OneWriter /\ TransactionsMatch /\ LedgerMatches
  <2> SUFFICES ASSUME Init
               PROVE  StoredInOrder /\ OneWriter /\ TransactionsMatch /\ LedgerMatches
    OBVIOUS
  <2>1. ledger = {} /\ positions = {} /\ \A s \in Sessions : pc[s] = "idle"
    BY DEF Init
  <2>2. EntriesOK({})
    BY FS_EmptySet DEF EntriesOK
  <2>3. AmountSum({}) = 0
    <3>1. IsFiniteSet({}) /\ \A x \in {} : x.amount \in Int
      BY FS_EmptySet
    <3>. QED
      BY <3>1, AmountSumStep
  <2>4. \A j \in Intents : Net({}, j) = 0
    BY <2>3 DEF Net, NetIn, Counted
  <2>. QED
    BY <2>1, <2>2, <2>4
       DEF StoredInOrder, OneWriter, TransactionsMatch, LedgerMatches, NewestMatch, NeverShort, Held
<1>2. Matching /\ Totals' /\ [Next]_vars => Matching'
  BY StepMatches DEF Matching
<1>3. Init /\ Totals => Matching
  BY <1>1 DEF Matching
<1>4. Spec => []Totals
  BY TotalsHold DEF SingleFile
<1>. QED
  BY <1>2, <1>3, <1>4, PTL DEF Spec

(* Where the callers of one desk come one at a time, with increasing as-of *)
(* timestamps, and name a run and an outcome, the units of the newest      *)
(* position snapshot are the units the committed ledger nets to, and while *)
(* no policy allows shorts the ledger is at no time short: the chain of    *)
(* previous-position reads has lost and repeated nothing.                  *)
THEOREM LedgerIsTheLongPosition ==
  ASSUME SingleFile, NoShortPolicy
  PROVE  Spec => []LedgerBacksPositions
<1>1. Matching => LedgerBacksPositions
  <2> SUFFICES ASSUME Matching PROVE LedgerBacksPositions
    OBVIOUS
  <2>1. NewestMatch(positions, ledger) /\ NeverShort(ledger)
    BY DEF Matching, LedgerMatches
  <2>2. PositionsMatchLedger
    <3> SUFFICES ASSUME NEW i \in Intents, NEW p \in Held(positions, i),
                        \A q \in Held(positions, i) : q.asof <= p.asof
                 PROVE  p.units = NetUnits(i.run, <<i.mkt, i.out>>, p.asof)
      BY DEF PositionsMatchLedger, Held
    <3>1. p.units = NetIn(ledger, i.run, <<i.mkt, i.out>>, p.asof)
      BY <2>1 DEF NewestMatch
    <3>. QED
      BY <3>1, NetUnitsIs
  <2>3. LedgerLongOnly
    BY <2>1, NetUnitsIs DEF LedgerLongOnly, NeverShort, Net
  <2>. QED
    BY <2>2, <2>3 DEF LedgerBacksPositions
<1>. QED
  BY <1>1, MatchingHolds, PTL
-----------------------------------------------------------------------------
(***************************************************************************)
(* The equity of a portfolio: cash comes from the ledger, what is held and *)
(* earned from the positions, and the two balance.                         *)
(***************************************************************************)

(* A market is traded at one venue, a quote is of another price than zero  *)
(* (a mark of zero is replaced by the average cost in the portfolio but    *)
(* not in the position), and an average cost is kept as it is divided.     *)
VenuePerMarket == \A i, j \in Intents : i.mkt = j.mkt => i.ven = j.ven
QuotesPriced == \A q \in Quotes : MarkPrice(q) # 0
Exact(p) == p.avg # None => p.avg * p.units = p.cost
AveragesExact == \A p \in positions : Exact(p)

(* What the entries of a run have paid in, fees on purchases left out.     *)
Entries(L, run, type) == {e \in L : EntryIntent(e).run = run /\ e.type = type}
BuyFees(L, run) ==
  {e \in L : e.type = "FEE_DEBIT" /\ EntryIntent(e).side = "BUY" /\ EntryIntent(e).run = run}
Money(L, run) ==
  AmountSum(Entries(L, run, "CASH_CREDIT")) - AmountSum(Entries(L, run, "CASH_DEBIT"))
    - AmountSum(Entries(L, run, "FEE_DEBIT")) + AmountSum(BuyFees(L, run))

(* The newest rows of a run, and what they are worth beyond their profit.  *)
SameKey(p, q) == p.mkt = q.mkt /\ p.out = q.out /\ p.ven = q.ven
Current(P, run) ==
  {p \in P : p.run = run /\ \A q \in P : q.run = run /\ SameKey(q, p) => q.asof <= p.asof}
RealizedSum(S) == MapThenSumSet(LAMBDA p : p.realized, S)
UnrealizedSum(S) == MapThenSumSet(LAMBDA p : p.unrealized, S)
ValueSum(S) == MapThenSumSet(MarkedValue, S)
Gap(S) == ValueSum(S) - RealizedSum(S) - UnrealizedSum(S)
RowGap(p) == MarkedValue(p) - p.realized - p.unrealized

(* A position is kept as UpdatePosition keeps it, and a row of it is as    *)
(* PositionRow makes it.                                                   *)
PosKept(p) ==
  /\ p.units \in Nat /\ p.cost \in Nat /\ (p.units = 0 => p.cost = 0)
  /\ p.avg = IF p.units > 0 THEN p.cost \div p.units ELSE None
RowKept(p) ==
  /\ PosKept(p) /\ p.mark # 0
  /\ p.unrealized = IF p.mark # None /\ p.avg # None /\ p.units > 0
                      THEN (p.mark * Scale - p.avg) * p.units ELSE 0
  /\ \E i \in Intents : RowOf(p, i) /\ p.ven = i.ven

(* Rows of positions: one at a time, each kept as the code keeps it.       *)
RowsOf(P) ==
  /\ IsFiniteSet(P) /\ \A p, q \in P : p.asof = q.asof => p = q
  /\ \A p \in P : PositionOK(p) /\ RowKept(p)

(* The newest rows of a run, but for the one of the intent's instrument.   *)
Others(i) == Current(positions, i.run) \ Held(positions, i)

(* An open transaction: what its position is worth, the other positions    *)
(* and the ledger with its entries balance.                                *)
Funded(t, pos) ==
  pos.cost - pos.realized + Gap(Others(t.intent)) + Money(LedgerAfter(t), t.intent.run) = 0

Balanced(p, fees) == p.equity = InitialCash + p.realized + p.unrealized - fees

TransactionBalances(phase, t) ==
  /\ \A p \in portfolios : p.asof < t.intent.asof
  /\ phase = "walk" =>
       t.mark # 0 /\ PosKept(t.pos) /\ (t.intent.side # "BUY" => Exact(t.pos)) /\ Funded(t, t.pos)
  /\ phase # "walk" /\ t.row # None =>
       RowKept(t.row) /\ t.row.ven = t.intent.ven /\ Funded(t, t.row)
  /\ phase = "saved" =>
       /\ t.portfolio.run = t.intent.run /\ t.portfolio.asof = t.intent.asof
       /\ (t.row # None => Exact(t.row))
            => Balanced(t.portfolio, AmountSum(BuyFees(LedgerAfter(t), t.intent.run)))

TransactionsBalance == \A s \in Sessions : pc[s] # "idle" => TransactionBalances(pc[s], tx[s])
HeldBalances == \A i \in Intents : Gap(Current(positions, i.run)) + Money(ledger, i.run) = 0
PortfoliosBalance ==
  \A p \in portfolios :
    /\ p.asof \in Nat /\ p.asof <= clock /\ p.run # None
    /\ Balanced(p, PurchaseFees(p.run, p.asof))

Balance == RowsOf(positions) /\ HeldBalances /\ PortfoliosBalance /\ TransactionsBalance
Balancing == Matching /\ Balance

-----------------------------------------------------------------------------
(* The sums over the newest rows, one row at a time.                       *)
LEMMA MarkedValueType ==
  ASSUME NEW p, PositionOK(p)
  PROVE  MarkedValue(p) \in Int
<1>1. p.units \in Int /\ p.avg \in Int \cup {None} /\ p.mark \in Nat \cup {None}
  BY DEF PositionOK, MoneyOK
<1>2. PICK each : each = IF p.mark # None /\ p.mark # 0 THEN p.mark * Scale
                         ELSE IF p.avg # None THEN p.avg ELSE 0
  OBVIOUS
<1>3. each \in Int
  <2>1. p.mark # None => p.mark * Scale \in Int
    BY <1>1, ScaleAssumption
  <2>. QED
    BY <1>1, <1>2, <2>1
<1>4. MarkedValue(p) = p.units * each
  BY <1>2 DEF MarkedValue
<1>. QED
  BY <1>1, <1>3, <1>4

LEMMA SumGrows ==
  ASSUME NEW S, IsFiniteSet(S), NEW x, x \notin S, NEW T, T = S \cup {x},
         NEW g \in [T -> Int], NEW h \in [S -> Int], \A y \in S : g[y] = h[y],
         NEW F, IsSum(F, T, g), NEW G, IsSum(G, S, h)
  PROVE  F[T] \in Int /\ G[S] \in Int /\ F[T] = G[S] + g[x]
<1>1. IsFiniteSet(T) /\ x \in T /\ S = T \ {x}
  BY FS_AddElement
<1>2. PICK j \in [SUBSET S -> Int] : IsSum(j, S, h)
  BY SumExists
<1>3. PICK k \in [SUBSET T -> Int] : IsSum(k, T, g)
  BY <1>1, SumExists
<1>4. SumOver(k, T, g) /\ SumOver(j, S, h)
  BY <1>1, <1>2, <1>3 DEF SumOver
<1>5. k[T] = g[x] + j[S]
  BY <1>1, <1>4, SumOfOneMore
<1>6. F[T] = k[T] /\ G[S] = j[S]
  BY <1>1, <1>2, <1>3, SumUnique
<1>. QED
  BY <1>1, <1>2, <1>3, <1>5, <1>6

LEMMA SumTyped ==
  ASSUME NEW S, IsFiniteSet(S), NEW g \in [S -> Int], NEW F, IsSum(F, S, g)
  PROVE  F[S] \in Int
<1>1. PICK j \in [SUBSET S -> Int] : IsSum(j, S, g)
  BY SumExists
<1>2. F[S] = j[S]
  BY <1>1, SumUnique
<1>. QED
  BY <1>1, <1>2

LEMMA ValueSumIs ==
  ASSUME NEW S, IsFiniteSet(S), \A x \in S : MarkedValue(x) \in Int
  PROVE  \E F, g : /\ g \in [S -> Int] /\ \A x \in S : g[x] = MarkedValue(x)
                   /\ IsSum(F, S, g) /\ ValueSum(S) = F[S]
<1> DEFINE g == [x \in S |-> MarkedValue(x)]
           Rec(iter) == iter = [s \in SUBSET S |->
                          IF s = {} THEN 0
                          ELSE MarkedValue(CHOOSE x \in s : TRUE) + iter[s \ {CHOOSE x \in s : TRUE}]]
           it == CHOOSE iter : Rec(iter)
<1>1. \A s \in SUBSET S : s # {} => (CHOOSE x \in s : TRUE) \in S
  OBVIOUS
<1>. HIDE DEF MarkedValue
<1>2. \A iter : IsSum(iter, S, g) <=> Rec(iter)
  BY <1>1 DEF IsSum
<1>3. ValueSum(S) = it[S]
  BY DEF ValueSum, MapThenSumSet, MapThenFoldSet
<1>4. g \in [S -> Int] /\ \A x \in S : g[x] = MarkedValue(x)
  OBVIOUS
<1>5. \E iter : IsSum(iter, S, g)
  <2>. HIDE DEF g
  <2>. QED
    BY <1>4, SumExists
<1>6. IsSum(it, S, g)
  <2>. HIDE DEF Rec, g
  <2>. QED
    BY <1>2, <1>5
<1>. QED
  <2>. HIDE DEF it, g
  <2>. QED
    BY <1>3, <1>4, <1>6

LEMMA RealizedSumIs ==
  ASSUME NEW S, IsFiniteSet(S), \A x \in S : x.realized \in Int
  PROVE  \E F, g : /\ g \in [S -> Int] /\ \A x \in S : g[x] = x.realized
                   /\ IsSum(F, S, g) /\ RealizedSum(S) = F[S]
<1> DEFINE g == [x \in S |-> x.realized]
           Rec(iter) == iter = [s \in SUBSET S |->
                          IF s = {} THEN 0
                          ELSE (CHOOSE x \in s : TRUE).realized + iter[s \ {CHOOSE x \in s : TRUE}]]
           it == CHOOSE iter : Rec(iter)
<1>1. \A s \in SUBSET S : s # {} => (CHOOSE x \in s : TRUE) \in S
  OBVIOUS
<1>2. \A iter : IsSum(iter, S, g) <=> Rec(iter)
  BY <1>1 DEF IsSum
<1>3. RealizedSum(S) = it[S]
  BY DEF RealizedSum, MapThenSumSet, MapThenFoldSet
<1>4. g \in [S -> Int] /\ \A x \in S : g[x] = x.realized
  OBVIOUS
<1>5. \E iter : IsSum(iter, S, g)
  <2>. HIDE DEF g
  <2>. QED
    BY <1>4, SumExists
<1>6. IsSum(it, S, g)
  <2>. HIDE DEF Rec, g
  <2>. QED
    BY <1>2, <1>5
<1>. QED
  <2>. HIDE DEF it, g
  <2>. QED
    BY <1>3, <1>4, <1>6

LEMMA UnrealizedSumIs ==
  ASSUME NEW S, IsFiniteSet(S), \A x \in S : x.unrealized \in Int
  PROVE  \E F, g : /\ g \in [S -> Int] /\ \A x \in S : g[x] = x.unrealized
                   /\ IsSum(F, S, g) /\ UnrealizedSum(S) = F[S]
<1> DEFINE g == [x \in S |-> x.unrealized]
           Rec(iter) == iter = [s \in SUBSET S |->
                          IF s = {} THEN 0
                          ELSE (CHOOSE x \in s : TRUE).unrealized + iter[s \ {CHOOSE x \in s : TRUE}]]
           it == CHOOSE iter : Rec(iter)
<1>1. \A s \in SUBSET S : s # {} => (CHOOSE x \in s : TRUE) \in S
  OBVIOUS
<1>2. \A iter : IsSum(iter, S, g) <=> Rec(iter)
  BY <1>1 DEF IsSum
<1>3. UnrealizedSum(S) = it[S]
  BY DEF UnrealizedSum, MapThenSumSet, MapThenFoldSet
<1>4. g \in [S -> Int] /\ \A x \in S : g[x] = x.unrealized
  OBVIOUS
<1>5. \E iter : IsSum(iter, S, g)
  <2>. HIDE DEF g
  <2>. QED
    BY <1>4, SumExists
<1>6. IsSum(it, S, g)
  <2>. HIDE DEF Rec, g
  <2>. QED
    BY <1>2, <1>5
<1>. QED
  <2>. HIDE DEF it, g
  <2>. QED
    BY <1>3, <1>4, <1>6

LEMMA GapGrows ==
  ASSUME NEW S, IsFiniteSet(S), \A p \in S : PositionOK(p), NEW x, PositionOK(x), x \notin S
  PROVE  Gap(S) \in Int /\ RowGap(x) \in Int /\ Gap(S \cup {x}) = Gap(S) + RowGap(x)
<1>1. \A p \in S \cup {x} : MarkedValue(p) \in Int /\ p.realized \in Int /\ p.unrealized \in Int
  BY MarkedValueType DEF PositionOK, MoneyOK
<1>2. PICK T : T = S \cup {x}
  OBVIOUS
<1>3. IsFiniteSet(T)
  BY <1>2, FS_AddElement
<1>4. ValueSum(S) \in Int /\ ValueSum(T) = ValueSum(S) + MarkedValue(x)
  <2>1. PICK F, g : /\ g \in [T -> Int] /\ \A y \in T : g[y] = MarkedValue(y)
                    /\ IsSum(F, T, g) /\ ValueSum(T) = F[T]
    BY <1>1, <1>2, <1>3, ValueSumIs
  <2>2. PICK G, h : /\ h \in [S -> Int] /\ \A y \in S : h[y] = MarkedValue(y)
                    /\ IsSum(G, S, h) /\ ValueSum(S) = G[S]
    BY <1>1, ValueSumIs
  <2>3. \A y \in S : g[y] = h[y]
    BY <1>2, <2>1, <2>2
  <2>4. G[S] \in Int /\ F[T] = G[S] + g[x]
    BY <1>2, <2>1, <2>2, <2>3, SumGrows
  <2>. QED
    BY <1>2, <2>1, <2>2, <2>4
<1>5. RealizedSum(S) \in Int /\ RealizedSum(T) = RealizedSum(S) + x.realized
  <2>1. PICK F, g : /\ g \in [T -> Int] /\ \A y \in T : g[y] = y.realized
                    /\ IsSum(F, T, g) /\ RealizedSum(T) = F[T]
    BY <1>1, <1>2, <1>3, RealizedSumIs
  <2>2. PICK G, h : /\ h \in [S -> Int] /\ \A y \in S : h[y] = y.realized
                    /\ IsSum(G, S, h) /\ RealizedSum(S) = G[S]
    BY <1>1, RealizedSumIs
  <2>3. \A y \in S : g[y] = h[y]
    BY <1>2, <2>1, <2>2
  <2>4. G[S] \in Int /\ F[T] = G[S] + g[x]
    BY <1>2, <2>1, <2>2, <2>3, SumGrows
  <2>. QED
    BY <1>2, <2>1, <2>2, <2>4
<1>6. UnrealizedSum(S) \in Int /\ UnrealizedSum(T) = UnrealizedSum(S) + x.unrealized
  <2>1. PICK F, g : /\ g \in [T -> Int] /\ \A y \in T : g[y] = y.unrealized
                    /\ IsSum(F, T, g) /\ UnrealizedSum(T) = F[T]
    BY <1>1, <1>2, <1>3, UnrealizedSumIs
  <2>2. PICK G, h : /\ h \in [S -> Int] /\ \A y \in S : h[y] = y.unrealized
                    /\ IsSum(G, S, h) /\ UnrealizedSum(S) = G[S]
    BY <1>1, UnrealizedSumIs
  <2>3. \A y \in S : g[y] = h[y]
    BY <1>2, <2>1, <2>2
  <2>4. G[S] \in Int /\ F[T] = G[S] + g[x]
    BY <1>2, <2>1, <2>2, <2>3, SumGrows
  <2>. QED
    BY <1>2, <2>1, <2>2, <2>4
<1>7. PICK a, b, c, d, e, n \in Int :
        /\ a = ValueSum(S) /\ b = RealizedSum(S) /\ c = UnrealizedSum(S)
        /\ d = MarkedValue(x) /\ e = x.realized /\ n = x.unrealized
  BY <1>1, <1>4, <1>5, <1>6
<1>8. /\ Gap(S) = a - b - c /\ RowGap(x) = d - e - n
      /\ Gap(T) = (a + d) - (b + e) - (c + n)
  BY <1>4, <1>5, <1>6, <1>7 DEF Gap, RowGap
<1>. QED
  BY <1>2, <1>7, <1>8

LEMMA GapOfNone == Gap({}) = 0
<1>1. IsFiniteSet({})
  BY FS_EmptySet
<1>2. ValueSum({}) = 0
  <2>1. PICK F, g : IsSum(F, {}, g) /\ ValueSum({}) = F[{}]
    BY <1>1, ValueSumIs
  <2>. QED
    BY <2>1 DEF IsSum
<1>3. RealizedSum({}) = 0
  <2>1. PICK F, g : IsSum(F, {}, g) /\ RealizedSum({}) = F[{}]
    BY <1>1, RealizedSumIs
  <2>. QED
    BY <2>1 DEF IsSum
<1>4. UnrealizedSum({}) = 0
  <2>1. PICK F, g : IsSum(F, {}, g) /\ UnrealizedSum({}) = F[{}]
    BY <1>1, UnrealizedSumIs
  <2>. QED
    BY <2>1 DEF IsSum
<1>. QED
  BY <1>2, <1>3, <1>4 DEF Gap

LEMMA SumsType ==
  ASSUME NEW S, IsFiniteSet(S), \A p \in S : PositionOK(p)
  PROVE  ValueSum(S) \in Int /\ RealizedSum(S) \in Int /\ UnrealizedSum(S) \in Int
<1>1. \A p \in S : MarkedValue(p) \in Int /\ p.realized \in Int /\ p.unrealized \in Int
  BY MarkedValueType DEF PositionOK, MoneyOK
<1>2. ValueSum(S) \in Int
  <2>1. PICK F, g : g \in [S -> Int] /\ IsSum(F, S, g) /\ ValueSum(S) = F[S]
    BY <1>1, ValueSumIs
  <2>. QED
    BY <2>1, SumTyped
<1>3. RealizedSum(S) \in Int
  <2>1. PICK F, g : g \in [S -> Int] /\ IsSum(F, S, g) /\ RealizedSum(S) = F[S]
    BY <1>1, RealizedSumIs
  <2>. QED
    BY <2>1, SumTyped
<1>4. UnrealizedSum(S) \in Int
  <2>1. PICK F, g : g \in [S -> Int] /\ IsSum(F, S, g) /\ UnrealizedSum(S) = F[S]
    BY <1>1, UnrealizedSumIs
  <2>. QED
    BY <2>1, SumTyped
<1>. QED
  BY <1>2, <1>3, <1>4

LEMMA GapType ==
  ASSUME NEW S, IsFiniteSet(S), \A p \in S : PositionOK(p)
  PROVE  Gap(S) \in Int
BY SumsType DEF Gap
-----------------------------------------------------------------------------
(* What an entry, and the entries of a fill, do to the money of a run.     *)
EntryFlow(e) ==
  IF e.type = "CASH_CREDIT" THEN e.amount
  ELSE IF e.type = "CASH_DEBIT" \/ (e.type = "FEE_DEBIT" /\ EntryIntent(e).side # "BUY") THEN -e.amount
  ELSE 0
FillFlow(f) ==
  IF f.order.intent.side = "BUY" THEN -Notional(f.price, f.size) ELSE Notional(f.price, f.size) - f.fee

LEMMA AmountOfEntries ==
  ASSUME NEW L, EntriesOK(L), NEW S, S \subseteq L
  PROVE  IsFiniteSet(S) /\ AmountSum(S) \in Int /\ (S = {} => AmountSum(S) = 0)
         /\ \A e : e \notin S /\ e.amount \in Int => AmountSum(S \cup {e}) = AmountSum(S) + e.amount
<1>1. IsFiniteSet(S) /\ \A e \in S : e.amount \in Int
  BY FS_Subset DEF EntriesOK
<1>. QED
  BY <1>1, AmountSumStep

LEMMA MoneyType ==
  ASSUME NEW L, EntriesOK(L), NEW run
  PROVE  /\ Money(L, run) \in Int /\ AmountSum(BuyFees(L, run)) \in Int
         /\ \A type : AmountSum(Entries(L, run, type)) \in Int
<1>1. \A type : AmountSum(Entries(L, run, type)) \in Int
  BY AmountOfEntries DEF Entries
<1>2. AmountSum(BuyFees(L, run)) \in Int
  BY AmountOfEntries DEF BuyFees
<1>. QED
  BY <1>1, <1>2 DEF Money

LEMMA EntryMoney ==
  ASSUME NEW L, EntriesOK(L), NEW e, e \notin L, e.amount \in Nat, EntryIntent(e) \in Intents,
         NEW run, NEW K, K = L \cup {e}
  PROVE  /\ EntriesOK(K)
         /\ Money(K, run) = Money(L, run) + IF EntryIntent(e).run = run THEN EntryFlow(e) ELSE 0
<1>1. EntriesOK(K)
  BY FS_AddElement DEF EntriesOK
<1>2. ASSUME NEW type
      PROVE  AmountSum(Entries(K, run, type)) =
               AmountSum(Entries(L, run, type))
                 + IF EntryIntent(e).run = run /\ e.type = type THEN e.amount ELSE 0
  <2>1. /\ AmountSum(Entries(L, run, type)) \in Int
        /\ AmountSum(Entries(L, run, type) \cup {e}) = AmountSum(Entries(L, run, type)) + e.amount
    BY AmountOfEntries DEF Entries
  <2>2. Entries(K, run, type) = IF EntryIntent(e).run = run /\ e.type = type
                                  THEN Entries(L, run, type) \cup {e} ELSE Entries(L, run, type)
    BY DEF Entries
  <2>. QED
    BY <2>1, <2>2
<1>3. AmountSum(BuyFees(K, run)) =
        AmountSum(BuyFees(L, run))
          + IF EntryIntent(e).run = run /\ e.type = "FEE_DEBIT" /\ EntryIntent(e).side = "BUY"
              THEN e.amount ELSE 0
  <2>1. /\ AmountSum(BuyFees(L, run)) \in Int
        /\ AmountSum(BuyFees(L, run) \cup {e}) = AmountSum(BuyFees(L, run)) + e.amount
    BY AmountOfEntries DEF BuyFees
  <2>2. BuyFees(K, run) = IF EntryIntent(e).run = run /\ e.type = "FEE_DEBIT" /\ EntryIntent(e).side = "BUY"
                            THEN BuyFees(L, run) \cup {e} ELSE BuyFees(L, run)
    BY DEF BuyFees
  <2>. QED
    BY <2>1, <2>2
<1>4. PICK a, b, c, d, n \in Int :
        /\ a = AmountSum(Entries(L, run, "CASH_CREDIT")) /\ b = AmountSum(Entries(L, run, "CASH_DEBIT"))
        /\ c = AmountSum(Entries(L, run, "FEE_DEBIT")) /\ d = AmountSum(BuyFees(L, run)) /\ n = e.amount
  BY MoneyType
<1>5. Money(L, run) = a - b - c + d
  BY <1>4 DEF Money
<1>6. CASE EntryIntent(e).run # run
  <2>1. Money(K, run) = (a + 0) - (b + 0) - (c + 0) + (d + 0)
    BY <1>2, <1>3, <1>4, <1>6 DEF Money
  <2>. QED
    BY <1>1, <1>4, <1>5, <1>6, <2>1
<1>7. CASE EntryIntent(e).run = run
  <2>1. CASE e.type = "CASH_CREDIT"
    <3>1. Money(K, run) = (a + n) - (b + 0) - (c + 0) + (d + 0) /\ EntryFlow(e) = n
      BY <1>2, <1>3, <1>4, <1>7, <2>1 DEF Money, EntryFlow
    <3>. QED
      BY <1>1, <1>4, <1>5, <1>7, <3>1
  <2>2. CASE e.type = "CASH_DEBIT"
    <3>1. Money(K, run) = (a + 0) - (b + n) - (c + 0) + (d + 0) /\ EntryFlow(e) = -n
      BY <1>2, <1>3, <1>4, <1>7, <2>2 DEF Money, EntryFlow
    <3>. QED
      BY <1>1, <1>4, <1>5, <1>7, <3>1
  <2>3. CASE e.type = "FEE_DEBIT" /\ EntryIntent(e).side = "BUY"
    <3>1. Money(K, run) = (a + 0) - (b + 0) - (c + n) + (d + n) /\ EntryFlow(e) = 0
      BY <1>2, <1>3, <1>4, <1>7, <2>3 DEF Money, EntryFlow
    <3>. QED
      BY <1>1, <1>4, <1>5, <1>7, <3>1
  <2>4. CASE e.type = "FEE_DEBIT" /\ EntryIntent(e).side # "BUY"
    <3>1. Money(K, run) = (a + 0) - (b + 0) - (c + n) + (d + 0) /\ EntryFlow(e) = -n
      BY <1>2, <1>3, <1>4, <1>7, <2>4 DEF Money, EntryFlow
    <3>. QED
      BY <1>1, <1>4, <1>5, <1>7, <3>1
  <2>5. CASE e.type \notin {"CASH_CREDIT", "CASH_DEBIT", "FEE_DEBIT"}
    <3>1. Money(K, run) = (a + 0) - (b + 0) - (c + 0) + (d + 0) /\ EntryFlow(e) = 0
      BY <1>2, <1>3, <1>4, <1>7, <2>5 DEF Money, EntryFlow
    <3>. QED
      BY <1>1, <1>4, <1>5, <1>7, <3>1
  <2>. QED
    BY <2>1, <2>2, <2>3, <2>4, <2>5
<1>. QED
  BY <1>6, <1>7

LEMMA FillMoney ==
  ASSUME NEW L, EntriesOK(L), NEW f, FillOK(f), NEW i \in Intents, i = f.order.intent,
         \A e \in L : e \notin LedgerEntries(f), NEW run, NEW K, K = L \cup LedgerEntries(f)
  PROVE  /\ EntriesOK(K)
         /\ Money(K, run) = Money(L, run) + IF run = i.run THEN FillFlow(f) ELSE 0
<1>1. PICK n \in Nat, fee \in Nat, m \in Nat : n = Notional(f.price, f.size) /\ fee = f.fee /\ m = f.size
  BY NotionalType DEF FillOK
<1>2. PICK id : id = [f EXCEPT !.fee = 0]
  OBVIOUS
<1>3. id.order.intent = i
  BY <1>2 DEF FillOK
<1>4. PICK a : a = [fill |-> id, type |-> IF i.side = "BUY" THEN "CASH_DEBIT" ELSE "CASH_CREDIT", amount |-> n]
  OBVIOUS
<1>5. PICK b : b = [fill |-> id, type |-> IF i.side = "BUY" THEN "POSITION_INCREASE" ELSE "POSITION_DECREASE",
                    amount |-> m]
  OBVIOUS
<1>6. PICK c : c = [fill |-> id, type |-> "FEE_DEBIT", amount |-> fee]
  OBVIOUS
<1>7. LedgerEntries(f) = {a, b} \cup (IF fee > 0 THEN {c} ELSE {})
  BY <1>1, <1>2, <1>4, <1>5, <1>6 DEF LedgerEntries
<1>8. /\ a.amount = n /\ b.amount = m /\ c.amount = fee
      /\ a.fill = id /\ b.fill = id /\ c.fill = id
      /\ a.type = (IF i.side = "BUY" THEN "CASH_DEBIT" ELSE "CASH_CREDIT") /\ c.type = "FEE_DEBIT"
      /\ b.type \in {"POSITION_INCREASE", "POSITION_DECREASE"}
  BY <1>4, <1>5, <1>6
<1>9. EntryIntent(a) = i /\ EntryIntent(b) = i /\ EntryIntent(c) = i
  BY <1>3, <1>8 DEF EntryIntent
<1>10. a # b /\ a # c /\ b # c
  BY <1>8
<1>11. /\ EntryFlow(a) = (IF i.side = "BUY" THEN -n ELSE n) /\ EntryFlow(b) = 0
       /\ EntryFlow(c) = IF i.side = "BUY" THEN 0 ELSE -fee
  BY <1>8, <1>9 DEF EntryFlow
<1>12. FillFlow(f) = IF i.side = "BUY" THEN -n ELSE n - fee
  BY <1>1 DEF FillFlow
<1>13. Money(L, run) \in Int
  BY MoneyType
<1>14. PICK L1 : L1 = L \cup {a}
  OBVIOUS
<1>15. /\ EntriesOK(L1)
       /\ Money(L1, run) = Money(L, run) + IF i.run = run THEN EntryFlow(a) ELSE 0
  <2>1. a \notin L /\ a.amount \in Nat /\ EntryIntent(a) \in Intents
    BY <1>1, <1>7, <1>8, <1>9
  <2>. QED
    BY <1>9, <1>14, <2>1, EntryMoney
<1>16. PICK L2 : L2 = L1 \cup {b}
  OBVIOUS
<1>17. /\ EntriesOK(L2)
       /\ Money(L2, run) = Money(L1, run) + IF i.run = run THEN EntryFlow(b) ELSE 0
  <2>1. b \notin L1 /\ b.amount \in Nat /\ EntryIntent(b) \in Intents
    BY <1>1, <1>7, <1>8, <1>9, <1>10, <1>14
  <2>. QED
    BY <1>9, <1>15, <1>16, <2>1, EntryMoney
<1>18. PICK x \in Int : x = Money(L, run)
  BY <1>13
<1>19. Money(L2, run) = x + IF i.run = run THEN (IF i.side = "BUY" THEN -n ELSE n) ELSE 0
  <2>1. CASE i.run = run
    <3>1. PICK y \in Int : y = IF i.side = "BUY" THEN -n ELSE n
      OBVIOUS
    <3>2. Money(L1, run) = x + y /\ Money(L2, run) = Money(L1, run) + 0
      BY <1>11, <1>15, <1>17, <1>18, <2>1, <3>1
    <3>. QED
      BY <2>1, <3>1, <3>2
  <2>2. CASE i.run # run
    <3>1. Money(L1, run) = x + 0 /\ Money(L2, run) = Money(L1, run) + 0
      BY <1>15, <1>17, <1>18, <2>2
    <3>. QED
      BY <2>2, <3>1
  <2>. QED
    BY <2>1, <2>2
<1>20. CASE fee = 0
  <2>1. K = L2
    BY <1>7, <1>14, <1>16, <1>20
  <2>2. FillFlow(f) = IF i.side = "BUY" THEN -n ELSE n
    BY <1>1, <1>12, <1>20
  <2>. QED
    BY <1>17, <1>18, <1>19, <2>1, <2>2
<1>21. CASE fee > 0
  <2>1. K = L2 \cup {c}
    BY <1>7, <1>14, <1>16, <1>21
  <2>2. c \notin L2 /\ c.amount \in Nat /\ EntryIntent(c) \in Intents
    BY <1>7, <1>8, <1>9, <1>10, <1>14, <1>16, <1>21
  <2>3. EntriesOK(K) /\ Money(K, run) = Money(L2, run) + IF i.run = run THEN EntryFlow(c) ELSE 0
    BY <1>9, <1>17, <2>1, <2>2, EntryMoney
  <2>. QED
    BY <1>11, <1>12, <1>18, <1>19, <2>3
<1>. QED
  BY <1>1, <1>20, <1>21
-----------------------------------------------------------------------------
(* The money of one position.                                              *)
LEMMA GapOfRow ==
  ASSUME NEW p, PositionOK(p), RowKept(p), Exact(p)
  PROVE  RowGap(p) = p.cost - p.realized
<1>1. PICK u \in Nat, c \in Nat, r \in Int : u = p.units /\ c = p.cost /\ r = p.realized
  BY DEF RowKept, PosKept, PositionOK, MoneyOK
<1>2. p.mark \in Nat \cup {None} /\ p.mark # 0 /\ p.avg \in Int \cup {None}
  BY DEF PositionOK, MoneyOK, RowKept
<1>3. CASE u = 0
  <2>1. c = 0 /\ p.avg = None /\ p.unrealized = 0
    BY <1>1, <1>3 DEF RowKept, PosKept
  <2>2. MarkedValue(p) = 0
    BY <1>1, <1>2, <1>3, ScaleAssumption DEF MarkedValue
  <2>. QED
    BY <1>1, <2>1, <2>2 DEF RowGap
<1>4. CASE u > 0
  <2>1. p.avg = c \div u
    BY <1>1, <1>4 DEF RowKept, PosKept
  <2>2. p.avg # None
    BY <1>4, <2>1, QuotientType, NoneAssumption
  <2>3. PICK a \in Int : a = p.avg
    BY <1>2, <2>2
  <2>4. a * u = c
    BY <1>1, <2>2, <2>3 DEF Exact
  <2>5. CASE p.mark = None
    <3>1. p.unrealized = 0 /\ MarkedValue(p) = u * a
      BY <1>1, <2>2, <2>3, <2>5 DEF RowKept, MarkedValue
    <3>2. u * a = c
      BY <2>4
    <3>. QED
      BY <1>1, <3>1, <3>2 DEF RowGap
  <2>6. CASE p.mark # None
    <3>1. PICK m \in Int : m = p.mark * Scale
      BY <1>2, <2>6, ScaleAssumption
    <3>2. p.unrealized = (m - a) * u /\ MarkedValue(p) = u * m
      BY <1>1, <1>2, <1>4, <2>2, <2>3, <2>6, <3>1 DEF RowKept, MarkedValue
    <3>3. u * m - r - (m - a) * u = a * u - r
      BY <1>1, <2>3, <3>1
    <3>. QED
      BY <1>1, <2>4, <3>2, <3>3 DEF RowGap
  <2>. QED
    BY <2>5, <2>6
<1>. QED
  BY <1>1, <1>3, <1>4

(* A fill moves the worth of a position by what it moves the money; sales  *)
(* out of a long position keep its average cost.                           *)
LEMMA ExactQuotient ==
  ASSUME NEW a \in Int, NEW u \in Nat \ {0}, NEW c \in Nat, c = a * u
  PROVE  c \div u = a
OBVIOUS

LEMMA ProductOfDifference ==
  ASSUME NEW a \in Nat, NEW u \in Nat, NEW m \in Nat, NEW k \in Nat, k = u - m
  PROVE  a * u - a * m = a * k
<1>1. u = m + k
  OBVIOUS
<1>2. a * (m + k) = a * m + a * k
  OBVIOUS
<1>3. a * m \in Nat /\ a * k \in Nat
  BY ProductType
<1>. QED
  BY <1>1, <1>2, <1>3

LEMMA UpdateKept ==
  ASSUME NEW pos, PosKept(pos), MoneyOK(pos), NEW f, FillOK(f), NEW i, i = f.order.intent,
         i.side # "BUY" => Exact(pos) /\ pos.units >= f.size,
         NEW q, q = UpdatePosition(pos, f)
  PROVE  /\ PosKept(q) /\ (i.side # "BUY" => Exact(q))
         /\ q.cost - q.realized = pos.cost - pos.realized - FillFlow(f)
<1>1. PICK n \in Nat, fee \in Nat, m \in Nat \ {0} : n = Notional(f.price, f.size) /\ fee = f.fee /\ m = f.size
  BY NotionalType DEF FillOK
<1>2. PICK u \in Nat, c \in Nat, r \in Int : u = pos.units /\ c = pos.cost /\ r = pos.realized
  BY DEF PosKept, MoneyOK
<1>3. CASE i.side = "BUY"
  <2>1. /\ q.units = u + m /\ q.cost = c + n /\ q.realized = r
        /\ q.avg = IF u + m > 0 THEN (c + n) \div (u + m) ELSE None
    BY <1>1, <1>2, <1>3 DEF UpdatePosition
  <2>2. PosKept(q)
    BY <1>1, <1>2, <2>1 DEF PosKept
  <2>3. FillFlow(f) = -n
    BY <1>1, <1>3 DEF FillFlow
  <2>. QED
    BY <1>1, <1>2, <1>3, <2>1, <2>2, <2>3
<1>4. CASE i.side # "BUY"
  <2>1. u > 0 /\ u - m \in Nat
    BY <1>1, <1>2, <1>4
  <2>2. pos.avg = c \div u
    BY <1>2, <2>1 DEF PosKept
  <2>3. pos.avg # None
    BY <2>1, <2>2, QuotientType, NoneAssumption
  <2>4. PICK a \in Nat : a = pos.avg
    BY <2>1, <2>2, QuotientType
  <2>5. a * u = c
    BY <1>2, <1>4, <2>3, <2>4 DEF Exact
  <2>6. PICK d \in Nat : d = a * m
    BY <1>1, ProductType
  <2>7. PICK k \in Nat : k = u - m
    BY <2>1
  <2>8. c - d = a * k /\ c - d \in Nat
    <3>1. c - d = a * k
      BY <1>1, <2>5, <2>6, <2>7, ProductOfDifference
    <3>. QED
      BY <3>1, ProductType
  <2>9. Max({0, c - d}) = c - d
    <3>1. PICK x \in Nat : x = c - d
      BY <2>8
    <3>. QED
      BY <3>1, MaxOfTwo
  <2>10. /\ q.units = k /\ q.cost = c - d /\ q.realized = r + n - d - fee
         /\ q.avg = IF k > 0 THEN (c - d) \div k ELSE None
    BY <1>1, <1>2, <1>4, <2>3, <2>4, <2>6, <2>7, <2>9 DEF UpdatePosition
  <2>11. k = 0 => c - d = 0
    BY <2>4, <2>8
  <2>12. PosKept(q)
    BY <2>8, <2>10, <2>11 DEF PosKept
  <2>13. k > 0 => q.avg = a
    <3>1. k > 0 => (c - d) \div k = a
      BY <2>8, ExactQuotient
    <3>. QED
      BY <2>10, <3>1
  <2>14. Exact(q)
    BY <2>8, <2>10, <2>13 DEF Exact
  <2>15. FillFlow(f) = n - fee
    BY <1>1, <1>4 DEF FillFlow
  <2>16. q.cost - q.realized = pos.cost - pos.realized - FillFlow(f)
    BY ONLY <1>1, <1>2, <2>6, <2>10, <2>15, n \in Nat, fee \in Nat, c \in Nat, r \in Int, d \in Nat
  <2>. QED
    BY <1>4, <2>12, <2>14, <2>16
<1>. QED
  BY <1>3, <1>4
-----------------------------------------------------------------------------
(* The newest rows of a run when a row is added that is newer than all.    *)
LEMMA SameKeyIsHeld ==
  ASSUME VenuePerMarket, NEW P, \A p \in P : RowKept(p), NEW i \in Intents, NEW p \in P
  PROVE  p \in Held(P, i) <=> p.run = i.run /\ p.mkt = i.mkt /\ p.out = i.out /\ p.ven = i.ven
<1>1. PICK j \in Intents : RowOf(p, j) /\ p.ven = j.ven
  BY DEF RowKept
<1>2. p.mkt = i.mkt => p.ven = i.ven
  BY <1>1 DEF VenuePerMarket, RowOf
<1>. QED
  BY <1>2 DEF Held

LEMMA CurrentAfter ==
  ASSUME VenuePerMarket, NEW P, RowsOf(P), NEW i \in Intents, NEW row, RowOf(row, i), row.ven = i.ven,
         PositionOK(row), \A p \in P : p.asof < row.asof, NEW run
  PROVE  Current(P \cup {row}, run) =
           IF run = i.run THEN (Current(P, run) \ Held(P, i)) \cup {row} ELSE Current(P, run)
<1>1. \A p \in P : p.asof \in Nat /\ p # row
  BY DEF RowsOf, PositionOK
<1>2. row.asof \in Nat /\ row.run = i.run /\ row.mkt = i.mkt /\ row.out = i.out
  BY DEF PositionOK, RowOf
<1>3. \A p \in P : p \in Held(P, i) <=> p.run = i.run /\ SameKey(p, row)
  BY <1>2, SameKeyIsHeld DEF RowsOf, SameKey
<1>4. CASE run # i.run
  BY <1>2, <1>4 DEF Current
<1>5. CASE run = i.run
  <2>1. row \in Current(P \cup {row}, run)
    BY <1>1, <1>2, <1>5 DEF Current
  <2>2. ASSUME NEW p \in P, p \in Current(P \cup {row}, run)
        PROVE  p \in Current(P, run) /\ p \notin Held(P, i)
    <3>1. ~SameKey(row, p)
      BY <1>1, <1>2, <1>5, <2>2 DEF Current
    <3>. QED
      BY <1>3, <2>2, <3>1 DEF Current, SameKey
  <2>3. ASSUME NEW p \in Current(P, run), p \notin Held(P, i)
        PROVE  p \in Current(P \cup {row}, run)
    <3>1. p \in P /\ p.run = run /\ ~SameKey(p, row)
      BY <1>3, <1>5, <2>3 DEF Current
    <3>. QED
      BY <2>3, <3>1 DEF Current, SameKey
  <2>4. Current(P \cup {row}, run) \subseteq P \cup {row}
    BY DEF Current
  <2>. QED
    BY <1>5, <2>1, <2>2, <2>3, <2>4
<1>. QED
  BY <1>4, <1>5

(* The row it replaces is the one the call read as the previous position.  *)
LEMMA PreviousIsCurrent ==
  ASSUME TypeOK, RowsOrdered, StoredInOrder, VenuePerMarket, RowsOf(positions),
         NEW i \in Intents, i.run # None, i.out # None, clock <= i.asof
  PROVE  \/ /\ Current(positions, i.run) \cap Held(positions, i) = {}
            /\ PreviousPosition(i) = Flat
         \/ \E p \in positions :
              /\ Current(positions, i.run) \cap Held(positions, i) = {p}
              /\ PreviousPosition(i) = [units |-> p.units, cost |-> p.cost, avg |-> p.avg,
                                        realized |-> p.realized]
<1> DEFINE seen == {p \in positions : InScope(p, i) /\ p.asof <= i.asof}
<1>0. i.asof \in Nat /\ clock \in Int /\ \A p \in positions : p.asof \in Nat
  BY IntentsAssumption DEF TypeOK, PositionOK
<1>1. seen = Held(positions, i)
  BY <1>0 DEF Held, InScope, StoredInOrder
<1>2. \A p, q \in Held(positions, i) : SameKey(p, q) /\ p.run = i.run
  BY SameKeyIsHeld DEF RowsOf, SameKey, Held
<1>3. CASE seen = {}
  <2>1. PreviousPosition(i) = Flat
    BY <1>3 DEF PreviousPosition, LatestPaperPosition
  <2>. QED
    BY <1>1, <1>3, <2>1
<1>4. CASE seen # {}
  <2>1. PICK p : p = LatestPaperPosition(i)
    OBVIOUS
  <2>2. \E x \in seen : \A q \in seen : <<q, x>> \in PositionOrder
    BY <1>4 DEF RowsOrdered, HasNewest
  <2>3. \E x \in seen : \A q \in seen :
          \/ q.asof < x.asof
          \/ q.asof = x.asof /\ digest[x] <= digest[q]
    BY <2>2 DEF PositionOrder
  <2>4. p \in seen /\ \A q \in seen : q.asof < p.asof \/ q.asof = p.asof
    BY <1>4, <2>1, <2>3, Zenon DEF LatestPaperPosition
  <2>5. p \in positions /\ p # None
    <3>1. None \notin positions
      BY DEF StoredInOrder
    <3>. QED
      BY <2>4, <3>1
  <2>6. PreviousPosition(i) = [units |-> p.units, cost |-> p.cost, avg |-> p.avg, realized |-> p.realized]
    BY <2>1, <2>5 DEF PreviousPosition
  <2>7. p \in Held(positions, i) /\ \A q \in Held(positions, i) : q.asof <= p.asof
    BY <1>0, <1>1, <2>4, <2>5 DEF Held
  <2>8. \A q \in positions : q.run = i.run /\ SameKey(q, p) => q \in Held(positions, i)
    BY <2>7 DEF Held, SameKey
  <2>9. p \in Current(positions, i.run)
    BY <2>5, <2>7, <2>8 DEF Current, Held
  <2>10. ASSUME NEW q \in Current(positions, i.run), q \in Held(positions, i)
         PROVE  q = p
    <3>1. p.asof <= q.asof
      BY <1>2, <2>5, <2>7, <2>10 DEF Current
    <3>2. p.asof = q.asof /\ q \in positions
      BY <1>0, <2>5, <2>7, <2>10, <3>1 DEF Held
    <3>. QED
      BY <2>5, <3>2 DEF RowsOf
  <2>11. Current(positions, i.run) \cap Held(positions, i) = {p}
    BY <2>7, <2>9, <2>10
  <2>. QED
    BY <2>5, <2>6, <2>11
<1>. QED
  BY <1>3, <1>4

(* Its worth, and that of the others, is that of all.                      *)
LEMMA OthersType ==
  ASSUME RowsOf(positions), NEW i \in Intents
  PROVE  /\ IsFiniteSet(Others(i)) /\ Others(i) \subseteq positions
         /\ \A p \in Others(i) : PositionOK(p)
         /\ Gap(Others(i)) \in Int
<1>1. Others(i) \subseteq positions
  BY DEF Others, Current
<1>2. IsFiniteSet(Others(i)) /\ \A p \in Others(i) : PositionOK(p)
  BY <1>1, FS_Subset DEF RowsOf
<1>. QED
  BY <1>1, <1>2, GapType

LEMMA PreviousGap ==
  ASSUME TypeOK, RowsOrdered, StoredInOrder, VenuePerMarket, RowsOf(positions), AveragesExact,
         NEW i \in Intents, i.run # None, i.out # None, clock <= i.asof,
         NEW pos, pos = PreviousPosition(i)
  PROVE  /\ PosKept(pos) /\ Exact(pos)
         /\ pos.cost - pos.realized + Gap(Others(i)) = Gap(Current(positions, i.run))
<1>1. PICK C : C = Current(positions, i.run)
  OBVIOUS
<1>2. PICK D : D = Others(i)
  OBVIOUS
<1>3. D = C \ Held(positions, i)
  BY <1>1, <1>2 DEF Others
<1>4. IsFiniteSet(D) /\ (\A p \in D : PositionOK(p)) /\ Gap(D) \in Int
  BY <1>2, OthersType
<1>5. CASE C \cap Held(positions, i) = {} /\ pos = Flat
  <2>1. D = C
    BY <1>3, <1>5
  <2>2. pos.units = 0 /\ pos.cost = 0 /\ pos.realized = 0 /\ pos.avg = None
    BY <1>5 DEF Flat
  <2>3. PosKept(pos) /\ Exact(pos)
    BY <2>2 DEF PosKept, Exact
  <2>. QED
    BY <1>1, <1>2, <1>4, <2>1, <2>2, <2>3
<1>6. ASSUME NEW p \in positions, C \cap Held(positions, i) = {p},
             pos = [units |-> p.units, cost |-> p.cost, avg |-> p.avg, realized |-> p.realized]
      PROVE  PosKept(pos) /\ Exact(pos) /\ pos.cost - pos.realized + Gap(D) = Gap(C)
  <2>1. C = D \cup {p} /\ p \notin D
    BY <1>3, <1>6
  <2>2. PositionOK(p) /\ RowKept(p) /\ Exact(p)
    BY DEF RowsOf, AveragesExact
  <2>3. Gap(C) = Gap(D) + RowGap(p) /\ RowGap(p) \in Int
    BY <1>4, <2>1, <2>2, GapGrows
  <2>4. /\ pos.cost = p.cost /\ pos.realized = p.realized /\ pos.units = p.units /\ pos.avg = p.avg
    BY <1>6
  <2>5. RowGap(p) = pos.cost - pos.realized
    BY <2>2, <2>4, GapOfRow
  <2>6. PosKept(pos) /\ Exact(pos)
    BY <2>2, <2>4 DEF RowKept, PosKept, Exact
  <2>7. PICK g \in Int, r \in Int : g = Gap(D) /\ r = RowGap(p)
    BY <1>4, <2>3
  <2>. QED
    BY <2>3, <2>5, <2>6, <2>7
<1>. QED
  BY <1>1, <1>2, <1>5, <1>6, PreviousIsCurrent

LEMMA RowBalances ==
  ASSUME VenuePerMarket, RowsOf(positions), NEW i \in Intents, NEW row, RowOf(row, i), row.ven = i.ven,
         PositionOK(row), RowKept(row), Exact(row), \A p \in positions : p.asof < row.asof,
         NEW P, P = positions \cup {row}
  PROVE  Gap(Current(P, i.run)) = row.cost - row.realized + Gap(Others(i))
<1>1. PICK D : D = Others(i)
  OBVIOUS
<1>2. IsFiniteSet(D) /\ (\A p \in D : PositionOK(p)) /\ D \subseteq positions /\ Gap(D) \in Int
  BY <1>1, OthersType
<1>3. row \notin D
  BY <1>2 DEF PositionOK
<1>4. Gap(D \cup {row}) = Gap(D) + RowGap(row) /\ RowGap(row) \in Int
  BY <1>2, <1>3, GapGrows
<1>5. Current(P, i.run) = D \cup {row}
  <2>1. PICK run : run = i.run
    OBVIOUS
  <2>2. Current(positions \cup {row}, run) =
          IF run = i.run THEN (Current(positions, run) \ Held(positions, i)) \cup {row}
          ELSE Current(positions, run)
    BY CurrentAfter
  <2>. QED
    BY <1>1, <2>1, <2>2 DEF Others
<1>6. RowGap(row) = row.cost - row.realized
  BY GapOfRow
<1>7. PICK g \in Int, r \in Int : g = Gap(D) /\ r = RowGap(row)
  BY <1>2, <1>4
<1>8. Gap(Current(P, i.run)) = g + r /\ Gap(Others(i)) = g
  BY <1>1, <1>4, <1>5, <1>7
<1>9. row.cost - row.realized = r
  BY <1>6, <1>7
<1>10. Gap(Current(P, i.run)) = r + g
  BY <1>8
<1>. QED
  BY <1>8, <1>9, <1>10
-----------------------------------------------------------------------------
(* What a transaction sees of the ledger: the entries it would add are of  *)
(* its own intent, and later than all that is stored.                      *)
LEMMA LedgerAfterIs ==
  ASSUME TypeOK, TransactionsBacked, TransactionsAddUp, StoredInOrder, TransactionsMatch,
         NEW s \in Sessions, pc[s] # "idle", NEW t, t = tx[s], NEW i, i = t.intent
  PROVE  /\ i \in Intents /\ i.asof \in Nat /\ i.asof = clock
         /\ EntriesOK(LedgerAfter(t)) /\ ledger \subseteq LedgerAfter(t)
         /\ \A e \in LedgerAfter(t) : e \in ledger \/ EntryIntent(e) = i
         /\ \A e \in ledger : EntryIntent(e).asof < i.asof /\ EntryIntent(e) # i
         /\ \A e \in LedgerAfter(t) : EntryIntent(e).asof <= i.asof
         /\ t.fills = {} => LedgerAfter(t) = ledger
         /\ FillsOf(t.fills, i)
<1>1. TxOK(t) /\ i \in Intents /\ i.asof \in Nat
  BY IntentsAssumption DEF TypeOK, TxOK
<1>2. /\ TransactionBacked(t) /\ TransactionAddsUp(pc[s], t) /\ TransactionMatches(pc[s], t)
  BY DEF TransactionsBacked, TransactionsAddUp, TransactionsMatch
<1>3. FillsOf(t.fills, i)
  <2>1. \A f \in t.fills : FillOK(f) /\ f.order = t.order.id /\ t.order.id.intent = i
    BY <1>1, <1>2 DEF TxOK, TransactionBacked
  <2>. QED
    BY <1>2, <2>1 DEF FillsOf, TransactionAddsUp
<1>4. EntriesOK(ledger) /\ (\A e \in ledger : EntryIntent(e).asof < i.asof) /\ i.asof = clock
  BY <1>2 DEF StoredInOrder, TransactionMatches
<1>5. EntriesOK(LedgerAfter(t))
  BY <1>1, <1>3, <1>4, NewEntriesFinite DEF LedgerAfter
<1>6. \A f \in t.fills : \A e \in LedgerEntries(f) : EntryIntent(e) = i
  BY <1>3, EntriesOfFill DEF FillsOf
<1>7. \A e \in LedgerAfter(t) : e \in ledger \/ EntryIntent(e) = i
  BY <1>6 DEF LedgerAfter
<1>8. \A e \in ledger : EntryIntent(e).asof \in Nat
  BY <1>4, IntentsAssumption DEF EntriesOK
<1>9. \A e \in LedgerAfter(t) : EntryIntent(e).asof <= i.asof
  BY <1>1, <1>4, <1>7, <1>8
<1>10. t.fills = {} => LedgerAfter(t) = ledger
  BY DEF LedgerAfter
<1>11. \A e \in ledger : EntryIntent(e) # i
  BY <1>1, <1>4
<1>12. ledger \subseteq LedgerAfter(t)
  BY DEF LedgerAfter
<1>. QED
  BY <1>1, <1>3, <1>4, <1>5, <1>7, <1>9, <1>10, <1>11, <1>12

(* One row a time, the newest rows of the portfolio are the current ones.  *)
LEMMA RowsOfMore ==
  ASSUME NEW P, RowsOf(P), NEW row, PositionOK(row), RowKept(row), \A p \in P : p.asof < row.asof
  PROVE  RowsOf(P \cup {row})
<1>1. IsFiniteSet(P \cup {row})
  BY FS_AddElement DEF RowsOf
<1>2. \A p \in P : p.asof \in Nat /\ p.asof # row.asof
  BY DEF RowsOf, PositionOK
<1>. QED
  BY <1>1, <1>2 DEF RowsOf

LEMMA HeldIsCurrent ==
  ASSUME NEW P, RowsOf(P), \A p \in P : digest[p] \in Nat,
         NEW run, run # None, NEW t, \A p \in P : p.asof <= t
  PROVE  LatestPositions(P, run, t) = Current(P, run)
<1>1. \A p \in P : p.asof \in Nat
  BY DEF RowsOf, PositionOK
<1>2. \A p, q \in P : q.asof < p.asof \/ (q.asof = p.asof /\ digest[q] <= digest[p]) <=> q.asof <= p.asof
  BY <1>1 DEF RowsOf
<1>3. \A p, q : <<q.mkt, q.out, q.ven>> = <<p.mkt, p.out, p.ven>> <=> SameKey(q, p)
  BY DEF SameKey
<1>4. LatestPositions(P, run, t) =
        {p \in {r \in P : r.run = run} : \A q \in {r \in P : r.run = run} :
           SameKey(q, p) => q.asof < p.asof \/ (q.asof = p.asof /\ digest[q] <= digest[p])}
  BY <1>3 DEF LatestPositions, OfRun
<1>5. ASSUME NEW p \in P, p.run = run
      PROVE  (\A q \in {r \in P : r.run = run} :
                SameKey(q, p) => q.asof < p.asof \/ (q.asof = p.asof /\ digest[q] <= digest[p]))
              <=> \A q \in P : q.run = run /\ SameKey(q, p) => q.asof <= p.asof
  BY <1>2, <1>5
<1>. QED
  BY <1>4, <1>5 DEF Current

(* The portfolio of a transaction whose ledger and rows balance.           *)
LEMMA PortfolioIs ==
  ASSUME NEW t, NEW run, run = t.intent.run, run # None, NEW asof, asof = t.intent.asof,
         NEW L, L = LedgerAfter(t), EntriesOK(L), \A e \in L : EntryIntent(e).asof <= asof,
         NEW H, H = LatestPositions(PositionsAfter(t), run, asof), IsFiniteSet(H),
         \A p \in H : PositionOK(p), Gap(H) + Money(L, run) = 0
  PROVE  /\ ComputePortfolio(t).run = run /\ ComputePortfolio(t).asof = asof
         /\ Balanced(ComputePortfolio(t), AmountSum(BuyFees(L, run)))
<1> DEFINE entries == {e \in L : OfRun(run, EntryIntent(e).run) /\ EntryIntent(e).asof <= asof}
           total(type) == AmountSum({e \in entries : e.type = type})
<1>1. \A type : {e \in entries : e.type = type} = Entries(L, run, type)
  BY DEF Entries, OfRun
<1>2. \A type : total(type) = AmountSum(Entries(L, run, type))
  BY <1>1
<1>3. PICK a, b, c, d \in Int :
        /\ a = AmountSum(Entries(L, run, "CASH_CREDIT")) /\ b = AmountSum(Entries(L, run, "CASH_DEBIT"))
        /\ c = AmountSum(Entries(L, run, "FEE_DEBIT")) /\ d = AmountSum(BuyFees(L, run))
  BY MoneyType
<1>4. PICK v, r, u \in Int : v = ValueSum(H) /\ r = RealizedSum(H) /\ u = UnrealizedSum(H)
  BY SumsType
<1>5. PICK q : q = ComputePortfolio(t)
  OBVIOUS
<1>6. /\ q.run = run /\ q.asof = asof
      /\ q.equity = InitialCash + total("CASH_CREDIT") - total("CASH_DEBIT") - total("FEE_DEBIT")
                      + MapThenSumSet(MarkedValue, H)
      /\ q.realized = MapThenSumSet(LAMBDA p : p.realized, H)
      /\ q.unrealized = MapThenSumSet(LAMBDA p : p.unrealized, H)
  BY <1>5 DEF ComputePortfolio
<1>7. q.realized = r /\ q.unrealized = u /\ q.equity = InitialCash + a - b - c + v
  BY <1>2, <1>3, <1>4, <1>6 DEF ValueSum, RealizedSum, UnrealizedSum
<1>8. v - r - u + (a - b - c + d) = 0
  BY <1>3, <1>4 DEF Gap, Money
<1>9. PICK k \in Int : k = InitialCash
  BY ScaleAssumption
<1>10. k + a - b - c + v = k + r + u - d
  BY <1>8
<1>11. Balanced(q, d)
  BY <1>7, <1>9, <1>10 DEF Balanced
<1>. QED
  BY <1>3, <1>5, <1>6, <1>11
-----------------------------------------------------------------------------
(* The rows a finished walk would store balance the ledger with its own    *)
(* entries.                                                                *)
LEMMA WillBalance ==
  ASSUME TypeOK, RowsOrdered, TransactionsBacked, TransactionsAddUp, StoredInOrder, TransactionsMatch,
         SingleFile, VenuePerMarket, Balance,
         NEW s \in Sessions, pc[s] \in {"ready", "saved"}, NEW t, t = tx[s], NEW i, i = t.intent,
         t.row # None => Exact(t.row), NEW P, P = PositionsAfter(t)
  PROVE  /\ RowsOf(P) /\ \A p \in P : digest[p] \in Nat /\ p.asof <= i.asof
         /\ Gap(Current(P, i.run)) + Money(LedgerAfter(t), i.run) = 0
<1>1. i \in Intents /\ i.asof \in Nat /\ (t.fills = {} => LedgerAfter(t) = ledger)
  BY LedgerAfterIs
<1>2. TransactionMatches(pc[s], t) /\ TransactionBalances(pc[s], t) /\ TxOK(t)
  BY DEF TransactionsMatch, Balance, TransactionsBalance, TypeOK
<1>3. RowsOf(positions) /\ HeldBalances
  BY DEF Balance
<1>4. \A p \in positions : p.asof \in Nat /\ p.asof < i.asof /\ digest[p] \in Nat
  BY <1>2 DEF TransactionMatches, TypeOK, PositionOK, RowsOrdered
<1>5. CASE t.row = None
  <2>1. t.fills = {} /\ P = positions
    BY <1>2, <1>5 DEF TransactionMatches, PositionsAfter
  <2>. QED
    BY <1>1, <1>3, <1>4, <2>1 DEF HeldBalances
<1>6. CASE t.row # None
  <2>1. PICK row : row = t.row
    OBVIOUS
  <2>2. P = positions \cup {row}
    BY <1>6, <2>1 DEF PositionsAfter
  <2>3. /\ RowOf(row, i) /\ RowKept(row) /\ row.ven = i.ven /\ Funded(t, row)
        /\ PositionOK(row) /\ Exact(row) /\ row.asof = i.asof
    BY <1>2, <1>6, <2>1 DEF TransactionMatches, TransactionBalances, TxOK, RowOf
  <2>4. \A p \in positions : p.asof < row.asof
    BY <1>4, <2>3
  <2>5. RowsOf(P)
    BY <1>3, <2>2, <2>3, <2>4, RowsOfMore
  <2>6. digest[row] \in Nat
    BY <1>6, <2>1 DEF RowsOrdered
  <2>7. Gap(Current(P, i.run)) = row.cost - row.realized + Gap(Others(i))
    BY <1>1, <1>3, <2>2, <2>3, <2>4, RowBalances
  <2>8. row.cost - row.realized + Gap(Others(i)) + Money(LedgerAfter(t), i.run) = 0
    BY <2>3 DEF Funded
  <2>9. \A p \in P : digest[p] \in Nat /\ p.asof <= i.asof
    BY <1>1, <1>4, <2>2, <2>3, <2>6
  <2>. QED
    BY <2>5, <2>7, <2>8, <2>9
<1>. QED
  BY <1>5, <1>6

(* An entry of one run leaves the money of the others alone.               *)
LEMMA MoneyOfOthers ==
  ASSUME NEW L, NEW K, L \subseteq K, NEW run, \A e \in K : e \in L \/ EntryIntent(e).run # run
  PROVE  Money(K, run) = Money(L, run)
<1>1. \A type : Entries(K, run, type) = Entries(L, run, type)
  BY DEF Entries
<1>2. BuyFees(K, run) = BuyFees(L, run)
  BY DEF BuyFees
<1>. QED
  BY <1>1, <1>2 DEF Money

(* The fees of the purchases up to a time, whatever comes later.           *)
LEMMA FeesUpTo ==
  ASSUME NEW run, run # None, NEW t
  PROVE  /\ (\A e \in ledger : EntryIntent(e).asof <= t)
              => PurchaseFees(run, t) = AmountSum(BuyFees(ledger, run))
         /\ \A K : ledger \subseteq K /\ (\A e \in K : e \in ledger \/ ~(EntryIntent(e).asof <= t))
              => PurchaseFees(run, t) =
                   AmountSum({e \in K : /\ e.type = "FEE_DEBIT" /\ EntryIntent(e).side = "BUY"
                                        /\ OfRun(run, EntryIntent(e).run) /\ EntryIntent(e).asof <= t})
<1>1. ASSUME \A e \in ledger : EntryIntent(e).asof <= t
      PROVE  PurchaseFees(run, t) = AmountSum(BuyFees(ledger, run))
  <2>1. {e \in ledger : /\ e.type = "FEE_DEBIT" /\ EntryIntent(e).side = "BUY"
                        /\ OfRun(run, EntryIntent(e).run) /\ EntryIntent(e).asof <= t}
          = BuyFees(ledger, run)
    BY <1>1 DEF BuyFees, OfRun
  <2>. QED
    BY <2>1 DEF PurchaseFees
<1>2. ASSUME NEW K, ledger \subseteq K, \A e \in K : e \in ledger \/ ~(EntryIntent(e).asof <= t)
      PROVE  PurchaseFees(run, t) =
               AmountSum({e \in K : /\ e.type = "FEE_DEBIT" /\ EntryIntent(e).side = "BUY"
                                    /\ OfRun(run, EntryIntent(e).run) /\ EntryIntent(e).asof <= t})
  <2>1. {e \in ledger : /\ e.type = "FEE_DEBIT" /\ EntryIntent(e).side = "BUY"
                        /\ OfRun(run, EntryIntent(e).run) /\ EntryIntent(e).asof <= t}
          = {e \in K : /\ e.type = "FEE_DEBIT" /\ EntryIntent(e).side = "BUY"
                       /\ OfRun(run, EntryIntent(e).run) /\ EntryIntent(e).asof <= t}
    BY <1>2
  <2>. QED
    BY <2>1 DEF PurchaseFees
<1>. QED
  BY <1>1, <1>2
-----------------------------------------------------------------------------
(* A step that moves one session on, or ends it, and stores nothing.       *)
LEMMA SessionStepBalances ==
  ASSUME TypeOK, Balance, NEW s \in Sessions, NEW p, NEW t,
         pc' = [pc EXCEPT ![s] = p], tx' = [tx EXCEPT ![s] = t],
         UNCHANGED <<ledger, positions, portfolios, clock>>,
         p # "idle" => pc[s] # "idle" /\ TransactionBalances(p, t)
  PROVE  Balance'
<1>1. \A r \in Sessions : /\ pc'[r] = IF r = s THEN p ELSE pc[r]
                          /\ tx'[r] = IF r = s THEN t ELSE tx[r]
  BY DEF TypeOK
<1>2. \A r \in Sessions : pc'[r] # "idle" => TransactionBalances(pc'[r], tx'[r])
  BY <1>1 DEF Balance, TransactionsBalance
<1>3. \A a, b : TransactionBalances(a, b) => TransactionBalances(a, b)'
  BY DEF TransactionBalances, Funded, Others, LedgerAfter
<1>4. TransactionsBalance'
  BY <1>2, <1>3 DEF TransactionsBalance
<1>5. HeldBalances' /\ PortfoliosBalance' /\ RowsOf(positions)'
  BY DEF Balance, HeldBalances, PortfoliosBalance, PurchaseFees
<1>. QED
  BY <1>4, <1>5 DEF Balance

LEMMA EnterBalances ==
  ASSUME TypeOK, Balance, SingleFile,
         NEW s \in Sessions, NEW i \in Intents, NEW d \in DecisionSpace, Submit(s, i, d),
         NEW next \in {"walk", "ready"}, NEW t, Enter(s, next, t),
         t.intent = i, t.row = None, t.fills = {},
         next = "walk" => /\ t.mark # 0 /\ PosKept(t.pos) /\ Exact(t.pos)
                          /\ t.pos.cost - t.pos.realized + Gap(Others(i)) + Money(ledger, i.run) = 0
  PROVE  Balance'
<1>1. i.asof \in Nat /\ clock \in Int /\ clock' = i.asof /\ clock < i.asof
  BY IntentsAssumption DEF TypeOK, Submit, SingleFile
<1>2. \A r \in Sessions : /\ pc[r] = "idle"
                          /\ pc'[r] = IF r = s THEN next ELSE pc[r]
                          /\ tx'[r] = IF r = s THEN t ELSE tx[r]
  BY DEF TypeOK, Enter, Submit, SingleFile
<1>3. UNCHANGED <<ledger, positions, portfolios>>
  BY DEF Enter, tables
<1>4. \A p \in portfolios : p.asof \in Nat /\ p.asof < i.asof
  BY <1>1 DEF Balance, PortfoliosBalance
<1>5. PortfoliosBalance'
  BY <1>1, <1>3, <1>4 DEF Balance, PortfoliosBalance, PurchaseFees
<1>6. LedgerAfter(t) = ledger
  BY DEF LedgerAfter
<1>7. TransactionBalances(next, t)
  BY <1>4, <1>6 DEF TransactionBalances, Funded
<1>8. TransactionBalances(next, t)'
  BY <1>3, <1>7 DEF TransactionBalances, Funded, Others, LedgerAfter
<1>9. TransactionsBalance'
  BY <1>2, <1>8 DEF TransactionsBalance
<1>10. HeldBalances' /\ RowsOf(positions)'
  BY <1>3 DEF Balance, HeldBalances
<1>. QED
  BY <1>5, <1>9, <1>10 DEF Balance

LEMMA MarkIsPriced ==
  ASSUME TypeOK, RowsOrdered, QuotesPriced, NEW i \in Intents
  PROVE  MarkPrice(LatestQuote(i.mkt, i.asof)) # 0
<1>1. PICK q : q = LatestQuote(i.mkt, i.asof)
  OBVIOUS
<1>2. q \in Quotes \cup {None}
  BY <1>1, LatestQuoteType DEF TypeOK
<1>3. MarkPrice(None) = None
  BY DEF MarkPrice
<1>4. MarkPrice(q) # 0
  BY <1>2, <1>3, NoneAssumption DEF QuotesPriced
<1>. QED
  BY <1>1, <1>4

LEMMA FillLevelBalances ==
  ASSUME TypeOK, TransactionsConsistent, TransactionsBacked, TransactionsAddUp, StoredInOrder,
         TransactionsMatch, NoShortPolicy, Balance, NEW s \in Sessions, FillLevel(s)
  PROVE  Balance'
<1>1. PICK u : tx' = [tx EXCEPT ![s] = u] /\ TxOK(u) /\ \E size \in Nat : Moves(tx[s], u, size)
  BY FillLevelEffect
<1>2. PICK size \in Nat : Moves(tx[s], u, size)
  BY <1>1
<1>3. PICK t : t = tx[s]
  OBVIOUS
<1>4. /\ pc[s] = "walk" /\ pc' = [pc EXCEPT ![s] = "walk"]
      /\ UNCHANGED <<ledger, positions, portfolios, clock>>
  BY DEF FillLevel, TypeOK, tables, caller
<1>5. PICK i : i = t.intent
  OBVIOUS
<1>6. /\ TxOK(t) /\ TransactionAddsUp("walk", t) /\ TransactionBalances("walk", t)
      /\ LongOnlyTransaction(t)
  BY <1>3, <1>4 DEF TypeOK, TransactionsAddUp, Balance, TransactionsBalance, TransactionsConsistent
<1>7. /\ i \in Intents /\ EntriesOK(LedgerAfter(t))
      /\ \A e \in ledger : EntryIntent(e) # i
      /\ FillsOf(t.fills, i)
  BY <1>3, <1>4, <1>5, LedgerAfterIs
<1>8. /\ u.intent = i /\ u.row = t.row /\ u.mark = t.mark /\ size <= t.remaining
  BY <1>2, <1>3, <1>5 DEF Moves
<1>9. CASE size = 0 /\ u.fills = t.fills /\ u.pos = t.pos
  <2>1. LedgerAfter(u) = LedgerAfter(t)
    BY <1>9 DEF LedgerAfter
  <2>2. TransactionBalances("walk", u)
    BY <1>5, <1>6, <1>8, <1>9, <2>1 DEF TransactionBalances, Funded
  <2>. QED
    BY <1>1, <1>4, <2>2, SessionStepBalances
<1>10. ASSUME NEW f, Took(t, f, size), size > 0, u.fills = t.fills \cup {f},
              u.pos = UpdatePosition(t.pos, f)
       PROVE  Balance'
  <2>1. FillOK(f)
    BY <1>1, <1>10 DEF TxOK
  <2>2. f.size = size /\ f.level \in t.left /\ f.order.intent = i
    BY <1>5, <1>6, <1>10 DEF Took, TxOK
  <2>3. \A g \in t.fills : g.level # f.level
    BY <1>6, <2>2 DEF TransactionAddsUp
  <2>4. \A e \in LedgerAfter(t) : e \notin LedgerEntries(f)
    <3>1. ASSUME NEW e \in LedgerEntries(f) PROVE e \notin ledger
      BY <1>7, <2>1, <2>2, EntriesOfFill
    <3>2. ASSUME NEW g \in t.fills, NEW e \in LedgerEntries(f) PROVE e \notin LedgerEntries(g)
      <4>1. FillOK(g)
        BY <1>7 DEF FillsOf
      <4>2. e \in LedgerEntries(g) => [f EXCEPT !.fee = 0] = [g EXCEPT !.fee = 0]
        <5>1. e.fill = [f EXCEPT !.fee = 0]
          BY DEF LedgerEntries
        <5>2. e \in LedgerEntries(g) => e.fill = [g EXCEPT !.fee = 0]
          BY DEF LedgerEntries
        <5>. QED
          BY <5>1, <5>2
      <4>3. [f EXCEPT !.fee = 0].level = f.level /\ [g EXCEPT !.fee = 0].level = g.level
        BY <2>1, <4>1 DEF FillOK
      <4>. QED
        BY <2>3, <4>2, <4>3
    <3>. QED
      BY <3>1, <3>2 DEF LedgerAfter
  <2>5. LedgerAfter(u) = LedgerAfter(t) \cup LedgerEntries(f)
    BY <1>10 DEF LedgerAfter
  <2>6. Money(LedgerAfter(u), i.run) = Money(LedgerAfter(t), i.run) + FillFlow(f)
    <3>1. PICK L : L = LedgerAfter(t)
      OBVIOUS
    <3>2. PICK K : K = LedgerAfter(u)
      OBVIOUS
    <3>3. PICK run : run = i.run
      OBVIOUS
    <3>4. EntriesOK(L) /\ K = L \cup LedgerEntries(f) /\ \A e \in L : e \notin LedgerEntries(f)
      BY <1>7, <2>4, <2>5, <3>1, <3>2
    <3>5. Money(K, run) = Money(L, run) + IF run = i.run THEN FillFlow(f) ELSE 0
      BY <1>7, <2>1, <2>2, <3>4, FillMoney
    <3>. QED
      BY <3>1, <3>2, <3>3, <3>5
  <2>7. PICK pos : pos = t.pos
    OBVIOUS
  <2>8. /\ PosKept(pos) /\ MoneyOK(pos) /\ Funded(t, pos)
        /\ i.side # "BUY" => Exact(pos) /\ pos.units >= f.size
    <3>1. i.side # "BUY" => pos.units >= t.remaining
      BY <1>5, <1>6, <2>7 DEF LongOnlyTransaction
    <3>2. pos.units \in Int /\ t.remaining \in Int
      BY <1>6, <2>7 DEF TxOK, MoneyOK
    <3>. QED
      BY <1>5, <1>6, <1>8, <2>2, <2>7, <3>1, <3>2 DEF TransactionBalances, TxOK
  <2>9. PICK q : q = u.pos
    OBVIOUS
  <2>10. /\ PosKept(q) /\ (i.side # "BUY" => Exact(q))
         /\ q.cost - q.realized = pos.cost - pos.realized - FillFlow(f)
    <3>1. q = UpdatePosition(pos, f)
      BY <1>10, <2>7, <2>9
    <3>. QED
      BY <2>1, <2>2, <2>8, <3>1, UpdateKept
  <2>11. Funded(u, q)
    <3>1. /\ Gap(Others(i)) \in Int /\ Money(LedgerAfter(t), i.run) \in Int
      BY <1>7, OthersType, MoneyType DEF Balance
    <3>2. FillFlow(f) \in Int
      <4>1. PICK n \in Nat, fee \in Nat : n = Notional(f.price, f.size) /\ fee = f.fee
        BY <2>1, NotionalType DEF FillOK
      <4>. QED
        BY <4>1 DEF FillFlow
    <3>3. pos.cost - pos.realized \in Int /\ q.cost - q.realized \in Int
      <4>1. MoneyOK(q)
        BY <1>1, <2>9 DEF TxOK
      <4>. QED
        BY <2>8, <4>1 DEF MoneyOK
    <3>4. PICK a, b, g, m, x \in Int :
            /\ a = pos.cost - pos.realized /\ b = q.cost - q.realized /\ g = Gap(Others(i))
            /\ m = Money(LedgerAfter(t), i.run) /\ x = FillFlow(f)
      BY <3>1, <3>2, <3>3
    <3>5. a + g + m = 0
      BY <1>5, <2>8, <3>4 DEF Funded
    <3>6. b = a - x
      BY <2>10, <3>4
    <3>7. Money(LedgerAfter(u), i.run) = m + x
      BY <2>6, <3>4
    <3>8. b + g + (m + x) = 0
      BY <3>5, <3>6
    <3>. QED
      BY <1>8, <3>4, <3>7, <3>8 DEF Funded
  <2>12. TransactionBalances("walk", u)
    BY <1>5, <1>6, <1>8, <2>9, <2>10, <2>11 DEF TransactionBalances
  <2>. QED
    BY <1>1, <1>4, <2>12, SessionStepBalances
<1>. QED
  BY <1>2, <1>3, <1>9, <1>10 DEF Moves

LEMMA FinishWalkBalances ==
  ASSUME TypeOK, TransactionsMatch, Balance, NEW s \in Sessions, FinishWalk(s)
  PROVE  Balance'
<1>1. PICK u : tx' = [tx EXCEPT ![s] = u] /\ Ends(tx[s], u)
  BY FinishWalkEffect
<1>2. PICK t : t = tx[s]
  OBVIOUS
<1>3. /\ pc[s] = "walk" /\ pc' = [pc EXCEPT ![s] = "ready"]
      /\ UNCHANGED <<ledger, positions, portfolios, clock>>
  BY DEF FinishWalk, tables, caller
<1>4. TxOK(t) /\ TransactionMatches("walk", t) /\ TransactionBalances("walk", t)
  BY <1>2, <1>3 DEF TypeOK, TransactionsMatch, Balance, TransactionsBalance
<1>5. u.intent = t.intent
  BY <1>1, <1>2 DEF Ends
<1>6. CASE EndsUnfilled(t, u)
  <2>1. u.row = None
    BY <1>4, <1>6 DEF EndsUnfilled, TransactionMatches
  <2>2. TransactionBalances("ready", u)
    BY <1>4, <1>5, <2>1 DEF TransactionBalances
  <2>. QED
    BY <1>1, <1>3, <2>2, SessionStepBalances
<1>7. CASE EndsFilled(t, u)
  <2>1. PICK i : i = t.intent
    OBVIOUS
  <2>2. PICK pos : pos = t.pos
    OBVIOUS
  <2>3. PICK row : row = PositionRow(i, pos, t.mark)
    OBVIOUS
  <2>4. u.fills = t.fills /\ u.row = row
    BY <1>7, <2>1, <2>2, <2>3 DEF EndsFilled
  <2>5. /\ RowOf(row, i) /\ row.ven = i.ven /\ row.mark = t.mark
        /\ row.units = pos.units /\ row.cost = pos.cost /\ row.avg = pos.avg
        /\ row.realized = pos.realized
        /\ row.unrealized = IF t.mark # None /\ pos.avg # None /\ pos.units > 0
                              THEN (t.mark * Scale - pos.avg) * pos.units ELSE 0
    BY <2>3 DEF PositionRow, RowOf
  <2>6. PosKept(pos) /\ t.mark # 0 /\ Funded(t, pos) /\ i \in Intents
    BY <1>4, <2>1, <2>2 DEF TransactionBalances, TxOK
  <2>7. RowKept(row)
    <3>1. PosKept(row)
      BY <2>5, <2>6 DEF PosKept
    <3>. QED
      BY <2>5, <2>6, <3>1 DEF RowKept
  <2>8. Funded(u, row)
    <3>1. LedgerAfter(u) = LedgerAfter(t)
      BY <2>4 DEF LedgerAfter
    <3>. QED
      BY <1>5, <2>1, <2>5, <2>6, <3>1 DEF Funded
  <2>9. TransactionBalances("ready", u)
    BY <1>4, <1>5, <2>1, <2>4, <2>5, <2>7, <2>8 DEF TransactionBalances
  <2>. QED
    BY <1>1, <1>3, <2>9, SessionStepBalances
<1>. QED
  BY <1>1, <1>2, <1>6, <1>7 DEF Ends

LEMMA SavePortfolioBalances ==
  ASSUME TypeOK, RowsOrdered, TransactionsBacked, TransactionsAddUp, StoredInOrder, TransactionsMatch,
         SingleFile, VenuePerMarket, Balance, NEW s \in Sessions, SavePortfolio(s)
  PROVE  Balance'
<1>1. PICK t : t = tx[s]
  OBVIOUS
<1>2. PICK i : i = t.intent
  OBVIOUS
<1>3. PICK q : q = ComputePortfolio(t)
  OBVIOUS
<1>4. PICK u : u = [t EXCEPT !.portfolio = q]
  OBVIOUS
<1>5. /\ tx' = [tx EXCEPT ![s] = u] /\ pc[s] = "ready" /\ pc' = [pc EXCEPT ![s] = "saved"]
      /\ UNCHANGED <<ledger, positions, portfolios, clock>>
  BY <1>1, <1>3, <1>4 DEF SavePortfolio, tables, caller
<1>6. TxOK(t) /\ TransactionBalances("ready", t)
  BY <1>1, <1>5 DEF TypeOK, Balance, TransactionsBalance
<1>7. u.intent = i /\ u.fills = t.fills /\ u.row = t.row /\ u.portfolio = q
  BY <1>2, <1>4, <1>6 DEF TxOK
<1>8. /\ i \in Intents /\ EntriesOK(LedgerAfter(t))
      /\ \A e \in LedgerAfter(t) : EntryIntent(e).asof <= i.asof
  BY <1>1, <1>2, <1>5, LedgerAfterIs
<1>9. i.run # None
  BY <1>8 DEF SingleFile
<1>10. /\ q.run = i.run /\ q.asof = i.asof
       /\ (t.row # None => Exact(t.row))
            => Balanced(q, AmountSum(BuyFees(LedgerAfter(t), i.run)))
  <2>1. q.run = i.run /\ q.asof = i.asof
    BY <1>2, <1>3 DEF ComputePortfolio
  <2>2. ASSUME t.row # None => Exact(t.row)
        PROVE  Balanced(q, AmountSum(BuyFees(LedgerAfter(t), i.run)))
    <3>1. PICK P : P = PositionsAfter(t)
      OBVIOUS
    <3>2. /\ RowsOf(P) /\ \A p \in P : digest[p] \in Nat /\ p.asof <= i.asof
          /\ Gap(Current(P, i.run)) + Money(LedgerAfter(t), i.run) = 0
      BY <1>1, <1>2, <1>5, <2>2, <3>1, WillBalance
    <3>3. PICK H : H = LatestPositions(P, i.run, i.asof)
      OBVIOUS
    <3>4. H = Current(P, i.run)
      BY <1>9, <3>2, <3>3, HeldIsCurrent
    <3>5. IsFiniteSet(H) /\ \A p \in H : PositionOK(p)
      <4>1. H \subseteq P
        BY <3>4 DEF Current
      <4>. QED
        BY <3>2, <4>1, FS_Subset DEF RowsOf
    <3>6. PICK L : L = LedgerAfter(t)
      OBVIOUS
    <3>7. PICK run, asof : run = i.run /\ asof = i.asof
      OBVIOUS
    <3>8. /\ EntriesOK(L) /\ (\A e \in L : EntryIntent(e).asof <= asof)
          /\ Gap(H) + Money(L, run) = 0 /\ H = LatestPositions(PositionsAfter(t), run, asof)
          /\ run = t.intent.run /\ asof = t.intent.asof /\ run # None
      BY <1>2, <1>8, <1>9, <3>1, <3>2, <3>3, <3>4, <3>6, <3>7
    <3>9. Balanced(ComputePortfolio(t), AmountSum(BuyFees(L, run)))
      BY <3>5, <3>6, <3>8, PortfolioIs
    <3>. QED
      BY <1>3, <3>6, <3>7, <3>9
  <2>. QED
    BY <2>1, <2>2
<1>11. LedgerAfter(u) = LedgerAfter(t)
  BY <1>7 DEF LedgerAfter
<1>12. TransactionBalances("saved", u)
  BY <1>2, <1>6, <1>7, <1>10, <1>11 DEF TransactionBalances, Funded
<1>. QED
  BY <1>5, <1>12, SessionStepBalances
-----------------------------------------------------------------------------
(* The row of a commit takes the place of the one the call started from,   *)
(* and the portfolio of a commit is later than all that is stored.         *)
LEMMA CommitBalances ==
  ASSUME TypeOK, RowsOrdered, TransactionsBacked, TransactionsAddUp, StoredInOrder, OneWriter,
         TransactionsMatch, SingleFile, VenuePerMarket, Balance, AveragesExact',
         NEW s \in Sessions, Commit(s)
  PROVE  Balance'
<1>1. PICK t : t = tx[s]
  OBVIOUS
<1>2. PICK i : i = t.intent
  OBVIOUS
<1>3. PICK P : P = PositionsAfter(t)
  OBVIOUS
<1>4. PICK L : L = LedgerAfter(t)
  OBVIOUS
<1>5. /\ pc[s] = "saved" /\ positions' = P /\ ledger' = L
      /\ portfolios' = portfolios \cup {t.portfolio} /\ clock' = clock
  BY <1>1, <1>3, <1>4 DEF Commit, caller
<1>6. TransactionBalances("saved", t) /\ TransactionMatches("saved", t) /\ TxOK(t)
  BY <1>1, <1>5 DEF Balance, TransactionsBalance, TransactionsMatch, TypeOK
<1>7. /\ i \in Intents /\ i.asof \in Nat /\ i.asof = clock
      /\ EntriesOK(L) /\ ledger \subseteq L
      /\ \A e \in L : e \in ledger \/ EntryIntent(e) = i
      /\ \A e \in L : EntryIntent(e).asof <= i.asof
      /\ (t.fills = {} => L = ledger)
  BY <1>1, <1>2, <1>4, <1>5, LedgerAfterIs
<1>8. i.run # None
  BY <1>7 DEF SingleFile
<1>9. t.row # None => Exact(t.row)
  <2>1. t.row # None => t.row \in positions'
    BY <1>3, <1>5 DEF PositionsAfter
  <2>. QED
    BY <2>1 DEF AveragesExact
<1>10. RowsOf(P) /\ Gap(Current(P, i.run)) + Money(L, i.run) = 0
  BY <1>1, <1>2, <1>3, <1>4, <1>5, <1>9, WillBalance
<1>11. ASSUME NEW j \in Intents
       PROVE  Gap(Current(P, j.run)) + Money(L, j.run) = 0
  <2>1. CASE j.run = i.run
    BY <1>10, <2>1
  <2>2. CASE j.run # i.run
    <3>1. Money(L, j.run) = Money(ledger, j.run)
      BY <1>7, <2>2, MoneyOfOthers
    <3>2. Current(P, j.run) = Current(positions, j.run)
      <4>1. CASE t.row = None
        BY <1>3, <4>1 DEF PositionsAfter
      <4>2. CASE t.row # None
        <5>1. P = positions \cup {t.row} /\ t.row.run = i.run
          BY <1>2, <1>3, <1>6, <4>2 DEF PositionsAfter, TransactionMatches, RowOf
        <5>. QED
          BY <2>2, <5>1 DEF Current
      <4>. QED
        BY <4>1, <4>2
    <3>. QED
      BY <3>1, <3>2 DEF Balance, HeldBalances
  <2>. QED
    BY <2>1, <2>2
<1>12. HeldBalances' /\ RowsOf(positions)'
  BY <1>5, <1>10, <1>11 DEF HeldBalances
<1>13. ASSUME NEW p \in portfolios'
       PROVE  /\ p.asof \in Nat /\ p.asof <= clock /\ p.run # None
              /\ Balanced(p, PurchaseFees(p.run, p.asof)')
  <2>1. CASE p = t.portfolio
    <3>1. p.run = i.run /\ p.asof = i.asof /\ Balanced(p, AmountSum(BuyFees(L, i.run)))
      BY <1>2, <1>4, <1>6, <1>9, <2>1 DEF TransactionBalances
    <3>2. PurchaseFees(p.run, p.asof)' = AmountSum(BuyFees(L, i.run))
      <4>1. {e \in L : /\ e.type = "FEE_DEBIT" /\ EntryIntent(e).side = "BUY"
                       /\ OfRun(p.run, EntryIntent(e).run) /\ EntryIntent(e).asof <= p.asof}
              = BuyFees(L, i.run)
        BY <1>7, <1>8, <3>1 DEF BuyFees, OfRun
      <4>. QED
        BY <1>5, <4>1 DEF PurchaseFees
    <3>. QED
      BY <1>7, <1>8, <3>1, <3>2
  <2>2. CASE p \in portfolios
    <3>1. /\ p.asof \in Nat /\ p.asof <= clock /\ p.run # None
          /\ Balanced(p, PurchaseFees(p.run, p.asof))
      BY <2>2 DEF Balance, PortfoliosBalance
    <3>2. p.asof < i.asof
      BY <1>2, <1>6, <2>2 DEF TransactionBalances
    <3>3. \A e \in L : e \in ledger \/ ~(EntryIntent(e).asof <= p.asof)
      BY <1>7, <3>1, <3>2
    <3>4. {e \in L : /\ e.type = "FEE_DEBIT" /\ EntryIntent(e).side = "BUY"
                     /\ OfRun(p.run, EntryIntent(e).run) /\ EntryIntent(e).asof <= p.asof}
            = {e \in ledger : /\ e.type = "FEE_DEBIT" /\ EntryIntent(e).side = "BUY"
                              /\ OfRun(p.run, EntryIntent(e).run) /\ EntryIntent(e).asof <= p.asof}
      BY <1>7, <3>3
    <3>5. PurchaseFees(p.run, p.asof)' = PurchaseFees(p.run, p.asof)
      BY <1>5, <3>4 DEF PurchaseFees
    <3>. QED
      BY <3>1, <3>5
  <2>. QED
    BY <1>5, <2>1, <2>2
<1>14. PortfoliosBalance'
  BY <1>5, <1>13 DEF PortfoliosBalance
<1>15. \A r \in Sessions : pc'[r] = "idle"
  BY <1>5 DEF OneWriter, Commit, Leave, TypeOK
<1>16. TransactionsBalance'
  BY <1>15 DEF TransactionsBalance
<1>. QED
  BY <1>12, <1>14, <1>16 DEF Balance
-----------------------------------------------------------------------------
LEMMA StepBalances ==
  ASSUME Balancing, AveragesExact, AveragesExact',
         SingleFile, NoShortPolicy, VenuePerMarket, QuotesPriced, [Next]_vars
  PROVE  Balance'
<1>0. /\ TypeOK /\ RowsOrdered /\ TransactionsConsistent /\ TransactionsBacked
      /\ TransactionsAddUp /\ StoredInOrder /\ OneWriter /\ TransactionsMatch /\ Balance
  BY DEF Balancing, Matching, Totals, Backing, Consistency
<1>1. CASE \/ \E b \in Books : CaptureBook(b)
           \/ \E q \in Quotes : DeriveQuote(q)
           \/ \E p \in Policies : SavePolicy(p)
           \/ UNCHANGED vars
  <2>1. UNCHANGED <<ledger, positions, portfolios, clock, pc, tx>>
    BY <1>1 DEF CaptureBook, DeriveQuote, SavePolicy, vars, tables, caller
  <2>. QED
    BY <1>0, <2>1 DEF Balance, HeldBalances, PortfoliosBalance, PurchaseFees, TransactionsBalance,
                      TransactionBalances, Funded, Others, LedgerAfter
<1>2. ASSUME NEW s \in Sessions, NEW i \in Intents, NEW d \in DecisionSpace, Submit(s, i, d),
             NEW order, NEW left, NEW remaining, NEW pos, NEW next \in {"walk", "ready"},
             Enter(s, next, Transaction(i, order, left, remaining, pos)),
             next = "walk" => pos = PreviousPosition(i)
      PROVE  Balance'
  <2>1. PICK t : t = Transaction(i, order, left, remaining, pos)
    OBVIOUS
  <2>2. /\ t.intent = i /\ t.row = None /\ t.fills = {} /\ t.pos = pos
        /\ t.mark = MarkPrice(LatestQuote(i.mkt, i.asof))
    BY <2>1 DEF Transaction
  <2>3. t.mark # 0
    BY <1>0, <2>2, MarkIsPriced
  <2>4. clock <= i.asof /\ i.run # None /\ i.out # None
    BY <1>0, <1>2, IntentsAssumption DEF Submit, SingleFile, TypeOK
  <2>5. ASSUME next = "walk"
        PROVE  /\ PosKept(pos) /\ Exact(pos)
               /\ pos.cost - pos.realized + Gap(Others(i)) + Money(ledger, i.run) = 0
    <3>1. pos = PreviousPosition(i)
      BY <1>2, <2>5
    <3>2. /\ PosKept(pos) /\ Exact(pos)
          /\ pos.cost - pos.realized + Gap(Others(i)) = Gap(Current(positions, i.run))
      BY <1>0, <2>4, <3>1, PreviousGap DEF Balance
    <3>3. Gap(Current(positions, i.run)) + Money(ledger, i.run) = 0
      BY <1>0 DEF Balance, HeldBalances
    <3>. QED
      BY <3>2, <3>3
  <2>. QED
    BY <1>0, <1>2, <2>1, <2>2, <2>3, <2>5, EnterBalances
<1>3. ASSUME NEW s \in Sessions, NEW i \in Intents, NEW d \in DecisionSpace,
             RejectIntent(s, i, d) \/ RestOrder(s, i, d) \/ StartWalk(s, i, d)
      PROVE  Balance'
  <2>1. Submit(s, i, d)
    BY <1>3 DEF RejectIntent, RestOrder, StartWalk
  <2>2. CASE RejectIntent(s, i, d)
    BY <1>2, <2>1, <2>2 DEF RejectIntent
  <2>3. CASE RestOrder(s, i, d)
    BY <1>2, <2>1, <2>3 DEF RestOrder
  <2>4. CASE StartWalk(s, i, d)
    BY <1>2, <2>1, <2>4 DEF StartWalk
  <2>. QED
    BY <1>3, <2>2, <2>3, <2>4
<1>4. ASSUME NEW s \in Sessions, FillLevel(s)
      PROVE  Balance'
  BY <1>0, <1>4, FillLevelBalances
<1>5. ASSUME NEW s \in Sessions, FinishWalk(s)
      PROVE  Balance'
  BY <1>0, <1>5, FinishWalkBalances
<1>6. ASSUME NEW s \in Sessions, SavePortfolio(s)
      PROVE  Balance'
  BY <1>0, <1>6, SavePortfolioBalances
<1>7. ASSUME NEW s \in Sessions, Commit(s)
      PROVE  Balance'
  BY <1>0, <1>7, CommitBalances
<1>8. ASSUME NEW s \in Sessions, Abort(s)
      PROVE  Balance'
  <2>1. /\ pc' = [pc EXCEPT ![s] = "idle"] /\ tx' = [tx EXCEPT ![s] = None]
        /\ UNCHANGED <<ledger, positions, portfolios, clock>>
    BY <1>8 DEF Abort, Leave, tables, caller
  <2>. QED
    BY <1>0, <2>1, SessionStepBalances
<1>. QED
  BY <1>1, <1>3, <1>4, <1>5, <1>6, <1>7, <1>8 DEF Next, Step, Proceed

LEMMA BalanceAtFirst ==
  ASSUME Init
  PROVE  Balance
<1>1. /\ ledger = {} /\ positions = {} /\ portfolios = {} /\ \A s \in Sessions : pc[s] = "idle"
  BY DEF Init
<1>2. IsFiniteSet({})
  BY FS_EmptySet
<1>3. \A run : Current({}, run) = {}
  BY DEF Current
<1>4. \A run : Money({}, run) = 0
  <2>1. AmountSum({}) = 0
    BY <1>2, AmountSumStep
  <2>2. \A run, type : Entries({}, run, type) = {} /\ BuyFees({}, run) = {}
    BY DEF Entries, BuyFees
  <2>. QED
    BY <2>1, <2>2 DEF Money
<1>5. HeldBalances
  BY <1>1, <1>3, <1>4, GapOfNone DEF HeldBalances
<1>. QED
  BY <1>1, <1>2, <1>5 DEF Balance, RowsOf, PortfoliosBalance, TransactionsBalance

(* Where the callers of one desk come one at a time, with increasing as-of *)
(* timestamps, and name a run and an outcome, no policy allows shorts, a   *)
(* market is of one venue and no quote is of price zero, and while every   *)
(* stored average cost times the units is the stored cost (the code        *)
(* divides, and what a division rounds off is lost with the next sale),    *)
(* the equity of every stored portfolio is the initial cash with the       *)
(* realized and unrealized profit of the positions, less the fees on       *)
(* purchases: the ledger and the chain of position rows account for the    *)
(* same money, whatever is bought, sold, refused or rolled back.           *)
THEOREM PortfoliosAddUp ==
  ASSUME SingleFile, NoShortPolicy, VenuePerMarket, QuotesPriced
  PROVE  Spec /\ []AveragesExact => []EquityBalances
<1>1. Balancing => EquityBalances
  BY DEF Balancing, Balance, PortfoliosBalance, Balanced, EquityBalances
<1>2. Balancing /\ AveragesExact /\ AveragesExact' /\ Matching' /\ [Next]_vars => Balancing'
  BY StepBalances DEF Balancing
<1>3. Init /\ Matching => Balancing
  BY BalanceAtFirst DEF Balancing
<1>4. Spec => []Matching
  BY MatchingHolds
<1>. QED
  BY <1>1, <1>2, <1>3, <1>4, PTL DEF Spec
=============================================================================
