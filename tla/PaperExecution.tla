---------------------------- MODULE PaperExecution ----------------------------
(***************************************************************************)
(* The paper execution simulator: PaperExecutionService.simulate_trade_    *)
(* intent with the fill simulator, the ledger, the position and the        *)
(* portfolio computations it calls, over the tables it reads and writes.   *)
(*                                                                         *)
(* One call runs inside one database transaction.  A session opens the     *)
(* transaction and evaluates the intent against what is committed          *)
(* (RejectIntent, RestOrder or StartWalk), walks the book one level at a   *)
(* time (FillLevel, FinishWalk), computes the portfolio (SavePortfolio)    *)
(* and commits, or is rolled back at any point (Abort).  Sessions          *)
(* interleave between those steps, as READ COMMITTED transactions do.      *)
(*                                                                         *)
(* Every row is stored with session.merge under an id that is the hash of  *)
(* its content, so an id is modelled by the content that is hashed.  Money *)
(* is an integer: prices are ticks, and cost, fee and profit are ticks     *)
(* times Scale, so that the divisions of average cost stay exact.          *)
(***************************************************************************)
EXTENDS DeskBase, FiniteSets, FiniteSetsExt

CONSTANTS
  Sessions,        \* concurrent callers of simulate_trade_intent
  Intents,         \* the trade intents callers may submit
  DecisionSpace,   \* decisions the pre-trade gate may return
  Policies,        \* versions of the active paper execution policy
  Books,           \* order book snapshots that may be captured
  Quotes,          \* price snapshots that may be derived
  InitialCash,     \* initial_cash_simulated, in ticks times Scale
  Scale,           \* sub-tick resolution of cost, fee and profit
  HashRanks,       \* ranks of position_snapshot_id in the id order
  MaxAttempts,     \* bound: how often one intent may be submitted
  MonotoneCallers, \* callers use strictly increasing as-of timestamps
  ExclusiveWriter  \* the database admits one open write transaction

Sides == {"BUY", "SELL", "UNKNOWN"}
Types == {"PASSIVE_LIMIT", "AGGRESSIVE_LIMIT", "MARKET_LIKE", "RESEARCH_ONLY", "UNKNOWN"}
GateActions == {"ALLOW", "ALLOW_SMALLER_SIZE", "PASSIVE_ONLY", "MANUAL_REVIEW", "NO_TRADE"}
FillModels == {"IMMEDIATE_TOP_OF_BOOK", "IMMEDIATE_WALK_BOOK",
               "PASSIVE_NO_FILL_V1", "RESEARCH_NO_FILL"}

ASSUME NoneAssumption == None \notin Int /\ None \notin Books /\ None \notin Quotes

ASSUME IntentsAssumption ==
  \A i \in Intents :
    /\ DOMAIN i = {"mkt", "out", "ven", "run", "side", "type", "limit", "size", "asof"}
    /\ i.side \in Sides /\ i.type \in Types
    /\ i.limit \in Int \cup {None} /\ i.size \in Nat \ {0} /\ i.asof \in Nat

ASSUME DecisionsAssumption ==
  \A d \in DecisionSpace : d.act \in GateActions /\ d.final \in Nat

ASSUME PoliciesAssumption ==
  \A p \in Policies :
    /\ p.model \in FillModels /\ p.feeBps \in Nat
    /\ {p.shorts, p.partial, p.smaller, p.passive, p.rejectMR, p.rejectNT, p.requireAllow}
         \subseteq BOOLEAN

ASSUME BooksAssumption ==
  \A b \in Books :
    /\ b.captured \in Nat
    /\ \A l \in b.asks \cup b.bids : l.price \in Nat /\ l.qty \in Nat

ASSUME QuotesAssumption ==
  \A q \in Quotes :
    /\ q.available \in Nat
    /\ {q.price, q.mid, q.last, q.bid, q.ask} \subseteq Nat \cup {None}

ASSUME ScaleAssumption == Scale \in Nat \ {0} /\ InitialCash \in Int

(* Snapshots of one as-of timestamp never run out of distinct id ranks.    *)
ASSUME HashRanksAssumption ==
  /\ HashRanks \subseteq Nat /\ MaxAttempts \in Nat
  /\ \A i \in Intents :
       Cardinality(HashRanks) >= MaxAttempts * Cardinality({j \in Intents : j.asof = i.asof})

(* None is no row of the position table.                                   *)
ASSUME NoRowAssumption ==
  None \notin [run : {i.run : i \in Intents}, mkt : {i.mkt : i \in Intents},
                out : {i.out : i \in Intents}, ven : {i.ven : i \in Intents},
                asof : Nat, units : Int, cost : Nat, avg : Int \cup {None}, realized : Int,
                unrealized : Int, mark : Nat \cup {None}]

ASSUME ModeAssumption == MonotoneCallers \in BOOLEAN /\ ExclusiveWriter \in BOOLEAN

VARIABLES
  books, quotes,   \* market data captured so far
  policy,          \* the stored paper execution policy
  orders,          \* paper_orders
  fills,           \* paper_fills
  ledger,          \* paper_ledger_entries
  positions,       \* paper_position_snapshots
  portfolios,      \* paper_portfolio_snapshots
  digest,          \* rank of the hash of each position snapshot computed so far
  attempts,        \* how often each intent was submitted
  clock,           \* the latest as-of timestamp submitted
  pc, tx           \* per session: where it is, and its open transaction

market == <<books, quotes>>
tables == <<orders, fills, ledger, positions, portfolios>>
caller == <<attempts, clock>>
vars == <<market, policy, tables, digest, caller, pc, tx>>
-----------------------------------------------------------------------------
(* What the gate promises about a decision: the tail of _build_decision.   *)
GateContract(i, d) ==
  /\ d.final <= i.size
  /\ d.act \in {"MANUAL_REVIEW", "NO_TRADE"} => d.final = 0
  /\ d.act = "ALLOW" => d.final = i.size

(* Faulty: a reduced size is accepted in full.                             *)
FaultyAcceptedSize(i, pol, d) ==
  IF d.act = "ALLOW" \/ (d.act = "ALLOW_SMALLER_SIZE" /\ pol.smaller) THEN i.size ELSE 0

AcceptedSize(i, pol, d) ==
  IF d.act = "ALLOW" THEN i.size
  ELSE IF \/ d.act = "ALLOW_SMALLER_SIZE" /\ pol.smaller
          \/ d.act = "PASSIVE_ONLY" /\ pol.passive
               /\ i.type \in {"PASSIVE_LIMIT", "RESEARCH_ONLY"}
     THEN Min({i.size, d.final})
  ELSE 0

(* _rejection_codes returns at least one code. *)
RejectedByGate(i, pol, d) ==
  \/ d.act = "NO_TRADE" /\ pol.rejectNT
  \/ d.act = "MANUAL_REVIEW" /\ pol.rejectMR
  \/ d.act = "PASSIVE_ONLY" /\ i.type \in {"AGGRESSIVE_LIMIT", "MARKET_LIKE"}
  \/ pol.requireAllow /\ AcceptedSize(i, pol, d) <= 0

OrderFromPretrade(i, pol, d) ==
  [id        |-> [intent |-> i, decision |-> d, policy |-> pol.id,
                  accepted |-> AcceptedSize(i, pol, d)],
   accepted  |-> AcceptedSize(i, pol, d),
   filled    |-> 0,
   remaining |-> AcceptedSize(i, pol, d),
   status    |-> IF RejectedByGate(i, pol, d) THEN "REJECTED" ELSE "ACCEPTED"]
-----------------------------------------------------------------------------
(* As-of reads *)
(* Faulty: the newest book is read, of whatever time.                      *)
FaultyLatestBook(m, t) ==
  LET seen == {b \in books : b.mkt = m}
  IN  IF seen = {} THEN None ELSE CHOOSE b \in seen : \A c \in seen : c.captured <= b.captured

LatestBook(m, t) ==
  LET seen == {b \in books : b.mkt = m /\ b.captured <= t}
  IN  IF seen = {} THEN None ELSE CHOOSE b \in seen : \A c \in seen : c.captured <= b.captured

LatestQuote(m, t) ==
  LET seen == {q \in quotes : q.mkt = m /\ q.available <= t}
  IN  IF seen = {} THEN None ELSE CHOOSE q \in seen : \A r \in seen : r.available <= q.available

(* A filter that is None is not applied: a query without a run or without  *)
(* an outcome ranges over every run or outcome of the market.              *)
InScope(p, i) ==
  /\ p.mkt = i.mkt
  /\ i.out # None => p.out = i.out
  /\ i.run # None => p.run = i.run

(* Faulty: the read orders the snapshots oldest first.                     *)
FaultyLatestPaperPosition(i) ==
  LET seen == {p \in positions : InScope(p, i) /\ p.asof <= i.asof}
  IN  IF seen = {} THEN None ELSE CHOOSE p \in seen : \A q \in seen : p.asof <= q.asof

(* Newest first; among equal timestamps the smallest snapshot id wins.     *)
LatestPaperPosition(i) ==
  LET seen == {p \in positions : InScope(p, i) /\ p.asof <= i.asof}
  IN  IF seen = {} THEN None
      ELSE CHOOSE p \in seen : \A q \in seen :
             \/ q.asof < p.asof
             \/ q.asof = p.asof /\ digest[p] <= digest[q]

Flat == [units |-> 0, cost |-> 0, avg |-> None, realized |-> 0]

PreviousPosition(i) ==
  LET p == LatestPaperPosition(i)
  IN  IF p = None THEN Flat
      ELSE [units |-> p.units, cost |-> p.cost, avg |-> p.avg, realized |-> p.realized]
-----------------------------------------------------------------------------
(* The fill simulator *)
Crosses(i, l) ==
  \/ i.limit = None
  \/ i.side = "BUY" /\ l.price <= i.limit
  \/ i.side = "SELL" /\ l.price >= i.limit

BetterOrEqual(i, l, k) == IF i.side = "BUY" THEN l.price <= k.price ELSE l.price >= k.price

(* The levels of the other side whose price the limit accepts.             *)
CandidateLevels(i, b) ==
  LET side == CASE i.side = "BUY" -> b.asks [] i.side = "SELL" -> b.bids [] OTHER -> {}
  IN  {l \in side : Crosses(i, l)}

(* The levels the loop may visit: one of the best, or all.                 *)
LevelsOf(candidates, i, model) ==
  IF model = "IMMEDIATE_TOP_OF_BOOK"
    THEN {{l} : l \in {l \in candidates : \A k \in candidates : BetterOrEqual(i, l, k)}}
    ELSE {candidates}

LongOnlySale(i, pol) == i.side = "SELL" /\ ~pol.shorts

NeverFills(i, pol) ==
  \/ i.type \in {"RESEARCH_ONLY", "PASSIVE_LIMIT"}
  \/ pol.model \in {"RESEARCH_NO_FILL", "PASSIVE_NO_FILL_V1"}
  \/ LatestBook(i.mkt, i.asof) = None

ShortBlocked(i, pol) == LongOnlySale(i, pol) /\ PreviousPosition(i).units <= 0

Rejects(i, pol, d) ==
  \/ RejectedByGate(i, pol, d)
  \/ AcceptedSize(i, pol, d) <= 0
  \/ ~NeverFills(i, pol) /\ ShortBlocked(i, pol)

Rests(i, pol, d) ==
  /\ ~Rejects(i, pol, d)
  /\ \/ NeverFills(i, pol)
     \/ /\ ~NeverFills(i, pol)
        /\ CandidateLevels(i, LatestBook(i.mkt, i.asof)) = {}

(* Faulty: a sale is not cut to the position it reduces.                   *)
FaultyFillLimit(i, pol, accepted) == accepted

FillLimit(i, pol, accepted) ==
  IF LongOnlySale(i, pol) THEN Min({accepted, PreviousPosition(i).units}) ELSE accepted

(* price or mid or last_trade_price or bid or ask: a zero is false.        *)
MarkPrice(q) ==
  IF q = None THEN None
  ELSE LET truthy(x) == x # None /\ x # 0
       IN  CASE truthy(q.price) -> q.price
             [] ~truthy(q.price) /\ truthy(q.mid) -> q.mid
             [] ~truthy(q.price) /\ ~truthy(q.mid) /\ truthy(q.last) -> q.last
             [] ~truthy(q.price) /\ ~truthy(q.mid) /\ ~truthy(q.last) /\ truthy(q.bid) -> q.bid
             [] OTHER -> q.ask

Notional(price, size) == price * size * Scale

(* Faulty: the fee is a rebate.                                            *)
FaultySimulatedFee(pol, notional) == -((notional * pol.feeBps) \div 10000)

SimulatedFee(pol, notional) == (notional * pol.feeBps) \div 10000

(* The level stands for its index among the candidates, which is hashed.   *)
FillRow(order, book, pol, l, size) ==
  [order |-> order.id, book |-> book, model |-> pol.model, level |-> l, price |-> l.price,
   size |-> size, fee |-> SimulatedFee(pol, Notional(l.price, size))]

(* paper_fill_id hashes everything but the fee.                            *)
SameFill(f, g) == [f EXCEPT !.fee = 0] = [g EXCEPT !.fee = 0]

UpdatePosition(pos, f) ==
  LET notional == Notional(f.price, f.size)
      buy      == f.order.intent.side = "BUY"
      closed   == IF pos.avg = None THEN 0 ELSE pos.avg * f.size
      units    == IF buy THEN pos.units + f.size ELSE pos.units - f.size
      cost     == IF buy THEN pos.cost + notional ELSE Max({0, pos.cost - closed})
  IN  [units    |-> units,
       cost     |-> cost,
       avg      |-> IF units > 0 THEN cost \div units ELSE None,
       realized |-> IF buy THEN pos.realized ELSE pos.realized + notional - closed - f.fee]

(* The row saved for the position the walk ended with.                     *)
PositionRow(i, pos, mark) ==
  [run |-> i.run, mkt |-> i.mkt, out |-> i.out, ven |-> i.ven, asof |-> i.asof,
   units |-> pos.units, cost |-> pos.cost, avg |-> pos.avg, realized |-> pos.realized,
   unrealized |-> IF mark # None /\ pos.avg # None /\ pos.units > 0
                    THEN (mark * Scale - pos.avg) * pos.units ELSE 0,
   mark |-> mark]

LedgerEntries(f) ==
  LET buy == f.order.intent.side = "BUY"
      entry(type, amount) == [fill |-> [f EXCEPT !.fee = 0], type |-> type, amount |-> amount]
  IN  {entry(IF buy THEN "CASH_DEBIT" ELSE "CASH_CREDIT", Notional(f.price, f.size)),
       entry(IF buy THEN "POSITION_INCREASE" ELSE "POSITION_DECREASE", f.size)}
      \cup (IF f.fee > 0 THEN {entry("FEE_DEBIT", f.fee)} ELSE {})
-----------------------------------------------------------------------------
SizeSum(S) == MapThenSumSet(LAMBDA f : f.size, S)
AmountSum(S) == MapThenSumSet(LAMBDA e : e.amount, S)

(* What a transaction sees: the committed rows merged with its own.        *)
OrdersAfter(t) == {o \in orders : o.id # t.order.id} \cup {t.order}

(* Faulty: a retry of a stored order saves no fills.                       *)
SkippedFillsAfter(t) ==
  IF \E o \in orders : o.id = t.order.id THEN fills ELSE fills \cup t.fills

(* Faulty: the fills of one walk share an id.                              *)
MergedFillsAfter(t) ==
  fills \cup IF t.fills = {} THEN {} ELSE {CHOOSE f \in t.fills : TRUE}

FillsAfter(t) == {f \in fills : \A g \in t.fills : ~SameFill(f, g)} \cup t.fills
LedgerAfter(t) == ledger \cup UNION {LedgerEntries(f) : f \in t.fills}
PositionsAfter(t) == IF t.row = None THEN positions ELSE positions \cup {t.row}

EntryIntent(e) == e.fill.order.intent
OfRun(run, rowRun) == run # None => rowRun = run

(* Per market, outcome and venue the newest row; among equal timestamps    *)
(* the largest snapshot id wins.                                           *)
LatestPositions(rows, run, t) ==
  LET seen == {p \in rows : OfRun(run, p.run) /\ p.asof <= t}
  IN  {p \in seen : \A q \in seen :
         <<q.mkt, q.out, q.ven>> = <<p.mkt, p.out, p.ven>> =>
           \/ q.asof < p.asof
           \/ q.asof = p.asof /\ digest[q] <= digest[p]}

(* Faulty: the mark is ignored.                                            *)
FaultyMarkedValue(p) == p.units * (IF p.avg # None THEN p.avg ELSE 0)

(* position.mark_price or average_entry_price or 0, times the units.       *)
MarkedValue(p) ==
  p.units * (IF p.mark # None /\ p.mark # 0 THEN p.mark * Scale
             ELSE IF p.avg # None THEN p.avg ELSE 0)

ComputePortfolio(t) ==
  LET run     == t.intent.run
      asof    == t.intent.asof
      entries == {e \in LedgerAfter(t) : OfRun(run, EntryIntent(e).run) /\ EntryIntent(e).asof <= asof}
      total(type) == AmountSum({e \in entries : e.type = type})
      held    == LatestPositions(PositionsAfter(t), run, asof)
      cash    == InitialCash + total("CASH_CREDIT") - total("CASH_DEBIT") - total("FEE_DEBIT")
      net     == MapThenSumSet(MarkedValue, held)
  IN  [run |-> run, asof |-> asof, cash |-> cash, fees |-> total("FEE_DEBIT"),
       net |-> net, equity |-> cash + net,
       gross |-> MapThenSumSet(LAMBDA p : IF MarkedValue(p) < 0 THEN -MarkedValue(p)
                                          ELSE MarkedValue(p), held),
       realized |-> MapThenSumSet(LAMBDA p : p.realized, held),
       unrealized |-> MapThenSumSet(LAMBDA p : p.unrealized, held),
       open |-> Cardinality({p \in held : p.units # 0}),
       closed |-> Cardinality({p \in held : p.units = 0})]
-----------------------------------------------------------------------------
Init ==
  /\ books = {} /\ quotes = {}
  /\ policy \in Policies
  /\ orders = {} /\ fills = {} /\ ledger = {} /\ positions = {} /\ portfolios = {}
  /\ digest = [p \in {} |-> 0]
  /\ attempts = [i \in Intents |-> 0]
  /\ clock = -1
  /\ pc = [s \in Sessions |-> "idle"]
  /\ tx = [s \in Sessions |-> None]

CaptureBook(b) ==
  /\ b \notin books
  /\ books' = books \cup {b}
  /\ UNCHANGED <<quotes, policy, tables, digest, caller, pc, tx>>

DeriveQuote(q) ==
  /\ q \notin quotes
  /\ quotes' = quotes \cup {q}
  /\ UNCHANGED <<books, policy, tables, digest, caller, pc, tx>>

SavePolicy(p) ==
  /\ p # policy
  /\ policy' = p
  /\ UNCHANGED <<market, tables, digest, caller, pc, tx>>

(* A caller submits intent i and the gate returns d.                       *)
Submit(s, i, d) ==
  /\ pc[s] = "idle"
  /\ ExclusiveWriter => \A r \in Sessions : pc[r] = "idle"
  /\ GateContract(i, d)
  /\ attempts[i] < MaxAttempts
  /\ MonotoneCallers => i.asof > clock
  /\ attempts' = [attempts EXCEPT ![i] = @ + 1]
  /\ clock' = IF i.asof > clock THEN i.asof ELSE clock

Transaction(i, order, left, remaining, pos) ==
  [intent |-> i, order |-> order, policy |-> policy,
   book |-> LatestBook(i.mkt, i.asof), mark |-> MarkPrice(LatestQuote(i.mkt, i.asof)),
   left |-> left, remaining |-> remaining, filled |-> 0, fills |-> {}, pos |-> pos,
   row |-> None, portfolio |-> None]

Enter(s, next, t) ==
  /\ pc' = [pc EXCEPT ![s] = next]
  /\ tx' = [tx EXCEPT ![s] = t]
  /\ UNCHANGED <<market, policy, tables, digest>>

RejectIntent(s, i, d) ==
  /\ Submit(s, i, d)
  /\ Rejects(i, policy, d)
  /\ Enter(s, "ready",
           Transaction(i, [OrderFromPretrade(i, policy, d) EXCEPT !.status = "REJECTED"],
                       {}, 0, Flat))

RestOrder(s, i, d) ==
  /\ Submit(s, i, d)
  /\ Rests(i, policy, d)
  /\ Enter(s, "ready",
           Transaction(i, [OrderFromPretrade(i, policy, d) EXCEPT !.status = "RESTING_UNFILLED"],
                       {}, 0, Flat))

StartWalk(s, i, d) ==
  /\ Submit(s, i, d)
  /\ ~Rejects(i, policy, d) /\ ~Rests(i, policy, d)
  /\ LET order      == OrderFromPretrade(i, policy, d)
         candidates == CandidateLevels(i, LatestBook(i.mkt, i.asof))
     IN  \E levels \in LevelsOf(candidates, i, policy.model) :
           Enter(s, "walk",
                 Transaction(i, order, levels, FillLimit(i, policy, order.accepted),
                             PreviousPosition(i)))

(* One iteration of the loop over the candidate levels.                    *)
FillLevel(s) ==
  /\ pc[s] = "walk"
  /\ tx[s].remaining > 0
  /\ \E l \in tx[s].left :
       /\ \A k \in tx[s].left : BetterOrEqual(tx[s].intent, l, k)
       /\ LET t    == tx[s]
              size == Min({t.remaining, l.qty})
              f    == FillRow(t.order, t.book, t.policy, l, size)
          IN  tx' = [tx EXCEPT ![s] =
                IF size <= 0 THEN [t EXCEPT !.left = @ \ {l}]
                ELSE [t EXCEPT !.left = @ \ {l}, !.fills = @ \cup {f},
                               !.pos = UpdatePosition(@, f),
                               !.filled = @ + size, !.remaining = @ - size]]
  /\ UNCHANGED <<market, policy, tables, digest, caller, pc>>

(* The loop is over: the order gets its status, and its position row an id.*)
FinishWalk(s) ==
  /\ pc[s] = "walk"
  /\ tx[s].remaining <= 0 \/ tx[s].left = {}
  /\ pc' = [pc EXCEPT ![s] = "ready"]
  /\ LET t      == tx[s]
         filled == t.filled
         row    == PositionRow(t.intent, t.pos, t.mark)
     IN  \/ /\ t.fills = {} \/ (filled < t.order.accepted /\ ~t.policy.partial)
            /\ tx' = [tx EXCEPT ![s].order.status = "RESTING_UNFILLED", ![s].fills = {}]
            /\ UNCHANGED digest
         \/ /\ t.fills # {} /\ (filled < t.order.accepted => t.policy.partial)
            /\ tx' = [tx EXCEPT ![s].order.filled = filled,
                                ![s].order.remaining = Max({0, t.order.accepted - filled}),
                                ![s].order.status = IF filled >= t.order.accepted
                                                      THEN "FILLED" ELSE "PARTIALLY_FILLED",
                                ![s].row = row]
            /\ IF row \in DOMAIN digest THEN UNCHANGED digest
               ELSE \E h \in HashRanks :
                      /\ \A p \in DOMAIN digest : p.asof = row.asof => digest[p] # h
                      /\ digest' = [p \in DOMAIN digest \cup {row} |->
                                      IF p = row THEN h ELSE digest[p]]
  /\ UNCHANGED <<market, policy, tables, caller>>

SavePortfolio(s) ==
  /\ pc[s] = "ready"
  /\ pc' = [pc EXCEPT ![s] = "saved"]
  /\ tx' = [tx EXCEPT ![s].portfolio = ComputePortfolio(tx[s])]
  /\ UNCHANGED <<market, policy, tables, digest, caller>>

Leave(s) ==
  /\ pc' = [pc EXCEPT ![s] = "idle"]
  /\ tx' = [tx EXCEPT ![s] = None]

Commit(s) ==
  /\ pc[s] = "saved"
  /\ orders' = OrdersAfter(tx[s])
  /\ fills' = FillsAfter(tx[s])
  /\ ledger' = LedgerAfter(tx[s])
  /\ positions' = PositionsAfter(tx[s])
  /\ portfolios' = portfolios \cup {tx[s].portfolio}
  /\ Leave(s)
  /\ UNCHANGED <<market, policy, digest, caller>>

(* Any exception inside the session scope rolls the transaction back.      *)
Abort(s) ==
  /\ pc[s] # "idle"
  /\ Leave(s)
  /\ UNCHANGED <<market, policy, tables, digest, caller>>

Proceed(s) == FillLevel(s) \/ FinishWalk(s) \/ SavePortfolio(s) \/ Commit(s)
Step(s) == Proceed(s) \/ Abort(s)

Next ==
  \/ \E b \in Books : CaptureBook(b)
  \/ \E q \in Quotes : DeriveQuote(q)
  \/ \E p \in Policies : SavePolicy(p)
  \/ \E s \in Sessions :
       \/ \E i \in Intents, d \in DecisionSpace :
            RejectIntent(s, i, d) \/ RestOrder(s, i, d) \/ StartWalk(s, i, d)
       \/ Step(s)

Spec == Init /\ [][Next]_vars
-----------------------------------------------------------------------------
(* The rows and the transactions are of the right shape: statuses are      *)
(* PaperOrderStatus values, sizes are the non-negative Decimals that the   *)
(* PaperOrder and PaperFill models validate, and a session has an open     *)
(* transaction exactly while it is working.                                *)
Statuses == {"ACCEPTED", "REJECTED", "RESTING_UNFILLED", "FILLED", "PARTIALLY_FILLED"}

OrderOK(o) ==
  /\ DOMAIN o = {"id", "accepted", "filled", "remaining", "status"}
  /\ o.id.intent \in Intents
  /\ o.status \in Statuses
  /\ o.accepted \in Nat /\ o.filled \in Nat /\ o.remaining \in Nat

FillOK(f) ==
  /\ DOMAIN f = {"order", "book", "model", "level", "price", "size", "fee"}
  /\ f.order.intent \in Intents
  /\ f.price \in Nat /\ f.size \in Nat \ {0} /\ f.fee \in Nat

MoneyOK(p) ==
  /\ p.units \in Int /\ p.cost \in Nat /\ p.avg \in Int \cup {None} /\ p.realized \in Int

PositionOK(p) ==
  /\ MoneyOK(p)
  /\ p.asof \in Nat /\ p.unrealized \in Int /\ p.mark \in Nat \cup {None}

TxOK(t) ==
  /\ DOMAIN t = {"intent", "order", "policy", "book", "mark", "left", "remaining", "filled",
                 "fills", "pos", "row", "portfolio"}
  /\ t.intent \in Intents /\ t.policy \in Policies
  /\ OrderOK(t.order) /\ t.order.id.intent = t.intent
  /\ \A l \in t.left : l.price \in Nat /\ l.qty \in Nat
  /\ t.remaining \in Int /\ t.filled \in Nat
  /\ MoneyOK(t.pos)
  /\ t.mark \in Nat \cup {None}
  /\ \A f \in t.fills : FillOK(f)
  /\ t.row = None \/ PositionOK(t.row)

TypeOK ==
  /\ books \subseteq Books /\ quotes \subseteq Quotes /\ policy \in Policies
  /\ \A o \in orders : OrderOK(o)
  /\ \A f \in fills : FillOK(f)
  /\ \A p \in positions : PositionOK(p)
  /\ attempts \in [Intents -> Nat] /\ clock \in Int
  /\ pc \in [Sessions -> {"idle", "walk", "ready", "saved"}]
  /\ DOMAIN tx = Sessions
  /\ \A s \in Sessions : IF pc[s] = "idle" THEN tx[s] = None ELSE TxOK(tx[s])
-----------------------------------------------------------------------------
(* Long only, as the position table shows it: while no stored policy       *)
(* enables shorts, no snapshot simulate_order_fill saves is negative,      *)
(* whatever callers interleave, retry or backdate, because every sale is   *)
(* cut to the units of the snapshot it was computed from.                  *)
NoShortPolicy == \A p \in Policies : ~p.shorts
SnapshotsLongOnly == NoShortPolicy => \A p \in positions : p.units >= 0

(* The size fields of every stored order agree with its status after the   *)
(* gate, the walk and the partial-fill rule: what is filled and what       *)
(* remains add up to what was accepted, nothing is accepted beyond the     *)
(* request or the gate's final size, and only a filled status has fills.   *)
WithinGate(o) ==
  o.accepted <= o.id.intent.size /\ o.accepted <= o.id.decision.final

SizesAgree(o) ==
  /\ o.filled + o.remaining = o.accepted
  /\ WithinGate(o)
  /\ o.status \in {"REJECTED", "RESTING_UNFILLED"} => o.filled = 0
  /\ o.status = "FILLED" => o.filled = o.accepted /\ o.filled > 0
  /\ o.status = "PARTIALLY_FILLED" => o.filled > 0 /\ o.remaining > 0
  /\ o.status # "ACCEPTED"

OrderSizesAgree == \A o \in orders : SizesAgree(o)

(* What an open transaction holds is consistent before anything of it is   *)
(* stored: a walk never fills more than it may, a long-only sale never has *)
(* more left to sell than the position it started from still holds, and    *)
(* its order agrees with itself once the walk is over.  The inductive      *)
(* invariant behind SnapshotsLongOnly and OrderSizesAgree.                 *)
LongOnlyTransaction(t) ==
  /\ t.pos.units >= 0
  /\ t.intent.side # "BUY" => t.pos.units >= t.remaining
  /\ t.row # None => t.row.units >= 0

WalkConsistent(t) ==
  /\ t.order.status = "ACCEPTED" /\ t.order.filled = 0 /\ t.order.remaining = t.order.accepted
  /\ WithinGate(t.order)
  /\ t.filled + t.remaining <= t.order.accepted
  /\ t.fills # {} => t.filled > 0

TransactionsConsistent ==
  \A s \in Sessions : pc[s] # "idle" =>
    /\ tx[s].remaining >= 0
    /\ NoShortPolicy => LongOnlyTransaction(tx[s])
    /\ IF pc[s] = "walk" THEN WalkConsistent(tx[s]) ELSE SizesAgree(tx[s].order)
-----------------------------------------------------------------------------
(* Net units the ledger records for a run and an instrument up to t.       *)
NetUnits(run, inst, t) ==
  LET entries == {e \in ledger : /\ EntryIntent(e).run = run
                                 /\ <<EntryIntent(e).mkt, EntryIntent(e).out>> = inst
                                 /\ EntryIntent(e).asof <= t}
      total(type) == AmountSum({e \in entries : e.type = type})
  IN  total("POSITION_INCREASE") - total("POSITION_DECREASE")

(* Long only, as the ledger shows it: at no timestamp have the POSITION_   *)
(* DECREASE entries of a run and instrument outgrown the POSITION_INCREASE *)
(* entries, so a simulated SELL only ever reduces an existing long         *)
(* position.                                                               *)
LedgerLongOnly ==
  \A i \in Intents : NetUnits(i.run, <<i.mkt, i.out>>, i.asof) >= 0

(* The newest position snapshot of a run and instrument carries exactly    *)
(* the units that the committed ledger entries add up to: the chain of     *)
(* previous-position reads has lost and repeated nothing.                  *)
PositionsMatchLedger ==
  \A i \in Intents :
    LET held == {p \in positions : p.run = i.run /\ p.mkt = i.mkt /\ p.out = i.out}
        last == {p \in held : \A q \in held : q.asof <= p.asof}
    IN  \A p \in last : p.units = NetUnits(i.run, <<i.mkt, i.out>>, p.asof)

(* The two accounts of what is held agree and neither is ever short.       *)
LedgerBacksPositions == PositionsMatchLedger /\ LedgerLongOnly

(* Every stored order is backed by its fills: the sizes of the fill rows   *)
(* that carry its id add up to its filled size.                            *)
OrdersBackedByFills ==
  \A o \in orders :
    o.filled = SizeSum({f \in fills : f.order = o.id})

(* The rows of a call are stored together and never taken apart, whatever  *)
(* is retried, merged, interleaved or rolled back: a fill has its order    *)
(* and its ledger entries, a ledger entry has its fill, and an order that  *)
(* claims to be filled has a fill and a position snapshot of its time.     *)
RowsCommitTogether ==
  /\ \A f \in fills : LedgerEntries(f) \subseteq ledger /\ \E o \in orders : o.id = f.order
  /\ \A e \in ledger : \E f \in fills : SameFill(e.fill, f)
  /\ \A o \in orders : o.filled > 0 =>
       /\ \E f \in fills : f.order = o.id
       /\ \E p \in positions :
            /\ p.run = o.id.intent.run /\ p.mkt = o.id.intent.mkt
            /\ p.out = o.id.intent.out /\ p.asof = o.id.intent.asof

(* No stored fill could only have happened with hindsight: it took a level *)
(* of a book captured by its as-of time, within the limit of its intent,   *)
(* no more than the level held and no more than the gate allowed.          *)
FillsHadABook ==
  \A f \in fills :
    LET i == f.order.intent
    IN  /\ f.book \in books /\ f.book.mkt = i.mkt /\ f.book.captured <= i.asof
        /\ \E l \in CandidateLevels(i, f.book) : l.price = f.price /\ f.size <= l.qty
        /\ f.size <= f.order.decision.final

(* The books balance: every stored portfolio has the initial cash plus     *)
(* realized and unrealized profit less the fees paid on purchases (fees on *)
(* sales are already in realized profit) as its equity, although cash      *)
(* comes from the ledger and profit and exposure from the positions.       *)
PurchaseFees(run, t) ==
  AmountSum({e \in ledger : /\ e.type = "FEE_DEBIT" /\ EntryIntent(e).side = "BUY"
                            /\ OfRun(run, EntryIntent(e).run) /\ EntryIntent(e).asof <= t})

EquityBalances ==
  \A p \in portfolios :
    p.equity = InitialCash + p.realized + p.unrealized - PurchaseFees(p.run, p.asof)
=============================================================================
