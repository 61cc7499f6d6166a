----------------------------- MODULE TradingProofs -----------------------------
(***************************************************************************)
(* Theorems about paper simulation runs, for every set of plans, markets,  *)
(* books, policies and decisions of the gate, and any number of runs; and  *)
(* about the pre-trade service, for every set of markets, facts, requests, *)
(* rules, exposures and policies.                                          *)
(***************************************************************************)
EXTENDS PaperRun, GateService, DeskLemmas, SequenceTheorems, TLAPS

RunNames == {r.id : r \in paperRuns}

(* The session of the runs is the only one that works, and only for a run. *)
TallyOK(c) ==
  /\ DOMAIN c = {"orders", "fills", "errors", "portfolio"}
  /\ c.fills \in Nat /\ c.errors \in Nat
  /\ c.orders \in Seq({c.orders[n] : n \in DOMAIN c.orders})

RunShapes ==
  /\ paperRun \in RunsUnderWay \cup {None}
  /\ pc \in [Sessions -> {"idle", "walk", "ready", "saved"}] /\ DOMAIN tx = Sessions
  /\ paperRun = None => pc[runner] = "idle"
  /\ paperRun # None =>
       /\ paperRun.id \notin RunNames
       /\ paperRun.next \in 1 .. Len(paperRun.plan) + 1
       /\ pc[runner] # "idle" => paperRun.next <= Len(paperRun.plan)
  /\ TallyOK(tally)
  /\ \A r \in paperRuns : r.plan \in Plans /\ r.id \in RunIds

(* What the open transaction is about to store is of the item the run is   *)
(* at.                                                                     *)
FillFields == {"order", "book", "model", "level", "price", "size", "fee"}
FillFor(f, i) == DOMAIN f = FillFields /\ f.order.intent = i

TxFor(t, i) ==
  /\ DOMAIN t = {"intent", "order", "policy", "book", "mark", "left", "remaining", "filled",
                 "fills", "pos", "row", "portfolio"}
  /\ t.intent = i
  /\ DOMAIN t.order = {"id", "accepted", "filled", "remaining", "status"} /\ t.order.id.intent = i
  /\ IsFiniteSet(t.fills) /\ \A f \in t.fills : FillFor(f, i)
  /\ t.row # None => t.row.run = i.run

(* The balance compute_portfolio leaves in the transaction.                *)
EntriesUpTo(t) ==
  {e \in LedgerAfter(t) : OfRun(t.intent.run, EntryIntent(e).run) /\ EntryIntent(e).asof <= t.intent.asof}
CashAfter(t) ==
  InitialCash + AmountSum({e \in EntriesUpTo(t) : e.type = "CASH_CREDIT"})
    - AmountSum({e \in EntriesUpTo(t) : e.type = "CASH_DEBIT"})
    - AmountSum({e \in EntriesUpTo(t) : e.type = "FEE_DEBIT"})

OpenItem ==
  pc[runner] # "idle" =>
    /\ TxFor(tx[runner], NextItem)
    /\ pc[runner] = "saved" =>
         tx[runner].portfolio.run = NextItem.run /\ tx[runner].portfolio.cash = CashAfter(tx[runner])

(* The rows the run under way found are the rows of the other runs: what   *)
(* it restores when it raises.                                             *)
FoundRows ==
  paperRun # None =>
    /\ before.orders = {o \in orders : o.id.intent.run # paperRun.id}
    /\ before.fills = {f \in fills : f.order.intent.run # paperRun.id}
    /\ before.ledger = {e \in ledger : EntryIntent(e).run # paperRun.id}
    /\ before.positions = {p \in positions : p.run # paperRun.id}
    /\ before.portfolios = {p \in portfolios : p.run # paperRun.id}

StartedRuns == RunNames \cup IF paperRun = None THEN {} ELSE {paperRun.id}

RowsOfRuns ==
  /\ \A o \in orders : o.id.intent.run \in StartedRuns
  /\ \A f \in fills : DOMAIN f = FillFields /\ f.order.intent.run \in StartedRuns
  /\ \A e \in ledger : EntryIntent(e).run \in StartedRuns
  /\ \A p \in positions \cup portfolios : p.run \in StartedRuns

(* What the run under way has stored and counted so far.                   *)
CashOf(id) ==
  InitialCash + AmountSum({e \in EntriesOf(id) : e.type = "CASH_CREDIT"})
    - AmountSum({e \in EntriesOf(id) : e.type = "CASH_DEBIT"})
    - AmountSum({e \in EntriesOf(id) : e.type = "FEE_DEBIT"})

DoneItems == {Item(n) : n \in 1 .. paperRun.next - 1}

ItemsStored ==
  paperRun # None =>
    /\ \A o \in OrdersOf(paperRun.id) : o.id.intent \in DoneItems
    /\ \A f \in FillsOf(paperRun.id) : f.order.intent \in DoneItems
    /\ \A e \in EntriesOf(paperRun.id) : EntryIntent(e) \in DoneItems
    /\ tally.errors = 0 => \A i \in DoneItems : \E o \in OrdersOf(paperRun.id) : o.id.intent = i

StoredWith(id, status) == {o \in OrdersOf(id) : o.status = status}

ItemsCounted ==
  paperRun # None /\ Distinct(paperRun.plan) =>
    /\ IsFiniteSet(OrdersOf(paperRun.id)) /\ IsFiniteSet(FillsOf(paperRun.id))
    /\ Len(tally.orders) = Cardinality(OrdersOf(paperRun.id))
    /\ tally.fills = Cardinality(FillsOf(paperRun.id))
    /\ \A status \in {"FILLED", "REJECTED"} :
         Counted(tally, status) = Cardinality(StoredWith(paperRun.id, status))

BalancesSoFar ==
  paperRun # None /\ InTime(paperRun.plan) /\ Len(tally.orders) > 0 =>
    tally.portfolio.cash = CashOf(paperRun.id)

RunInv ==
  /\ RunShapes /\ OpenItem /\ FoundRows /\ RowsOfRuns
  /\ ItemsStored /\ ItemsCounted /\ BalancesSoFar
  /\ CompletedRunsCoverThePlan /\ PaperRunsSound
-----------------------------------------------------------------------------
LEMMA PlannedType ==
  ASSUME NEW plan \in Plans, NEW n \in DOMAIN plan
  PROVE  plan[n] \in PlannedIntents
<1>1. plan \in Seq(PlannedIntents)
  BY PlansAssumption
<1>. QED
  BY <1>1, ElementOfSeq, LenProperties

LEMMA RunAside ==
  ASSUME NEW i \in PlannedIntents, NEW j \in PlannedIntents, NEW id,
         [i EXCEPT !.run = id] = [j EXCEPT !.run = id]
  PROVE  i = j
<1>1. PICK x : x = [i EXCEPT !.run = id]
  OBVIOUS
<1>2. [x EXCEPT !.run = None] = i
  BY <1>1 DEF PlannedIntents
<1>3. x = [j EXCEPT !.run = id]
  BY <1>1
<1>4. [x EXCEPT !.run = None] = j
  BY <1>3 DEF PlannedIntents
<1>. QED
  BY <1>2, <1>4

(* A run under way has an id, a plan and an item of it.                    *)
LEMMA UnderWay ==
  ASSUME RunShapes, paperRun # None
  PROVE  /\ DOMAIN paperRun = {"id", "plan", "next"}
         /\ paperRun.id \in RunIds /\ paperRun.id # None /\ paperRun.id \notin RunNames
         /\ paperRun.plan \in Plans /\ Len(paperRun.plan) \in Nat
         /\ DOMAIN paperRun.plan = 1 .. Len(paperRun.plan)
         /\ paperRun.next \in 1 .. Len(paperRun.plan) + 1 /\ paperRun.next \in Nat
<1>1. paperRun \in RunsUnderWay
  BY DEF RunShapes
<1>2. paperRun.plan \in Plans /\ paperRun.id \in RunIds /\ paperRun.next \in Nat
        /\ DOMAIN paperRun = {"id", "plan", "next"}
  BY <1>1 DEF RunsUnderWay
<1>4. Len(paperRun.plan) \in Nat /\ DOMAIN paperRun.plan = 1 .. Len(paperRun.plan)
  BY <1>2, PlansAssumption, LenProperties
<1>. QED
  BY <1>2, <1>4, RunnerAssumption DEF RunShapes

LEMMA ItemOfRun ==
  ASSUME RunShapes, paperRun # None, NEW n \in 1 .. Len(paperRun.plan)
  PROVE  /\ Item(n).run = paperRun.id /\ Item(n).asof = paperRun.plan[n].asof
         /\ Item(n).asof \in Nat
         /\ Item(n) = [paperRun.plan[n] EXCEPT !.run = paperRun.id]
<1>1. paperRun.plan \in Plans /\ n \in DOMAIN paperRun.plan
  BY UnderWay
<1>2. paperRun.plan[n] \in PlannedIntents
  BY <1>1, PlannedType
<1>. QED
  BY <1>2 DEF Item, PlannedIntents

(* A plan without repetitions has an item once under the run's id, too.    *)
LEMMA ItemsDistinct ==
  ASSUME RunShapes, paperRun # None, Distinct(paperRun.plan),
         NEW m \in 1 .. Len(paperRun.plan), NEW n \in 1 .. Len(paperRun.plan), Item(m) = Item(n)
  PROVE  m = n
<1>1. PICK p : p = paperRun.plan
  OBVIOUS
<1>2. p \in Plans /\ m \in DOMAIN p /\ n \in DOMAIN p
  BY <1>1, UnderWay
<1>3. p[m] \in PlannedIntents /\ p[n] \in PlannedIntents
  BY <1>2, PlannedType
<1>4. PICK id : id = paperRun.id
  OBVIOUS
<1>5. Item(m) = [p[m] EXCEPT !.run = id] /\ Item(n) = [p[n] EXCEPT !.run = id]
  BY <1>1, <1>4 DEF Item
<1>6. [p[m] EXCEPT !.run = id] = [p[n] EXCEPT !.run = id]
  BY <1>5, Zenon
<1>7. p[m] = p[n]
  BY <1>3, <1>6, RunAside, Zenon
<1>. QED
  BY <1>1, <1>2, <1>7 DEF Distinct
-----------------------------------------------------------------------------
(* Evaluating an item only opens the transaction and walks the book.       *)
StoredInv ==
  /\ FoundRows /\ RowsOfRuns /\ ItemsStored /\ ItemsCounted /\ BalancesSoFar
  /\ CompletedRunsCoverThePlan /\ PaperRunsSound

LEMMA RowsUntouched ==
  ASSUME StoredInv, UNCHANGED <<tables, runVars>>
  PROVE  StoredInv'
<1>1. /\ orders' = orders /\ fills' = fills /\ ledger' = ledger /\ positions' = positions
      /\ portfolios' = portfolios /\ paperRun' = paperRun /\ tally' = tally /\ before' = before
      /\ paperRuns' = paperRuns
  BY DEF tables, runVars
<1>2. StartedRuns' = StartedRuns
  BY <1>1 DEF StartedRuns, RunNames
<1>3. DoneItems' = DoneItems
  BY <1>1 DEF DoneItems, Item
<1>4. \A id : OrdersOf(id)' = OrdersOf(id) /\ FillsOf(id)' = FillsOf(id) /\ EntriesOf(id)' = EntriesOf(id)
  BY <1>1 DEF OrdersOf, FillsOf, EntriesOf
<1>5. FoundRows'
  BY <1>1 DEF StoredInv, FoundRows
<1>6. RowsOfRuns'
  BY <1>1, <1>2 DEF StoredInv, RowsOfRuns
<1>7. ItemsStored'
  BY <1>1, <1>3, <1>4 DEF StoredInv, ItemsStored
<1>8. ItemsCounted'
  BY <1>1, <1>4 DEF StoredInv, ItemsCounted, StoredWith
<1>9. BalancesSoFar'
  BY <1>1, <1>4 DEF StoredInv, BalancesSoFar, CashOf
<1>10. CompletedRunsCoverThePlan'
  BY <1>1 DEF StoredInv, CompletedRunsCoverThePlan
<1>11. PaperRunsSound'
  BY <1>1, <1>4 DEF StoredInv, PaperRunsSound, RunCountsMatchRows, SortedPlansEndOnTheirLedger
<1>. QED
  BY <1>5, <1>6, <1>7, <1>8, <1>9, <1>10, <1>11 DEF StoredInv

LEMMA ShapesUntouched ==
  ASSUME RunShapes, UNCHANGED runVars, paperRun # None, paperRun.next <= Len(paperRun.plan),
         NEW p \in {"idle", "walk", "ready", "saved"}, NEW t,
         pc' = [pc EXCEPT ![runner] = p], tx' = [tx EXCEPT ![runner] = t]
  PROVE  RunShapes' /\ pc'[runner] = p /\ tx'[runner] = t
<1>1. pc' \in [Sessions -> {"idle", "walk", "ready", "saved"}] /\ DOMAIN tx' = Sessions
        /\ pc'[runner] = p /\ tx'[runner] = t
  BY RunnerAssumption DEF RunShapes
<1>2. paperRun' = paperRun /\ tally' = tally /\ paperRuns' = paperRuns
  BY DEF runVars
<1>. QED
  BY <1>1, <1>2 DEF RunShapes, TallyOK, RunNames

LEMMA OpensItem ==
  ASSUME RunShapes, OpenItem, RunSubmit
  PROVE  RunShapes' /\ OpenItem'
<1>1. paperRun # None /\ paperRun.next <= Len(paperRun.plan) /\ UNCHANGED runVars
  BY DEF RunSubmit, More
<1>2. PICK i : i = NextItem
  OBVIOUS
<1>3. PICK d \in DecisionSpace :
        RejectIntent(runner, i, d) \/ RestOrder(runner, i, d) \/ StartWalk(runner, i, d)
  BY <1>2 DEF RunSubmit
<1>4. \E p \in {"walk", "ready"} : \E order, left, remaining, pos :
        /\ Enter(runner, p, Transaction(i, order, left, remaining, pos))
        /\ DOMAIN order = {"id", "accepted", "filled", "remaining", "status"} /\ order.id.intent = i
  <2>1. CASE RejectIntent(runner, i, d)
    BY <2>1 DEF RejectIntent, OrderFromPretrade
  <2>2. CASE RestOrder(runner, i, d)
    BY <2>2 DEF RestOrder, OrderFromPretrade
  <2>3. CASE StartWalk(runner, i, d)
    BY <2>3 DEF StartWalk, OrderFromPretrade
  <2>. QED
    BY <1>3, <2>1, <2>2, <2>3
<1>5. PICK p, t :
        /\ p \in {"walk", "ready"} /\ Enter(runner, p, t) /\ TxFor(t, i)
  <2>1. \A order, left, remaining, pos :
          DOMAIN order = {"id", "accepted", "filled", "remaining", "status"} /\ order.id.intent = i
          => TxFor(Transaction(i, order, left, remaining, pos), i)
    BY FS_EmptySet DEF Transaction, TxFor
  <2>. QED
    BY <1>4, <2>1
<1>6. RunShapes' /\ pc'[runner] = p /\ tx'[runner] = t
  BY <1>1, <1>5, ShapesUntouched DEF Enter
<1>7. NextItem' = NextItem
  BY <1>1 DEF NextItem, Item, runVars
<1>. QED
  BY <1>2, <1>5, <1>6, <1>7 DEF OpenItem

LEMMA FillsLevel ==
  ASSUME RunShapes, OpenItem, FillLevel(runner)
  PROVE  \E t : tx' = [tx EXCEPT ![runner] = t] /\ TxFor(t, NextItem)
<1>1. PICK t : t = tx[runner]
  OBVIOUS
<1>2. TxFor(t, NextItem)
  BY <1>1 DEF OpenItem, FillLevel
<1>3. PICK l \in t.left :
        tx' = [tx EXCEPT ![runner] =
          IF Min({t.remaining, l.qty}) <= 0 THEN [t EXCEPT !.left = @ \ {l}]
          ELSE [t EXCEPT !.left = @ \ {l},
                         !.fills = @ \cup {FillRow(t.order, t.book, t.policy, l,
                                                   Min({t.remaining, l.qty}))},
                         !.pos = UpdatePosition(@, FillRow(t.order, t.book, t.policy, l,
                                                           Min({t.remaining, l.qty}))),
                         !.filled = @ + Min({t.remaining, l.qty}),
                         !.remaining = @ - Min({t.remaining, l.qty})]]
  BY <1>1, Zenon DEF FillLevel
<1> DEFINE size == Min({t.remaining, l.qty})
           f == FillRow(t.order, t.book, t.policy, l, size)
           pos == UpdatePosition(t.pos, f)
<1>4. FillFor(f, NextItem)
  BY <1>2 DEF FillRow, FillFor, FillFields, TxFor
<1>5. \/ tx' = [tx EXCEPT ![runner] = [t EXCEPT !.left = @ \ {l}]]
      \/ tx' = [tx EXCEPT ![runner] =
                   [t EXCEPT !.left = @ \ {l}, !.fills = @ \cup {f}, !.pos = pos,
                             !.filled = @ + size, !.remaining = @ - size]]
  BY <1>3, Zenon
<1>. HIDE DEF size, f, pos
<1>6. TxFor([t EXCEPT !.left = @ \ {l}], NextItem)
  BY <1>2 DEF TxFor
<1>7. TxFor([t EXCEPT !.left = @ \ {l}, !.fills = @ \cup {f}, !.pos = pos,
                      !.filled = @ + size, !.remaining = @ - size], NextItem)
  <2>1. PICK u : u = [t EXCEPT !.left = @ \ {l}, !.fills = @ \cup {f}, !.pos = pos,
                               !.filled = @ + size, !.remaining = @ - size]
    OBVIOUS
  <2>2. /\ DOMAIN u = DOMAIN t /\ u.intent = t.intent /\ u.order = t.order /\ u.row = t.row
        /\ u.fills = t.fills \cup {f}
    BY <1>2, <2>1 DEF TxFor
  <2>3. IsFiniteSet(u.fills)
    BY <1>2, <2>2, FS_AddElement DEF TxFor
  <2>4. TxFor(u, NextItem)
    BY <1>2, <1>4, <2>2, <2>3 DEF TxFor
  <2>. QED
    BY <2>1, <2>4
<1>. QED
  BY <1>5, <1>6, <1>7, Zenon

LEMMA FinishesWalk ==
  ASSUME RunShapes, OpenItem, FinishWalk(runner)
  PROVE  \E t : tx' = [tx EXCEPT ![runner] = t] /\ TxFor(t, NextItem)
<1>1. PICK t : t = tx[runner]
  OBVIOUS
<1>2. TxFor(t, NextItem)
  BY <1>1 DEF OpenItem, FinishWalk
<1>3. runner \in DOMAIN tx
  BY RunnerAssumption DEF RunShapes
<1>4. CASE tx' = [tx EXCEPT ![runner].order.status = "RESTING_UNFILLED", ![runner].fills = {}]
  <2>1. PICK u : u = [t EXCEPT !.order.status = "RESTING_UNFILLED", !.fills = {}]
    OBVIOUS
  <2>2. tx' = [tx EXCEPT ![runner] = u]
    BY <1>1, <1>3, <1>4, <2>1
  <2>3. TxFor(u, NextItem)
    BY <1>2, <2>1, FS_EmptySet DEF TxFor
  <2>. QED
    BY <2>2, <2>3
<1>5. CASE tx' = [tx EXCEPT ![runner].order.filled = t.filled,
                            ![runner].order.remaining = Max({0, t.order.accepted - t.filled}),
                            ![runner].order.status = IF t.filled >= t.order.accepted
                                                       THEN "FILLED" ELSE "PARTIALLY_FILLED",
                            ![runner].row = PositionRow(t.intent, t.pos, t.mark)]
  <2>1. PICK row : row = PositionRow(t.intent, t.pos, t.mark)
    OBVIOUS
  <2>2. row.run = NextItem.run
    BY <1>2, <2>1 DEF PositionRow, TxFor
  <2>3. PICK rest : rest = Max({0, t.order.accepted - t.filled})
    OBVIOUS
  <2>4. PICK st : st = IF t.filled >= t.order.accepted THEN "FILLED" ELSE "PARTIALLY_FILLED"
    OBVIOUS
  <2>5. PICK u : u = [t EXCEPT !.order.filled = t.filled, !.order.remaining = rest,
                               !.order.status = st, !.row = row]
    OBVIOUS
  <2>6. tx' = [tx EXCEPT ![runner] = u]
    <3>1. tx' = [tx EXCEPT ![runner].order.filled = t.filled, ![runner].order.remaining = rest,
                           ![runner].order.status = st, ![runner].row = row]
      BY <1>5, <2>1, <2>3, <2>4, Zenon
    <3>. QED
      BY <1>1, <1>3, <2>5, <3>1
  <2>7. TxFor(u, NextItem)
    BY <1>2, <2>2, <2>5 DEF TxFor
  <2>. QED
    BY <2>6, <2>7
<1>. QED
  BY <1>1, <1>4, <1>5, Zenon DEF FinishWalk

LEMMA SavesPortfolio ==
  ASSUME RunShapes, OpenItem, SavePortfolio(runner)
  PROVE  \E t : /\ tx' = [tx EXCEPT ![runner] = t] /\ TxFor(t, NextItem)
               /\ t.portfolio.run = NextItem.run /\ t.portfolio.cash = CashAfter(t)
<1>1. PICK t : t = tx[runner]
  OBVIOUS
<1>2. TxFor(t, NextItem)
  BY <1>1 DEF OpenItem, SavePortfolio
<1>3. PICK u : u = [t EXCEPT !.portfolio = ComputePortfolio(t)]
  OBVIOUS
<1>4. tx' = [tx EXCEPT ![runner] = u]
  BY <1>1, <1>3, RunnerAssumption DEF SavePortfolio, RunShapes
<1>5. /\ DOMAIN u = DOMAIN t /\ u.intent = t.intent /\ u.order = t.order /\ u.row = t.row
      /\ u.fills = t.fills /\ u.portfolio = ComputePortfolio(t)
  <2>. HIDE DEF ComputePortfolio
  <2>. QED
    BY <1>2, <1>3 DEF TxFor
<1>6. TxFor(u, NextItem)
  BY <1>2, <1>5 DEF TxFor
<1>7. ComputePortfolio(t).run = t.intent.run /\ ComputePortfolio(t).cash = CashAfter(t)
  BY DEF ComputePortfolio, CashAfter, EntriesUpTo
<1>8. CashAfter(u) = CashAfter(t)
  BY <1>5 DEF CashAfter, EntriesUpTo, LedgerAfter
<1>9. t.intent = NextItem
  BY <1>2 DEF TxFor
<1>. QED
  BY <1>4, <1>5, <1>6, <1>7, <1>8, <1>9

LEMMA ProceedsItem ==
  ASSUME RunShapes, OpenItem, RunProceed
  PROVE  RunShapes' /\ OpenItem' /\ UNCHANGED <<tables, runVars>>
<1>1. paperRun # None /\ UNCHANGED <<tables, runVars>> /\ pc[runner] # "idle"
  BY DEF RunProceed, FillLevel, FinishWalk, SavePortfolio
<1>2. paperRun.next <= Len(paperRun.plan)
  BY <1>1 DEF RunShapes
<1>3. NextItem' = NextItem
  BY <1>1 DEF NextItem, Item, runVars
<1>4. CASE FillLevel(runner) \/ FinishWalk(runner)
  <2>1. PICK t : tx' = [tx EXCEPT ![runner] = t] /\ TxFor(t, NextItem)
    BY <1>4, FillsLevel, FinishesWalk
  <2>2. PICK p \in {"walk", "ready"} : pc' = [pc EXCEPT ![runner] = p]
    BY <1>4, RunnerAssumption DEF FillLevel, FinishWalk, RunShapes
  <2>3. RunShapes' /\ pc'[runner] = p /\ tx'[runner] = t
    BY <1>1, <1>2, <2>1, <2>2, ShapesUntouched
  <2>. QED
    BY <1>1, <1>3, <2>1, <2>2, <2>3 DEF OpenItem
<1>5. CASE SavePortfolio(runner)
  <2>1. PICK t : /\ tx' = [tx EXCEPT ![runner] = t] /\ TxFor(t, NextItem)
                 /\ t.portfolio.run = NextItem.run /\ t.portfolio.cash = CashAfter(t)
    BY <1>5, SavesPortfolio
  <2>2. pc' = [pc EXCEPT ![runner] = "saved"]
    BY <1>5 DEF SavePortfolio
  <2>3. RunShapes' /\ pc'[runner] = "saved" /\ tx'[runner] = t
    BY <1>1, <1>2, <2>1, <2>2, ShapesUntouched
  <2>4. CashAfter(t)' = CashAfter(t)
    BY <1>1 DEF CashAfter, EntriesUpTo, LedgerAfter, tables
  <2>5. CashAfter(tx[runner])' = CashAfter(t)
    BY <2>3, <2>4
  <2>. QED
    BY <1>1, <1>3, <2>1, <2>3, <2>5 DEF OpenItem
<1>. QED
  BY <1>1, <1>4, <1>5 DEF RunProceed
-----------------------------------------------------------------------------
(* What finished runs reported stays true while their rows stay.           *)
FinishedInv == CompletedRunsCoverThePlan /\ PaperRunsSound

LEMMA FinishedKept ==
  ASSUME RunShapes, FinishedInv, paperRuns' = paperRuns,
         \A r \in paperRuns : /\ OrdersOf(r.id)' = OrdersOf(r.id) /\ FillsOf(r.id)' = FillsOf(r.id)
                              /\ EntriesOf(r.id)' = EntriesOf(r.id)
  PROVE  FinishedInv'
<1>1. CompletedRunsCoverThePlan'
  <2> SUFFICES ASSUME NEW r \in paperRuns, r.status = "COMPLETED", NEW n \in DOMAIN r.plan
               PROVE  \E o \in orders' : o.id.intent = [r.plan[n] EXCEPT !.run = r.id]
    BY DEF CompletedRunsCoverThePlan
  <2>1. PICK o \in orders : o.id.intent = [r.plan[n] EXCEPT !.run = r.id]
    BY DEF FinishedInv, CompletedRunsCoverThePlan
  <2>2. r.plan[n] \in PlannedIntents
    BY PlannedType DEF RunShapes
  <2>3. [r.plan[n] EXCEPT !.run = r.id].run = r.id
    BY <2>2 DEF PlannedIntents
  <2>4. o \in OrdersOf(r.id)
    BY <2>1, <2>3 DEF OrdersOf
  <2>5. o \in OrdersOf(r.id)'
    BY <2>4
  <2>6. o \in orders'
    BY <2>5 DEF OrdersOf
  <2>. QED
    BY <2>1, <2>6
<1>2. RunCountsMatchRows'
  BY DEF FinishedInv, PaperRunsSound, RunCountsMatchRows
<1>3. SortedPlansEndOnTheirLedger'
  BY DEF FinishedInv, PaperRunsSound, SortedPlansEndOnTheirLedger
<1>. QED
  BY <1>1, <1>2, <1>3 DEF FinishedInv, PaperRunsSound

LEMMA NothingCountedOK ==
  /\ TallyOK(NothingCounted) /\ Len(NothingCounted.orders) = 0 /\ NothingCounted.fills = 0
  /\ \A status : Counted(NothingCounted, status) = 0
<1>1. NothingCounted.orders = <<>> /\ NothingCounted.fills = 0 /\ NothingCounted.errors = 0
        /\ DOMAIN NothingCounted = {"orders", "fills", "errors", "portfolio"}
  BY DEF NothingCounted
<1>2. \A S : <<>> \in Seq(S)
  BY EmptySeq
<1>3. Len(<<>>) = 0 /\ DOMAIN <<>> = {}
  BY EmptySeq
<1>4. \A status : {n \in DOMAIN NothingCounted.orders : NothingCounted.orders[n].status = status} = {}
  BY <1>1, <1>3
<1>5. \A status : Counted(NothingCounted, status) = 0
  BY <1>4, FS_EmptySet DEF Counted
<1>. QED
  BY <1>1, <1>2, <1>3, <1>5 DEF TallyOK

LEMMA RunBegins ==
  ASSUME RunInv, NEW id \in RunIds, NEW plan \in Plans, BeginRun(id, plan)
  PROVE  RunInv'
<1>1. /\ paperRun = None /\ pc[runner] = "idle" /\ id \notin RunNames
      /\ orders' = orders /\ fills' = fills /\ ledger' = ledger /\ positions' = positions
      /\ portfolios' = portfolios /\ pc' = pc /\ tx' = tx /\ tally' = NothingCounted
      /\ before' = Rows /\ paperRuns' = paperRuns
      /\ paperRun' = [id |-> id, plan |-> plan, next |-> 1]
  BY DEF BeginRun, NoRun, RunNames, vars, tables
<1>2. RunShapes /\ RowsOfRuns /\ FinishedInv
  BY DEF RunInv, FinishedInv
<1>3. paperRun' # None /\ paperRun'.id = id /\ paperRun'.plan = plan /\ paperRun'.next = 1
        /\ paperRun' \in RunsUnderWay
  BY <1>1, NoPaperRunAssumption DEF RunsUnderWay
<1>4. Len(plan) \in Nat
  BY PlansAssumption, LenProperties
<1>5. RunShapes'
  BY <1>1, <1>2, <1>3, <1>4, NothingCountedOK DEF RunShapes, RunNames
<1>6. OpenItem'
  BY <1>1 DEF OpenItem
<1>7. StartedRuns = RunNames /\ id \notin StartedRuns /\ StartedRuns \subseteq StartedRuns'
  BY <1>1, <1>3 DEF StartedRuns, RunNames
<1>8. FoundRows'
  <2>1. /\ orders = {o \in orders : o.id.intent.run # id}
        /\ fills = {f \in fills : f.order.intent.run # id}
        /\ ledger = {e \in ledger : EntryIntent(e).run # id}
        /\ positions = {p \in positions : p.run # id}
        /\ portfolios = {p \in portfolios : p.run # id}
    BY <1>2, <1>7 DEF RowsOfRuns
  <2>. QED
    BY <1>1, <1>3, <2>1 DEF FoundRows, Rows
<1>9. RowsOfRuns'
  BY <1>1, <1>2, <1>7 DEF RowsOfRuns
<1>10. OrdersOf(id)' = {} /\ FillsOf(id)' = {} /\ EntriesOf(id)' = {}
  BY <1>1, <1>2, <1>7 DEF RowsOfRuns, OrdersOf, FillsOf, EntriesOf
<1>11. ItemsStored'
  <2>1. DoneItems' = {}
    BY <1>3 DEF DoneItems
  <2>. QED
    BY <1>3, <1>10, <2>1 DEF ItemsStored
<1>12. ItemsCounted'
  <2>1. \A status : StoredWith(id, status)' = {}
    BY <1>10 DEF StoredWith
  <2>. QED
    BY <1>1, <1>3, <1>10, <2>1, NothingCountedOK, FS_EmptySet DEF ItemsCounted
<1>13. BalancesSoFar'
  BY <1>1, NothingCountedOK DEF BalancesSoFar
<1>14. FinishedInv'
  BY <1>1, <1>2, FinishedKept DEF OrdersOf, FillsOf, EntriesOf
<1>. QED
  BY <1>5, <1>6, <1>8, <1>9, <1>11, <1>12, <1>13, <1>14 DEF RunInv, FinishedInv

LEMMA ItemFails ==
  ASSUME RunInv, RunError
  PROVE  RunInv'
<1>1. PICK id, plan, n : id = paperRun.id /\ plan = paperRun.plan /\ n = paperRun.next
  OBVIOUS
<1>2. /\ paperRun # None /\ pc[runner] = "idle" /\ n <= Len(plan)
      /\ orders' = orders /\ fills' = fills /\ ledger' = ledger /\ positions' = positions
      /\ portfolios' = portfolios /\ pc' = pc /\ tx' = tx
      /\ before' = before /\ paperRuns' = paperRuns
      /\ paperRun' = [paperRun EXCEPT !.next = @ + 1] /\ tally' = [tally EXCEPT !.errors = @ + 1]
  BY <1>1 DEF RunError, More, vars, tables
<1>3. RunShapes /\ FoundRows /\ RowsOfRuns /\ ItemsStored /\ ItemsCounted /\ BalancesSoFar /\ FinishedInv
  BY DEF RunInv, FinishedInv
<1>4. n \in Nat /\ n \in 1 .. Len(plan) + 1 /\ Len(plan) \in Nat
  BY <1>1, <1>2, <1>3, UnderWay
<1>5. paperRun' \in RunsUnderWay /\ paperRun'.id = id /\ paperRun'.plan = plan /\ paperRun'.next = n + 1
        /\ paperRun' # None
  BY <1>1, <1>2, <1>3, <1>4, NoPaperRunAssumption DEF RunShapes, RunsUnderWay
<1>6. /\ tally'.orders = tally.orders /\ tally'.fills = tally.fills /\ tally'.portfolio = tally.portfolio
      /\ tally'.errors # 0 /\ TallyOK(tally')
  BY <1>2, <1>3 DEF RunShapes, TallyOK
<1>7. RunShapes'
  BY <1>1, <1>2, <1>3, <1>4, <1>5, <1>6 DEF RunShapes, RunNames
<1>8. OpenItem'
  BY <1>2 DEF OpenItem
<1>9. FoundRows'
  BY <1>1, <1>2, <1>3, <1>5 DEF FoundRows
<1>10. RowsOfRuns'
  <2>1. StartedRuns' = StartedRuns
    BY <1>1, <1>2, <1>5 DEF StartedRuns, RunNames
  <2>. QED
    BY <1>2, <1>3, <2>1 DEF RowsOfRuns
<1>11. \A x : OrdersOf(x)' = OrdersOf(x) /\ FillsOf(x)' = FillsOf(x) /\ EntriesOf(x)' = EntriesOf(x)
  BY <1>2 DEF OrdersOf, FillsOf, EntriesOf
<1>12. ItemsStored'
  <2>1. DoneItems \subseteq DoneItems'
    BY <1>1, <1>4, <1>5 DEF DoneItems, Item
  <2>. QED
    BY <1>1, <1>2, <1>3, <1>5, <1>6, <1>11, <2>1 DEF ItemsStored
<1>13. ItemsCounted'
  BY <1>1, <1>2, <1>3, <1>5, <1>6, <1>11 DEF ItemsCounted, Counted, StoredWith
<1>14. BalancesSoFar'
  BY <1>1, <1>2, <1>3, <1>5, <1>6, <1>11 DEF BalancesSoFar, CashOf
<1>15. FinishedInv'
  BY <1>2, <1>3, <1>11, FinishedKept
<1>. QED
  BY <1>7, <1>8, <1>9, <1>10, <1>12, <1>13, <1>14, <1>15 DEF RunInv, FinishedInv

(* A run that ends forgets what it kept of itself.                         *)
LEMMA RunEnds ==
  ASSUME EndRun
  PROVE  /\ FoundRows' /\ ItemsStored' /\ ItemsCounted' /\ BalancesSoFar'
         /\ paperRun' = None /\ TallyOK(tally')
BY NothingCountedOK DEF EndRun, FoundRows, ItemsStored, ItemsCounted, BalancesSoFar

LEMMA RunFinishes ==
  ASSUME RunInv, FinishRun
  PROVE  RunInv'
<1>1. PICK id, plan : id = paperRun.id /\ plan = paperRun.plan
  OBVIOUS
<1>2. PICK r : r = [id |-> id, plan |-> plan, status |-> RunStatus(tally), errors |-> tally.errors,
                    summary |-> Summary(tally)]
  OBVIOUS
<1>3. /\ paperRun # None /\ pc[runner] = "idle" /\ paperRun.next > Len(plan)
      /\ orders' = orders /\ fills' = fills /\ ledger' = ledger /\ positions' = positions
      /\ portfolios' = portfolios /\ pc' = pc /\ tx' = tx /\ EndRun
      /\ paperRuns' = paperRuns \cup {r}
  BY <1>1, <1>2 DEF FinishRun, vars, tables
<1>4. RunShapes /\ RowsOfRuns /\ ItemsStored /\ ItemsCounted /\ BalancesSoFar /\ FinishedInv
  BY DEF RunInv, FinishedInv
<1>5. id \in RunIds /\ plan \in Plans /\ Len(plan) \in Nat /\ DOMAIN plan = 1 .. Len(plan)
        /\ paperRun.next = Len(plan) + 1
  BY <1>1, <1>3, <1>4, UnderWay
<1>6. r.id = id /\ r.plan = plan
  BY <1>2
<1>7. RunShapes'
  BY <1>3, <1>4, <1>5, <1>6, RunEnds DEF RunShapes
<1>8. OpenItem'
  BY <1>3 DEF OpenItem
<1>9. RowsOfRuns'
  <2>1. RunNames' = RunNames \cup {id}
    BY <1>3, <1>6 DEF RunNames
  <2>2. StartedRuns' = StartedRuns
    BY <1>1, <1>3, <2>1, RunEnds DEF StartedRuns
  <2>. QED
    BY <1>3, <1>4, <2>2 DEF RowsOfRuns
<1>10. /\ \A x : OrdersOf(x)' = OrdersOf(x) /\ FillsOf(x)' = FillsOf(x) /\ EntriesOf(x)' = EntriesOf(x)
       /\ \A x, status : StoredWith(x, status)' = StoredWith(x, status)
  BY <1>3 DEF OrdersOf, FillsOf, EntriesOf, StoredWith
<1>11. CompletedRunsCoverThePlan'
  <2>1. ASSUME r.status = "COMPLETED", NEW n \in DOMAIN r.plan
        PROVE  \E o \in orders : o.id.intent = [r.plan[n] EXCEPT !.run = r.id]
    <3>1. tally.errors = 0
      BY <1>2, <2>1 DEF RunStatus
    <3>2. n \in 1 .. paperRun.next - 1 /\ n \in 1 .. Len(plan)
      BY <1>5, <1>6
    <3>3. Item(n) \in DoneItems
      BY <3>2 DEF DoneItems
    <3>4. PICK o \in OrdersOf(id) : o.id.intent = Item(n)
      BY <1>1, <1>3, <1>4, <3>1, <3>3 DEF ItemsStored
    <3>5. Item(n) = [r.plan[n] EXCEPT !.run = r.id]
      BY <1>1, <1>6, Zenon DEF Item
    <3>. QED
      BY <3>4, <3>5 DEF OrdersOf
  <2>. QED
    BY <1>3, <1>4, <2>1 DEF FinishedInv, CompletedRunsCoverThePlan
<1>12. /\ r.summary.total = Len(tally.orders) /\ r.summary.fills = tally.fills
       /\ r.summary.filled = Counted(tally, "FILLED") /\ r.summary.rejected = Counted(tally, "REJECTED")
       /\ r.summary.cash = tally.portfolio.cash
  BY <1>2 DEF Summary
<1>13. RunCountsMatchRows'
  <2>1. Distinct(r.plan) =>
          /\ r.summary.total = Cardinality(OrdersOf(r.id))
          /\ r.summary.fills = Cardinality(FillsOf(r.id))
          /\ r.summary.filled = Cardinality(StoredWith(r.id, "FILLED"))
          /\ r.summary.rejected = Cardinality(StoredWith(r.id, "REJECTED"))
    BY <1>1, <1>3, <1>4, <1>6, <1>12 DEF ItemsCounted
  <2>2. \A x \in paperRuns : Distinct(x.plan) =>
          /\ x.summary.total = Cardinality(OrdersOf(x.id))
          /\ x.summary.fills = Cardinality(FillsOf(x.id))
          /\ x.summary.filled = Cardinality(StoredWith(x.id, "FILLED"))
          /\ x.summary.rejected = Cardinality(StoredWith(x.id, "REJECTED"))
    BY <1>4 DEF FinishedInv, PaperRunsSound, RunCountsMatchRows, StoredWith
  <2>3. \A x \in paperRuns' : Distinct(x.plan) =>
          /\ x.summary.total = Cardinality(OrdersOf(x.id)')
          /\ x.summary.fills = Cardinality(FillsOf(x.id)')
          /\ x.summary.filled = Cardinality(StoredWith(x.id, "FILLED")')
          /\ x.summary.rejected = Cardinality(StoredWith(x.id, "REJECTED")')
    BY <1>3, <1>10, <2>1, <2>2
  <2>. QED
    BY <2>3 DEF RunCountsMatchRows, StoredWith
<1>14. SortedPlansEndOnTheirLedger'
  <2>1. InTime(r.plan) /\ r.summary.total > 0 => r.summary.cash = CashOf(r.id)
    BY <1>1, <1>3, <1>4, <1>6, <1>12 DEF BalancesSoFar
  <2>2. \A x \in paperRuns : InTime(x.plan) /\ x.summary.total > 0 => x.summary.cash = CashOf(x.id)
    BY <1>4 DEF FinishedInv, PaperRunsSound, SortedPlansEndOnTheirLedger, CashOf
  <2>3. \A x : CashOf(x)' = CashOf(x)
    BY <1>10 DEF CashOf
  <2>4. \A x \in paperRuns' : InTime(x.plan) /\ x.summary.total > 0 => x.summary.cash = CashOf(x.id)'
    BY <1>3, <2>1, <2>2, <2>3
  <2>. QED
    BY <2>4 DEF SortedPlansEndOnTheirLedger, CashOf
<1>. QED
  BY <1>3, <1>7, <1>8, <1>9, <1>11, <1>13, <1>14, RunEnds DEF RunInv, PaperRunsSound

LEMMA RunFails ==
  ASSUME RunInv, FailRun
  PROVE  RunInv'
<1>1. PICK id : id = paperRun.id
  OBVIOUS
<1>2. /\ paperRun # None /\ EndRun /\ Leave(runner) /\ paperRuns' = paperRuns
      /\ orders' = before.orders /\ fills' = before.fills /\ ledger' = before.ledger
      /\ positions' = before.positions /\ portfolios' = before.portfolios
  BY DEF FailRun
<1>3. RunShapes /\ FoundRows /\ RowsOfRuns /\ FinishedInv
  BY DEF RunInv, FinishedInv
<1>4. /\ orders' = {o \in orders : o.id.intent.run # id}
      /\ fills' = {f \in fills : f.order.intent.run # id}
      /\ ledger' = {e \in ledger : EntryIntent(e).run # id}
      /\ positions' = {p \in positions : p.run # id}
      /\ portfolios' = {p \in portfolios : p.run # id}
  BY <1>1, <1>2, <1>3 DEF FoundRows
<1>5. pc' \in [Sessions -> {"idle", "walk", "ready", "saved"}] /\ DOMAIN tx' = Sessions /\ pc'[runner] = "idle"
  BY <1>2, <1>3, RunnerAssumption DEF Leave, RunShapes
<1>6. RunShapes'
  BY <1>2, <1>3, <1>5, RunEnds DEF RunShapes
<1>7. OpenItem'
  BY <1>5 DEF OpenItem
<1>8. RowsOfRuns'
  <2>1. StartedRuns' = RunNames /\ StartedRuns = RunNames \cup {id}
    BY <1>1, <1>2, RunEnds DEF StartedRuns, RunNames
  <2>. QED
    BY <1>3, <1>4, <2>1 DEF RowsOfRuns
<1>9. \A r \in paperRuns : /\ OrdersOf(r.id)' = OrdersOf(r.id) /\ FillsOf(r.id)' = FillsOf(r.id)
                            /\ EntriesOf(r.id)' = EntriesOf(r.id)
  <2>1. \A r \in paperRuns : r.id # id
    BY <1>1, <1>2, <1>3, UnderWay DEF RunNames
  <2>. QED
    BY <1>4, <2>1 DEF OrdersOf, FillsOf, EntriesOf
<1>10. FinishedInv'
  BY <1>2, <1>3, <1>9, FinishedKept
<1>. QED
  BY <1>2, <1>6, <1>7, <1>8, <1>10, RunEnds DEF RunInv, FinishedInv
-----------------------------------------------------------------------------
(* Flushing an item adds its rows to those of its run and to no other's.   *)
NewEntries(t) == UNION {LedgerEntries(f) : f \in t.fills}

LEMMA EntriesAreOfTheFill ==
  ASSUME NEW i, NEW f, FillFor(f, i), NEW e \in LedgerEntries(f)
  PROVE  EntryIntent(e) = i
<1>1. e.fill = [f EXCEPT !.fee = 0]
  BY DEF LedgerEntries
<1>2. [f EXCEPT !.fee = 0].order = f.order
  BY DEF FillFor, FillFields
<1>. QED
  BY <1>1, <1>2 DEF EntryIntent, FillFor

LEMMA SameFillOfTheRun ==
  ASSUME NEW f, DOMAIN f = FillFields, NEW g, DOMAIN g = FillFields, SameFill(f, g)
  PROVE  f.order = g.order
<1>1. [f EXCEPT !.fee = 0].order = f.order /\ [g EXCEPT !.fee = 0].order = g.order
  BY DEF FillFields
<1>. QED
  BY <1>1 DEF SameFill

LEMMA Flushing ==
  ASSUME RunInv, RunFlush, NEW id, id = paperRun.id, NEW i, i = NextItem, NEW t, t = tx[runner]
  PROVE  /\ paperRun # None /\ TxFor(t, i) /\ i.run = id /\ i = Item(paperRun.next)
         /\ paperRun.next \in 1 .. Len(paperRun.plan)
         /\ t.portfolio.run = id /\ t.portfolio.cash = CashAfter(t)
         /\ orders' = {o \in orders : o.id # t.order.id} \cup {t.order}
         /\ fills' = {f \in fills : \A g \in t.fills : ~SameFill(f, g)} \cup t.fills
         /\ ledger' = ledger \cup NewEntries(t)
         /\ positions' = IF t.row = None THEN positions ELSE positions \cup {t.row}
         /\ portfolios' = portfolios \cup {t.portfolio}
         /\ paperRun' = [paperRun EXCEPT !.next = @ + 1] /\ tally' = Answered(tally, t)
         /\ before' = before /\ paperRuns' = paperRuns /\ Leave(runner)
<1>1. /\ paperRun # None /\ pc[runner] = "saved" /\ Leave(runner)
      /\ orders' = {o \in orders : o.id # t.order.id} \cup {t.order}
      /\ fills' = {f \in fills : \A g \in t.fills : ~SameFill(f, g)} \cup t.fills
      /\ ledger' = ledger \cup NewEntries(t)
      /\ positions' = IF t.row = None THEN positions ELSE positions \cup {t.row}
      /\ portfolios' = portfolios \cup {t.portfolio}
  BY DEF RunFlush, Commit, OrdersAfter, FillsAfter, LedgerAfter, PositionsAfter, NewEntries
<1>2. /\ paperRun' = [paperRun EXCEPT !.next = @ + 1] /\ tally' = Answered(tally, t)
      /\ before' = before /\ paperRuns' = paperRuns
  BY DEF RunFlush
<1>3. RunShapes /\ OpenItem
  BY DEF RunInv
<1>4. paperRun.next \in 1 .. Len(paperRun.plan)
  BY <1>1, <1>3, UnderWay DEF RunShapes
<1>5. i = Item(paperRun.next) /\ i.run = id
  BY <1>1, <1>3, <1>4, ItemOfRun DEF NextItem
<1>6. TxFor(t, i) /\ t.portfolio.run = id /\ t.portfolio.cash = CashAfter(t)
  BY <1>1, <1>3, <1>5 DEF OpenItem
<1>. QED
  BY <1>1, <1>2, <1>4, <1>5, <1>6

LEMMA FlushedRows ==
  ASSUME RunInv, RunFlush, NEW id, id = paperRun.id, NEW i, i = NextItem, NEW t, t = tx[runner]
  PROVE  /\ OrdersOf(id)' = {o \in OrdersOf(id) : o.id # t.order.id} \cup {t.order}
         /\ FillsOf(id)' = {f \in FillsOf(id) : \A g \in t.fills : ~SameFill(f, g)} \cup t.fills
         /\ EntriesOf(id)' = EntriesOf(id) \cup NewEntries(t)
         /\ \A x : x # id => /\ OrdersOf(x)' = OrdersOf(x) /\ FillsOf(x)' = FillsOf(x)
                            /\ EntriesOf(x)' = EntriesOf(x)
         /\ FoundRows' /\ RowsOfRuns'
<1>1. /\ paperRun # None /\ TxFor(t, i) /\ i.run = id
      /\ t.portfolio.run = id
      /\ orders' = {o \in orders : o.id # t.order.id} \cup {t.order}
      /\ fills' = {f \in fills : \A g \in t.fills : ~SameFill(f, g)} \cup t.fills
      /\ ledger' = ledger \cup NewEntries(t)
      /\ positions' = IF t.row = None THEN positions ELSE positions \cup {t.row}
      /\ portfolios' = portfolios \cup {t.portfolio}
      /\ before' = before /\ paperRuns' = paperRuns
  BY Flushing
<1>2. paperRun' \in RunsUnderWay /\ paperRun'.id = id /\ paperRun' # None
  <2>1. paperRun \in RunsUnderWay
    BY <1>1 DEF RunInv, RunShapes
  <2>2. paperRun' = [paperRun EXCEPT !.next = @ + 1]
    BY Flushing
  <2>. QED
    BY <2>1, <2>2, NoPaperRunAssumption DEF RunsUnderWay
<1>3. t.order.id.intent.run = id
  BY <1>1 DEF TxFor
<1>4. \A f \in t.fills : DOMAIN f = FillFields /\ f.order.intent.run = id
  BY <1>1 DEF TxFor, FillFor
<1>5. \A e \in NewEntries(t) : EntryIntent(e).run = id
  BY <1>1, EntriesAreOfTheFill DEF NewEntries, TxFor
<1>6. \A o \in orders : o.id.intent.run # id => o.id # t.order.id
  BY <1>3
<1>7. \A f \in fills : f.order.intent.run # id => \A g \in t.fills : ~SameFill(f, g)
  BY <1>4, SameFillOfTheRun DEF RunInv, RowsOfRuns
<1>8. OrdersOf(id)' = {o \in OrdersOf(id) : o.id # t.order.id} \cup {t.order}
  BY <1>1, <1>3 DEF OrdersOf
<1>9. FillsOf(id)' = {f \in FillsOf(id) : \A g \in t.fills : ~SameFill(f, g)} \cup t.fills
  BY <1>1, <1>4 DEF FillsOf
<1>10. EntriesOf(id)' = EntriesOf(id) \cup NewEntries(t)
  BY <1>1, <1>5 DEF EntriesOf
<1>11. ASSUME NEW x, x # id
       PROVE  OrdersOf(x)' = OrdersOf(x) /\ FillsOf(x)' = FillsOf(x) /\ EntriesOf(x)' = EntriesOf(x)
  <2>1. OrdersOf(x)' = OrdersOf(x)
    BY <1>1, <1>3, <1>6, <1>11 DEF OrdersOf
  <2>2. FillsOf(x)' = FillsOf(x)
    BY <1>1, <1>4, <1>7, <1>11 DEF FillsOf
  <2>3. EntriesOf(x)' = EntriesOf(x)
    BY <1>1, <1>5, <1>11 DEF EntriesOf
  <2>. QED
    BY <2>1, <2>2, <2>3
<1>12. FoundRows'
  <2>1. /\ before.orders = {o \in orders : o.id.intent.run # id}
        /\ before.fills = {f \in fills : f.order.intent.run # id}
        /\ before.ledger = {e \in ledger : EntryIntent(e).run # id}
        /\ before.positions = {p \in positions : p.run # id}
        /\ before.portfolios = {p \in portfolios : p.run # id}
    BY <1>1 DEF RunInv, FoundRows
  <2>2. {o \in orders' : o.id.intent.run # id} = {o \in orders : o.id.intent.run # id}
    BY <1>1, <1>3, <1>6
  <2>3. {f \in fills' : f.order.intent.run # id} = {f \in fills : f.order.intent.run # id}
    BY <1>1, <1>4, <1>7
  <2>4. {e \in ledger' : EntryIntent(e).run # id} = {e \in ledger : EntryIntent(e).run # id}
    BY <1>1, <1>5
  <2>5. {p \in positions' : p.run # id} = {p \in positions : p.run # id}
    BY <1>1 DEF TxFor
  <2>6. {p \in portfolios' : p.run # id} = {p \in portfolios : p.run # id}
    BY <1>1
  <2>. QED
    BY <1>1, <1>2, <2>1, <2>2, <2>3, <2>4, <2>5, <2>6 DEF FoundRows
<1>13. RowsOfRuns'
  <2>1. StartedRuns' = StartedRuns /\ id \in StartedRuns
    BY <1>1, <1>2 DEF StartedRuns, RunNames
  <2>2. RowsOfRuns
    BY DEF RunInv
  <2>3. \A o \in orders' : o.id.intent.run \in StartedRuns
    BY <1>1, <1>3, <2>1, <2>2 DEF RowsOfRuns
  <2>4. \A f \in fills' : DOMAIN f = FillFields /\ f.order.intent.run \in StartedRuns
    BY <1>1, <1>4, <2>1, <2>2 DEF RowsOfRuns
  <2>5. \A e \in ledger' : EntryIntent(e).run \in StartedRuns
    BY <1>1, <1>5, <2>1, <2>2 DEF RowsOfRuns
  <2>6. \A p \in positions' \cup portfolios' : p.run \in StartedRuns
    BY <1>1, <2>1, <2>2 DEF RowsOfRuns, TxFor
  <2>. QED
    BY <2>1, <2>3, <2>4, <2>5, <2>6 DEF RowsOfRuns
<1>. QED
  BY <1>8, <1>9, <1>10, <1>11, <1>12, <1>13

(* One more order and its fills are counted.                               *)
LEMMA OneMoreAnswer ==
  ASSUME NEW c, TallyOK(c), NEW t, IsFiniteSet(t.fills), NEW d, d = Answered(c, t)
  PROVE  /\ TallyOK(d) /\ Len(d.orders) = Len(c.orders) + 1 /\ Len(c.orders) \in Nat
         /\ d.fills = c.fills + Cardinality(t.fills) /\ d.errors = c.errors
         /\ d.portfolio = t.portfolio
         /\ \A status : /\ Counted(c, status) \in Nat
                       /\ Counted(d, status) = Counted(c, status) + IF t.order.status = status THEN 1 ELSE 0
<1>1. PICK os, o : os = c.orders /\ o = t.order
  OBVIOUS
<1> DEFINE S == {os[n] : n \in DOMAIN os} \cup {o}
<1>2. os \in Seq({os[n] : n \in DOMAIN os})
  BY <1>1 DEF TallyOK
<1>3. os \in Seq(S) /\ Len(os) \in Nat /\ DOMAIN os = 1 .. Len(os)
  <2>1. Len(os) \in Nat /\ DOMAIN os = 1 .. Len(os) /\ os = [n \in 1 .. Len(os) |-> os[n]]
    BY <1>2, LenProperties
  <2>2. \A n \in 1 .. Len(os) : os[n] \in S
    BY <2>1
  <2>. HIDE DEF S
  <2>3. os \in [1 .. Len(os) -> S]
    BY <2>1, <2>2
  <2>. QED
    BY <2>1, <2>3
<1>4. /\ Append(os, o) \in Seq(S) /\ Len(Append(os, o)) = Len(os) + 1
      /\ \A n \in 1 .. Len(os) : Append(os, o)[n] = os[n]
      /\ Append(os, o)[Len(os) + 1] = o
  <2>1. o \in S
    OBVIOUS
  <2>. HIDE DEF S
  <2>. QED
    BY <1>3, <2>1, AppendProperties
<1>5. /\ d.orders = Append(os, o) /\ d.fills = c.fills + Cardinality(t.fills) /\ d.errors = c.errors
      /\ d.portfolio = t.portfolio /\ DOMAIN d = DOMAIN c
  BY <1>1 DEF Answered, TallyOK
<1>6. PICK m, more : m = Len(os) /\ more = Append(os, o)
  OBVIOUS
<1>7. /\ m \in Nat /\ DOMAIN os = 1 .. m /\ DOMAIN more = 1 .. m + 1
      /\ \A n \in 1 .. m : more[n] = os[n]
      /\ more[m + 1] = o
  <2>1. DOMAIN more = 1 .. Len(more)
    <3>. HIDE DEF S
    <3>. QED BY <1>4, <1>6, LenProperties
  <2>. QED
    BY <1>3, <1>4, <1>6, <2>1
<1>8. TallyOK(d)
  <2>1. {more[n] : n \in DOMAIN more} = S
    BY <1>7
  <2>2. Cardinality(t.fills) \in Nat
    BY FS_CardinalityType
  <2>3. more \in Seq({more[n] : n \in DOMAIN more})
    <3>. HIDE DEF S
    <3>. QED
      BY <1>4, <1>6, <2>1
  <2>4. d.orders \in Seq({d.orders[n] : n \in DOMAIN d.orders})
    BY <1>5, <1>6, <2>3, Zenon
  <2>5. d.fills \in Nat /\ d.errors \in Nat
    <3>1. c.fills \in Nat /\ c.errors \in Nat
      BY DEF TallyOK
    <3>. QED
      BY <1>5, <2>2, <3>1
  <2>. QED
    BY <1>5, <2>4, <2>5, Zenon DEF TallyOK
<1>9. ASSUME NEW status
      PROVE  /\ Counted(c, status) \in Nat
             /\ Counted(d, status) = Counted(c, status) + IF o.status = status THEN 1 ELSE 0
  <2> DEFINE old == {n \in 1 .. m : os[n].status = status}
             new == {n \in 1 .. m + 1 : more[n].status = status}
  <2>1. IsFiniteSet(1 .. m)
    BY <1>7, FS_Interval
  <2>2. IsFiniteSet(old) /\ Cardinality(old) \in Nat
    BY <2>1, FS_Subset, FS_CardinalityType
  <2>3. Counted(c, status) = Cardinality(old) /\ Counted(d, status) = Cardinality(new)
    BY <1>1, <1>5, <1>6, <1>7 DEF Counted
  <2>4. m + 1 \notin old
    BY <1>7
  <2>5. CASE o.status = status
    <3>1. new = old \cup {m + 1}
      BY <1>7, <2>5
    <3>2. Cardinality(new) = Cardinality(old) + 1
      <4>. HIDE DEF old, new
      <4>. QED
        BY <2>2, <2>4, <3>1, FS_AddElement
    <3>. QED
      BY <2>2, <2>3, <2>5, <3>2
  <2>6. CASE o.status # status
    <3>1. new = old
      BY <1>7, <2>6
    <3>. HIDE DEF old, new
    <3>. QED
      BY <2>2, <2>3, <2>6, <3>1
  <2>. QED
    BY <2>5, <2>6
<1>. QED
  BY <1>1, <1>3, <1>4, <1>5, <1>8, <1>9

LEMMA FlushedShapes ==
  ASSUME RunInv, RunFlush, NEW id, id = paperRun.id
  PROVE  /\ RunShapes' /\ OpenItem' /\ paperRun' # None /\ paperRun'.id = id
         /\ paperRun'.plan = paperRun.plan /\ paperRun'.next = paperRun.next + 1
         /\ DoneItems' = DoneItems \cup {NextItem}
<1>1. PICK i, t, n, plan : i = NextItem /\ t = tx[runner] /\ n = paperRun.next /\ plan = paperRun.plan
  OBVIOUS
<1>2. /\ paperRun # None /\ TxFor(t, i) /\ n \in 1 .. Len(plan)
      /\ paperRun' = [paperRun EXCEPT !.next = @ + 1] /\ tally' = Answered(tally, t)
      /\ paperRuns' = paperRuns /\ Leave(runner)
  BY <1>1, Flushing
<1>3. RunShapes
  BY DEF RunInv
<1>4. /\ n \in Nat /\ Len(plan) \in Nat /\ plan \in Plans /\ id \notin RunNames
  BY <1>1, <1>2, <1>3, UnderWay
<1>5. /\ paperRun' \in RunsUnderWay /\ paperRun' # None /\ paperRun'.id = id
      /\ paperRun'.plan = plan /\ paperRun'.next = n + 1
  BY <1>1, <1>2, <1>3, <1>4, NoPaperRunAssumption DEF RunShapes, RunsUnderWay
<1>6. pc' \in [Sessions -> {"idle", "walk", "ready", "saved"}] /\ DOMAIN tx' = Sessions /\ pc'[runner] = "idle"
  BY <1>2, <1>3, RunnerAssumption DEF Leave, RunShapes
<1>7. TallyOK(tally')
  BY <1>2, <1>3, OneMoreAnswer DEF RunShapes, TxFor
<1>8. RunShapes'
  BY <1>2, <1>3, <1>4, <1>5, <1>6, <1>7 DEF RunShapes, RunNames
<1>9. OpenItem'
  BY <1>6 DEF OpenItem
<1>10. DoneItems' = DoneItems \cup {i}
  <2>1. \A k : Item(k)' = Item(k)
    BY <1>1, <1>5 DEF Item
  <2>2. DoneItems' = {Item(k) : k \in 1 .. n}
    BY <1>4, <1>5, <2>1 DEF DoneItems
  <2>3. DoneItems = {Item(k) : k \in 1 .. n - 1} /\ i = Item(n)
    BY <1>1 DEF DoneItems, NextItem
  <2>4. \A k : k \in 1 .. n <=> k \in 1 .. n - 1 \/ k = n
    BY <1>2, <1>4
  <2>. QED
    BY <2>2, <2>3, <2>4
<1>. QED
  BY <1>1, <1>5, <1>8, <1>9, <1>10

LEMMA FlushedItems ==
  ASSUME RunInv, RunFlush
  PROVE  ItemsStored'
<1>1. PICK id, i, t : id = paperRun.id /\ i = NextItem /\ t = tx[runner]
  OBVIOUS
<1>2. /\ paperRun # None /\ TxFor(t, i) /\ tally' = Answered(tally, t)
  BY <1>1, Flushing
<1>3. /\ OrdersOf(id)' = {o \in OrdersOf(id) : o.id # t.order.id} \cup {t.order}
      /\ FillsOf(id)' = {f \in FillsOf(id) : \A g \in t.fills : ~SameFill(f, g)} \cup t.fills
      /\ EntriesOf(id)' = EntriesOf(id) \cup NewEntries(t)
  BY <1>1, FlushedRows
<1>4. paperRun' # None /\ paperRun'.id = id /\ DoneItems' = DoneItems \cup {i}
  BY <1>1, FlushedShapes
<1>5. ItemsStored /\ RunShapes
  BY DEF RunInv
<1>6. /\ \A o \in OrdersOf(id) : o.id.intent \in DoneItems
      /\ \A f \in FillsOf(id) : f.order.intent \in DoneItems
      /\ \A e \in EntriesOf(id) : EntryIntent(e) \in DoneItems
      /\ tally.errors = 0 => \A j \in DoneItems : \E o \in OrdersOf(id) : o.id.intent = j
  BY <1>1, <1>2, <1>5 DEF ItemsStored
<1>7. t.order.id.intent = i /\ \A f \in t.fills : FillFor(f, i)
  BY <1>2 DEF TxFor
<1>8. \A o \in OrdersOf(id)' : o.id.intent \in DoneItems'
  BY <1>3, <1>4, <1>6, <1>7
<1>9. \A f \in FillsOf(id)' : f.order.intent \in DoneItems'
  BY <1>3, <1>4, <1>6, <1>7 DEF FillFor
<1>10. \A e \in EntriesOf(id)' : EntryIntent(e) \in DoneItems'
  BY <1>3, <1>4, <1>6, <1>7, EntriesAreOfTheFill DEF NewEntries
<1>11. tally'.errors = tally.errors
  BY <1>2, <1>5, OneMoreAnswer DEF RunShapes, TxFor
<1>12. ASSUME tally.errors = 0, NEW j \in DoneItems'
       PROVE  \E o \in OrdersOf(id)' : o.id.intent = j
  <2>1. CASE j = i
    BY <1>3, <1>7, <2>1
  <2>2. CASE j # i
    <3>1. PICK o \in OrdersOf(id) : o.id.intent = j
      BY <1>4, <1>6, <1>12, <2>2
    <3>2. o.id # t.order.id
      BY <1>7, <2>2, <3>1
    <3>. QED
      BY <1>3, <3>1, <3>2
  <2>. QED
    BY <2>1, <2>2
<1>. QED
  BY <1>4, <1>8, <1>9, <1>10, <1>11, <1>12 DEF ItemsStored

(* An item of a plan without repetitions has stored nothing before.        *)
LEMMA NextIsNew ==
  ASSUME RunShapes, paperRun # None, Distinct(paperRun.plan),
         paperRun.next \in 1 .. Len(paperRun.plan)
  PROVE  NextItem \notin DoneItems
<1>1. PICK n, l : n = paperRun.next /\ l = Len(paperRun.plan)
  OBVIOUS
<1>2. n \in Nat /\ l \in Nat /\ n \in 1 .. l
  BY <1>1, UnderWay
<1>3. ASSUME NEW k \in 1 .. n - 1, Item(k) = Item(n)
      PROVE  FALSE
  <2>1. k \in 1 .. l /\ k # n
    BY <1>2
  <2>. QED
    BY <1>1, <1>2, <1>3, <2>1, ItemsDistinct
<1>. QED
  BY <1>1, <1>3 DEF NextItem, DoneItems

LEMMA FlushedCounts ==
  ASSUME RunInv, RunFlush
  PROVE  ItemsCounted'
<1>1. PICK id, i, t : id = paperRun.id /\ i = NextItem /\ t = tx[runner]
  OBVIOUS
<1>2. /\ paperRun # None /\ TxFor(t, i) /\ tally' = Answered(tally, t)
      /\ paperRun.next \in 1 .. Len(paperRun.plan)
  BY <1>1, Flushing
<1>3. /\ OrdersOf(id)' = {o \in OrdersOf(id) : o.id # t.order.id} \cup {t.order}
      /\ FillsOf(id)' = {f \in FillsOf(id) : \A g \in t.fills : ~SameFill(f, g)} \cup t.fills
  BY <1>1, FlushedRows
<1>4. paperRun' # None /\ paperRun'.id = id /\ paperRun'.plan = paperRun.plan
  BY <1>1, FlushedShapes
<1>5. RunShapes /\ RowsOfRuns /\ ItemsStored /\ ItemsCounted
  BY DEF RunInv
<1>6. SUFFICES ASSUME Distinct(paperRun.plan)
               PROVE  /\ IsFiniteSet(OrdersOf(id)') /\ IsFiniteSet(FillsOf(id)')
                      /\ Len(tally'.orders) = Cardinality(OrdersOf(id)')
                      /\ tally'.fills = Cardinality(FillsOf(id)')
                      /\ \A status \in {"FILLED", "REJECTED"} :
                           Counted(tally', status) = Cardinality(StoredWith(id, status)')
  BY <1>4 DEF ItemsCounted
<1>7. i \notin DoneItems
  BY <1>1, <1>2, <1>5, <1>6, NextIsNew
<1>8. \A o \in OrdersOf(id) : o.id # t.order.id
  BY <1>1, <1>2, <1>5, <1>7 DEF ItemsStored, TxFor
<1>9. \A f \in FillsOf(id) : f.order.intent # i
  BY <1>1, <1>2, <1>5, <1>7 DEF ItemsStored
<1>10. \A f \in FillsOf(id), g \in t.fills : ~SameFill(f, g)
  BY <1>2, <1>5, <1>9, SameFillOfTheRun DEF FillsOf, RowsOfRuns, TxFor, FillFor
<1>11. FillsOf(id) \cap t.fills = {}
  BY <1>2, <1>9 DEF TxFor, FillFor
<1>12. PICK O, F : O = OrdersOf(id) /\ F = FillsOf(id)
  OBVIOUS
<1>13. OrdersOf(id)' = O \cup {t.order} /\ t.order \notin O /\ FillsOf(id)' = F \cup t.fills
  BY <1>3, <1>8, <1>10, <1>12
<1>14. /\ IsFiniteSet(O) /\ IsFiniteSet(F) /\ IsFiniteSet(t.fills) /\ F \cap t.fills = {}
       /\ Len(tally.orders) = Cardinality(O) /\ tally.fills = Cardinality(F)
       /\ \A status \in {"FILLED", "REJECTED"} : Counted(tally, status) = Cardinality(StoredWith(id, status))
  BY <1>1, <1>2, <1>5, <1>6, <1>11, <1>12 DEF ItemsCounted, TxFor
<1>15. /\ Len(tally'.orders) = Len(tally.orders) + 1
       /\ tally'.fills = tally.fills + Cardinality(t.fills)
       /\ \A status : Counted(tally', status) =
                       Counted(tally, status) + IF t.order.status = status THEN 1 ELSE 0
  <2>1. TallyOK(tally)
    BY <1>5 DEF RunShapes
  <2>2. IsFiniteSet(t.fills)
    BY <1>14
  <2>3. PICK d : d = tally'
    OBVIOUS
  <2>4. d = Answered(tally, t)
    BY <1>2, <2>3
  <2>5. /\ Len(d.orders) = Len(tally.orders) + 1
        /\ d.fills = tally.fills + Cardinality(t.fills)
        /\ \A status : Counted(d, status) =
                        Counted(tally, status) + IF t.order.status = status THEN 1 ELSE 0
    BY <2>1, <2>2, <2>4, OneMoreAnswer
  <2>. QED
    BY <2>3, <2>5
<1>16. IsFiniteSet(O \cup {t.order}) /\ Cardinality(O \cup {t.order}) = Cardinality(O) + 1
  BY <1>13, <1>14, FS_AddElement
<1>17. IsFiniteSet(F \cup t.fills)
         /\ Cardinality(F \cup t.fills) = Cardinality(F) + Cardinality(t.fills)
  <2>1. Cardinality(F) \in Nat /\ Cardinality(t.fills) \in Nat
    BY <1>14, FS_CardinalityType
  <2>2. IsFiniteSet(F \cup t.fills)
          /\ Cardinality(F \cup t.fills) = Cardinality(F) + Cardinality(t.fills) - 0
    BY <1>14, FS_Union, FS_EmptySet
  <2>. QED
    BY <2>1, <2>2
<1>18. ASSUME NEW status \in {"FILLED", "REJECTED"}
       PROVE  Counted(tally', status) = Cardinality(StoredWith(id, status)')
  <2>1. PICK W, V : W = StoredWith(id, status) /\ V = StoredWith(id, status)'
    OBVIOUS
  <2>2. W = {o \in O : o.status = status} /\ V = {o \in O \cup {t.order} : o.status = status}
    BY <1>12, <1>13, <2>1 DEF StoredWith
  <2>3. IsFiniteSet(W) /\ t.order \notin W
    BY <1>13, <1>14, <2>2, FS_Subset
  <2>4. Cardinality(W) \in Nat
    BY <2>3, FS_CardinalityType
  <2>5. CASE t.order.status = status
    <3>1. V = W \cup {t.order}
      BY <2>2, <2>5
    <3>2. Cardinality(V) = Cardinality(W) + 1
      BY <2>3, <3>1, FS_AddElement
    <3>. QED
      BY <1>14, <1>15, <2>1, <2>5, <3>2
  <2>6. CASE t.order.status # status
    <3>1. V = W
      BY <2>2, <2>6
    <3>2. Counted(tally', status) = Cardinality(W) + 0
      BY <1>14, <1>15, <2>1, <2>6
    <3>. QED
      BY <2>1, <2>4, <3>1, <3>2
  <2>. QED
    BY <2>5, <2>6
<1>. QED
  BY <1>13, <1>14, <1>15, <1>16, <1>17, <1>18

LEMMA FlushedBalances ==
  ASSUME RunInv, RunFlush
  PROVE  BalancesSoFar'
<1>1. PICK id, i, t, n : id = paperRun.id /\ i = NextItem /\ t = tx[runner] /\ n = paperRun.next
  OBVIOUS
<1>2. /\ paperRun # None /\ TxFor(t, i) /\ tally' = Answered(tally, t) /\ i.run = id /\ i = Item(n)
      /\ n \in 1 .. Len(paperRun.plan) /\ t.portfolio.cash = CashAfter(t)
      /\ ledger' = ledger \cup NewEntries(t)
  BY <1>1, Flushing
<1>3. EntriesOf(id)' = EntriesOf(id) \cup NewEntries(t)
  BY <1>1, FlushedRows
<1>4. paperRun' # None /\ paperRun'.id = id /\ paperRun'.plan = paperRun.plan /\ DoneItems' = DoneItems \cup {i}
  BY <1>1, FlushedShapes
<1>5. RunShapes /\ ItemsStored
  BY DEF RunInv
<1>6. SUFFICES ASSUME InTime(paperRun.plan)
               PROVE  tally'.portfolio.cash = CashOf(id)'
  BY <1>4 DEF BalancesSoFar
<1>7. tally'.portfolio = t.portfolio
  BY <1>2, <1>5, OneMoreAnswer DEF RunShapes, TxFor
<1>8. id # None /\ t.intent = i
  BY <1>1, <1>2, <1>5, UnderWay DEF TxFor
<1>9. ASSUME NEW e \in EntriesOf(id)'
      PROVE  EntryIntent(e).asof <= i.asof
  <2>1. EntryIntent(e) \in DoneItems \cup {i}
    <3>1. ItemsStored'
      BY FlushedItems
    <3>. QED
      BY <1>4, <3>1 DEF ItemsStored
  <2>2. i.asof \in Nat /\ i.asof = paperRun.plan[n].asof
    BY <1>2, <1>5, ItemOfRun
  <2>3. ASSUME NEW k \in 1 .. n - 1 PROVE Item(k).asof <= i.asof
    <3>1. PICK l \in Nat : l = Len(paperRun.plan)
      BY <1>2, <1>5, UnderWay
    <3>2. n \in 1 .. l /\ k \in 1 .. l /\ k < n
      BY <1>2, <3>1
    <3>3. DOMAIN paperRun.plan = 1 .. l
      BY <1>2, <1>5, <3>1, UnderWay
    <3>4. paperRun.plan[k].asof < paperRun.plan[n].asof
      BY <1>6, <3>2, <3>3 DEF InTime
    <3>5. Item(k).asof = paperRun.plan[k].asof /\ Item(k).asof \in Nat
      BY <1>2, <1>5, <3>1, <3>2, ItemOfRun
    <3>. QED
      BY <2>2, <3>4, <3>5
  <2>. QED
    BY <1>1, <2>1, <2>2, <2>3 DEF DoneItems
<1>10. EntriesUpTo(t) = EntriesOf(id)'
  <2>1. LedgerAfter(t) = ledger'
    BY <1>2 DEF LedgerAfter, NewEntries
  <2>2. EntriesUpTo(t) = {e \in ledger' : EntryIntent(e).run = id /\ EntryIntent(e).asof <= i.asof}
    BY <1>2, <1>8, <2>1 DEF EntriesUpTo, OfRun
  <2>3. EntriesOf(id)' = {e \in ledger' : EntryIntent(e).run = id}
    BY DEF EntriesOf
  <2>. QED
    BY <1>9, <2>2, <2>3
<1>. QED
  BY <1>2, <1>7, <1>10 DEF CashAfter, CashOf

LEMMA ItemFlushed ==
  ASSUME RunInv, RunFlush
  PROVE  RunInv'
<1>1. PICK id : id = paperRun.id
  OBVIOUS
<1>2. RunShapes' /\ OpenItem' /\ ItemsStored' /\ ItemsCounted' /\ BalancesSoFar'
  BY <1>1, FlushedShapes, FlushedItems, FlushedCounts, FlushedBalances
<1>3. FoundRows' /\ RowsOfRuns'
  BY <1>1, FlushedRows
<1>4. FinishedInv'
  <2>1. RunShapes /\ FinishedInv /\ paperRuns' = paperRuns /\ paperRun # None
    BY Flushing DEF RunInv, FinishedInv
  <2>2. \A r \in paperRuns : r.id # id
    BY <1>1, <2>1, UnderWay DEF RunNames
  <2>3. \A r \in paperRuns : /\ OrdersOf(r.id)' = OrdersOf(r.id) /\ FillsOf(r.id)' = FillsOf(r.id)
                              /\ EntriesOf(r.id)' = EntriesOf(r.id)
    BY <1>1, <2>2, FlushedRows
  <2>. QED
    BY <2>1, <2>3, FinishedKept
<1>. QED
  BY <1>2, <1>3, <1>4 DEF RunInv, FinishedInv
-----------------------------------------------------------------------------
LEMMA OnlyTheItemMoves ==
  ASSUME RunInv, RunShapes', OpenItem', UNCHANGED <<tables, runVars>>
  PROVE  RunInv'
<1>1. StoredInv
  BY DEF RunInv, StoredInv
<1>2. StoredInv'
  BY <1>1, RowsUntouched
<1>. QED
  BY <1>2 DEF RunInv, StoredInv

LEMMA NothingOfRunsMoves ==
  ASSUME RunInv, UNCHANGED <<tables, runVars, pc, tx>>
  PROVE  RunInv'
<1>1. RunShapes'
  BY DEF RunInv, RunShapes, RunNames, TallyOK, runVars
<1>2. OpenItem'
  <2>1. \A t : CashAfter(t)' = CashAfter(t)
    BY DEF CashAfter, EntriesUpTo, LedgerAfter, tables
  <2>2. NextItem' = NextItem
    BY DEF NextItem, Item, runVars
  <2>. QED
    BY <2>1, <2>2 DEF RunInv, OpenItem
<1>. QED
  BY <1>1, <1>2, OnlyTheItemMoves

LEMMA RunStep ==
  ASSUME RunInv, [RunNext]_<<vars, runVars>>
  PROVE  RunInv'
<1>1. CASE \E b \in Books : CaptureBook(b) /\ UNCHANGED runVars
  BY <1>1, NothingOfRunsMoves DEF CaptureBook, tables
<1>2. CASE \E id \in RunIds, plan \in Plans : BeginRun(id, plan)
  BY <1>2, RunBegins
<1>3. CASE RunError
  BY <1>3, ItemFails
<1>4. CASE RunSubmit
  <2>1. RunShapes' /\ OpenItem'
    BY <1>4, OpensItem DEF RunInv
  <2>2. UNCHANGED <<tables, runVars>>
    BY <1>4 DEF RunSubmit, RejectIntent, RestOrder, StartWalk, Enter
  <2>. QED
    BY <2>1, <2>2, OnlyTheItemMoves
<1>5. CASE RunProceed
  <2>1. RunShapes' /\ OpenItem' /\ UNCHANGED <<tables, runVars>>
    BY <1>5, ProceedsItem DEF RunInv
  <2>. QED
    BY <2>1, OnlyTheItemMoves
<1>6. CASE RunFlush
  BY <1>6, ItemFlushed
<1>7. CASE FinishRun
  BY <1>7, RunFinishes
<1>8. CASE FailRun
  BY <1>8, RunFails
<1>9. CASE UNCHANGED <<vars, runVars>>
  BY <1>9, NothingOfRunsMoves DEF vars, tables
<1>. QED
  BY <1>1, <1>2, <1>3, <1>4, <1>5, <1>6, <1>7, <1>8, <1>9 DEF RunNext

LEMMA RunInitially ==
  ASSUME RunInit
  PROVE  RunInv
<1>1. /\ orders = {} /\ fills = {} /\ ledger = {} /\ positions = {} /\ portfolios = {}
      /\ paperRun = None /\ tally = NothingCounted /\ paperRuns = {}
      /\ pc = [s \in Sessions |-> "idle"] /\ tx = [s \in Sessions |-> None]
  BY DEF RunInit, Init
<1>2. RunShapes /\ OpenItem
  BY <1>1, RunnerAssumption, NothingCountedOK DEF RunShapes, OpenItem
<1>3. FoundRows /\ RowsOfRuns /\ ItemsStored /\ ItemsCounted /\ BalancesSoFar
  BY <1>1 DEF FoundRows, RowsOfRuns, ItemsStored, ItemsCounted, BalancesSoFar
<1>4. CompletedRunsCoverThePlan /\ PaperRunsSound
  BY <1>1 DEF CompletedRunsCoverThePlan, PaperRunsSound, RunCountsMatchRows, SortedPlansEndOnTheirLedger
<1>. QED
  BY <1>2, <1>3, <1>4 DEF RunInv

LEMMA RunInvHolds == RunSpec => []RunInv
<1>1. RunInit => RunInv
  BY RunInitially
<1>2. RunInv /\ [RunNext]_<<vars, runVars>> => RunInv'
  BY RunStep
<1>. QED
  BY <1>1, <1>2, PTL DEF RunSpec

(* A paper run is all or nothing: one that raised has left no order, fill, *)
(* position or portfolio, although every item before was flushed, and one  *)
(* that completed has an order for every item of its plan (runner.py).     *)
THEOREM PaperRunsAreAtomic == RunSpec => []PaperRunsAtomic
<1>1. RunInv => PaperRunsAtomic
  BY DEF RunInv, RowsOfRuns, StartedRuns, RunNames, PaperRunsAtomic, NoHalfRuns
<1>. QED
  BY <1>1, RunInvHolds, PTL

(* What a finished run reports stays what is stored: its counters are the  *)
(* numbers of its orders and fills and its cash is the balance of its own  *)
(* ledger, whatever other runs store or roll back afterwards.              *)
THEOREM PaperRunsReportTheirRows == RunSpec => []PaperRunsSound
<1>1. RunInv => PaperRunsSound
  BY DEF RunInv
<1>. QED
  BY <1>1, RunInvHolds, PTL

-----------------------------------------------------------------------------
(* What a decision is, for any policy within its bounds and any context    *)
(* whose scores are scores.                                                *)
ContextOK(c) ==
  /\ c.verdict.risk \in 0 .. 100
  /\ IsFiniteSet(c.restrictions) /\ \A r \in c.restrictions : r.cap \in Nat \cup {None}
  /\ c.quality # None => c.quality.score \in 0 .. 100
  /\ c.integrity # None => c.integrity.risk \in 0 .. 100
  /\ IsFiniteSet(c.divergences) /\ \A d \in c.divergences : d.score \in 0 .. 100
  /\ c.exposure # None =>
       /\ {c.exposure.market, c.exposure.event, c.exposure.venue} \subseteq Int
       /\ c.exposure.strategy \in Int \cup {None}

(* Sets that are written out are finite.                                   *)
LEMMA FewAreFinite ==
  ASSUME NEW a, NEW b, NEW c, NEW d
  PROVE  IsFiniteSet({a}) /\ IsFiniteSet({a, b, c}) /\ IsFiniteSet({a, b, c, d})
<1>1. IsFiniteSet({a})
  BY FS_Singleton
<1>2. IsFiniteSet({a} \cup {b})
  BY <1>1, FS_AddElement
<1>3. IsFiniteSet(({a} \cup {b}) \cup {c})
  BY <1>2, FS_AddElement
<1>4. IsFiniteSet((({a} \cup {b}) \cup {c}) \cup {d})
  BY <1>3, FS_AddElement
<1>5. /\ ({a} \cup {b}) \cup {c} = {a, b, c}
      /\ (({a} \cup {b}) \cup {c}) \cup {d} = {a, b, c, d}
  OBVIOUS
<1>. QED
  BY <1>1, <1>3, <1>4, <1>5

(* So are the values of a function on finitely many.                       *)
LEMMA ValuesAreFinite ==
  ASSUME NEW S, IsFiniteSet(S), NEW f
  PROVE  IsFiniteSet({f[x] : x \in S})
<1> DEFINE T == {f[x] : x \in S}
<1>1. PICK g : g = [x \in S |-> f[x]]
  OBVIOUS
<1>2. g \in [S -> T] /\ \A y \in T : \E x \in S : g[x] = y
  BY <1>1
<1>. HIDE DEF T
<1>3. g \in Surjection(S, T)
  BY <1>2 DEF Surjection
<1>4. IsFiniteSet(T)
  BY <1>3, FS_Surjection
<1>. QED
  BY <1>4 DEF T

LEMMA ActionsNamed ==
  /\ Range(Actions) = {"ALLOW", "ALLOW_SMALLER_SIZE", "PASSIVE_ONLY", "MANUAL_REVIEW", "NO_TRADE"}
  /\ IsFiniteSet(Range(Actions))
<1>1. Range(Actions) = {"ALLOW", "ALLOW_SMALLER_SIZE", "PASSIVE_ONLY", "MANUAL_REVIEW", "NO_TRADE"}
  BY DEF Range, Actions
<1>2. IsFiniteSet({"ALLOW", "ALLOW_SMALLER_SIZE", "PASSIVE_ONLY", "MANUAL_REVIEW"})
  BY FewAreFinite
<1>3. IsFiniteSet({"ALLOW", "ALLOW_SMALLER_SIZE", "PASSIVE_ONLY", "MANUAL_REVIEW"} \cup {"NO_TRADE"})
  BY <1>2, FS_AddElement
<1>. QED
  BY <1>1, <1>3

(* The sizes and caps of a decision are finitely many integers.            *)
LEMMA CapsAreSizes ==
  ASSUME NEW i, i.size \in Nat, NEW p, ValidPolicy(p), NEW c, ContextOK(c)
  PROVE  /\ Gate(i, p.limits, c)!Caps \subseteq Int /\ IsFiniteSet(Gate(i, p.limits, c)!Caps)
         /\ ~Gate(i, p.limits, c)!AsksForBlock => Gate(i, p.limits, c)!Caps \subseteq Nat
<1> DEFINE l == p.limits
           G == {r.cap : r \in Gate(i, l, c)!SizeLimits}
           E == Gate(i, l, c)!Capacities
<1>1. Gate(i, l, c)!Caps = {l.maxOrder} \cup G \cup (IF c.exposure = None THEN {} ELSE E)
  BY DEF Gate!Caps
<1>2. l.maxOrder \in Nat /\ IsFiniteSet({l.maxOrder})
  BY FS_Singleton DEF ValidPolicy
<1>3. G \subseteq Nat /\ IsFiniteSet(G)
  <2>1. Gate(i, l, c)!SizeLimits \subseteq c.restrictions /\ IsFiniteSet(c.restrictions)
    BY DEF Gate!SizeLimits, ContextOK
  <2>2. IsFiniteSet(Gate(i, l, c)!SizeLimits)
    BY <2>1, FS_Subset
  <2>3. IsFiniteSet(G)
    <3> DEFINE T == Gate(i, l, c)!SizeLimits
    <3>1. PICK f : f = [r \in T |-> r.cap]
      OBVIOUS
    <3>2. G = {f[r] : r \in T}
      BY <3>1
    <3>. HIDE DEF T, G
    <3>. QED
      BY <2>2, <3>2, ValuesAreFinite DEF T
  <2>. QED
    BY <2>3 DEF Gate!SizeLimits, ContextOK
<1>4. CASE c.exposure # None
  <2> DEFINE e == c.exposure
             A == {l.maxMarket - e.market, l.maxEvent - e.event, l.maxVenue - e.venue}
             B == IF l.maxStrategy # None /\ e.strategy # None THEN {l.maxStrategy - e.strategy} ELSE {}
  <2>1. E = A \cup B
    BY DEF Gate!Capacities
  <2>2. A \subseteq Int /\ B \subseteq Int
    BY <1>4 DEF ValidPolicy, ContextOK
  <2>3. IsFiniteSet(A) /\ IsFiniteSet(B)
    <3>1. IsFiniteSet({l.maxStrategy - e.strategy}) /\ IsFiniteSet({})
      BY FS_Singleton, FS_EmptySet
    <3>. QED
      BY <3>1, FewAreFinite
  <2>4. IsFiniteSet(E) /\ E \subseteq Int
    <3>. HIDE DEF A, B
    <3>. QED
      BY <2>1, <2>2, <2>3, FS_Union
  <2>. HIDE DEF E, G, l
  <2>5. Gate(i, l, c)!Caps = {l.maxOrder} \cup G \cup E
    BY <1>1, <1>4
  <2>6. IsFiniteSet({l.maxOrder} \cup G)
    BY <1>2, <1>3, FS_Union
  <2>7. IsFiniteSet(({l.maxOrder} \cup G) \cup E)
    BY <2>4, <2>6, FS_Union
  <2>8. ~Gate(i, l, c)!AsksForBlock => \A x \in E : ~(x <= 0)
    BY <1>4 DEF Gate!AsksForBlock, Gate!CapacityExhausted, E
  <2>9. ~Gate(i, l, c)!AsksForBlock => E \subseteq Nat
    BY <2>4, <2>8
  <2>10. Gate(i, l, c)!Caps \subseteq Int /\ (E \subseteq Nat => Gate(i, l, c)!Caps \subseteq Nat)
    <3>1. \A x \in {l.maxOrder} : x \in Nat /\ x \in Int
      BY <1>2
    <3>2. \A x \in G : x \in Nat /\ x \in Int
      BY <1>3
    <3>3. \A x \in E : x \in Int
      BY <2>4
    <3>. QED
      BY <2>5, <3>1, <3>2, <3>3, Zenon
  <2>. QED
    BY <2>5, <2>7, <2>9, <2>10, Zenon DEF l
<1>5. CASE c.exposure = None
  <2>. HIDE DEF E, G, l
  <2>1. Gate(i, l, c)!Caps = {l.maxOrder} \cup G
    BY <1>1, <1>5
  <2>2. IsFiniteSet({l.maxOrder} \cup G)
    BY <1>2, <1>3, FS_Union
  <2>3. Gate(i, l, c)!Caps \subseteq Nat
    BY <1>2, <1>3, <2>1
  <2>4. Gate(i, l, c)!Caps \subseteq Int
    BY <2>3
  <2>. QED
    BY <2>1, <2>2, <2>3, <2>4, Zenon DEF l
<1>. QED
  BY <1>4, <1>5

(* The action and the size of a decision agree, and there is a size.       *)
LEMMA SizeDecided ==
  ASSUME NEW i, i.size \in Nat \ {0}, NEW p, ValidPolicy(p), NEW c, ContextOK(c),
         NEW act, act = Gate(i, p.limits, c)!Act, NEW F, F = Gate(i, p.limits, c)!FinalSizes
  PROVE  /\ act \in Range(Actions) /\ F # {} /\ \A n \in F : n \in Nat /\ n <= i.size
         /\ act \in {"MANUAL_REVIEW", "NO_TRADE"} => F = {0}
         /\ act = "ALLOW" => F \subseteq {i.size}
<1>1. act \in Range(Actions)
  BY ActionsNamed DEF Gate!Act
<1>2. PICK caps : caps = Gate(i, p.limits, c)!Caps
  OBVIOUS
<1>3. F = IF act \in {"MANUAL_REVIEW", "NO_TRADE"} THEN {0}
          ELSE {k \in {i.size} \cup caps : \A cap \in {i.size} \cup caps : k <= cap}
  BY <1>2 DEF Gate!FinalSizes
<1>4. act \notin {"MANUAL_REVIEW", "NO_TRADE"} => caps \subseteq Nat /\ IsFiniteSet(caps)
  <2>1. act \notin {"MANUAL_REVIEW", "NO_TRADE"} => ~Gate(i, p.limits, c)!AsksForBlock
    BY DEF Gate!Act
  <2>. QED
    BY <1>2, <2>1, CapsAreSizes, Zenon
<1>5. act = "ALLOW" => \A cap \in caps : ~(cap < i.size)
  BY <1>2 DEF Gate!Act, Gate!AsksForLess
<1>6. CASE act \in {"MANUAL_REVIEW", "NO_TRADE"}
  <2>1. F = {0} /\ act # "ALLOW"
    BY <1>3, <1>6
  <2>. QED
    BY <1>1, <2>1
<1>7. CASE act \notin {"MANUAL_REVIEW", "NO_TRADE"}
  <2>1. F = {k \in {i.size} \cup caps : \A cap \in {i.size} \cup caps : k <= cap}
    BY <1>3, <1>7
  <2>2. IsFiniteSet({i.size} \cup caps) /\ {i.size} \cup caps \in SUBSET Int /\ {i.size} \cup caps # {}
    <3>1. IsFiniteSet(caps \cup {i.size}) /\ caps \cup {i.size} = {i.size} \cup caps
      BY <1>4, <1>7, FS_AddElement, Zenon
    <3>2. {i.size} \cup caps \subseteq Int
      BY <1>4, <1>7
    <3>. QED
      BY <3>1, <3>2
  <2>3. F # {}
    BY <2>1, <2>2, LeastExists
  <2>4. \A n \in F : n \in Nat /\ n <= i.size
    BY <1>4, <1>7, <2>1
  <2>5. act = "ALLOW" => F \subseteq {i.size}
    BY <1>4, <1>5, <1>7, <2>1
  <2>. QED
    BY <1>1, <1>7, <2>3, <2>4, <2>5
<1>. QED
  BY <1>6, <1>7

(* The worst of some scores is one of them.                                *)
LEMMA WorstScore ==
  ASSUME NEW S \in SUBSET (0 .. 100), S # {}
  PROVE  Max(S) \in 0 .. 100 /\ \A x \in S : x <= Max(S)
<1>1. IsFiniteSet(0 .. 100)
  <2>1. 0 \in Int /\ 100 \in Int
    OBVIOUS
  <2>. QED
    BY ONLY <2>1, FS_Interval
<1>2. IsFiniteSet(S) /\ S \in SUBSET Int
  <2>1. S \subseteq 0 .. 100 /\ S \in SUBSET Int
    OBVIOUS
  <2>. QED
    BY <1>1, <2>1, FS_Subset, Zenon
<1>3. PICK g \in S : \A x \in S : x <= g
  BY <1>2, GreatestExists
<1>4. \A x \in S : g >= x
  BY <1>2, <1>3
<1>5. Max(S) \in S /\ \A x \in S : Max(S) >= x
  BY <1>4, Zenon DEF Max
<1>. QED
  BY <1>2, <1>5

ScoresOK(s) ==
  /\ DOMAIN s = {"resolution", "quality", "integrity", "divergence", "exposure"}
  /\ s.resolution \in 0 .. 100 /\ s.quality \in ScoreOrNone /\ s.integrity \in ScoreOrNone
  /\ s.divergence \in ScoreOrNone /\ s.exposure \in 0 .. 100

LEMMA ExposureScore ==
  ASSUME NEW gateCap, NEW remaining, NEW i, NEW l, NEW units
  PROVE  ExposureRisk(gateCap, remaining, i, l, units) \in 0 .. 100
<1> DEFINE S == {0} \cup (IF gateCap < i.size THEN {40} ELSE {})
                   \cup (IF units = None THEN {20} ELSE IF remaining < gateCap THEN {60} ELSE {})
<1>1. S \in SUBSET (0 .. 100) /\ S # {}
  OBVIOUS
<1>2. Max(S) \in 0 .. 100
  <2>. HIDE DEF S
  <2>. QED
    BY <1>1, WorstScore
<1>3. ExposureRisk(gateCap, remaining, i, l, units) \in {70, 100, Max(S)}
  BY Zenon DEF ExposureRisk
<1>. QED
  BY <1>2, <1>3

LEMMA ScoresAreScores ==
  ASSUME NEW i, NEW l, NEW c, ContextOK(c)
  PROVE  ScoresOK(Scores(i, l, c))
<1>1. PICK s : s = Scores(i, l, c)
  OBVIOUS
<1>2. PICK worst : worst = Max({d.score : d \in c.divergences})
  OBVIOUS
<1>3. PICK exposure : exposure = ExposureRiskOf(i, l, c)
  OBVIOUS
<1>4. exposure \in 0 .. 100
  BY <1>3, ExposureScore DEF ExposureRiskOf
<1>5. c.divergences # {} => worst \in 0 .. 100
  <2>1. {d.score : d \in c.divergences} \in SUBSET (0 .. 100)
    BY DEF ContextOK
  <2>2. c.divergences # {} => {d.score : d \in c.divergences} # {}
    OBVIOUS
  <2>. QED
    BY <1>2, <2>1, <2>2, WorstScore
<1>6. s = [resolution |-> c.verdict.risk,
           quality |-> IF c.quality = None THEN None ELSE c.quality.score,
           integrity |-> IF c.integrity = None THEN None ELSE c.integrity.risk,
           divergence |-> IF c.divergences = {} THEN None ELSE worst,
           exposure |-> exposure]
  BY <1>1, <1>2, <1>3, Zenon DEF Scores
<1>7. ScoresOK(s)
  BY <1>4, <1>5, <1>6 DEF ScoresOK, ContextOK, ScoreOrNone
<1>. QED
  BY <1>1, <1>7

(* The composite risk covers every score; a quality of 40 is a risk of 60. *)
LEMMA CompositeCovers ==
  ASSUME NEW s, ScoresOK(s), NEW risk, risk = CompositeRisk(s)
  PROVE  /\ risk \in 0 .. 100
         /\ \A k \in {"resolution", "integrity", "divergence", "exposure"} : s[k] # None => s[k] <= risk
         /\ s.quality # None => 100 - s.quality <= risk
<1> DEFINE K == DOMAIN s \ {"quality"}
           q == IF s.quality = None THEN 50 ELSE 100 - s.quality
           S == ({s[k] : k \in K} \ {None}) \cup {q}
<1>1. K = {"resolution", "integrity", "divergence", "exposure"}
  BY DEF ScoresOK
<1>2. q \in 0 .. 100
  BY AbsentAssumption DEF ScoresOK, ScoreOrNone
<1>3. \A k \in K : s[k] # None => s[k] \in 0 .. 100
  BY <1>1 DEF ScoresOK, ScoreOrNone
<1>4. S \in SUBSET (0 .. 100) /\ S # {}
  <2>. HIDE DEF q, K
  <2>. QED
    BY <1>2, <1>3
<1>5. risk = Max(S)
  BY Zenon DEF CompositeRisk
<1>6. \A k \in K : s[k] # None => s[k] \in S
  OBVIOUS
<1>7. q \in S
  OBVIOUS
<1>8. risk \in 0 .. 100 /\ \A x \in S : x <= risk
  <2>. HIDE DEF S
  <2>. QED
    BY <1>4, <1>5, WorstScore
<1>9. s.quality # None => q = 100 - s.quality
  OBVIOUS
<1>. HIDE DEF S, K, q
<1>. QED
  BY <1>1, <1>6, <1>7, <1>8, <1>9

(* A decision, however its inputs are named.                               *)
DecisionShape(d) ==
  d \in [inputs : {d.inputs}, act : Range(Actions), final : Nat, risk : 0 .. 100,
         scores : [{"resolution", "quality", "integrity", "divergence", "exposure"} -> ScoreOrNone]]

LEMMA RulingDecides ==
  ASSUME NEW i, i.size \in Nat \ {0}, NEW p, ValidPolicy(p), NEW c, ContextOK(c),
         NEW inputs, inputs.intent = i, NEW d, d = Ruling(i, p.limits, c, inputs)
  PROVE  /\ d.inputs = inputs /\ DecisionShape(d) /\ ValidDecision(d)
         /\ d.act = Gate(i, p.limits, c)!Act
<1>1. PICK act : act = Gate(i, p.limits, c)!Act
  OBVIOUS
<1>2. PICK F : F = Gate(i, p.limits, c)!FinalSizes
  OBVIOUS
<1>3. /\ act \in Range(Actions) /\ F # {} /\ \A n \in F : n \in Nat /\ n <= i.size
      /\ act \in {"MANUAL_REVIEW", "NO_TRADE"} => F = {0}
      /\ act = "ALLOW" => F \subseteq {i.size}
  BY <1>1, <1>2, SizeDecided
<1>4. PICK n \in F : n = CHOOSE k \in F : TRUE
  BY <1>3, Zenon
<1>5. PICK s : s = Scores(i, p.limits, c)
  OBVIOUS
<1>6. ScoresOK(s)
  BY <1>5, ScoresAreScores
<1>7. PICK risk : risk = CompositeRisk(s)
  OBVIOUS
<1>8. /\ risk \in 0 .. 100
      /\ \A k \in {"resolution", "integrity", "divergence", "exposure"} : s[k] # None => s[k] <= risk
      /\ s.quality # None => 100 - s.quality <= risk
  BY <1>6, <1>7, CompositeCovers
<1>9. d = [inputs |-> inputs, act |-> act, final |-> n, scores |-> s, risk |-> risk]
  BY <1>1, <1>2, <1>4, <1>5, <1>7, Zenon DEF Ruling
<1>10. PICK e : e = [inputs |-> inputs, act |-> act, final |-> n, scores |-> s, risk |-> risk]
  OBVIOUS
<1>11. s \in [{"resolution", "quality", "integrity", "divergence", "exposure"} -> ScoreOrNone]
  <2>1. s = [k \in DOMAIN s |-> s[k]]
    BY <1>5, Zenon DEF Scores
  <2>. QED
    BY <1>6, <2>1 DEF ScoresOK, ScoreOrNone
<1>12. /\ e.inputs = inputs /\ e.act = act /\ e.final = n /\ e.risk = risk /\ e.scores = s
  BY <1>10
<1>13. DecisionShape(e)
  BY <1>3, <1>8, <1>10, <1>11, <1>12 DEF DecisionShape
<1>14. ValidDecision(e)
  <2>1. n \in Nat /\ n <= i.size /\ (act \in {"MANUAL_REVIEW", "NO_TRADE"} => n = 0) /\ (act = "ALLOW" => n = i.size)
    BY ONLY <1>3, <1>4, n \in F
  <2>. QED
    BY ONLY <1>8, <1>12, <2>1, inputs.intent = i DEF ValidDecision
<1>. QED
  BY <1>1, <1>9, <1>10, <1>12, <1>13, <1>14, Zenon

-----------------------------------------------------------------------------
(* Rows, and what is read from them as of a time.                          *)

(* The ids of rows are hashes: they are ordered, and those of two rows     *)
(* differ.                                                                 *)
IdsDiffer == \A a, b \in Nat : IdOrder[a] \in Int /\ (a # b => IdOrder[a] # IdOrder[b])

RowsWith(S, kind, m, t) == {r \in S : r.kind = kind /\ m \in r.markets /\ r.at <= t}
Older(q, r) == q.at < r.at \/ (q.at = r.at /\ IdOrder[q.n] < IdOrder[r.n])

(* Rows are numbered, and each is one the desk may store.                  *)
RowsKnown(S, last) ==
  /\ IsFiniteSet(S) /\ last \in Nat /\ S \subseteq EvidenceRow \cup VerdictRow
  /\ \A r \in S : Scored(r) /\ r.n \in 1 .. last
  /\ \A q, r \in S : q.n = r.n => q = r

LEMMA RowTypes ==
  ASSUME NEW S, NEW last, RowsKnown(S, last), NEW r \in S
  PROVE  /\ r # None /\ r.at \in Times /\ r.at \in Nat /\ r.n \in Nat /\ r.n <= last
         /\ r.kind = "verdict" => r \in VerdictRow
         /\ r.kind # "verdict" => r \in EvidenceRow
<1>. USE TimesAssumption, AbsentAssumption DEF RowsKnown
<1>1. CASE r \in EvidenceRow
  <2>1. r.kind # "verdict" /\ r.at \in Times /\ r # None
    BY <1>1 DEF EvidenceRow
  <2>. QED
    BY <1>1, <2>1 DEF Times
<1>2. CASE r \in VerdictRow
  <2>1. r.kind = "verdict" /\ r.at \in Times /\ r # None
    BY <1>2 DEF VerdictRow
  <2>. QED
    BY <1>2, <2>1 DEF Times
<1>. QED
  BY <1>1, <1>2

(* An as-of read finds the newest row there is.                            *)
LEMMA NewestRow ==
  ASSUME IdsDiffer, NEW S, NEW last, RowsKnown(S, last), NEW T \in SUBSET S, T # {}
  PROVE  Newest(T) \in T /\ \A q \in T \ {Newest(T)} : Older(q, Newest(T))
<1> DEFINE Q == {U \in SUBSET T : U # {} => \E r \in U : \A q \in U \ {r} : Older(q, r)}
<1>1. \A r \in S : r.at \in Nat /\ r.n \in Nat /\ IdOrder[r.n] \in Int
  BY RowTypes DEF IdsDiffer
<1>2. \A q, r \in S : q # r => q.n # r.n
  BY DEF RowsKnown
<1>3. \A q, r \in S : q # r => Older(q, r) \/ Older(r, q)
  <2>1. \A q, r \in S : q # r => IdOrder[q.n] # IdOrder[r.n]
    BY <1>1, <1>2 DEF IdsDiffer
  <2>. QED
    BY <1>1, <2>1 DEF Older
<1>4. \A p, q, r \in S : Older(p, q) /\ Older(q, r) => Older(p, r)
  BY <1>1 DEF Older
<1>5. {} \in Q
  OBVIOUS
<1>6. ASSUME NEW U \in SUBSET T, NEW x \in T \ U, U \in Q
      PROVE  U \cup {x} \in Q
  <2>1. CASE U = {}
    BY <2>1
  <2>2. CASE U # {}
    <3>1. PICK r \in U : \A q \in U \ {r} : Older(q, r)
      BY <1>6, <2>2
    <3>2. CASE Older(x, r)
      BY <3>1, <3>2
    <3>3. CASE Older(r, x)
      <4>1. \A q \in (U \cup {x}) \ {x} : Older(q, x)
        BY <1>4, <3>1, <3>3
      <4>. QED
        BY <4>1
    <3>. QED
      BY <1>3, <3>1, <3>2, <3>3
  <2>. QED
    BY <2>1, <2>2
<1>7. T \in Q
  <2>1. IsFiniteSet(T)
    BY FS_Subset DEF RowsKnown
  <2>. HIDE DEF Q
  <2>. QED
    BY <1>5, <1>6, <2>1, SubsetsByInduction
<1>8. PICK r \in T : \A q \in T \ {r} : Older(q, r)
  BY <1>7
<1>. QED
  BY <1>8, Zenon DEF Newest, Older

(* It stays the newest when what is added is older.                        *)
LEMMA NewestStays ==
  ASSUME IdsDiffer, NEW S, NEW last, RowsKnown(S, last), NEW T \in SUBSET S,
         NEW U \in SUBSET T, NEW r \in U, \A q \in U \ {r} : Older(q, r),
         \A q \in T \ U : Older(q, r)
  PROVE  Newest(T) = r
<1>1. \A q \in T \ {r} : Older(q, r)
  OBVIOUS
<1>2. r \in T /\ Newest(T) \in T /\ \A q \in T \ {Newest(T)} : Older(q, Newest(T))
  BY NewestRow
<1>3. \A q, p \in S : ~(Older(q, p) /\ Older(p, q))
  <2>1. \A p \in S : p.at \in Nat /\ p.n \in Nat /\ IdOrder[p.n] \in Int
    BY RowTypes DEF IdsDiffer
  <2>. QED
    BY <2>1 DEF Older
<1>. QED
  BY <1>1, <1>2, <1>3

(* What is read as of a time is of that time or before, and of the market. *)
LEMMA LatestIsRow ==
  ASSUME IdsDiffer, NEW S, NEW last, RowsKnown(S, last), NEW kind, NEW m, NEW t,
         NEW r, r = Newest(RowsWith(S, kind, m, t))
  PROVE  /\ RowsWith(S, kind, m, t) = {} => r = None
         /\ RowsWith(S, kind, m, t) # {} =>
              /\ r \in RowsWith(S, kind, m, t) /\ r \in S /\ r # None
              /\ \A q \in RowsWith(S, kind, m, t) \ {r} : Older(q, r)
<1>1. RowsWith(S, kind, m, t) \in SUBSET S
  BY DEF RowsWith
<1>2. RowsWith(S, kind, m, t) = {} => r = None
  BY DEF Newest
<1>3. RowsWith(S, kind, m, t) # {} =>
        /\ r \in RowsWith(S, kind, m, t)
        /\ \A q \in RowsWith(S, kind, m, t) \ {r} : Older(q, r)
  BY <1>1, NewestRow
<1>. QED
  BY <1>1, <1>2, <1>3, RowTypes

-----------------------------------------------------------------------------
(* A decision looks at nothing its inputs do not name.                     *)
ReadIn(evidence, kind) == {r \in evidence \ {None} : r.kind = kind}
ContentIn(evidence, kind) ==
  IF ReadIn(evidence, kind) = {} THEN None ELSE (CHOOSE r \in ReadIn(evidence, kind) : TRUE).content

ContextOf(inputs, content) ==
  LET liquidity == ContentIn(inputs.evidence, "liquidity")
  IN  [active |-> inputs.active, rule |-> ReadIn(inputs.evidence, "rule") # {},
       verdict |-> [act |-> content.action, risk |-> content.risk],
       restrictions |-> {[type |-> r.type, cap |-> r.cap] : r \in inputs.restrictions},
       quality |-> ContentIn(inputs.evidence, "quality"),
       spread |-> IF liquidity = None THEN None ELSE liquidity.spread,
       spreadBps |-> None,
       integrity |-> ContentIn(inputs.evidence, "integrity"),
       divergences |-> {r.content : r \in ReadIn(inputs.evidence, "divergence")},
       equivalence |-> ReadIn(inputs.evidence, "equivalence") # {},
       exposure |-> IF inputs.exposure = None THEN None ELSE inputs.exposure.units]

ReadKinds == {"rule", "quality", "integrity", "liquidity"}
EvidenceOf(S, m, t) ==
  {Newest(RowsWith(S, kind, m, t)) : kind \in ReadKinds}
     \cup RowsWith(S, "divergence", m, t) \cup RowsWith(S, "equivalence", m, t)

LEMMA EvidenceRead ==
  ASSUME IdsDiffer, NEW S, NEW last, RowsKnown(S, last), NEW m, NEW t,
         NEW evidence, evidence = EvidenceOf(S, m, t)
  PROVE  /\ \A kind \in ReadKinds :
              /\ Newest(RowsWith(S, kind, m, t)) = None => ReadIn(evidence, kind) = {}
              /\ Newest(RowsWith(S, kind, m, t)) # None =>
                   ReadIn(evidence, kind) = {Newest(RowsWith(S, kind, m, t))}
         /\ ReadIn(evidence, "divergence") = RowsWith(S, "divergence", m, t)
         /\ ReadIn(evidence, "equivalence") = RowsWith(S, "equivalence", m, t)
         /\ \A r \in evidence \ {None} : r \in S /\ r.at <= t
<1> DEFINE latest(kind) == Newest(RowsWith(S, kind, m, t))
<1>1. \A kind : latest(kind) # None =>
                  latest(kind) \in S /\ latest(kind).kind = kind /\ latest(kind).at <= t
  <2>1. \A kind : latest(kind) # None => latest(kind) \in RowsWith(S, kind, m, t)
    BY LatestIsRow
  <2>. QED
    BY <2>1, Zenon DEF RowsWith
<1>2. None \notin S
  BY RowTypes
<1>3. \A kind : \A r \in RowsWith(S, kind, m, t) : r \in S /\ r.kind = kind /\ r.at <= t
  BY DEF RowsWith
<1>4. evidence = {latest(kind) : kind \in ReadKinds}
                   \cup RowsWith(S, "divergence", m, t) \cup RowsWith(S, "equivalence", m, t)
  BY Zenon DEF EvidenceOf
<1>. HIDE DEF latest
<1>5. "divergence" \notin ReadKinds /\ "equivalence" \notin ReadKinds
  BY DEF ReadKinds
<1>6. ASSUME NEW kind \in ReadKinds
      PROVE  /\ latest(kind) = None => ReadIn(evidence, kind) = {}
             /\ latest(kind) # None => ReadIn(evidence, kind) = {latest(kind)}
  <2>1. \A r \in evidence \ {None} : r.kind = kind => r = latest(kind)
    BY <1>1, <1>3, <1>4, <1>5
  <2>2. latest(kind) # None => latest(kind) \in evidence /\ latest(kind).kind = kind
    BY <1>1, <1>4
  <2>. QED
    BY <2>1, <2>2 DEF ReadIn
<1>7. ReadIn(evidence, "divergence") = RowsWith(S, "divergence", m, t)
  BY <1>1, <1>2, <1>3, <1>4, <1>5 DEF ReadIn
<1>8. ReadIn(evidence, "equivalence") = RowsWith(S, "equivalence", m, t)
  BY <1>1, <1>2, <1>3, <1>4, <1>5 DEF ReadIn
<1>9. \A r \in evidence \ {None} : r \in S /\ r.at <= t
  BY <1>1, <1>3, <1>4
<1>. QED
  BY <1>6, <1>7, <1>8, <1>9 DEF latest

LEMMA ContextNamed ==
  ASSUME IdsDiffer, RowsKnown(rows, stamp), NEW i, NEW v, NEW p
  PROVE  /\ Inputs(i, v, p).evidence = EvidenceOf(rows, i.market, i.asof)
         /\ Context(i, v) = ContextOf(Inputs(i, v, p), v.content)
<1>1. PICK x : x = Inputs(i, v, p)
  OBVIOUS
<1>2. \A kind, m, t : AsOf(kind, m, t) = RowsWith(rows, kind, m, t)
  BY DEF AsOf, RowsWith
<1>3. x.evidence = EvidenceOf(rows, i.market, i.asof)
  BY <1>1, <1>2, Zenon DEF Inputs, EvidenceOf, ReadKinds, Latest
<1>4. PICK latest : latest = [kind \in ReadKinds |-> Newest(RowsWith(rows, kind, i.market, i.asof))]
  OBVIOUS
<1>5. \A kind \in ReadKinds : Latest(kind, i.market, i.asof) = latest[kind]
  BY <1>2, <1>4 DEF Latest
<1>6. PICK E : E = x.evidence
  OBVIOUS
<1>7. /\ \A kind \in ReadKinds : /\ latest[kind] = None => ReadIn(E, kind) = {}
                                 /\ latest[kind] # None => ReadIn(E, kind) = {latest[kind]}
      /\ ReadIn(E, "divergence") = RowsWith(rows, "divergence", i.market, i.asof)
      /\ ReadIn(E, "equivalence") = RowsWith(rows, "equivalence", i.market, i.asof)
  BY <1>3, <1>4, <1>6, EvidenceRead
<1>8. ASSUME NEW kind \in ReadKinds
      PROVE  Content(kind, i.market, i.asof) = ContentIn(E, kind)
  <2>1. CASE latest[kind] = None
    BY <1>5, <1>7, <2>1, Zenon DEF Content, ContentIn
  <2>2. CASE latest[kind] # None
    <3>1. ReadIn(E, kind) = {latest[kind]}
      BY <1>7, <2>2
    <3>2. PICK r : r = CHOOSE q \in ReadIn(E, kind) : TRUE
      OBVIOUS
    <3>3. r = latest[kind]
      <4>1. latest[kind] \in ReadIn(E, kind)
        BY <3>1
      <4>2. r \in ReadIn(E, kind)
        BY <3>2, <4>1, Zenon
      <4>. QED
        BY ONLY <3>1, <4>2
    <3>4. ContentIn(E, kind) = r.content
      BY <3>1, <3>2, Zenon DEF ContentIn
    <3>5. Content(kind, i.market, i.asof) = latest[kind].content
      BY <1>5, <2>2, Zenon DEF Content
    <3>. QED
      BY <3>3, <3>4, <3>5, Zenon
  <2>. QED
    BY <2>1, <2>2
<1>9. "rule" \in ReadKinds /\ "quality" \in ReadKinds /\ "integrity" \in ReadKinds /\ "liquidity" \in ReadKinds
  BY DEF ReadKinds
<1>10. PICK rule : rule = (Latest("rule", i.market, i.asof) # None)
  OBVIOUS
<1>11. rule = (ReadIn(E, "rule") # {})
  <2>1. (Latest("rule", i.market, i.asof) # None) <=> (ReadIn(E, "rule") # {})
    BY <1>5, <1>7, <1>9
  <2>. QED
    BY <1>10, <2>1, Zenon
<1>12. PICK on : on = (i.market \in active)
  OBVIOUS
<1>13. PICK rules : rules = Applicable(i.market, i.asof)
  OBVIOUS
<1>14. PICK held : held = LatestExposure(i)
  OBVIOUS
<1>15. x.active = on /\ x.restrictions = rules /\ x.exposure = held
  BY <1>1, <1>12, <1>13, <1>14, Zenon DEF Inputs
<1>16. PICK quality : quality = ContentIn(E, "quality")
  OBVIOUS
<1>17. PICK integrity : integrity = ContentIn(E, "integrity")
  OBVIOUS
<1>18. PICK liquidity : liquidity = ContentIn(E, "liquidity")
  OBVIOUS
<1>19. PICK diverging : diverging = ReadIn(E, "divergence")
  OBVIOUS
<1>20. PICK equivalent : equivalent = (ReadIn(E, "equivalence") # {})
  OBVIOUS
<1>21. ContextOf(x, v.content) =
         [active |-> on, rule |-> rule, verdict |-> [act |-> v.content.action, risk |-> v.content.risk],
          restrictions |-> {[type |-> r.type, cap |-> r.cap] : r \in rules}, quality |-> quality,
          spread |-> IF liquidity = None THEN None ELSE liquidity.spread, spreadBps |-> None,
          integrity |-> integrity, divergences |-> {r.content : r \in diverging},
          equivalence |-> equivalent, exposure |-> IF held = None THEN None ELSE held.units]
  BY <1>6, <1>11, <1>15, <1>16, <1>17, <1>18, <1>19, <1>20, Zenon DEF ContextOf
<1>22. /\ AsOf("divergence", i.market, i.asof) = diverging
       /\ (AsOf("equivalence", i.market, i.asof) # {}) = equivalent
  BY <1>2, <1>7, <1>19, <1>20, Zenon
<1>23. Context(i, v) =
         [active |-> on, rule |-> rule, verdict |-> [act |-> v.content.action, risk |-> v.content.risk],
          restrictions |-> {[type |-> r.type, cap |-> r.cap] : r \in rules}, quality |-> quality,
          spread |-> IF liquidity = None THEN None ELSE liquidity.spread, spreadBps |-> None,
          integrity |-> integrity, divergences |-> {r.content : r \in diverging},
          equivalence |-> equivalent, exposure |-> IF held = None THEN None ELSE held.units]
  BY <1>8, <1>9, <1>10, <1>12, <1>13, <1>14, <1>16, <1>17, <1>18, <1>22, Zenon DEF Context
<1>. QED
  BY <1>1, <1>3, <1>21, <1>23, Zenon

-----------------------------------------------------------------------------
(* What an operator saved.                                                 *)
OperatorRows ==
  /\ IsFiniteSet(restrictions) /\ restrictions \subseteq MarketRestrictionRule
  /\ IsFiniteSet(exposures) /\ exposures \subseteq ExposureSnapshot
  /\ \A e \in exposures : e.gen < Saved
  /\ \A e, f \in exposures : e.gen = f.gen => e = f

KnownPolicies == SavedPolicies \cup {DefaultPolicy}
PoliciesKnown == IsFiniteSet(policies) /\ policies \subseteq KnownPolicies

LEMMA KnownPolicyFields ==
  ASSUME NEW p \in KnownPolicies
  PROVE  ValidPolicy(p) /\ PreTradePolicyOK(p) /\ p.created \in Nat
BY SavedAssumption DEF KnownPolicies, PreTradePolicyOK

LEMMA ExposureFound ==
  ASSUME OperatorRows, NEW i
  PROVE  /\ LatestExposure(i) \in exposures \cup {None}
         /\ LatestExposure(i) # None => LatestExposure(i).asof <= i.asof
<1> DEFINE S == {e \in exposures : Covers(e, i) /\ e.asof <= i.asof}
           R == {z \in exposures \X exposures :
                   z[1].asof < z[2].asof \/ (z[1].asof = z[2].asof /\ z[1].gen <= z[2].gen)}
           latest == CHOOSE e \in S : \A f \in S \ {e} : f.asof < e.asof \/ (f.asof = e.asof /\ f.gen < e.gen)
<1>1. \A e \in exposures : e.asof \in Nat /\ e.gen \in Nat
  BY TimesAssumption DEF OperatorRows, ExposureSnapshot, Times
<1>2. \A e, f \in exposures :
        <<f, e>> \in R <=> f.asof < e.asof \/ (f.asof = e.asof /\ f.gen <= e.gen)
  OBVIOUS
<1>3. HasNewest(exposures, R)
  <2>. HIDE DEF R, S, latest
  <2>1. ASSUME NEW a \in exposures, NEW b \in exposures
        PROVE  <<a, b>> \in R \/ <<b, a>> \in R
    <3>1. \/ a.asof < b.asof \/ (a.asof = b.asof /\ a.gen <= b.gen)
          \/ b.asof < a.asof \/ (b.asof = a.asof /\ b.gen <= a.gen)
      BY <1>1
    <3>. QED
      BY <1>2, <3>1, Zenon
  <2>2. \A a, b, c \in exposures : <<a, b>> \in R /\ <<b, c>> \in R => <<a, c>> \in R
    BY <1>1, <1>2
  <2>. QED
    BY <2>1, <2>2, FiniteHasNewest DEF OperatorRows
<1>4. CASE S = {}
  <2>1. LatestExposure(i) = None
    BY <1>4, Zenon DEF LatestExposure
  <2>. QED
    BY <2>1
<1>5. CASE S # {}
  <2>1. S \in SUBSET exposures
    OBVIOUS
  <2>2. PICK e \in S : \A f \in S : <<f, e>> \in R
    <3>. HIDE DEF R, S
    <3>. QED
      BY <1>3, <1>5, <2>1 DEF HasNewest
  <2>3. \A f \in S \ {e} : f.asof < e.asof \/ (f.asof = e.asof /\ f.gen < e.gen)
    <3>1. \A f \in S : f.asof < e.asof \/ (f.asof = e.asof /\ f.gen <= e.gen)
      BY <1>2, <2>1, <2>2
    <3>2. \A f \in S \ {e} : f.gen # e.gen
      BY <2>1 DEF OperatorRows
    <3>3. \A f \in S : f.gen \in Nat
      BY <1>1
    <3>. HIDE DEF S
    <3>. QED
      BY <3>1, <3>2, <3>3
  <2>4. latest \in S
    <3>. HIDE DEF S
    <3>. QED
      BY <2>3, Zenon
  <2>5. LatestExposure(i) = latest
    BY <1>5, Zenon DEF LatestExposure
  <2>6. latest \in exposures /\ latest.asof <= i.asof
    <3>. HIDE DEF latest
    <3>. QED
      BY <2>4
  <2>. QED
    BY <2>5, <2>6, Zenon
<1>. QED
  BY <1>4, <1>5

(* The policy a check is decided by is there when it is answered.          *)
LEMMA PolicyUsed ==
  ASSUME PoliciesKnown, NEW id, NEW t, PolicyFound(id)
  PROVE  /\ PolicyFor(id, t) \in PoliciesAfter(id, t) /\ PolicyFor(id, t) \in KnownPolicies
         /\ IsFiniteSet(PoliciesAfter(id, t)) /\ PoliciesAfter(id, t) \subseteq KnownPolicies
         /\ \A p \in policies : \E q \in PoliciesAfter(id, t) : q.id = p.id
<1>1. CASE id # None
  <2>1. ~NeedsDefault(id, t) /\ \E p \in policies : p.id = id
    BY <1>1 DEF NeedsDefault, PolicyFound
  <2>2. PolicyFor(id, t) \in policies
    BY <1>1, <2>1, Zenon DEF PolicyFor
  <2>3. PoliciesAfter(id, t) = policies
    BY <2>1, Zenon DEF PoliciesAfter
  <2>. QED
    BY <2>2, <2>3 DEF PoliciesKnown
<1>2. CASE id = None /\ ActivePolicies(t) = {}
  <2>1. NeedsDefault(id, t)
    BY <1>2 DEF NeedsDefault
  <2>2. PolicyFor(id, t) = DefaultPolicy
    BY <1>2, <2>1, Zenon DEF PolicyFor
  <2>3. PICK U : U = {p \in policies : p.id # "default"}
    OBVIOUS
  <2>4. PoliciesAfter(id, t) = U \cup {DefaultPolicy}
    BY <2>1, <2>3, Zenon DEF PoliciesAfter
  <2>5. IsFiniteSet(U \cup {DefaultPolicy})
    BY <2>3, FS_Subset, FS_AddElement DEF PoliciesKnown
  <2>6. DefaultPolicy.id = "default"
    BY DEF DefaultPolicy
  <2>. QED
    BY <2>2, <2>3, <2>4, <2>5, <2>6 DEF PoliciesKnown, KnownPolicies
<1>3. CASE id = None /\ ActivePolicies(t) # {}
  <2>1. ~NeedsDefault(id, t)
    BY <1>3 DEF NeedsDefault
  <2>2. PICK A : A = ActivePolicies(t)
    OBVIOUS
  <2>3. A \in SUBSET policies /\ A # {}
    BY <1>3, <2>2 DEF ActivePolicies
  <2>4. \E p \in A : \A q \in A : q.created <= p.created
    <3> DEFINE R == {z \in policies \X policies : z[1].created <= z[2].created}
    <3>1. \A p \in policies : p.created \in Nat
      BY KnownPolicyFields DEF PoliciesKnown
    <3>2. \A a, b \in policies : <<a, b>> \in R <=> a.created <= b.created
      OBVIOUS
    <3>. HIDE DEF R
    <3>3. ASSUME NEW a \in policies, NEW b \in policies
          PROVE  <<a, b>> \in R \/ <<b, a>> \in R
      <4>1. a.created <= b.created \/ b.created <= a.created
        BY <3>1
      <4>. QED
        BY <3>2, <4>1, Zenon
    <3>4. \A a, b, c \in policies : <<a, b>> \in R /\ <<b, c>> \in R => <<a, c>> \in R
      BY <3>1, <3>2
    <3>5. HasNewest(policies, R)
      BY <3>3, <3>4, FiniteHasNewest DEF PoliciesKnown
    <3>6. PICK p \in A : \A q \in A : <<q, p>> \in R
      BY <2>3, <3>5 DEF HasNewest
    <3>. QED
      BY <2>3, <3>2, <3>6
  <2>5. PolicyFor(id, t) \in A
    BY <1>3, <2>1, <2>2, <2>4, Zenon DEF PolicyFor
  <2>6. PoliciesAfter(id, t) = policies
    BY <2>1, Zenon DEF PoliciesAfter
  <2>. QED
    BY <2>3, <2>5, <2>6 DEF PoliciesKnown
<1>. QED
  BY <1>1, <1>2, <1>3

(* What a decision looks at is as the gate expects it.                     *)
LEMMA ContextKnown ==
  ASSUME IdsDiffer, RowsKnown(rows, stamp), OperatorRows, NEW i, NEW v \in VerdictRow
  PROVE  ContextOK(Context(i, v))
<1>1. PICK c : c = Context(i, v)
  OBVIOUS
<1>2. \A kind : Latest(kind, i.market, i.asof) # None =>
                  Latest(kind, i.market, i.asof) \in rows /\ Latest(kind, i.market, i.asof).kind = kind
  <2>1. \A kind : Latest(kind, i.market, i.asof) = Newest(RowsWith(rows, kind, i.market, i.asof))
    BY DEF Latest, AsOf, RowsWith
  <2>2. \A kind : Latest(kind, i.market, i.asof) # None =>
                    Latest(kind, i.market, i.asof) \in RowsWith(rows, kind, i.market, i.asof)
    BY <2>1, LatestIsRow
  <2>. QED
    BY <2>2, Zenon DEF RowsWith
<1>3. \A r \in rows : Scored(r)
  BY DEF RowsKnown
<1>4. c.verdict.risk \in 0 .. 100
  <2>1. c.verdict = [act |-> v.content.action, risk |-> v.content.risk]
    BY <1>1 DEF Context
  <2>. QED
    BY <2>1 DEF VerdictRow
<1>5. c.quality # None => c.quality.score \in 0 .. 100
  <2>1. PICK r : r = Latest("quality", i.market, i.asof)
    OBVIOUS
  <2>2. c.quality = IF r = None THEN None ELSE r.content
    BY <1>1, <2>1 DEF Context, Content
  <2>3. r # None => r.content.score \in 0 .. 100
    BY <1>2, <1>3, <2>1 DEF Scored
  <2>. QED
    BY <2>2, <2>3
<1>6. c.integrity # None => c.integrity.risk \in 0 .. 100
  <2>1. PICK r : r = Latest("integrity", i.market, i.asof)
    OBVIOUS
  <2>2. c.integrity = IF r = None THEN None ELSE r.content
    BY <1>1, <2>1 DEF Context, Content
  <2>3. r # None => r.content.risk \in 0 .. 100
    BY <1>2, <1>3, <2>1 DEF Scored
  <2>. QED
    BY <2>2, <2>3
<1>7. IsFiniteSet(c.restrictions) /\ \A r \in c.restrictions : r.cap \in Nat \cup {None}
  <2>1. PICK A : A = Applicable(i.market, i.asof)
    OBVIOUS
  <2>2. A \subseteq restrictions /\ IsFiniteSet(A)
    <3>1. A \subseteq restrictions
      BY <2>1 DEF Applicable
    <3>. QED
      BY <3>1, FS_Subset DEF OperatorRows
  <2>3. c.restrictions = {[type |-> r.type, cap |-> r.cap] : r \in A}
    BY <1>1, <2>1 DEF Context
  <2>4. PICK f : f = [r \in A |-> [type |-> r.type, cap |-> r.cap]]
    OBVIOUS
  <2>5. c.restrictions = {f[r] : r \in A}
    BY <2>3, <2>4
  <2>6. IsFiniteSet(c.restrictions)
    BY <2>2, <2>5, ValuesAreFinite
  <2>7. \A r \in A : r.cap \in Nat \cup {None}
    BY <2>2 DEF OperatorRows, MarketRestrictionRule
  <2>. QED
    BY <2>3, <2>6, <2>7
<1>8. IsFiniteSet(c.divergences) /\ \A d \in c.divergences : d.score \in 0 .. 100
  <2>1. PICK A : A = AsOf("divergence", i.market, i.asof)
    OBVIOUS
  <2>2. A \subseteq rows /\ IsFiniteSet(A) /\ \A r \in A : r.kind = "divergence"
    <3>1. A \subseteq rows /\ \A r \in A : r.kind = "divergence"
      BY <2>1 DEF AsOf
    <3>. QED
      BY <3>1, FS_Subset DEF RowsKnown
  <2>3. c.divergences = {r.content : r \in A}
    BY <1>1, <2>1 DEF Context
  <2>4. PICK f : f = [r \in A |-> r.content]
    OBVIOUS
  <2>5. c.divergences = {f[r] : r \in A}
    BY <2>3, <2>4
  <2>6. IsFiniteSet(c.divergences)
    BY <2>2, <2>5, ValuesAreFinite
  <2>7. \A r \in A : r.content.score \in 0 .. 100
    BY <1>3, <2>2 DEF Scored
  <2>. QED
    BY <2>3, <2>6, <2>7
<1>9. c.exposure # None => /\ {c.exposure.market, c.exposure.event, c.exposure.venue} \subseteq Int
                           /\ c.exposure.strategy \in Int \cup {None}
  <2>1. PICK e : e = LatestExposure(i)
    OBVIOUS
  <2>2. c.exposure = IF e = None THEN None ELSE e.units
    BY <1>1, <2>1 DEF Context
  <2>3. e \in exposures \cup {None}
    BY <2>1, ExposureFound
  <2>4. e # None => e.units \in [market : Nat, event : Nat, venue : Nat, strategy : Nat \cup {None}]
    BY <2>3 DEF OperatorRows, ExposureSnapshot
  <2>. QED
    BY <2>2, <2>4
<1>10. ContextOK(c)
  BY <1>4, <1>5, <1>6, <1>7, <1>8, <1>9 DEF ContextOK
<1>. QED
  BY <1>1, <1>10

LEMMA IntentFields ==
  ASSUME NEW i \in TradeIntent
  PROVE  i.market \in DOMAIN Places /\ i.size \in Nat \ {0} /\ i.asof \in Times
BY DEF TradeIntent

(* A decision is what its inputs and the verdict they name make it.        *)
LEMMA DecisionMade ==
  ASSUME IdsDiffer, RowsKnown(rows, stamp), OperatorRows,
         NEW i \in TradeIntent, NEW v \in VerdictRow, NEW p \in KnownPolicies,
         NEW d, d = Decision(i, v, p)
  PROVE  /\ d.inputs = Inputs(i, v, p) /\ d.inputs.intent = i
         /\ d.inputs.verdict = v.n /\ d.inputs.policy = p.id
         /\ DecisionShape(d) /\ ValidDecision(d)
         /\ d = Ruling(i, p.limits, ContextOf(d.inputs, v.content), d.inputs)
         /\ d.act = Gate(i, p.limits, Context(i, v))!Act
<1>1. PICK x : x = Inputs(i, v, p)
  OBVIOUS
<1>2. x.intent = i /\ x.verdict = v.n /\ x.policy = p.id
  BY <1>1 DEF Inputs
<1>3. PICK c : c = Context(i, v)
  OBVIOUS
<1>4. ContextOK(c)
  BY <1>3, ContextKnown
<1>5. d = Ruling(i, p.limits, c, x)
  BY <1>1, <1>3, Zenon DEF Decision
<1>6. ValidPolicy(p) /\ i.size \in Nat \ {0}
  BY KnownPolicyFields, IntentFields
<1>7. d.inputs = x /\ DecisionShape(d) /\ ValidDecision(d) /\ d.act = Gate(i, p.limits, c)!Act
  <2>1. x.intent = i
    BY <1>2
  <2>2. i.size \in Nat \ {0}
    BY <1>6
  <2>3. ValidPolicy(p)
    BY <1>6
  <2>. QED
    BY ONLY <1>4, <1>5, <2>1, <2>2, <2>3, RulingDecides
<1>8. c = ContextOf(x, v.content)
  BY <1>1, <1>3, ContextNamed, Zenon
<1>. QED
  BY <1>1, <1>2, <1>3, <1>5, <1>7, <1>8, Zenon

(* What an input snapshot names is stored, and no younger than the check.  *)
SnapshotWithin(x, rules, held, named, S) ==
  /\ DOMAIN x.hash = {"intent", "active", "verdict", "policy", "exposure", "restrictions", "evidence"}
  /\ x.hash.active \in BOOLEAN /\ x.hash.restrictions \subseteq rules
  /\ x.hash.exposure \in held \cup {None}
  /\ x.hash.exposure # None => x.hash.exposure.asof <= x.hash.intent.asof
  /\ \E p \in named : p.id = x.hash.policy
  /\ \E r \in S : r.kind = "verdict" /\ r.n = x.hash.verdict
  /\ \A r \in x.hash.evidence \ {None} : r \in S /\ r.at <= x.hash.intent.asof
  /\ x.equivalence \in [{"comparable", "review", "apart"} -> Nat]
  /\ x.divergence \in [{"WATCH", "MATERIAL_DIVERGENCE", "NEEDS_REVIEW", "DO_NOT_COMPARE"} -> Nat]

LEMMA SnapshotStays ==
  ASSUME NEW x, NEW rules, NEW held, NEW named, NEW S, SnapshotWithin(x, rules, held, named, S),
         NEW moreRules, rules \subseteq moreRules, NEW moreHeld, held \subseteq moreHeld,
         NEW moreNamed, \A p \in named : \E q \in moreNamed : q.id = p.id,
         NEW moreRows, S \subseteq moreRows
  PROVE  SnapshotWithin(x, moreRules, moreHeld, moreNamed, moreRows)
<1>1. PICK p \in named : p.id = x.hash.policy
  BY DEF SnapshotWithin
<1>2. \E q \in moreNamed : q.id = x.hash.policy
  BY <1>1
<1>3. \E r \in moreRows : r.kind = "verdict" /\ r.n = x.hash.verdict
  BY DEF SnapshotWithin
<1>. QED
  BY <1>2, <1>3 DEF SnapshotWithin

LEMMA SnapshotMade ==
  ASSUME IdsDiffer, RowsKnown(rows, stamp), OperatorRows,
         NEW i \in TradeIntent, NEW v \in VerdictRow, NEW p \in KnownPolicies,
         NEW d, d = Decision(i, v, p), NEW named, p \in named, NEW S, rows \subseteq S, v \in S
  PROVE  InputSnapshot(d).hash = d.inputs
         /\ SnapshotWithin(InputSnapshot(d), restrictions, exposures, named, S)
<1>1. PICK x : x = InputSnapshot(d)
  OBVIOUS
<1>2. /\ d.inputs = Inputs(i, v, p) /\ d.inputs.intent = i
      /\ d.inputs.verdict = v.n /\ d.inputs.policy = p.id
  BY DecisionMade
<1>3. x.hash = d.inputs
  BY <1>1 DEF InputSnapshot
<1>4. PICK h : h = Inputs(i, v, p)
  OBVIOUS
<1>5. /\ DOMAIN h = {"intent", "active", "verdict", "policy", "exposure", "restrictions", "evidence"}
      /\ h.active \in BOOLEAN
  BY <1>4 DEF Inputs
<1>6. h.restrictions \subseteq restrictions
  BY <1>4 DEF Inputs, Applicable
<1>7. h.exposure \in exposures \cup {None} /\ (h.exposure # None => h.exposure.asof <= i.asof)
  <2>1. h.exposure = LatestExposure(i)
    BY <1>4 DEF Inputs
  <2>. QED
    BY <2>1, ExposureFound
<1>8. \A r \in h.evidence \ {None} : r \in rows /\ r.at <= i.asof
  <2>1. h.evidence = EvidenceOf(rows, i.market, i.asof)
    BY <1>4, ContextNamed
  <2>. QED
    BY <2>1, EvidenceRead
<1>9. v.kind = "verdict"
  BY DEF VerdictRow
<1>10. x.equivalence \in [{"comparable", "review", "apart"} -> Nat]
  <2>1. x.equivalence = EquivalenceCounts(i)
    BY <1>1, <1>2 DEF InputSnapshot
  <2>2. PICK A : A = AsOf("equivalence", i.market, i.asof)
    OBVIOUS
  <2>3. A \subseteq rows /\ IsFiniteSet(A) /\ \A r \in A : r.kind = "equivalence"
    <3>1. A \subseteq rows /\ \A r \in A : r.kind = "equivalence"
      BY <2>2 DEF AsOf
    <3>. QED
      BY <3>1, FS_Subset DEF RowsKnown
  <2>4. \A r \in A : r.markets \subseteq DOMAIN Places
    <3>1. \A r \in A : r \in EvidenceRow
      BY <2>3, RowTypes
    <3>. QED
      BY <3>1 DEF EvidenceRow
  <2> DEFINE With(permissions) == {r \in A : r.content.permission \in permissions}
             all == UNION {r.markets : r \in With({"COMPARABLE", "COMPARABLE_WITH_HAIRCUT"})} \ {i.market}
  <2>5. \A permissions : Cardinality(With(permissions)) \in Nat
    BY <2>3, FS_Subset, FS_CardinalityType
  <2>6. Cardinality(all) \in Nat
    <3>1. all \subseteq DOMAIN Places
      BY <2>4
    <3>. QED
      BY <3>1, PlacesAssumption, FS_Subset, FS_CardinalityType
  <2>7. EquivalenceCounts(i) =
          [comparable |-> Cardinality(all), review |-> Cardinality(With({"MANUAL_REVIEW"})),
           apart |-> Cardinality(With({"DO_NOT_COMPARE"}))]
    BY <2>2, Zenon DEF EquivalenceCounts
  <2>. HIDE DEF With, all
  <2>. QED
    BY <2>1, <2>5, <2>6, <2>7
<1>11. x.divergence \in [{"WATCH", "MATERIAL_DIVERGENCE", "NEEDS_REVIEW", "DO_NOT_COMPARE"} -> Nat]
  <2>1. x.divergence = DivergenceCounts(i)
    BY <1>1, <1>2 DEF InputSnapshot
  <2>2. PICK A : A = AsOf("divergence", i.market, i.asof)
    OBVIOUS
  <2>3. IsFiniteSet(A)
    <3>1. A \subseteq rows
      BY <2>2 DEF AsOf
    <3>. QED
      BY <3>1, FS_Subset DEF RowsKnown
  <2> DEFINE With(status) == {r \in A : r.content.status = status}
  <2>4. \A status : Cardinality(With(status)) \in Nat
    BY <2>3, FS_Subset, FS_CardinalityType
  <2>5. DivergenceCounts(i) =
          [status \in {"WATCH", "MATERIAL_DIVERGENCE", "NEEDS_REVIEW", "DO_NOT_COMPARE"} |->
             Cardinality(With(status))]
    BY <2>2, Zenon DEF DivergenceCounts
  <2>. HIDE DEF With
  <2>. QED
    BY <2>1, <2>4, <2>5
<1>12. x.hash = h /\ h.intent = i /\ h.verdict = v.n /\ h.policy = p.id
  BY <1>2, <1>3, <1>4
<1>13. /\ \E q \in named : q.id = h.policy
       /\ \E r \in S : r.kind = "verdict" /\ r.n = h.verdict
  BY <1>9, <1>12
<1>14. SnapshotWithin(x, restrictions, exposures, named, S)
  BY <1>5, <1>6, <1>7, <1>8, <1>10, <1>11, <1>12, <1>13 DEF SnapshotWithin
<1>. QED
  BY <1>1, <1>3, <1>14

-----------------------------------------------------------------------------
(* The verdict a decision rests on.                                        *)
LEMMA StricterIsAction ==
  ASSUME NEW a \in Range(Actions), NEW b \in Range(Actions)
  PROVE  Strictest(a, b) \in Range(Actions)
BY Zenon DEF Strictest

LEMMA BuiltAnew ==
  ASSUME IdsDiffer, RowsKnown(rows, stamp), NEW m \in DOMAIN Places, NEW t \in Times
  PROVE  NewVerdict(m, t) \in VerdictRow /\ NewVerdict(m, t) \notin rows
<1>1. \A kind : Latest(kind, m, t) # None => Latest(kind, m, t) \in rows /\ Latest(kind, m, t).kind = kind
  <2>1. \A kind : Latest(kind, m, t) = Newest(RowsWith(rows, kind, m, t))
    BY DEF Latest, AsOf, RowsWith
  <2>2. \A kind : Latest(kind, m, t) # None => Latest(kind, m, t) \in RowsWith(rows, kind, m, t)
    BY <2>1, LatestIsRow
  <2>. QED
    BY <2>2, Zenon DEF RowsWith
<1>2. VerdictRisk(m, t) \in 0 .. 100
  <2>1. PICK r : r = Latest("rule", m, t)
    OBVIOUS
  <2>2. VerdictRisk(m, t) = IF r = None THEN 100 ELSE r.content.risk
    BY <2>1 DEF VerdictRisk
  <2>3. r # None => r.content.risk \in 0 .. 100
    BY <1>1, <2>1 DEF RowsKnown, Scored
  <2>. QED
    BY <2>2, <2>3
<1>3. VerdictAction(m, t) \in Range(Actions)
  <2>1. \A hint : HintAction(hint) \in Range(Actions)
    BY ActionsNamed DEF HintAction
  <2>2. PICK base \in Range(Actions) :
          VerdictAction(m, t) \in {base} \cup {Strictest(base, HintAction(hint)) :
                                                 hint \in {Latest("integrity", m, t).content.hint}}
    <3> DEFINE base == IF VerdictRisk(m, t) >= 80 THEN "NO_TRADE"
                       ELSE IF VerdictRisk(m, t) >= 50 \/ Latest("book", m, t) = None THEN "MANUAL_REVIEW"
                       ELSE IF Latest("book", m, t).content.thin THEN "PASSIVE_ONLY" ELSE "ALLOW"
               stricter == Strictest(base, HintAction(Latest("integrity", m, t).content.hint))
    <3>1. base \in Range(Actions)
      BY ActionsNamed
    <3>2. VerdictAction(m, t) = IF Latest("integrity", m, t) = None THEN base ELSE stricter
      BY Zenon DEF VerdictAction
    <3>3. VerdictAction(m, t) \in {base} \cup {Strictest(base, HintAction(hint)) :
                                                 hint \in {Latest("integrity", m, t).content.hint}}
      <4>1. VerdictAction(m, t) = base \/ VerdictAction(m, t) = stricter
        BY <3>2, Zenon
      <4>. HIDE DEF base
      <4>. QED
        BY <4>1
    <3>. HIDE DEF base
    <3>. QED
      BY <3>1, <3>3
  <2>. QED
    BY <2>1, <2>2, StricterIsAction
<1>4. VerdictInputs(m, t) \subseteq Nat
  <2>1. PICK A : A = ({Latest(kind, m, t) : kind \in {"rule", "book", "integrity"}} \ {None})
                       \cup AsOf("equivalence", m, t) \cup AsOf("divergence", m, t)
    OBVIOUS
  <2>2. A \subseteq rows
    BY <1>1, <2>1 DEF AsOf
  <2>3. VerdictInputs(m, t) = {r.n : r \in A}
    BY <2>1, Zenon DEF VerdictInputs
  <2>. QED
    BY <2>2, <2>3, RowTypes
<1>5. stamp \in Nat
  BY DEF RowsKnown
<1>6. PICK v : v = NewVerdict(m, t)
  OBVIOUS
<1>7. v = [kind |-> "verdict", markets |-> {m}, at |-> t, n |-> stamp + 1,
           content |-> [action |-> VerdictAction(m, t), risk |-> VerdictRisk(m, t), inputs |-> VerdictInputs(m, t)]]
  BY <1>6, Zenon DEF NewVerdict
<1>8. v \in VerdictRow
  BY <1>2, <1>3, <1>4, <1>5, <1>7 DEF VerdictRow
<1>9. v \notin rows
  <2>1. v.n = stamp + 1
    BY <1>7
  <2>2. \A r \in rows : r.n <= stamp
    BY RowTypes
  <2>. QED
    BY <1>5, <2>1, <2>2
<1>. QED
  BY <1>6, <1>8, <1>9

(* An unforced check takes the verdict of its time, and builds one only    *)
(* when there is none.                                                     *)
LEMMA VerdictUsed ==
  ASSUME IdsDiffer, RowsKnown(rows, stamp), NEW i \in TradeIntent, NEW force \in BOOLEAN,
         NEW v, v = Verdict(i, force)
  PROVE  /\ v \in VerdictRow /\ v.markets = {i.market} /\ v.at = i.asof
         /\ v \notin rows => v.n = stamp + 1
         /\ ~force /\ v \notin rows =>
              \A q \in rows : q.kind = "verdict" /\ i.market \in q.markets => q.at # i.asof
         /\ ~force /\ v \in rows => v = Newest(RowsWith(rows, "verdict", i.market, i.asof))
<1>1. PICK m \in DOMAIN Places : m = i.market
  BY IntentFields
<1>2. PICK t \in Times : t = i.asof
  BY IntentFields
<1>3. PICK built : built = BuiltVerdict(m, t)
  OBVIOUS
<1>4. /\ built \in VerdictRow /\ built.markets = {m} /\ built.at = t
      /\ built \notin rows => built.n = stamp + 1
  <2> DEFINE same == {r \in rows : r.kind = "verdict" /\ r.markets = {m} /\ r.at = t
                                    /\ r.content.inputs = VerdictInputs(m, t)}
  <2>1. built = IF same = {} THEN NewVerdict(m, t) ELSE CHOOSE r \in same : TRUE
    BY <1>3, Zenon DEF BuiltVerdict
  <2>2. \A r \in same : r \in rows /\ r.kind = "verdict" /\ r.markets = {m} /\ r.at = t
    OBVIOUS
  <2>. HIDE DEF same
  <2>3. CASE same = {}
    <3>1. built = NewVerdict(m, t)
      BY <2>1, <2>3, Zenon
    <3>2. built.markets = {m} /\ built.at = t /\ built.n = stamp + 1
      BY <3>1 DEF NewVerdict
    <3>. QED
      BY <3>1, <3>2, BuiltAnew
  <2>4. CASE same # {}
    <3>1. built \in same
      BY <2>1, <2>4, Zenon
    <3>2. built \in rows /\ built.kind = "verdict" /\ built.markets = {m} /\ built.at = t
      BY <2>2, <3>1
    <3>. QED
      BY <3>2, RowTypes
  <2>. QED
    BY <2>3, <2>4
<1>5. CASE force
  <2>1. v = built
    BY <1>1, <1>2, <1>3, <1>5, Zenon DEF Verdict
  <2>. QED
    BY <1>1, <1>2, <1>4, <1>5, <2>1
<1>6. CASE ~force
  <2>1. PICK old : old = Newest(RowsWith(rows, "verdict", m, t))
    OBVIOUS
  <2>2. v = IF old # None /\ old.at = t THEN old ELSE built
    <3>1. old = Latest("verdict", m, t)
      BY <2>1 DEF Latest, AsOf, RowsWith
    <3>. QED
      BY <1>1, <1>2, <1>3, <1>6, <3>1, Zenon DEF Verdict, GateVerdict
  <2>3. /\ RowsWith(rows, "verdict", m, t) = {} => old = None
        /\ RowsWith(rows, "verdict", m, t) # {} =>
             /\ old \in RowsWith(rows, "verdict", m, t) /\ old \in rows /\ old # None
             /\ \A q \in RowsWith(rows, "verdict", m, t) \ {old} : Older(q, old)
    BY <2>1, LatestIsRow
  <2>4. CASE old # None /\ old.at = t
    <3>1. old \in rows /\ old.kind = "verdict" /\ m \in old.markets
      BY <2>3, <2>4 DEF RowsWith
    <3>2. old \in VerdictRow
      BY <3>1, RowTypes
    <3>3. old.markets = {m}
      BY <3>1, <3>2 DEF VerdictRow
    <3>. QED
      BY <1>1, <1>2, <2>1, <2>2, <2>4, <3>1, <3>2, <3>3
  <2>5. CASE ~(old # None /\ old.at = t)
    <3>1. v = built
      BY <2>2, <2>5
    <3>2. \A q \in rows : q.kind = "verdict" /\ m \in q.markets => q.at # t
      <4>. SUFFICES ASSUME NEW q \in rows, q.kind = "verdict", m \in q.markets, q.at = t
                    PROVE  FALSE
        OBVIOUS
      <4>1. \A r \in rows : r.at \in Nat
        BY RowTypes
      <4>2. q \in RowsWith(rows, "verdict", m, t)
        BY <4>1 DEF RowsWith
      <4>3. old \in rows /\ old.at <= t /\ old # None /\ (q # old => Older(q, old))
        BY <2>3, <4>2 DEF RowsWith
      <4>4. old.at = t
        BY <4>1, <4>3 DEF Older
      <4>. QED
        BY <2>5, <4>3, <4>4
    <3>3. v \notin rows
      <4>1. built.kind = "verdict" /\ m \in built.markets
        BY <1>4 DEF VerdictRow
      <4>. QED
        BY <1>4, <3>1, <3>2, <4>1
    <3>. QED
      BY <1>1, <1>2, <1>4, <3>1, <3>2, <3>3
  <2>. QED
    BY <2>4, <2>5
<1>. QED
  BY <1>5, <1>6

(* One more verdict, or the one that is there.                             *)
LEMMA VerdictStored ==
  ASSUME RowsKnown(rows, stamp), NEW v \in VerdictRow, v \notin rows => v.n = stamp + 1
  PROVE  RowsKnown(rows \cup {v}, Greater(stamp, v.n))
<1>1. stamp \in Nat
  BY DEF RowsKnown
<1>2. CASE v \in rows
  <2>1. rows \cup {v} = rows /\ Greater(stamp, v.n) = stamp
    BY <1>1, <1>2, RowTypes DEF Greater
  <2>. QED
    BY <2>1
<1>3. CASE v \notin rows
  <2>1. Greater(stamp, v.n) = stamp + 1 /\ v.n = stamp + 1
    BY <1>1, <1>3 DEF Greater
  <2>2. IsFiniteSet(rows \cup {v})
    BY FS_AddElement DEF RowsKnown
  <2>3. Scored(v)
    BY DEF Scored, VerdictRow
  <2>4. \A r \in rows : r.n \in 1 .. stamp /\ r.n # v.n
    BY <1>1, <2>1 DEF RowsKnown
  <2>. QED
    BY <1>1, <2>1, <2>2, <2>3, <2>4 DEF RowsKnown
<1>. QED
  BY <1>2, <1>3

(* What a check saw, and what its inputs are of it.                        *)
ExposureIn(held, i) ==
  LET S == {e \in held : Covers(e, i) /\ e.asof <= i.asof}
  IN  IF S = {} THEN None
      ELSE CHOOSE e \in S : \A f \in S \ {e} : f.asof < e.asof \/ (f.asof = e.asof /\ f.gen < e.gen)
PolicyIn(named, id, t) ==
  LET inForce == {p \in named : p.active /\ InWindow(p, t)}
  IN  IF id # None THEN CHOOSE p \in named : p.id = id
      ELSE IF id = None /\ inForce = {} THEN DefaultPolicy
      ELSE CHOOSE p \in inForce : \A q \in inForce : q.created <= p.created
InputsOf(i, seen, n, id) ==
  [intent |-> i, active |-> seen.status, verdict |-> n, policy |-> PolicyIn(seen.policies, id, i.asof).id,
   exposure |-> ExposureIn(seen.exposures, i), restrictions |-> seen.restrictions,
   evidence |-> EvidenceOf(seen.facts, i.market, i.asof)]

LEMMA InputsSeen ==
  ASSUME NEW i, NEW v, NEW id
  PROVE  Inputs(i, v, PolicyFor(id, i.asof)) = InputsOf(i, Seen(i), v.n, id)
<1>1. PICK seen : seen = Seen(i)
  OBVIOUS
<1>2. PICK held : held = {e \in exposures : e.asof <= i.asof}
  OBVIOUS
<1>3. PICK facts : facts = {r \in rows : r.kind # "verdict" /\ i.market \in r.markets /\ r.at <= i.asof}
  OBVIOUS
<1>4. PICK on : on = (i.market \in active)
  OBVIOUS
<1>5. PICK rules : rules = Applicable(i.market, i.asof)
  OBVIOUS
<1>6. seen = [status |-> on, restrictions |-> rules, exposures |-> held, policies |-> policies, facts |-> facts]
  BY <1>1, <1>2, <1>3, <1>4, <1>5, Zenon DEF Seen
<1>7. /\ seen.status = on /\ seen.restrictions = rules /\ seen.exposures = held
      /\ seen.policies = policies /\ seen.facts = facts
  BY <1>6
<1>8. ExposureIn(held, i) = LatestExposure(i)
  <2> DEFINE newest(S) == IF S = {} THEN None
        ELSE CHOOSE e \in S : \A f \in S \ {e} : f.asof < e.asof \/ (f.asof = e.asof /\ f.gen < e.gen)
  <2>1. ExposureIn(held, i) = newest({e \in held : Covers(e, i) /\ e.asof <= i.asof})
    BY Zenon DEF ExposureIn
  <2>2. LatestExposure(i) = newest({e \in exposures : Covers(e, i) /\ e.asof <= i.asof})
    BY Zenon DEF LatestExposure
  <2>3. {e \in held : Covers(e, i) /\ e.asof <= i.asof} = {e \in exposures : Covers(e, i) /\ e.asof <= i.asof}
    BY <1>2
  <2>. HIDE DEF newest
  <2>. QED
    BY <2>1, <2>2, <2>3
<1>9. PolicyIn(policies, id, i.asof) = PolicyFor(id, i.asof)
  BY Zenon DEF PolicyIn, PolicyFor, NeedsDefault, ActivePolicies
<1>10. \A kind : kind # "verdict" =>
         RowsWith(facts, kind, i.market, i.asof) = RowsWith(rows, kind, i.market, i.asof)
  BY <1>3 DEF RowsWith
<1>11. EvidenceOf(facts, i.market, i.asof) = EvidenceOf(rows, i.market, i.asof)
  <2>1. \A kind \in ReadKinds : kind # "verdict"
    BY DEF ReadKinds
  <2>2. PICK seenRows : seenRows = {Newest(RowsWith(facts, kind, i.market, i.asof)) : kind \in ReadKinds}
    OBVIOUS
  <2>3. PICK allRows : allRows = {Newest(RowsWith(rows, kind, i.market, i.asof)) : kind \in ReadKinds}
    OBVIOUS
  <2>4. \A kind \in ReadKinds : Newest(RowsWith(facts, kind, i.market, i.asof))
                                 = Newest(RowsWith(rows, kind, i.market, i.asof))
    BY <1>10, <2>1
  <2>5. seenRows = allRows
    BY <2>2, <2>3, <2>4, SMT
  <2>6. /\ RowsWith(facts, "divergence", i.market, i.asof) = RowsWith(rows, "divergence", i.market, i.asof)
        /\ RowsWith(facts, "equivalence", i.market, i.asof) = RowsWith(rows, "equivalence", i.market, i.asof)
    BY <1>10
  <2>. QED
    BY <2>2, <2>3, <2>5, <2>6, Zenon DEF EvidenceOf
<1>12. \A kind, m, t : AsOf(kind, m, t) = RowsWith(rows, kind, m, t)
  BY DEF AsOf, RowsWith
<1>13. PICK E : E = EvidenceOf(rows, i.market, i.asof)
  OBVIOUS
<1>14. PICK p : p = PolicyFor(id, i.asof)
  OBVIOUS
<1>15. PICK e : e = LatestExposure(i)
  OBVIOUS
<1>16. Inputs(i, v, p) =
         [intent |-> i, active |-> on, verdict |-> v.n, policy |-> p.id, exposure |-> e,
          restrictions |-> rules, evidence |-> E]
  <2>1. PICK x : x = Inputs(i, v, p)
    OBVIOUS
  <2>2. x.evidence = E
    BY <1>12, <1>13, <2>1, Zenon DEF Inputs, EvidenceOf, ReadKinds, Latest
  <2>3. PICK all : all = {Latest(kind, i.market, i.asof) : kind \in {"rule", "quality", "integrity", "liquidity"}}
                           \cup AsOf("divergence", i.market, i.asof) \cup AsOf("equivalence", i.market, i.asof)
    OBVIOUS
  <2>4. x = [intent |-> i, active |-> on, verdict |-> v.n, policy |-> p.id, exposure |-> e,
             restrictions |-> rules, evidence |-> all]
    BY <1>4, <1>5, <1>15, <2>1, <2>3, Zenon DEF Inputs
  <2>5. all = E
    BY <2>2, <2>4
  <2>. QED
    BY <2>1, <2>4, <2>5, Zenon
<1>17. InputsOf(i, seen, v.n, id) =
         [intent |-> i, active |-> on, verdict |-> v.n, policy |-> p.id, exposure |-> e,
          restrictions |-> rules, evidence |-> E]
  BY <1>7, <1>8, <1>9, <1>11, <1>13, <1>14, <1>15, Zenon DEF InputsOf
<1>. QED
  BY <1>1, <1>14, <1>16, <1>17, Zenon

(* A check's verdict is still the one of its time.                         *)
Current(c, S) ==
  \E v \in S : /\ v.n = c.decision.inputs.verdict /\ v.at = c.intent.asof
               /\ v \in RowsWith(S, "verdict", c.intent.market, c.intent.asof)
               /\ v = Newest(RowsWith(S, "verdict", c.intent.market, c.intent.asof))

LEMMA CurrentStays ==
  ASSUME IdsDiffer, NEW S, NEW T, NEW last, RowsKnown(T, last), S \subseteq T,
         NEW c, Current(c, S), NEW known, RowsKnown(S, known),
         \A q \in T \ S : q.kind = "verdict" /\ c.intent.market \in q.markets => q.at # c.intent.asof
  PROVE  Current(c, T)
<1>1. PICK m : m = c.intent.market
  OBVIOUS
<1>2. PICK t : t = c.intent.asof
  OBVIOUS
<1>3. PICK U : U = RowsWith(S, "verdict", m, t)
  OBVIOUS
<1>4. PICK V : V = RowsWith(T, "verdict", m, t)
  OBVIOUS
<1>5. PICK v \in S : v.n = c.decision.inputs.verdict /\ v.at = t /\ v \in U /\ v = Newest(U)
  BY <1>1, <1>2, <1>3 DEF Current
<1>6. \A q \in U \ {v} : Older(q, v)
  BY <1>3, <1>5, LatestIsRow
<1>7. U \subseteq V /\ V \subseteq T
  BY <1>3, <1>4 DEF RowsWith
<1>8. \A q \in V \ U : Older(q, v)
  <2>1. \A q \in V \ U : q \in T \ S /\ q.kind = "verdict" /\ m \in q.markets /\ q.at <= t
    BY <1>3, <1>4 DEF RowsWith
  <2>2. \A q \in V \ U : q.at # t /\ q.at \in Nat
    BY <1>1, <1>2, <1>7, <2>1, RowTypes
  <2>3. t \in Nat
    BY <1>5, RowTypes
  <2>. QED
    BY <1>5, <2>1, <2>2, <2>3 DEF Older
<1>9. v = Newest(V)
  BY <1>5, <1>6, <1>7, <1>8, NewestStays
<1>. QED
  BY <1>1, <1>2, <1>4, <1>5, <1>7, <1>9 DEF Current

-----------------------------------------------------------------------------
(* A run: the verdicts it builds are numbered apart.                       *)
LEMMA PlacesApart ==
  ASSUME NEW D \in SUBSET DOMAIN Places
  PROVE  /\ IsFiniteSet(D) /\ Cardinality(D) \in Nat
         /\ \A m \in D : Before(m, D) \in Nat /\ Before(m, D) < Cardinality(D)
         /\ \A m, k \in D : m # k => Before(m, D) # Before(k, D)
<1> DEFINE P(m) == {k \in D : Places[k].place < Places[m].place}
<1>1. IsFiniteSet(D) /\ Cardinality(D) \in Nat
  BY PlacesAssumption, FS_Subset, FS_CardinalityType
<1>2. \A m \in D : Places[m].place \in Int
  BY PlacesAssumption
<1>3. \A m, k \in D : m # k => Places[m].place # Places[k].place
  BY PlacesAssumption
<1>4. \A m : Before(m, D) = Cardinality(P(m))
  BY DEF Before
<1>5. \A m : P(m) \in SUBSET D /\ IsFiniteSet(P(m)) /\ Cardinality(P(m)) \in Nat
  BY <1>1, FS_Subset, FS_CardinalityType
<1>6. ASSUME NEW m \in D
      PROVE  Cardinality(P(m)) < Cardinality(D)
  <2>1. m \notin P(m)
    BY <1>2
  <2>. HIDE DEF P
  <2>2. P(m) # D
    BY <2>1
  <2>. QED
    BY <1>1, <1>5, <2>2, FS_Subset
<1>7. ASSUME NEW m \in D, NEW k \in D, Places[m].place < Places[k].place
      PROVE  Cardinality(P(m)) < Cardinality(P(k))
  <2>1. P(m) \in SUBSET P(k)
    BY <1>2, <1>7
  <2>2. m \in P(k) /\ m \notin P(m)
    BY <1>2, <1>7
  <2>. HIDE DEF P
  <2>. QED
    BY <1>5, <2>1, <2>2, FS_Subset
<1>8. ASSUME NEW m \in D, NEW k \in D, m # k
      PROVE  Cardinality(P(m)) # Cardinality(P(k))
  <2>1. Places[m].place < Places[k].place \/ Places[k].place < Places[m].place
    BY <1>2, <1>3, <1>8
  <2>. HIDE DEF P
  <2>. QED
    BY <1>5, <1>7, <2>1
<1>. HIDE DEF P
<1>. QED
  BY <1>1, <1>4, <1>5, <1>6, <1>8

LEMMA DefaultIsIntent ==
  ASSUME NEW m \in DOMAIN Places, NEW t \in Times
  PROVE  /\ DefaultIntent(m, t) \in TradeIntent
         /\ DefaultIntent(m, t).market = m /\ DefaultIntent(m, t).asof = t /\ DefaultIntent(m, t).size = 1
BY DEF DefaultIntent, TradeIntent, StrategyContexts

(* A verdict of the market and time, a new one only when there is none.    *)
VerdictOfTime(v, S, m, t) ==
  /\ v \in VerdictRow /\ v.markets = {m} /\ v.at = t
  /\ v \notin S => \A q \in S : q.kind = "verdict" /\ m \in q.markets => q.at # t
RunVerdicts(D, t) == Numbered([m \in D |-> Verdict(DefaultIntent(m, t), FALSE)])

LEMMA NumberedRows ==
  ASSUME IdsDiffer, RowsKnown(rows, stamp), NEW t \in Times, NEW D \in SUBSET DOMAIN Places,
         NEW w, w = RunVerdicts(D, t)
  PROVE  /\ DOMAIN w = D
         /\ \A m \in D : VerdictOfTime(w[m], rows, m, t)
         /\ RowsKnown(rows \cup Range(w), stamp + Cardinality(D))
<1>1. PICK v : v = [m \in D |-> Verdict(DefaultIntent(m, t), FALSE)]
  OBVIOUS
<1>2. DOMAIN v = D
  BY <1>1
<1>3. ASSUME NEW m \in D
      PROVE  /\ v[m] \in VerdictRow /\ v[m].markets = {m} /\ v[m].at = t
             /\ v[m] \notin rows => v[m].n = stamp + 1
             /\ v[m] \notin rows => \A q \in rows : q.kind = "verdict" /\ m \in q.markets => q.at # t
  <2>1. PICK i : i = DefaultIntent(m, t)
    OBVIOUS
  <2>2. i \in TradeIntent /\ i.market = m /\ i.asof = t
    BY <2>1, DefaultIsIntent
  <2>3. v[m] = Verdict(i, FALSE)
    BY <1>1, <2>1
  <2>4. PICK no \in BOOLEAN : no = FALSE
    OBVIOUS
  <2>. QED
    BY <2>2, <2>3, <2>4, VerdictUsed
<1>4. w = [m \in D |-> IF v[m] \in rows THEN v[m] ELSE [v[m] EXCEPT !.n = @ + Before(m, D)]]
  BY <1>1, <1>2, Zenon DEF Numbered, RunVerdicts
<1>5. DOMAIN w = D /\ \A m \in D : w[m] = IF v[m] \in rows THEN v[m] ELSE [v[m] EXCEPT !.n = @ + Before(m, D)]
  BY <1>4
<1>6. stamp \in Nat /\ \A r \in rows : r.n \in Nat /\ r.n <= stamp
  BY RowTypes DEF RowsKnown
<1>7. ASSUME NEW m \in D
      PROVE  /\ w[m] \in VerdictRow /\ w[m].markets = {m} /\ w[m].at = t
             /\ v[m] \in rows => w[m] = v[m]
             /\ v[m] \notin rows => w[m].n = stamp + 1 + Before(m, D)
             /\ w[m] \in rows <=> v[m] \in rows
  <2>1. CASE v[m] \in rows
    BY <1>3, <1>5, <2>1
  <2>2. CASE v[m] \notin rows
    <3>1. w[m] = [v[m] EXCEPT !.n = @ + Before(m, D)]
      BY <1>5, <2>2
    <3>2. v[m].n = stamp + 1 /\ v[m] \in VerdictRow /\ Before(m, D) \in Nat
      BY <1>3, <2>2, PlacesApart
    <3>3. w[m] \in VerdictRow /\ w[m].n = stamp + 1 + Before(m, D)
          /\ w[m].markets = v[m].markets /\ w[m].at = v[m].at
      <4>1. PICK r \in VerdictRow : r = v[m]
        BY <3>2
      <4>2. PICK b \in Nat : b = Before(m, D)
        BY <3>2
      <4>3. PICK u : u = [r EXCEPT !.n = @ + b]
        OBVIOUS
      <4>4. r.n \in Nat /\ u \in VerdictRow /\ u.n = r.n + b /\ u.markets = r.markets /\ u.at = r.at
        BY <4>3 DEF VerdictRow
      <4>5. w[m] = u
        BY <3>1, <4>1, <4>2, <4>3
      <4>6. r.n + b = stamp + 1 + b
        BY <3>2, <4>1
      <4>. QED
        BY <4>1, <4>2, <4>4, <4>5, <4>6
    <3>4. w[m] \notin rows
      BY <1>6, <3>2, <3>3
    <3>. QED
      BY <1>3, <2>2, <3>3, <3>4
  <2>. QED
    BY <2>1, <2>2
<1>8. PICK last : last = stamp + Cardinality(D)
  OBVIOUS
<1>9. PICK S : S = rows \cup Range(w)
  OBVIOUS
<1>10. last \in Nat /\ stamp <= last
  BY <1>6, <1>8, PlacesApart
<1>11. \A r \in S : r \in rows \/ \E m \in D : r = w[m]
  BY <1>5, <1>9 DEF Range
<1>12. ASSUME NEW m \in D, v[m] \notin rows
       PROVE  w[m].n \in Nat /\ w[m].n > stamp /\ w[m].n <= last
  <2>1. Before(m, D) \in Nat /\ Cardinality(D) \in Nat /\ Before(m, D) < Cardinality(D)
    BY PlacesApart
  <2>2. PICK b \in Nat : b = Before(m, D)
    BY <2>1
  <2>3. PICK size \in Nat : size = Cardinality(D)
    BY <2>1
  <2>4. w[m].n = stamp + 1 + b
    BY <1>7, <1>12, <2>2
  <2>. QED
    BY <1>6, <1>8, <2>1, <2>2, <2>3, <2>4
<1>13. \A m \in D : Scored(w[m])
  BY <1>7 DEF Scored, VerdictRow
<1>14. \A r \in S : Scored(r) /\ r.n \in 1 .. last /\ r \in EvidenceRow \cup VerdictRow
  <2>1. \A r \in rows : Scored(r) /\ r.n \in 1 .. last /\ r \in EvidenceRow \cup VerdictRow
    BY <1>6, <1>10 DEF RowsKnown
  <2>2. ASSUME NEW m \in D
        PROVE  Scored(w[m]) /\ w[m].n \in 1 .. last /\ w[m] \in EvidenceRow \cup VerdictRow
    <3>1. CASE v[m] \in rows
      BY <1>7, <2>1, <3>1
    <3>2. CASE v[m] \notin rows
      <4>1. w[m].n \in 1 .. last
        <5>1. PICK k : k = w[m].n
          OBVIOUS
        <5>2. k \in Nat /\ k > stamp /\ k <= last
          BY <1>12, <3>2, <5>1
        <5>. QED
          BY <1>6, <1>10, <5>1, <5>2
      <4>. QED
        BY <1>7, <1>13, <4>1
    <3>. QED
      BY <3>1, <3>2
  <2>. QED
    BY <1>11, <2>1, <2>2
<1>15. \A m, k \in D : v[m] \notin rows /\ v[k] \notin rows /\ w[m].n = w[k].n => m = k
  <2>1. \A m \in D : Before(m, D) \in Nat
    BY PlacesApart
  <2>2. \A m, k \in D : m # k => Before(m, D) # Before(k, D)
    BY PlacesApart
  <2>. SUFFICES ASSUME NEW m \in D, NEW k \in D, v[m] \notin rows, v[k] \notin rows, w[m].n = w[k].n
                PROVE  m = k
    OBVIOUS
  <2>3. PICK b \in Nat : b = Before(m, D)
    BY <2>1
  <2>4. PICK c \in Nat : c = Before(k, D)
    BY <2>1
  <2>5. w[m].n = stamp + 1 + b /\ w[k].n = stamp + 1 + c
    BY <1>7, <2>3, <2>4
  <2>6. b = c
    <3>1. stamp + 1 + b = stamp + 1 + c
      BY <2>5, Zenon
    <3>2. stamp \in Nat
      BY <1>6
    <3>. QED
      BY ONLY <3>1, <3>2, b \in Nat, c \in Nat
  <2>. QED
    BY <2>2, <2>3, <2>4, <2>6
<1>16. \A q, r \in S : q.n = r.n => q = r
  <2>1. \A q, r \in rows : q.n = r.n => q = r
    BY DEF RowsKnown
  <2>2. \A r \in S : r \in rows \/ \E m \in D : r = w[m] /\ v[m] \notin rows
    BY <1>7, <1>11
  <2>3. ASSUME NEW q \in rows, NEW m \in D, v[m] \notin rows
        PROVE  q.n # w[m].n
    <3>1. PICK k : k = w[m].n
      OBVIOUS
    <3>2. k \in Nat /\ k > stamp
      BY <1>12, <2>3, <3>1
    <3>3. PICK n : n = q.n
      OBVIOUS
    <3>4. n \in Nat /\ n <= stamp
      BY <1>6, <3>3
    <3>. QED
      BY <1>6, <3>1, <3>2, <3>3, <3>4
  <2>. SUFFICES ASSUME NEW q \in S, NEW r \in S, q.n = r.n
                PROVE  q = r
    OBVIOUS
  <2>4. CASE q \in rows /\ r \in rows
    BY <2>1, <2>4
  <2>5. CASE q \in rows /\ r \notin rows
    <3>1. PICK m \in D : r = w[m] /\ v[m] \notin rows
      BY <2>2, <2>5
    <3>2. q.n # w[m].n
      BY <2>3, <2>5, <3>1, Zenon
    <3>. QED
      BY <3>1, <3>2, Zenon
  <2>6. CASE q \notin rows /\ r \in rows
    <3>1. PICK m \in D : q = w[m] /\ v[m] \notin rows
      BY <2>2, <2>6
    <3>2. r.n # w[m].n
      BY <2>3, <2>6, <3>1, Zenon
    <3>. QED
      BY <3>1, <3>2, Zenon
  <2>7. CASE q \notin rows /\ r \notin rows
    <3>1. PICK m \in D : q = w[m] /\ v[m] \notin rows
      BY <2>2, <2>7
    <3>2. PICK k \in D : r = w[k] /\ v[k] \notin rows
      BY <2>2, <2>7
    <3>. QED
      BY <1>15, <3>1, <3>2
  <2>. QED
    BY <2>4, <2>5, <2>6, <2>7
<1>17. IsFiniteSet(S)
  <2>1. IsFiniteSet({w[m] : m \in D})
    <3>1. IsFiniteSet(D)
      BY PlacesApart
    <3>. QED
      BY ONLY <3>1, ValuesAreFinite
  <2>2. Range(w) = {w[m] : m \in D}
    BY <1>5 DEF Range
  <2>. QED
    BY <1>9, <2>1, <2>2, FS_Union DEF RowsKnown
<1>18. RowsKnown(S, last)
  BY <1>10, <1>14, <1>16, <1>17 DEF RowsKnown
<1>19. \A m \in D : VerdictOfTime(w[m], rows, m, t)
  BY <1>3, <1>7 DEF VerdictOfTime
<1>. QED
  BY <1>5, <1>8, <1>9, <1>18, <1>19

(* What a run's row says of its answers.                                   *)
AnswerOK(d) ==
  /\ d.act \in Range(Actions) /\ d.final \in Nat /\ d.risk \in 0 .. 100
  /\ d.inputs.intent.size \in Nat /\ d.final <= d.inputs.intent.size

LEMMA SummaryMade ==
  ASSUME NEW D, IsFiniteSet(D), NEW a, DOMAIN a = D, \A m \in D : AnswerOK(a[m]),
         NEW s, s = RunSummary(a)
  PROVE  /\ s.total = Cardinality(D) /\ SumFunction(s.counts) = s.total
         /\ s.blocked = s.counts["NO_TRADE"] /\ s.allowed <= s.requested
         /\ s.risk <= 100 * s.total
<1>1. PICK K : K = Range(Actions)
  OBVIOUS
<1>2. IsFiniteSet(K) /\ "NO_TRADE" \in K
  BY <1>1, ActionsNamed
<1>3. PICK is : is = [m \in D |-> a[m].act]
  OBVIOUS
<1>4. PICK risks : risks = [m \in D |-> a[m].risk]
  OBVIOUS
<1>5. PICK sizes : sizes = [m \in D |-> a[m].inputs.intent.size]
  OBVIOUS
<1>6. PICK finals : finals = [m \in D |-> a[m].final]
  OBVIOUS
<1>7. PICK counts : counts = [p \in K |-> Cardinality({m \in D : a[m].act = p})]
  OBVIOUS
<1>8. s = [total |-> Cardinality(D), counts |-> counts,
           blocked |-> Cardinality({m \in D : a[m].act = "NO_TRADE"}),
           risk |-> SumFunction(risks), requested |-> SumFunction(sizes), allowed |-> SumFunction(finals)]
  BY <1>1, <1>4, <1>5, <1>6, <1>7, Zenon DEF RunSummary
<1>9. /\ s.total = Cardinality(D) /\ s.counts = counts
      /\ s.blocked = Cardinality({m \in D : a[m].act = "NO_TRADE"})
      /\ s.risk = SumFunction(risks) /\ s.requested = SumFunction(sizes) /\ s.allowed = SumFunction(finals)
  BY <1>8
<1>10. SumFunction(counts) = Cardinality(D)
  <2>1. \A m \in D : is[m] \in K
    BY <1>1, <1>3 DEF AnswerOK
  <2>2. DOMAIN counts = K
    BY <1>7
  <2>3. \A p \in K : {m \in D : a[m].act = p} = {m \in D : is[m] = p}
    BY <1>3
  <2>4. \A p \in K : counts[p] = Cardinality({m \in D : is[m] = p})
    BY <1>7, <2>3
  <2>. QED
    BY ONLY <1>2, <2>1, <2>2, <2>4, IsFiniteSet(D), PartsAddUp
<1>11. counts["NO_TRADE"] = Cardinality({m \in D : a[m].act = "NO_TRADE"})
  BY <1>2, <1>7
<1>12. SumFunction(finals) <= SumFunction(sizes)
  <2>1. DOMAIN finals = D /\ DOMAIN sizes = D
    BY <1>5, <1>6
  <2>2. \A m \in D : finals[m] \in Nat /\ sizes[m] \in Nat /\ finals[m] <= sizes[m]
    BY <1>5, <1>6 DEF AnswerOK
  <2>3. D \in SUBSET D
    OBVIOUS
  <2>4. SumFunctionOnSet(finals, D) <= SumFunctionOnSet(sizes, D)
    BY ONLY <2>2, <2>3, IsFiniteSet(D), SumsCompare
  <2>. QED
    BY <2>1, <2>4 DEF SumFunction
<1>13. SumFunction(risks) <= 100 * Cardinality(D)
  <2>1. DOMAIN risks = D
    BY <1>4
  <2>2. \A m \in D : risks[m] \in 0 .. 100
    BY <1>4 DEF AnswerOK
  <2>3. SumFunctionOnSet(risks, D) <= 100 * Cardinality(D)
    BY ONLY <2>2, IsFiniteSet(D), SumOfManyScores
  <2>. QED
    BY <2>1, <2>3 DEF SumFunction
<1>. QED
  BY <1>9, <1>10, <1>11, <1>12, <1>13

LEMMA RunMade ==
  ASSUME NEW ms, NEW t \in Times, NEW most \in Nat, Cardinality(Checked(ms)) <= most,
         NEW D \in SUBSET Checked(ms), NEW a, DOMAIN a = D, \A m \in D : AnswerOK(a[m]),
         NEW r, r = RunRow(ms, t, most, a)
  PROVE  /\ PreTradeRunOK(r) /\ ValidRun(r) /\ ValidSummary(r)
         /\ r.markets = Checked(ms) /\ r.asof = t /\ r.created = Cardinality(D)
         /\ r.status = "COMPLETED" => D = Checked(ms)
<1>1. PICK M : M = Checked(ms)
  OBVIOUS
<1>2. M \subseteq DOMAIN Places
  BY <1>1 DEF Checked
<1>3. IsFiniteSet(M) /\ IsFiniteSet(D) /\ IsFiniteSet(M \ D)
  BY <1>1, <1>2, PlacesAssumption, FS_Subset
<1>4. PICK n \in Nat : n = Cardinality(D)
  BY <1>3, FS_CardinalityType
<1>5. PICK k \in Nat : k = Cardinality(M \ D)
  BY <1>3, FS_CardinalityType
<1>6. n + k = Cardinality(M) /\ (k = 0 <=> M \ D = {})
  <2>1. D \cap (M \ D) = {} /\ D \cup (M \ D) = M
    BY <1>1
  <2>2. Cardinality(D \cup (M \ D)) = Cardinality(D) + Cardinality(M \ D)
    BY ONLY <1>3, <2>1, SetsApart
  <2>3. Cardinality(M \ D) = 0 <=> M \ D = {}
    BY <1>3, FS_EmptySet
  <2>. QED
    BY <1>4, <1>5, <2>1, <2>2, <2>3
<1>7. PICK s : s = RunSummary(a)
  OBVIOUS
<1>8. PICK status : status = IF M \ D = {} THEN "COMPLETED" ELSE "PARTIAL"
  OBVIOUS
<1>9. r = [asked |-> ms, markets |-> M, asof |-> t, most |-> most, created |-> n, errors |-> k,
           status |-> status, summary |-> s]
  BY <1>1, <1>4, <1>5, <1>7, <1>8, Zenon DEF RunRow, ChecksStatus
<1>10. /\ r.markets = M /\ r.asof = t /\ r.most = most /\ r.created = n /\ r.errors = k
       /\ r.status = status /\ r.summary = s
  BY <1>9
<1>11. PreTradeRunOK(r)
  BY <1>2, <1>6, <1>8, <1>10 DEF PreTradeRunOK
<1>12. n <= most
  BY <1>1, <1>6
<1>13. ValidRun(r)
  BY <1>6, <1>8, <1>10, <1>12 DEF ValidRun
<1>14. ValidSummary(r)
  <2>1. /\ s.total = Cardinality(D) /\ SumFunction(s.counts) = s.total
        /\ s.blocked = s.counts["NO_TRADE"] /\ s.allowed <= s.requested
        /\ s.risk <= 100 * s.total
    BY <1>3, <1>7, SummaryMade
  <2>. QED
    BY <1>4, <1>10, <2>1 DEF ValidSummary
<1>. QED
  BY <1>1, <1>4, <1>8, <1>10, <1>11, <1>13, <1>14

-----------------------------------------------------------------------------
(* The invariant.  A decision keeps the rows it was ruled from, and a      *)
(* check what it saw: while nobody forces one of its market and time, the  *)
(* verdict of a check stays the newest of that time.                       *)
DecisionKept(x, stored) ==
  /\ x.gen \in Nat /\ x.d.inputs \in {y.hash : y \in stored} /\ x.d.inputs.intent \in TradeIntent
  /\ DecisionShape(x.d) /\ ValidDecision(x.d)
RuledFrom(d, S) ==
  \E v \in S, p \in KnownPolicies :
    /\ v.kind = "verdict" /\ v.n = d.inputs.verdict /\ p.id = d.inputs.policy
    /\ d = Ruling(d.inputs.intent, p.limits, ContextOf(d.inputs, v.content), d.inputs)

RuleDecides(c) ==
  \A r \in c.rules :
    /\ r.type = "NO_TRADE" /\ r.active /\ InWindow(r, c.intent.asof)
    /\ \E s \in {"MARKET", "EVENT", "VENUE"} : r.scope = s /\ r.target = Places[c.intent.market][s]
    => c.decision.act = "NO_TRADE"
CheckRuled(c, S) ==
  \E v \in S :
    /\ v.kind = "verdict" /\ v.n = c.decision.inputs.verdict
    /\ c.decision = Ruling(c.intent, PolicyIn(c.seen.policies, c.policy, c.intent.asof).limits,
                           ContextOf(c.decision.inputs, v.content), c.decision.inputs)
CheckKept(c, named, S) ==
  /\ c.intent \in TradeIntent /\ c.policy \in {p.id : p \in named} \cup {None} /\ c.forced \in BOOLEAN
  /\ c.decision.inputs = InputsOf(c.intent, c.seen, c.decision.inputs.verdict, c.policy)
  /\ CheckRuled(c, S) /\ RuleDecides(c)

Unforced(s, i, j) ==
  \A k \in i .. j :
    s[k].forced => <<s[k].intent.market, s[k].intent.asof>> # <<s[i].intent.market, s[i].intent.asof>>
SameQuestion(a, b) == a.intent = b.intent /\ a.policy = b.policy /\ a.seen = b.seen
AnswersKept(s, named, S) ==
  /\ s \in Seq(Range(s))
  /\ \A j \in DOMAIN s : CheckKept(s[j], named, S)
  /\ \A j \in DOMAIN s : Unforced(s, j, Len(s)) => Current(s[j], S)
  /\ \A i, j \in DOMAIN s :
       i < j /\ SameQuestion(s[i], s[j]) /\ Unforced(s, i, j) => s[i].decision.inputs = s[j].decision.inputs

RunKept(r, made) ==
  /\ PreTradeRunOK(r) /\ ValidRun(r) /\ ValidSummary(r)
  /\ r.status = "COMPLETED" =>
       /\ r.created = Cardinality(r.markets)
       /\ \A m \in r.markets : \E x \in made : x.d.inputs.intent = DefaultIntent(m, r.asof)

GateServiceInv ==
  /\ RowsKnown(rows, stamp) /\ OperatorRows /\ PoliciesKnown /\ active \subseteq DOMAIN Places
  /\ \A x \in inputRows : SnapshotWithin(x, restrictions, exposures, policies, rows)
  /\ \A x \in decisions : DecisionKept(x, inputRows) /\ RuledFrom(x.d, rows)
  /\ AnswersKept(checks, policies, rows)
  /\ gateRuns \in Seq(Range(gateRuns)) /\ \A r \in Range(gateRuns) : RunKept(r, decisions)

-----------------------------------------------------------------------------
(* One more answer.                                                        *)
LEMMA OneMoreRow ==
  ASSUME NEW s, s \in Seq(Range(s)), NEW e, NEW u, u = Append(s, e)
  PROVE  /\ u \in Seq(Range(u)) /\ Len(s) \in Nat /\ Len(u) = Len(s) + 1
         /\ DOMAIN s = 1 .. Len(s) /\ DOMAIN u = 1 .. Len(u)
         /\ u[Len(u)] = e /\ \A k \in 1 .. Len(s) : u[k] = s[k]
         /\ Range(u) = Range(s) \cup {e}
<1>1. PICK S : S = Range(s) \cup {e}
  OBVIOUS
<1>2. s \in Seq(S)
  <2>1. Range(s) \subseteq S
    BY <1>1
  <2>2. s \in [1 .. Len(s) -> Range(s)] /\ Len(s) \in Nat
    BY LenProperties
  <2>3. s \in [1 .. Len(s) -> S]
    BY <2>1, <2>2
  <2>. QED
    BY <2>2, <2>3, SeqDef
<1>3. /\ u \in Seq(S) /\ Len(u) = Len(s) + 1 /\ u[Len(s) + 1] = e
      /\ \A k \in 1 .. Len(s) : u[k] = s[k]
  BY <1>1, <1>2, AppendProperties
<1>4. Len(s) \in Nat /\ DOMAIN s = 1 .. Len(s) /\ DOMAIN u = 1 .. Len(u)
  BY <1>2, <1>3, LenProperties
<1>5. Range(u) = S
  <2>1. \A k \in DOMAIN u : u[k] \in S
    BY <1>3, <1>4
  <2>2. \A x \in S : \E k \in DOMAIN u : u[k] = x
    <3>1. e = u[Len(s) + 1] /\ Len(s) + 1 \in DOMAIN u
      BY <1>3, <1>4
    <3>2. \A x \in Range(s) : \E k \in DOMAIN s : s[k] = x
      BY DEF Range
    <3>3. \A k \in DOMAIN s : k \in DOMAIN u /\ u[k] = s[k]
      BY <1>3, <1>4
    <3>. QED
      BY <1>1, <3>1, <3>2, <3>3
  <2>. QED
    BY <2>1, <2>2 DEF Range
<1>. QED
  BY <1>1, <1>3, <1>4, <1>5

(* A rule that forbids trading the market, its event or its venue blocks.  *)
LEMMA RuleBlocks ==
  ASSUME NEW i, NEW v, NEW p, NEW r \in restrictions,
         r.type = "NO_TRADE", r.active, InWindow(r, i.asof),
         NEW s \in {"MARKET", "EVENT", "VENUE"}, r.scope = s, r.target = Places[i.market][s]
  PROVE  Gate(i, p.limits, Context(i, v))!Act = "NO_TRADE"
<1>1. PICK c : c = Context(i, v)
  OBVIOUS
<1>2. MatchesScope(r, i.market)
  BY DEF MatchesScope
<1>3. r \in Applicable(i.market, i.asof)
  BY <1>2 DEF Applicable
<1>4. c.restrictions = {[type |-> x.type, cap |-> x.cap] : x \in Applicable(i.market, i.asof)}
  BY <1>1 DEF Context
<1>5. PICK x : x = [type |-> r.type, cap |-> r.cap]
  OBVIOUS
<1>6. x \in c.restrictions /\ x.type = "NO_TRADE"
  BY <1>3, <1>4, <1>5
<1>7. Gate(i, p.limits, c)!Restricts("NO_TRADE")
  BY <1>6 DEF Gate!Restricts
<1>8. Gate(i, p.limits, c)!AsksForBlock
  BY <1>7, Zenon DEF Gate!AsksForBlock
<1>9. Gate(i, p.limits, c)!Act = "NO_TRADE"
  BY <1>8, Zenon DEF Gate!Act
<1>. QED
  BY <1>1, <1>9

(* What a check answers, and that its verdict is the one of its time.      *)
LEMMA AnswerGiven ==
  ASSUME IdsDiffer, RowsKnown(rows, stamp), OperatorRows, PoliciesKnown,
         NEW i \in TradeIntent, NEW id, PolicyFound(id), NEW force \in BOOLEAN,
         NEW v, v = Verdict(i, force), NEW c, c = Reply(i, id, force, v),
         NEW S, S = rows \cup {v}, NEW named, named = PoliciesAfter(id, i.asof)
  PROVE  /\ c.intent = i /\ c.forced = force /\ c.decision = Decision(i, v, PolicyFor(id, i.asof))
         /\ CheckKept(c, named, S)
         /\ ~force => Current(c, S)
<1>1. PICK p : p = PolicyFor(id, i.asof)
  OBVIOUS
<1>2. p \in named /\ p \in KnownPolicies /\ \A q \in policies : \E r \in named : r.id = q.id
  BY <1>1, PolicyUsed
<1>3. PICK d : d = Decision(i, v, p)
  OBVIOUS
<1>4. PICK seen : seen = Seen(i)
  OBVIOUS
<1>5. c = [intent |-> i, policy |-> id, forced |-> force, seen |-> seen, rules |-> restrictions, decision |-> d]
  BY <1>1, <1>3, <1>4, Zenon DEF Reply
<1>6. /\ c.intent = i /\ c.policy = id /\ c.forced = force /\ c.seen = seen /\ c.rules = restrictions
      /\ c.decision = d
  BY <1>5
<1>7. /\ v \in VerdictRow /\ v.markets = {i.market} /\ v.at = i.asof /\ v \in S
      /\ v \notin rows => v.n = stamp + 1
      /\ ~force /\ v \notin rows =>
           \A q \in rows : q.kind = "verdict" /\ i.market \in q.markets => q.at # i.asof
      /\ ~force /\ v \in rows => v = Newest(RowsWith(rows, "verdict", i.market, i.asof))
  BY VerdictUsed
<1>8. /\ d.inputs = Inputs(i, v, p) /\ d.inputs.intent = i
      /\ d.inputs.verdict = v.n /\ d.inputs.policy = p.id
      /\ d = Ruling(i, p.limits, ContextOf(d.inputs, v.content), d.inputs)
      /\ d.act = Gate(i, p.limits, Context(i, v))!Act
  BY <1>2, <1>3, <1>7, DecisionMade
<1>9. v.kind = "verdict"
  BY <1>7 DEF VerdictRow
<1>10. PolicyIn(seen.policies, id, i.asof) = p
  <2>1. seen.policies = policies
    BY <1>4 DEF Seen
  <2>2. PolicyIn(policies, id, i.asof) = PolicyFor(id, i.asof)
    BY Zenon DEF PolicyIn, PolicyFor, NeedsDefault, ActivePolicies
  <2>. QED
    BY <1>1, <2>1, <2>2
<1>11. CheckRuled(c, S)
  <2>1. c.decision = Ruling(c.intent, PolicyIn(c.seen.policies, c.policy, c.intent.asof).limits,
                            ContextOf(c.decision.inputs, v.content), c.decision.inputs)
    BY <1>6, <1>8, <1>10, Zenon
  <2>2. v.n = c.decision.inputs.verdict
    BY <1>6, <1>8
  <2>. QED
    BY <1>7, <1>9, <2>1, <2>2, Zenon DEF CheckRuled
<1>12. c.decision.inputs = InputsOf(c.intent, c.seen, c.decision.inputs.verdict, c.policy)
  <2>1. Inputs(i, v, PolicyFor(id, i.asof)) = InputsOf(i, Seen(i), v.n, id)
    BY InputsSeen
  <2>. QED
    BY <1>1, <1>4, <1>6, <1>8, <2>1, Zenon
<1>13. RuleDecides(c)
  <2>. SUFFICES ASSUME NEW r \in c.rules, r.type = "NO_TRADE", r.active, InWindow(r, c.intent.asof),
                       \E s \in {"MARKET", "EVENT", "VENUE"} :
                         r.scope = s /\ r.target = Places[c.intent.market][s]
                PROVE  c.decision.act = "NO_TRADE"
    BY Zenon DEF RuleDecides
  <2>1. PICK s \in {"MARKET", "EVENT", "VENUE"} : r.scope = s /\ r.target = Places[i.market][s]
    BY <1>6
  <2>2. r \in restrictions /\ InWindow(r, i.asof)
    BY <1>6
  <2>3. Gate(i, p.limits, Context(i, v))!Act = "NO_TRADE"
    BY <2>1, <2>2, RuleBlocks
  <2>. QED
    BY <1>6, <1>8, <2>3
<1>14. c.policy \in {q.id : q \in named} \cup {None}
  <2>1. id = None \/ \E q \in policies : q.id = id
    BY DEF PolicyFound
  <2>. QED
    BY <1>2, <1>6, <2>1
<1>15. CheckKept(c, named, S)
  BY <1>6, <1>11, <1>12, <1>13, <1>14, Zenon DEF CheckKept
<1>16. ASSUME ~force
       PROVE  Current(c, S)
  <2>1. PICK T : T = RowsWith(S, "verdict", i.market, i.asof)
    OBVIOUS
  <2>2. i.asof \in Nat
    BY IntentFields, TimesAssumption DEF Times
  <2>3. v \in T
    BY <1>7, <1>9, <2>1, <2>2 DEF RowsWith
  <2>4. v = Newest(T)
    <3>1. CASE v \in rows
      <4>1. S = rows
        BY <3>1
      <4>. QED
        BY <1>7, <1>16, <2>1, <3>1, <4>1
    <3>2. CASE v \notin rows
      <4>1. RowsKnown(S, Greater(stamp, v.n))
        BY <1>7, VerdictStored
      <4>2. T \in SUBSET S /\ {v} \in SUBSET T
        BY <2>1, <2>3 DEF RowsWith
      <4>3. ASSUME NEW q \in T \ {v}
            PROVE  Older(q, v)
        <5>1. q \in rows /\ q.kind = "verdict" /\ i.market \in q.markets /\ q.at <= i.asof
          BY <2>1 DEF RowsWith
        <5>2. q.at # i.asof /\ q.at \in Nat
          BY <1>7, <1>16, <3>2, <5>1, RowTypes
        <5>. QED
          BY <1>7, <2>2, <5>1, <5>2 DEF Older
      <4>4. PICK U : U = {v}
        OBVIOUS
      <4>5. v \in U /\ U \in SUBSET T /\ \A q \in U \ {v} : Older(q, v)
        BY <4>2, <4>4
      <4>6. \A q \in T \ U : Older(q, v)
        BY <4>3, <4>4
      <4>7. Newest(T) = v
        BY <4>1, <4>2, <4>5, <4>6, NewestStays
      <4>. QED
        BY <4>7
    <3>. QED
      BY <3>1, <3>2
  <2>5. v.n = c.decision.inputs.verdict /\ v.at = c.intent.asof
    BY <1>6, <1>7, <1>8
  <2>. QED
    BY <1>6, <1>7, <2>1, <2>3, <2>4, <2>5, Zenon DEF Current
<1>. QED
  BY <1>1, <1>3, <1>6, <1>15, <1>16

(* Answers are kept while rows are added, as long as no verdict is added   *)
(* for a market and time that has one.                                     *)
LEMMA CheckStays ==
  ASSUME NEW c, NEW named, NEW S, CheckKept(c, named, S),
         NEW more, \A p \in named : \E q \in more : q.id = p.id, NEW T, S \subseteq T
  PROVE  CheckKept(c, more, T)
<1>1. CheckRuled(c, T)
  <2>1. CheckRuled(c, S)
    BY DEF CheckKept
  <2>. QED
    BY <2>1, Zenon DEF CheckRuled
<1>2. c.policy \in {p.id : p \in more} \cup {None}
  <2>1. c.policy \in {p.id : p \in named} \cup {None}
    BY Zenon DEF CheckKept
  <2>. QED
    BY <2>1
<1>. QED
  BY <1>1, <1>2, Zenon DEF CheckKept

LEMMA CurrentVerdict ==
  ASSUME NEW c, NEW S, Current(c, S)
  PROVE  \E v \in S : /\ v.kind = "verdict" /\ c.intent.market \in v.markets /\ v.at = c.intent.asof
                      /\ v.n = c.decision.inputs.verdict
                      /\ v = Newest(RowsWith(S, "verdict", c.intent.market, c.intent.asof))
<1>1. PICK v \in S : /\ v.n = c.decision.inputs.verdict /\ v.at = c.intent.asof
                     /\ v \in RowsWith(S, "verdict", c.intent.market, c.intent.asof)
                     /\ v = Newest(RowsWith(S, "verdict", c.intent.market, c.intent.asof))
  BY Zenon DEF Current
<1>2. v.kind = "verdict" /\ c.intent.market \in v.markets
  BY <1>1, Zenon DEF RowsWith
<1>. QED
  BY <1>1, <1>2, Zenon

(* No verdict of T that is not in S is of a market and time that has one.  *)
NoneAgain(S, T) ==
  \A q \in T \ S : q.kind = "verdict" =>
    \A m \in q.markets : \A p \in S : p.kind = "verdict" /\ m \in p.markets => p.at # q.at

LEMMA AnswersStay ==
  ASSUME IdsDiffer, NEW S, NEW known, RowsKnown(S, known), NEW T, NEW last, RowsKnown(T, last),
         S \subseteq T, NoneAgain(S, T), NEW named, NEW more,
         \A p \in named : \E q \in more : q.id = p.id, NEW s, AnswersKept(s, named, S)
  PROVE  AnswersKept(s, more, T)
<1>1. \A j \in DOMAIN s : CheckKept(s[j], more, T)
  <2>1. \A j \in DOMAIN s : CheckKept(s[j], named, S)
    BY Zenon DEF AnswersKept
  <2>. QED
    BY <2>1, CheckStays
<1>2. ASSUME NEW j \in DOMAIN s, Unforced(s, j, Len(s))
      PROVE  Current(s[j], T)
  <2>1. PICK c : c = s[j]
    OBVIOUS
  <2>2. Current(c, S)
    BY <1>2, <2>1, Zenon DEF AnswersKept
  <2>3. PICK v \in S : v.kind = "verdict" /\ c.intent.market \in v.markets /\ v.at = c.intent.asof
    BY <2>2, CurrentVerdict
  <2>4. \A q \in T \ S : q.kind = "verdict" /\ c.intent.market \in q.markets => q.at # c.intent.asof
    BY <2>3, Zenon DEF NoneAgain
  <2>5. Current(c, T)
    BY <2>2, <2>4, CurrentStays
  <2>. QED
    BY <2>1, <2>5
<1>. QED
  BY <1>1, <1>2, Zenon DEF AnswersKept

LEMMA SameVerdictSameInputs ==
  ASSUME NEW a, NEW b, SameQuestion(a, b), NEW S, NEW named, CheckKept(a, named, S), CheckKept(b, named, S),
         Current(a, S), Current(b, S)
  PROVE  a.decision.inputs = b.decision.inputs
<1>1. PICK v \in S : /\ v.n = a.decision.inputs.verdict
                     /\ v = Newest(RowsWith(S, "verdict", a.intent.market, a.intent.asof))
  BY CurrentVerdict
<1>2. PICK w \in S : /\ w.n = b.decision.inputs.verdict
                     /\ w = Newest(RowsWith(S, "verdict", b.intent.market, b.intent.asof))
  BY CurrentVerdict
<1>3. a.intent = b.intent /\ a.policy = b.policy /\ a.seen = b.seen
  BY DEF SameQuestion
<1>4. v = w
  BY <1>1, <1>2, <1>3, Zenon
<1>5. a.decision.inputs.verdict = b.decision.inputs.verdict
  BY <1>1, <1>2, <1>4, Zenon
<1>6. /\ a.decision.inputs = InputsOf(a.intent, a.seen, a.decision.inputs.verdict, a.policy)
      /\ b.decision.inputs = InputsOf(b.intent, b.seen, b.decision.inputs.verdict, b.policy)
  BY Zenon DEF CheckKept
<1>. QED
  BY <1>3, <1>5, <1>6, Zenon

LEMMA AnswersExtended ==
  ASSUME IdsDiffer, NEW S, NEW known, RowsKnown(S, known), NEW T, NEW last, RowsKnown(T, last),
         S \subseteq T, NEW named, NEW more, \A p \in named : \E q \in more : q.id = p.id,
         NEW s, AnswersKept(s, named, S), NEW c, CheckKept(c, more, T), ~c.forced => Current(c, T),
         \A q \in T \ S : q.kind = "verdict" /\ q.markets = {c.intent.market} /\ q.at = c.intent.asof,
         ~c.forced => NoneAgain(S, T), NEW u, u = Append(s, c)
  PROVE  AnswersKept(u, more, T)
<1>1. s \in Seq(Range(s))
  BY DEF AnswersKept
<1>0. u \in Seq(Range(u))
  BY <1>1, OneMoreRow, Zenon
<1>2. /\ Len(s) \in Nat /\ Len(u) = Len(s) + 1
      /\ DOMAIN s = 1 .. Len(s) /\ DOMAIN u = 1 .. Len(u)
      /\ u[Len(u)] = c /\ \A k \in 1 .. Len(s) : u[k] = s[k]
  BY ONLY <1>1, u = Append(s, c), OneMoreRow
<1>3. PICK n \in Nat : n = Len(s)
  BY <1>2
<1>4. /\ Len(u) = n + 1 /\ DOMAIN s = 1 .. n /\ DOMAIN u = 1 .. n + 1
      /\ u[n + 1] = c /\ \A k \in 1 .. n : u[k] = s[k]
  BY <1>2, <1>3
<1>5. \A j \in DOMAIN u : j \in DOMAIN s \/ j = n + 1
  BY <1>4
<1>6. \A j \in DOMAIN u : CheckKept(u[j], more, T)
  <2>1. \A j \in DOMAIN s : CheckKept(s[j], named, S)
    BY Zenon DEF AnswersKept
  <2>2. \A j \in DOMAIN s : CheckKept(s[j], more, T)
    BY <2>1, CheckStays
  <2>3. \A j \in DOMAIN s : u[j] = s[j]
    BY <1>4
  <2>. QED
    BY <1>4, <1>5, <2>2, <2>3, Zenon
<1>7. \A i, j \in 1 .. n : Unforced(u, i, j) => Unforced(s, i, j)
  <2>. SUFFICES ASSUME NEW i \in 1 .. n, NEW j \in 1 .. n, Unforced(u, i, j), NEW k \in i .. j, s[k].forced
                PROVE  <<s[k].intent.market, s[k].intent.asof>> # <<s[i].intent.market, s[i].intent.asof>>
    BY Zenon DEF Unforced
  <2>1. k \in 1 .. n
    OBVIOUS
  <2>2. u[k] = s[k] /\ u[i] = s[i]
    BY <1>4, <2>1
  <2>. QED
    BY <2>2, Zenon DEF Unforced
<1>8. \A i \in 1 .. n : Unforced(u, i, n + 1) => Unforced(u, i, n) /\ n + 1 \in i .. n + 1
  <2>. SUFFICES ASSUME NEW i \in 1 .. n, Unforced(u, i, n + 1)
                PROVE  Unforced(u, i, n) /\ n + 1 \in i .. n + 1
    OBVIOUS
  <2>1. \A k \in i .. n : k \in i .. n + 1
    OBVIOUS
  <2>2. n + 1 \in i .. n + 1
    OBVIOUS
  <2>. QED
    BY <2>1, <2>2, Zenon DEF Unforced
<1>9. ASSUME NEW j \in 1 .. n, Unforced(u, j, n + 1)
      PROVE  Current(u[j], T)
  <2>1. PICK a : a = s[j]
    OBVIOUS
  <2>2. Unforced(s, j, n)
    <3>1. n \in 1 .. n
      BY <1>3
    <3>. QED
      BY <1>7, <1>8, <1>9, <3>1
  <2>3. Current(a, S)
    BY <1>3, <1>4, <2>1, <2>2, Zenon DEF AnswersKept
  <2>4. PICK v \in S : v.kind = "verdict" /\ a.intent.market \in v.markets /\ v.at = a.intent.asof
    BY <2>3, CurrentVerdict
  <2>5. c.forced => <<c.intent.market, c.intent.asof>> # <<a.intent.market, a.intent.asof>>
    <3>1. u[n + 1] = c /\ u[j] = a /\ n + 1 \in j .. n + 1
      BY <1>4, <1>8, <1>9, <2>1
    <3>. QED
      BY <1>9, <3>1, Zenon DEF Unforced
  <2>6. \A q \in T \ S : q.kind = "verdict" /\ a.intent.market \in q.markets => q.at # a.intent.asof
    <3>. SUFFICES ASSUME NEW q \in T \ S, a.intent.market \in q.markets, q.at = a.intent.asof
                  PROVE  FALSE
      BY Zenon
    <3>1. q.kind = "verdict" /\ q.markets = {c.intent.market} /\ q.at = c.intent.asof
      OBVIOUS
    <3>2. a.intent.market = c.intent.market /\ a.intent.asof = c.intent.asof
      BY <3>1
    <3>3. ~c.forced
      BY <2>5, <3>2
    <3>4. NoneAgain(S, T)
      BY <3>3
    <3>. QED
      BY <2>4, <3>1, <3>4, Zenon DEF NoneAgain
  <2>7. Current(a, T)
    BY <2>3, <2>6, CurrentStays
  <2>8. u[j] = a
    BY <1>4, <2>1
  <2>. QED
    BY <2>7, <2>8, Zenon
<1>10. ASSUME NEW j \in DOMAIN u, Unforced(u, j, Len(u))
       PROVE  Current(u[j], T)
  <2>1. CASE j \in 1 .. n
    BY <1>4, <1>9, <1>10, <2>1
  <2>2. CASE j = n + 1
    <3>1. n + 1 \in j .. n + 1 /\ Len(u) = n + 1 /\ u[j] = c
      BY <1>4, <2>2
    <3>2. ~c.forced
      BY <1>10, <3>1, <2>2, Zenon DEF Unforced
    <3>. QED
      BY <3>1, <3>2, Zenon
  <2>. QED
    BY <1>4, <1>5, <2>1, <2>2
<1>11. ASSUME NEW i \in DOMAIN u, NEW j \in DOMAIN u, i < j, SameQuestion(u[i], u[j]), Unforced(u, i, j)
       PROVE  u[i].decision.inputs = u[j].decision.inputs
  <2>1. i \in 1 .. n
    BY <1>4, <1>11
  <2>2. CASE j \in 1 .. n
    <3>1. u[i] = s[i] /\ u[j] = s[j] /\ i \in DOMAIN s /\ j \in DOMAIN s
      BY <1>4, <2>1, <2>2
    <3>2. Unforced(s, i, j) /\ SameQuestion(s[i], s[j])
      BY <1>7, <1>11, <2>1, <2>2, <3>1
    <3>. QED
      BY <1>11, <3>1, <3>2, Zenon DEF AnswersKept
  <2>3. CASE j = n + 1
    <3>1. u[j] = c /\ Unforced(u, i, n + 1)
      BY <1>4, <1>11, <2>3
    <3>2. Current(u[i], T)
      BY <1>9, <2>1, <3>1
    <3>3. ~c.forced
      <4>1. n + 1 \in i .. n + 1
        BY <1>8, <2>1, <3>1
      <4>2. u[i].intent = c.intent
        BY <1>11, <3>1 DEF SameQuestion
      <4>. QED
        BY <2>3, <3>1, <4>1, <4>2, Zenon DEF Unforced
    <3>4. Current(u[j], T)
      BY <3>1, <3>3
    <3>5. CheckKept(u[i], more, T) /\ CheckKept(u[j], more, T)
      BY <1>6
    <3>. QED
      BY <1>11, <3>2, <3>4, <3>5, SameVerdictSameInputs, Zenon
  <2>. QED
    BY <1>4, <1>5, <2>2, <2>3
<1>. QED
  BY <1>0, <1>6, <1>10, <1>11, Zenon DEF AnswersKept

-----------------------------------------------------------------------------
(* What is stored is kept.                                                 *)
LEMMA DecisionStays ==
  ASSUME NEW x, NEW stored, NEW more, stored \subseteq more, DecisionKept(x, stored),
         NEW S, NEW T, S \subseteq T, RuledFrom(x.d, S)
  PROVE  DecisionKept(x, more) /\ RuledFrom(x.d, T)
<1>1. RuledFrom(x.d, T)
  BY Zenon DEF RuledFrom
<1>2. x.d.inputs \in {y.hash : y \in more}
  <2>1. x.d.inputs \in {y.hash : y \in stored}
    BY Zenon DEF DecisionKept
  <2>. QED
    BY <2>1
<1>. QED
  BY <1>1, <1>2, Zenon DEF DecisionKept

LEMMA RunStays ==
  ASSUME NEW r, NEW made, NEW more, \A x \in made : \E y \in more : y.d = x.d, RunKept(r, made)
  PROVE  RunKept(r, more)
<1>1. ASSUME NEW m, \E x \in made : x.d.inputs.intent = DefaultIntent(m, r.asof)
      PROVE  \E y \in more : y.d.inputs.intent = DefaultIntent(m, r.asof)
  <2>1. PICK x \in made : x.d.inputs.intent = DefaultIntent(m, r.asof)
    BY <1>1
  <2>2. PICK y \in more : y.d = x.d
    OBVIOUS
  <2>. QED
    BY <2>1, <2>2
<1>. QED
  BY <1>1, Zenon DEF RunKept

LEMMA MergedKeeps ==
  ASSUME NEW stored, NEW new
  PROVE  /\ \A x \in stored : \E y \in Merged(stored, new) : y.d = x.d
         /\ \A x \in Merged(stored, new) : x \in stored \/ x \in new
         /\ new \subseteq Merged(stored, new)
<1>1. ASSUME NEW x \in stored
      PROVE  \E y \in Merged(stored, new) : y.d = x.d
  <2>1. CASE \E y \in new : x.d = y.d
    BY <2>1 DEF Merged
  <2>2. CASE \A y \in new : x.d # y.d
    BY <2>2 DEF Merged
  <2>. QED
    BY <2>1, <2>2
<1>. QED
  BY <1>1 DEF Merged

(* A step that answers nothing.                                            *)
LEMMA OtherStep ==
  ASSUME IdsDiffer, GateServiceInv, RowsKnown(rows', stamp'), rows \subseteq rows', NoneAgain(rows, rows'),
         OperatorRows', PoliciesKnown', active' \subseteq DOMAIN Places,
         restrictions \subseteq restrictions', exposures \subseteq exposures',
         \A p \in policies : \E q \in policies' : q.id = p.id, UNCHANGED answerVars
  PROVE  GateServiceInv'
<1>1. inputRows' = inputRows /\ decisions' = decisions /\ checks' = checks /\ gateRuns' = gateRuns
  BY DEF answerVars
<1>2. \A x \in inputRows' : SnapshotWithin(x, restrictions', exposures', policies', rows')
  <2>1. \A x \in inputRows : SnapshotWithin(x, restrictions, exposures, policies, rows)
    BY DEF GateServiceInv
  <2>. QED
    BY <1>1, <2>1, SnapshotStays
<1>3. \A x \in decisions' : DecisionKept(x, inputRows') /\ RuledFrom(x.d, rows')
  <2>1. \A x \in decisions : DecisionKept(x, inputRows) /\ RuledFrom(x.d, rows)
    BY DEF GateServiceInv
  <2>. QED
    BY <1>1, <2>1, DecisionStays
<1>4. AnswersKept(checks, policies, rows)'
  <2>1. AnswersKept(checks, policies, rows) /\ RowsKnown(rows, stamp)
    BY DEF GateServiceInv
  <2>2. AnswersKept(checks, policies', rows')
    BY <2>1, AnswersStay
  <2>. QED
    BY <1>1, <2>2
<1>5. gateRuns' \in Seq(Range(gateRuns')) /\ \A r \in Range(gateRuns') : RunKept(r, decisions')
  BY <1>1, Zenon DEF GateServiceInv
<1>. QED
  BY <1>2, <1>3, <1>4, <1>5, Zenon DEF GateServiceInv

LEMMA FactKept ==
  ASSUME IdsDiffer, GateServiceInv, NEW f \in Facts, StoreFact(f.kind, f.markets, f.at, f.content)
  PROVE  GateServiceInv'
<1>1. PICK row : row = [kind |-> f.kind, markets |-> f.markets, at |-> f.at, n |-> stamp + 1,
                        content |-> f.content]
  OBVIOUS
<1>2. /\ rows' = rows \cup {row} /\ stamp' = stamp + 1
      /\ UNCHANGED <<active, restrictions, exposures, policies, inputRows, decisions, checks, gateRuns>>
  BY <1>1 DEF StoreFact, KnowRow, gateVars
<1>3. RowsKnown(rows, stamp) /\ stamp \in Nat
  BY DEF GateServiceInv, RowsKnown
<1>4. row \in EvidenceRow
  <2>1. PICK q : q = [kind |-> f.kind, markets |-> f.markets, at |-> f.at, n |-> 0, content |-> f.content]
    OBVIOUS
  <2>2. q \in EvidenceRow
    BY <2>1, FactsAssumption
  <2>. QED
    BY <1>1, <1>3, <2>1, <2>2 DEF EvidenceRow
<1>5. row.n = stamp + 1 /\ row.kind = f.kind /\ row.content = f.content
  BY <1>1
<1>6. Scored(row)
  BY <1>5, FactsAssumption DEF Scored
<1>7. \A r \in rows : r.n \in 1 .. stamp /\ r.n # row.n
  BY <1>3, <1>5 DEF RowsKnown
<1>8. RowsKnown(rows', stamp')
  <2>1. IsFiniteSet(rows \cup {row})
    BY <1>3, FS_AddElement DEF RowsKnown
  <2>. QED
    BY <1>2, <1>3, <1>4, <1>5, <1>6, <1>7, <2>1 DEF RowsKnown
<1>9. NoneAgain(rows, rows')
  <2>1. row.kind # "verdict"
    BY <1>4 DEF EvidenceRow
  <2>. QED
    BY <1>2, <2>1 DEF NoneAgain
<1>10. OperatorRows' /\ PoliciesKnown' /\ active' \subseteq DOMAIN Places
  BY <1>2 DEF GateServiceInv, OperatorRows, PoliciesKnown, Saved
<1>. QED
  BY <1>2, <1>8, <1>9, <1>10, OtherStep DEF answerVars

LEMMA SavedCounts ==
  ASSUME OperatorRows
  PROVE  Cardinality(restrictions) \in Nat /\ Cardinality(exposures) \in Nat /\ Saved \in Nat
BY FS_CardinalityType DEF OperatorRows, Saved

LEMMA OperatorKept ==
  ASSUME IdsDiffer, GateServiceInv,
         \/ \E r \in SavedRules : SaveRestriction(r)
         \/ \E e \in SavedExposures : SaveExposure(e)
         \/ \E p \in SavedPolicies : SaveGatePolicy(p)
         \/ \E m \in DOMAIN Places : ChangeStatus(m)
  PROVE  GateServiceInv'
<1>0. OperatorRows /\ PoliciesKnown /\ active \subseteq DOMAIN Places /\ RowsKnown(rows, stamp)
  BY DEF GateServiceInv
<1>1. rows' = rows /\ stamp' = stamp /\ UNCHANGED answerVars
  BY DEF SaveRestriction, SaveExposure, SaveGatePolicy, ChangeStatus, evidenceVars
<1>2. RowsKnown(rows', stamp') /\ rows \subseteq rows' /\ NoneAgain(rows, rows')
  BY <1>0, <1>1 DEF NoneAgain
<1>3. ASSUME NEW r \in SavedRules, SaveRestriction(r)
      PROVE  GateServiceInv'
  <2>1. /\ restrictions' = restrictions \cup {r}
        /\ exposures' = exposures /\ policies' = policies /\ active' = active
    BY <1>3 DEF SaveRestriction
  <2>2. r \in MarketRestrictionRule
    BY SavedAssumption
  <2>3. IsFiniteSet(restrictions') /\ restrictions' \subseteq MarketRestrictionRule
    BY <1>0, <2>1, <2>2, FS_AddElement DEF OperatorRows
  <2>4. PICK k \in Nat : k = Cardinality(restrictions)
    BY <1>0, SavedCounts
  <2>5. PICK l \in Nat : l = Cardinality(restrictions')
    BY <2>3, FS_CardinalityType
  <2>6. k <= l
    <3>1. IsFiniteSet(restrictions)
      BY <1>0 DEF OperatorRows
    <3>2. Cardinality(restrictions \cup {r}) \in {Cardinality(restrictions), Cardinality(restrictions) + 1}
      BY ONLY <3>1, FS_AddElement
    <3>. QED
      BY ONLY <2>1, <2>4, <2>5, <3>2
  <2>7. PICK n \in Nat : n = Cardinality(exposures) /\ n = Cardinality(exposures')
    BY <1>0, <2>1, SavedCounts
  <2>8. Saved = k + n /\ Saved' = l + n
    BY <2>4, <2>5, <2>7 DEF Saved
  <2>9. \A e \in exposures' : e.gen < Saved'
    <3>1. \A e \in exposures : e.gen \in Nat /\ e.gen < Saved
      BY <1>0 DEF OperatorRows, ExposureSnapshot
    <3>. QED
      BY <2>1, <2>6, <2>8, <3>1
  <2>10. OperatorRows'
    BY <1>0, <2>1, <2>3, <2>9 DEF OperatorRows
  <2>11. PoliciesKnown' /\ active' \subseteq DOMAIN Places
    BY <1>0, <2>1 DEF PoliciesKnown
  <2>. QED
    BY <1>1, <1>2, <2>1, <2>10, <2>11, OtherStep
<1>4. ASSUME NEW e \in SavedExposures, SaveExposure(e)
      PROVE  GateServiceInv'
  <2>1. PICK held : held = [e EXCEPT !.gen = Saved]
    OBVIOUS
  <2>2. /\ exposures' = exposures \cup {held}
        /\ restrictions' = restrictions /\ policies' = policies /\ active' = active
    BY <1>4, <2>1 DEF SaveExposure
  <2>3. PICK n \in Nat : n = Saved
    BY <1>0, SavedCounts
  <2>4. e \in ExposureSnapshot
    BY SavedAssumption
  <2>5. held \in ExposureSnapshot /\ held.gen = n
    BY <2>1, <2>3, <2>4 DEF ExposureSnapshot
  <2>6. \A f \in exposures : f.gen \in Nat /\ f.gen < n
    BY <1>0, <2>3 DEF OperatorRows, ExposureSnapshot
  <2>7. held \notin exposures
    BY <2>5, <2>6
  <2>8. IsFiniteSet(exposures') /\ Cardinality(exposures') = Cardinality(exposures) + 1
    BY <1>0, <2>2, <2>7, FS_AddElement DEF OperatorRows
  <2>9. Saved' = n + 1
    BY <1>0, <2>2, <2>3, <2>8, SavedCounts DEF Saved
  <2>10. \A f \in exposures' : f.gen < Saved'
    BY <2>2, <2>5, <2>6, <2>9
  <2>11. \A f, g \in exposures' : f.gen = g.gen => f = g
    BY <1>0, <2>2, <2>5, <2>6 DEF OperatorRows
  <2>12. OperatorRows'
    BY <1>0, <2>2, <2>5, <2>8, <2>10, <2>11 DEF OperatorRows
  <2>13. PoliciesKnown' /\ active' \subseteq DOMAIN Places
    BY <1>0, <2>2 DEF PoliciesKnown
  <2>. QED
    BY <1>1, <1>2, <2>2, <2>12, <2>13, OtherStep
<1>5. ASSUME NEW p \in SavedPolicies, SaveGatePolicy(p)
      PROVE  GateServiceInv'
  <2>1. PICK others : others = {q \in policies : q.id # p.id}
    OBVIOUS
  <2>2. /\ policies' = others \cup {p}
        /\ restrictions' = restrictions /\ exposures' = exposures /\ active' = active
    BY <1>5, <2>1 DEF SaveGatePolicy
  <2>3. IsFiniteSet(others)
    BY <1>0, <2>1, FS_Subset DEF PoliciesKnown
  <2>4. PoliciesKnown'
    BY <1>0, <2>1, <2>2, <2>3, FS_AddElement DEF PoliciesKnown, KnownPolicies
  <2>5. \A q \in policies : \E r \in policies' : r.id = q.id
    BY <2>1, <2>2
  <2>6. OperatorRows' /\ active' \subseteq DOMAIN Places
    BY <1>0, <2>2 DEF OperatorRows, Saved
  <2>. QED
    BY <1>1, <1>2, <2>2, <2>4, <2>5, <2>6, OtherStep
<1>6. ASSUME NEW m \in DOMAIN Places, ChangeStatus(m)
      PROVE  GateServiceInv'
  <2>1. restrictions' = restrictions /\ exposures' = exposures /\ policies' = policies
    BY <1>6 DEF ChangeStatus
  <2>2. active' \subseteq DOMAIN Places
    BY <1>0, <1>6 DEF ChangeStatus
  <2>3. OperatorRows' /\ PoliciesKnown'
    BY <1>0, <2>1 DEF OperatorRows, PoliciesKnown, Saved
  <2>. QED
    BY <1>1, <1>2, <2>1, <2>2, <2>3, OtherStep
<1>. QED
  BY <1>3, <1>4, <1>5, <1>6

-----------------------------------------------------------------------------
(* A decision enters the store with the rows it rests on.                  *)
LEMMA DecisionStored ==
  ASSUME IdsDiffer, RowsKnown(rows, stamp), OperatorRows, checks \in Seq(Range(checks)),
         NEW i \in TradeIntent, NEW v \in VerdictRow, NEW p \in KnownPolicies,
         NEW d, d = Decision(i, v, p), NEW named, p \in named, NEW S, rows \subseteq S, v \in S,
         NEW stored, InputSnapshot(d) \in stored
  PROVE  /\ SnapshotWithin(InputSnapshot(d), restrictions, exposures, named, S)
         /\ DecisionKept(Generated(d), stored) /\ RuledFrom(Generated(d).d, S)
         /\ Generated(d).d.inputs.intent = i /\ d.inputs.intent = i
         /\ i.size \in Nat => AnswerOK(d)
<1>1. PICK x : x = Generated(d)
  OBVIOUS
<1>2. x = [d |-> d, gen |-> Len(checks) + 1] /\ Len(checks) \in Nat
  BY <1>1, LenProperties DEF Generated
<1>3. x.d = d /\ x.gen \in Nat
  BY <1>2
<1>4. /\ d.inputs.intent = i /\ d.inputs.verdict = v.n /\ d.inputs.policy = p.id
      /\ DecisionShape(d) /\ ValidDecision(d)
      /\ d = Ruling(i, p.limits, ContextOf(d.inputs, v.content), d.inputs)
  BY DecisionMade
<1>5. InputSnapshot(d).hash = d.inputs /\ SnapshotWithin(InputSnapshot(d), restrictions, exposures, named, S)
  BY SnapshotMade
<1>6. d.inputs \in {y.hash : y \in stored}
  <2>1. PICK y \in stored : y = InputSnapshot(d)
    OBVIOUS
  <2>2. y.hash = d.inputs
    BY <1>5, <2>1
  <2>. QED
    BY <2>2
<1>7. DecisionKept(x, stored)
  BY <1>3, <1>4, <1>6, Zenon DEF DecisionKept
<1>8. RuledFrom(x.d, S)
  <2>1. v.kind = "verdict"
    BY DEF VerdictRow
  <2>. QED
    BY <1>3, <1>4, <2>1, Zenon DEF RuledFrom
<1>9. i.size \in Nat => AnswerOK(d)
  <2>1. d.act \in Range(Actions) /\ d.final \in Nat /\ d.risk \in 0 .. 100
    BY <1>4 DEF DecisionShape
  <2>2. d.final <= d.inputs.intent.size
    BY <1>4 DEF ValidDecision
  <2>. QED
    BY <1>4, <2>1, <2>2 DEF AnswerOK
<1>. QED
  BY <1>1, <1>3, <1>4, <1>5, <1>7, <1>8, <1>9, Zenon

LEMMA CheckAnswered ==
  ASSUME IdsDiffer, GateServiceInv, NEW q \in Requests, CheckIntent(q.intent, q.policy, q.force)
  PROVE  GateServiceInv'
<1>1. PICK i \in TradeIntent : i = q.intent
  BY RequestsAssumption
<1>2. PICK force \in BOOLEAN : force = q.force
  BY RequestsAssumption
<1>3. PICK id : id = q.policy
  OBVIOUS
<1>4. PICK v : v = Verdict(i, force)
  OBVIOUS
<1>5. PICK c : c = Reply(i, id, force, v)
  OBVIOUS
<1>6. PICK named : named = PoliciesAfter(id, i.asof)
  OBVIOUS
<1>7. PICK p : p = PolicyFor(id, i.asof)
  OBVIOUS
<1>8. PICK d : d = Decision(i, v, p)
  OBVIOUS
<1>9. /\ PolicyFound(id) /\ policies' = named
      /\ UNCHANGED <<active, restrictions, exposures, gateRuns>>
      /\ StoreAnswer(c, v)
  BY <1>1, <1>2, <1>3, <1>4, <1>5, <1>6, Zenon DEF CheckIntent, AnswerWith
<1>10. /\ RowsKnown(rows, stamp) /\ OperatorRows /\ PoliciesKnown /\ active \subseteq DOMAIN Places
       /\ AnswersKept(checks, policies, rows) /\ checks \in Seq(Range(checks))
  BY Zenon DEF GateServiceInv, AnswersKept
<1>11. /\ v \in VerdictRow /\ v.markets = {i.market} /\ v.at = i.asof
       /\ v \notin rows => v.n = stamp + 1
       /\ ~force /\ v \notin rows =>
            \A r \in rows : r.kind = "verdict" /\ i.market \in r.markets => r.at # i.asof
  BY <1>4, <1>10, VerdictUsed
<1>12. /\ p \in named /\ p \in KnownPolicies /\ IsFiniteSet(named) /\ named \subseteq KnownPolicies
       /\ \A r \in policies : \E s \in named : s.id = r.id
  BY <1>6, <1>7, <1>9, <1>10, PolicyUsed
<1>13. PICK S : S = rows \cup {v}
  OBVIOUS
<1>14. /\ c.intent = i /\ c.forced = force /\ c.decision = d
       /\ CheckKept(c, named, S) /\ (~force => Current(c, S))
  <2>1. PolicyFound(id) /\ RowsKnown(rows, stamp) /\ OperatorRows /\ PoliciesKnown
    BY <1>9, <1>10
  <2>2. /\ c.intent = i /\ c.forced = force /\ c.decision = Decision(i, v, PolicyFor(id, i.asof))
        /\ CheckKept(c, named, S) /\ (~force => Current(c, S))
    <3>1. c.intent = i /\ c.forced = force /\ c.decision = Decision(i, v, PolicyFor(id, i.asof))
      BY ONLY IdsDiffer, i \in TradeIntent, force \in BOOLEAN, <1>4, <1>5, <1>6, <1>13, <2>1, AnswerGiven
    <3>2. CheckKept(c, named, S)
      BY ONLY IdsDiffer, i \in TradeIntent, force \in BOOLEAN, <1>4, <1>5, <1>6, <1>13, <2>1, AnswerGiven
    <3>3. ~force => Current(c, S)
      BY ONLY IdsDiffer, i \in TradeIntent, force \in BOOLEAN, <1>4, <1>5, <1>6, <1>13, <2>1, AnswerGiven
    <3>. QED
      BY <3>1, <3>2, <3>3
  <2>. QED
    BY <1>7, <1>8, <2>2, Zenon
<1>15. PICK stored : stored = inputRows \cup {InputSnapshot(d)}
  OBVIOUS
<1>16. PICK made : made = Merged(decisions, {Generated(d)})
  OBVIOUS
<1>17. /\ rows' = S /\ stamp' = Greater(stamp, v.n) /\ inputRows' = stored /\ decisions' = made
       /\ checks' = Append(checks, c)
  BY <1>9, <1>13, <1>14, <1>15, <1>16, Zenon DEF StoreAnswer
<1>18. RowsKnown(rows', stamp')
  BY <1>10, <1>11, <1>13, <1>17, VerdictStored
<1>19. OperatorRows' /\ PoliciesKnown' /\ active' \subseteq DOMAIN Places
  BY <1>9, <1>10, <1>12 DEF OperatorRows, PoliciesKnown, Saved
<1>20. rows \subseteq S /\ v \in S /\ inputRows \subseteq stored /\ InputSnapshot(d) \in stored
  BY <1>13, <1>15
<1>21. /\ SnapshotWithin(InputSnapshot(d), restrictions, exposures, named, S)
       /\ DecisionKept(Generated(d), stored) /\ RuledFrom(Generated(d).d, S)
  BY <1>8, <1>10, <1>11, <1>12, <1>20, DecisionStored
<1>22. \A x \in inputRows' : SnapshotWithin(x, restrictions', exposures', policies', rows')
  <2>1. \A x \in inputRows : SnapshotWithin(x, restrictions, exposures, policies, rows)
    BY DEF GateServiceInv
  <2>2. \A x \in inputRows : SnapshotWithin(x, restrictions, exposures, named, S)
    BY <1>12, <1>20, <2>1, SnapshotStays
  <2>. QED
    BY <1>9, <1>15, <1>17, <1>21, <2>2
<1>23. \A x \in decisions' : DecisionKept(x, inputRows') /\ RuledFrom(x.d, rows')
  <2>1. \A x \in decisions : DecisionKept(x, inputRows) /\ RuledFrom(x.d, rows)
    BY DEF GateServiceInv
  <2>2. \A x \in decisions : DecisionKept(x, stored) /\ RuledFrom(x.d, S)
    BY <1>20, <2>1, DecisionStays
  <2>3. \A x \in made : x \in decisions \/ x = Generated(d)
    BY <1>16, MergedKeeps
  <2>. QED
    BY <1>17, <1>21, <2>2, <2>3, Zenon
<1>24. AnswersKept(checks, policies, rows)'
  <2>1. \A r \in S \ rows : r.kind = "verdict" /\ r.markets = {c.intent.market} /\ r.at = c.intent.asof
    BY <1>11, <1>13, <1>14 DEF VerdictRow
  <2>2. ~c.forced => NoneAgain(rows, S)
    BY <1>11, <1>13, <1>14 DEF NoneAgain
  <2>3. PICK u : u = Append(checks, c)
    OBVIOUS
  <2>4. RowsKnown(S, stamp')
    BY <1>17, <1>18
  <2>5. ~c.forced => Current(c, S)
    BY <1>14
  <2>6. CheckKept(c, named, S) /\ rows \subseteq S /\ \A r \in policies : \E s \in named : s.id = r.id
    BY <1>12, <1>14, <1>20
  <2>7. AnswersKept(u, named, S)
    BY <1>10, <2>1, <2>2, <2>3, <2>4, <2>5, <2>6, AnswersExtended
  <2>. QED
    BY <1>9, <1>17, <2>3, <2>7
<1>25. gateRuns' \in Seq(Range(gateRuns')) /\ \A r \in Range(gateRuns') : RunKept(r, decisions')
  <2>1. gateRuns \in Seq(Range(gateRuns)) /\ \A r \in Range(gateRuns) : RunKept(r, decisions)
    BY Zenon DEF GateServiceInv
  <2>2. \A x \in decisions : \E y \in made : y.d = x.d
    BY <1>16, MergedKeeps
  <2>3. \A r \in Range(gateRuns) : RunKept(r, made)
    BY <2>1, <2>2, RunStays
  <2>4. gateRuns' = gateRuns
    BY <1>9
  <2>. QED
    BY <1>17, <2>1, <2>3, <2>4, Zenon
<1>. QED
  BY <1>18, <1>19, <1>22, <1>23, <1>24, <1>25, Zenon DEF GateServiceInv

LEMMA RunAnswered ==
  ASSUME IdsDiffer, GateServiceInv, NEW q \in RunRequests, RunChecks(q.markets, q.asof, q.policy, q.most)
  PROVE  GateServiceInv'
<1>1. PICK ms : ms = q.markets
  OBVIOUS
<1>2. PICK t \in Times : t = q.asof
  BY RequestsAssumption
<1>3. PICK id : id = q.policy
  OBVIOUS
<1>4. PICK most \in Nat : most = q.most
  BY RequestsAssumption
<1>5. PICK D : D = IF PolicyFound(id) THEN Checked(ms) ELSE {}
  OBVIOUS
<1>6. PICK w : w = RunVerdicts(D, t)
  OBVIOUS
<1>7. PICK a : a = Answers(w, t, id)
  OBVIOUS
<1>8. PICK named : named = IF D # {} THEN PoliciesAfter(id, t) ELSE policies
  OBVIOUS
<1>9. /\ Cardinality(Checked(ms)) <= most /\ StoreRun(a, w, ms, t, most) /\ policies' = named
      /\ UNCHANGED <<active, restrictions, exposures, checks>>
  BY <1>1, <1>2, <1>3, <1>4, <1>5, <1>6, <1>7, <1>8, Zenon DEF RunChecks, RunOver, RunVerdicts
<1>10. /\ RowsKnown(rows, stamp) /\ OperatorRows /\ PoliciesKnown /\ active \subseteq DOMAIN Places
       /\ AnswersKept(checks, policies, rows) /\ checks \in Seq(Range(checks))
  BY Zenon DEF GateServiceInv, AnswersKept
<1>11. D \in SUBSET DOMAIN Places /\ D \in SUBSET Checked(ms) /\ (D # {} => PolicyFound(id))
  BY <1>5 DEF Checked
<1>12. PICK S : S = rows \cup Range(w)
  OBVIOUS
<1>13. /\ DOMAIN w = D
       /\ \A m \in D : VerdictOfTime(w[m], rows, m, t)
       /\ RowsKnown(S, stamp + Cardinality(D))
  <2>1. RowsKnown(rows, stamp) /\ D \in SUBSET DOMAIN Places
    BY <1>10, <1>11
  <2>2. DOMAIN w = D /\ RowsKnown(rows \cup Range(w), stamp + Cardinality(D))
    BY ONLY IdsDiffer, t \in Times, <1>6, <2>1, NumberedRows
  <2>3. \A m \in D : VerdictOfTime(w[m], rows, m, t)
    BY ONLY IdsDiffer, t \in Times, <1>6, <2>1, NumberedRows
  <2>. QED
    BY <1>12, <2>2, <2>3, Zenon
<1>14. \A m \in D : w[m] \in S
  BY <1>12, <1>13 DEF Range
<1>15. \A r \in S \ rows : \E m \in D : r = w[m]
  BY <1>12, <1>13 DEF Range
<1>16. PICK p : p = PolicyFor(id, t)
  OBVIOUS
<1>17. D # {} => p \in named /\ p \in KnownPolicies
  BY <1>8, <1>10, <1>11, <1>16, PolicyUsed
<1>18. /\ IsFiniteSet(named) /\ named \subseteq KnownPolicies
       /\ \A r \in policies : \E s \in named : s.id = r.id
  <2>1. CASE D = {}
    BY <1>8, <1>10, <2>1 DEF PoliciesKnown
  <2>2. CASE D # {}
    BY <1>8, <1>10, <1>11, <2>2, PolicyUsed
  <2>. QED
    BY <2>1, <2>2
<1>19. a = [m \in D |-> Decision(DefaultIntent(m, t), w[m], p)]
  BY <1>7, <1>13, <1>16, Zenon DEF Answers
<1>20. DOMAIN a = D /\ \A m \in D : a[m] = Decision(DefaultIntent(m, t), w[m], p)
  BY <1>19
<1>21. PICK stored : stored = inputRows \cup {InputSnapshot(a[m]) : m \in D}
  OBVIOUS
<1>22. PICK new : new = {Generated(a[m]) : m \in D}
  OBVIOUS
<1>23. PICK made : made = Merged(decisions, new)
  OBVIOUS
<1>24. PICK r : r = RunRow(ms, t, most, a)
  OBVIOUS
<1>25. /\ rows' = S /\ stamp' = stamp + Cardinality(D) /\ inputRows' = stored /\ decisions' = made
       /\ gateRuns' = Append(gateRuns, r)
  BY <1>9, <1>12, <1>13, <1>20, <1>21, <1>22, <1>23, <1>24, Zenon DEF StoreRun, StoreAnswers
<1>26. RowsKnown(rows', stamp') /\ rows \subseteq S
  BY <1>12, <1>13, <1>25
<1>27. OperatorRows' /\ PoliciesKnown' /\ active' \subseteq DOMAIN Places
  BY <1>9, <1>10, <1>18 DEF OperatorRows, PoliciesKnown, Saved
<1>28. inputRows \subseteq stored /\ \A m \in D : InputSnapshot(a[m]) \in stored
  BY <1>21
<1>29. ASSUME NEW m \in D
       PROVE  /\ SnapshotWithin(InputSnapshot(a[m]), restrictions, exposures, named, S)
              /\ DecisionKept(Generated(a[m]), stored) /\ RuledFrom(Generated(a[m]).d, S)
              /\ Generated(a[m]).d.inputs.intent = DefaultIntent(m, t) /\ AnswerOK(a[m])
  <2>1. PICK i : i = DefaultIntent(m, t)
    OBVIOUS
  <2>2. i \in TradeIntent /\ i.size \in Nat
    BY <1>11, <2>1, DefaultIsIntent
  <2>3. PICK d : d = a[m]
    OBVIOUS
  <2>4. d = Decision(i, w[m], p)
    BY <1>20, <2>1, <2>3
  <2>5. p \in named /\ p \in KnownPolicies /\ w[m] \in VerdictRow /\ w[m] \in S /\ InputSnapshot(d) \in stored
    BY <1>13, <1>14, <1>17, <1>28, <2>3 DEF VerdictOfTime
  <2>6. /\ SnapshotWithin(InputSnapshot(d), restrictions, exposures, named, S)
        /\ DecisionKept(Generated(d), stored) /\ RuledFrom(Generated(d).d, S)
        /\ Generated(d).d.inputs.intent = i /\ AnswerOK(d)
    BY <1>10, <1>26, <2>2, <2>4, <2>5, DecisionStored
  <2>. QED
    BY <2>1, <2>3, <2>6, Zenon
<1>30. \A x \in inputRows' : SnapshotWithin(x, restrictions', exposures', policies', rows')
  <2>1. \A x \in inputRows : SnapshotWithin(x, restrictions, exposures, policies, rows)
    BY DEF GateServiceInv
  <2>2. \A x \in inputRows : SnapshotWithin(x, restrictions, exposures, named, S)
    BY <1>18, <1>26, <2>1, SnapshotStays
  <2>3. \A x \in stored : SnapshotWithin(x, restrictions, exposures, named, S)
    BY <1>21, <1>29, <2>2
  <2>. QED
    BY <1>9, <1>25, <2>3
<1>31. \A x \in decisions' : DecisionKept(x, inputRows') /\ RuledFrom(x.d, rows')
  <2>1. \A x \in decisions : DecisionKept(x, inputRows) /\ RuledFrom(x.d, rows)
    BY DEF GateServiceInv
  <2>2. \A x \in decisions : DecisionKept(x, stored) /\ RuledFrom(x.d, S)
    BY <1>26, <1>28, <2>1, DecisionStays
  <2>3. \A x \in made : x \in decisions \/ x \in new
    BY <1>23, MergedKeeps
  <2>4. \A x \in new : DecisionKept(x, stored) /\ RuledFrom(x.d, S)
    BY <1>22, <1>29
  <2>. QED
    BY <1>25, <2>2, <2>3, <2>4, Zenon
<1>32. AnswersKept(checks, policies, rows)'
  <2>1. NoneAgain(rows, S)
    <3>. SUFFICES ASSUME NEW x \in S \ rows, NEW m \in x.markets, NEW y \in rows,
                         y.kind = "verdict", m \in y.markets
                  PROVE  y.at # x.at
      BY Zenon DEF NoneAgain
    <3>1. PICK k \in D : x = w[k]
      BY <1>15
    <3>2. x.markets = {k} /\ x.at = t
      BY <1>13, <3>1 DEF VerdictOfTime
    <3>3. m = k
      BY <3>2
    <3>. QED
      BY <1>13, <3>1, <3>2, <3>3 DEF VerdictOfTime
  <2>2. RowsKnown(S, stamp + Cardinality(D))
    BY <1>13
  <2>3. AnswersKept(checks, named, S)
    BY <1>10, <1>18, <1>26, <2>1, <2>2, AnswersStay
  <2>. QED
    BY <1>9, <1>25, <2>3
<1>33. RunKept(r, made)
  <2>1. /\ PreTradeRunOK(r) /\ ValidRun(r) /\ ValidSummary(r)
        /\ r.markets = Checked(ms) /\ r.asof = t /\ r.created = Cardinality(D)
        /\ r.status = "COMPLETED" => D = Checked(ms)
    BY <1>9, <1>11, <1>20, <1>24, <1>29, RunMade
  <2>2. ASSUME NEW m \in D
        PROVE  \E x \in made : x.d.inputs.intent = DefaultIntent(m, t)
    <3>1. Generated(a[m]) \in made
      BY <1>22, <1>23, MergedKeeps
    <3>. QED
      BY <1>29, <3>1
  <2>3. r.status = "COMPLETED" =>
          /\ r.created = Cardinality(r.markets)
          /\ \A m \in r.markets : \E x \in made : x.d.inputs.intent = DefaultIntent(m, r.asof)
    BY <2>1, <2>2
  <2>. QED
    BY <2>1, <2>3, Zenon DEF RunKept
<1>34. gateRuns' \in Seq(Range(gateRuns')) /\ \A x \in Range(gateRuns') : RunKept(x, decisions')
  <2>1. gateRuns \in Seq(Range(gateRuns)) /\ \A x \in Range(gateRuns) : RunKept(x, decisions)
    BY Zenon DEF GateServiceInv
  <2>2. \A x \in decisions : \E y \in made : y.d = x.d
    BY <1>23, MergedKeeps
  <2>3. \A x \in Range(gateRuns) : RunKept(x, made)
    BY <2>1, <2>2, RunStays
  <2>4. PICK u : u = Append(gateRuns, r)
    OBVIOUS
  <2>5. u \in Seq(Range(u))
    BY <2>1, <2>4, OneMoreRow, Zenon
  <2>6. Range(u) = Range(gateRuns) \cup {r}
    BY <2>1, <2>4, OneMoreRow
  <2>7. \A x \in Range(u) : RunKept(x, made)
    BY <1>33, <2>3, <2>6
  <2>. QED
    BY <1>25, <2>4, <2>5, <2>7, Zenon
<1>. QED
  BY <1>26, <1>27, <1>30, <1>31, <1>32, <1>34, Zenon DEF GateServiceInv

-----------------------------------------------------------------------------
LEMMA GateServiceStarts ==
  ASSUME GateServiceInit
  PROVE  GateServiceInv
<1>1. /\ rows = FirstRows /\ stamp = Cardinality(FirstRows) /\ active = DOMAIN Places
      /\ restrictions = {} /\ exposures = {} /\ policies = {} /\ inputRows = {} /\ decisions = {}
      /\ checks = <<>> /\ gateRuns = <<>>
  BY DEF GateServiceInit
<1>2. RowsKnown(rows, stamp)
  BY <1>1, FactsAssumption, FS_CardinalityType DEF RowsKnown
<1>3. OperatorRows /\ PoliciesKnown
  BY <1>1, FS_EmptySet DEF OperatorRows, PoliciesKnown
<1>4. Range(<<>>) = {} /\ <<>> \in Seq(Range(<<>>)) /\ Len(<<>>) = 0 /\ DOMAIN <<>> = {}
  <2>1. Range(<<>>) = {} /\ Len(<<>>) = 0 /\ DOMAIN <<>> = {}
    BY DEF Range
  <2>2. \A S : <<>> \in Seq(S)
    BY EmptySeq
  <2>. QED
    BY <2>1, <2>2, Zenon
<1>5. AnswersKept(checks, policies, rows)
  BY <1>1, <1>4, Zenon DEF AnswersKept
<1>6. gateRuns \in Seq(Range(gateRuns)) /\ \A r \in Range(gateRuns) : RunKept(r, decisions)
  BY <1>1, <1>4, Zenon
<1>. QED
  BY <1>1, <1>2, <1>3, <1>5, <1>6 DEF GateServiceInv

LEMMA GateServiceStays ==
  ASSUME IdsDiffer, GateServiceInv, [GateServiceNext]_<<evidenceVars, gateVars>>
  PROVE  GateServiceInv'
<1>1. CASE UNCHANGED <<evidenceVars, gateVars>>
  <2>1. /\ rows' = rows /\ stamp' = stamp /\ active' = active /\ restrictions' = restrictions
        /\ exposures' = exposures /\ policies' = policies /\ UNCHANGED answerVars
    BY <1>1 DEF evidenceVars, gateVars, answerVars
  <2>2. /\ RowsKnown(rows, stamp) /\ OperatorRows /\ PoliciesKnown /\ active \subseteq DOMAIN Places
    BY DEF GateServiceInv
  <2>3. OperatorRows' /\ PoliciesKnown' /\ NoneAgain(rows, rows')
    BY <2>1, <2>2 DEF OperatorRows, PoliciesKnown, Saved, NoneAgain
  <2>. QED
    BY <2>1, <2>2, <2>3, OtherStep
<1>2. ASSUME NEW f \in Facts, StoreFact(f.kind, f.markets, f.at, f.content)
      PROVE  GateServiceInv'
  BY <1>2, FactKept
<1>3. ASSUME NEW q \in Requests, CheckIntent(q.intent, q.policy, q.force)
      PROVE  GateServiceInv'
  BY <1>3, CheckAnswered
<1>4. ASSUME NEW q \in RunRequests, RunChecks(q.markets, q.asof, q.policy, q.most)
      PROVE  GateServiceInv'
  BY <1>4, RunAnswered
<1>. QED
  BY <1>1, <1>2, <1>3, <1>4, OperatorKept, Zenon DEF GateServiceNext

LEMMA DecisionsSound ==
  ASSUME GateServiceInv
  PROVE  GateServiceTypeOK
<1>1. ASSUME NEW x \in decisions
      PROVE  /\ x.d \in PreTradeDecision /\ x.gen \in Nat
             /\ x.d.inputs.intent \in TradeIntent /\ ValidDecision(x.d)
  <2>1. DecisionKept(x, inputRows)
    BY DEF GateServiceInv
  <2>2. /\ x.gen \in Nat /\ x.d.inputs \in {y.hash : y \in inputRows} /\ x.d.inputs.intent \in TradeIntent
        /\ DecisionShape(x.d) /\ ValidDecision(x.d)
    BY <2>1, Zenon DEF DecisionKept
  <2>3. x.d \in PreTradeDecision
    BY <2>2 DEF DecisionShape, PreTradeDecision
  <2>. QED
    BY <2>2, <2>3
<1>2. \A x \in inputRows : ValidSnapshot(x)
  BY Zenon DEF GateServiceInv, SnapshotWithin, ValidSnapshot
<1>3. \A c \in Range(checks) : ValidRequest(c)
  <2>1. \A j \in DOMAIN checks : CheckKept(checks[j], policies, rows)
    BY Zenon DEF GateServiceInv, AnswersKept
  <2>2. \A c \in Range(checks) : CheckKept(c, policies, rows)
    BY <2>1 DEF Range
  <2>. QED
    BY <2>2, Zenon DEF CheckKept, ValidRequest
<1>4. restrictions \subseteq MarketRestrictionRule /\ exposures \subseteq ExposureSnapshot
  BY DEF GateServiceInv, OperatorRows
<1>5. \A p \in policies : PreTradePolicyOK(p) /\ ValidPolicy(p)
  BY KnownPolicyFields DEF GateServiceInv, PoliciesKnown
<1>6. \A r \in Range(gateRuns) : PreTradeRunOK(r) /\ ValidRun(r) /\ ValidSummary(r)
  BY Zenon DEF GateServiceInv, RunKept
<1>7. active \subseteq DOMAIN Places
  BY DEF GateServiceInv
<1>. QED
  BY <1>1, <1>2, <1>3, <1>4, <1>5, <1>6, <1>7, Zenon DEF GateServiceTypeOK

LEMMA ChecksSound ==
  ASSUME GateServiceInv
  PROVE  RestrictedMeansBlocked /\ UnchangedChecksRepeat
<1>1. \A j \in DOMAIN checks : CheckKept(checks[j], policies, rows)
  BY Zenon DEF GateServiceInv, AnswersKept
<1>2. RestrictedMeansBlocked
  BY <1>1, Zenon DEF CheckKept, RuleDecides, RestrictedMeansBlocked
<1>3. \A v, w \in rows : v.n = w.n => v = w
  BY DEF GateServiceInv, RowsKnown
<1>4. ASSUME NEW i \in DOMAIN checks, NEW j \in DOMAIN checks, i < j,
             SameQuestion(checks[i], checks[j]), Unforced(checks, i, j)
      PROVE  checks[i].decision = checks[j].decision
  <2>1. PICK a : a = checks[i]
    OBVIOUS
  <2>2. PICK b : b = checks[j]
    OBVIOUS
  <2>3. a.decision.inputs = b.decision.inputs
    BY <1>4, <2>1, <2>2, Zenon DEF GateServiceInv, AnswersKept
  <2>4. a.intent = b.intent /\ a.policy = b.policy /\ a.seen = b.seen
    BY <1>4, <2>1, <2>2, Zenon DEF SameQuestion
  <2>5. CheckRuled(a, rows) /\ CheckRuled(b, rows)
    BY <1>1, <2>1, <2>2, Zenon DEF CheckKept
  <2>6. PICK v \in rows :
          /\ v.n = a.decision.inputs.verdict
          /\ a.decision = Ruling(a.intent, PolicyIn(a.seen.policies, a.policy, a.intent.asof).limits,
                                 ContextOf(a.decision.inputs, v.content), a.decision.inputs)
    BY <2>5, Zenon DEF CheckRuled
  <2>7. PICK w \in rows :
          /\ w.n = b.decision.inputs.verdict
          /\ b.decision = Ruling(b.intent, PolicyIn(b.seen.policies, b.policy, b.intent.asof).limits,
                                 ContextOf(b.decision.inputs, w.content), b.decision.inputs)
    BY <2>5, Zenon DEF CheckRuled
  <2>8. v = w
    BY <1>3, <2>3, <2>6, <2>7, Zenon
  <2>. QED
    BY <2>1, <2>2, <2>3, <2>4, <2>6, <2>7, <2>8, Zenon
<1>5. UnchangedChecksRepeat
  BY <1>4, Zenon DEF UnchangedChecksRepeat, SameQuestion, Unforced
<1>. QED
  BY <1>2, <1>5

LEMMA RunsSound ==
  ASSUME GateServiceInv
  PROVE  CompletedRunsDecided
<1>1. \A i \in DOMAIN gateRuns : RunKept(gateRuns[i], decisions)
  <2>1. \A r \in Range(gateRuns) : RunKept(r, decisions)
    BY Zenon DEF GateServiceInv
  <2>2. \A i \in DOMAIN gateRuns : gateRuns[i] \in Range(gateRuns)
    BY DEF Range
  <2>. QED
    BY <2>1, <2>2
<1>. QED
  BY <1>1, Zenon DEF RunKept, CompletedRunsDecided

(* The input hash names a policy by its id alone.                          *)
PoliciesKeepLimits == \A p, q \in KnownPolicies : p.id = q.id => p.limits = q.limits

LEMMA InputsDecide ==
  ASSUME GateServiceInv, PoliciesKeepLimits
  PROVE  OneDecisionPerInputs
<1>. SUFFICES ASSUME NEW x \in decisions, NEW y \in decisions, x.d.inputs = y.d.inputs
              PROVE  x.d = y.d
  BY Zenon DEF OneDecisionPerInputs
<1>1. RuledFrom(x.d, rows) /\ RuledFrom(y.d, rows)
  BY Zenon DEF GateServiceInv
<1>2. PICK v \in rows, p \in KnownPolicies :
        /\ v.n = x.d.inputs.verdict /\ p.id = x.d.inputs.policy
        /\ x.d = Ruling(x.d.inputs.intent, p.limits, ContextOf(x.d.inputs, v.content), x.d.inputs)
  BY <1>1, Zenon DEF RuledFrom
<1>3. PICK w \in rows, q \in KnownPolicies :
        /\ w.n = y.d.inputs.verdict /\ q.id = y.d.inputs.policy
        /\ y.d = Ruling(y.d.inputs.intent, q.limits, ContextOf(y.d.inputs, w.content), y.d.inputs)
  BY <1>1, Zenon DEF RuledFrom
<1>4. \A a, b \in rows : a.n = b.n => a = b
  BY DEF GateServiceInv, RowsKnown
<1>5. v = w
  BY <1>2, <1>3, <1>4, Zenon
<1>6. p.limits = q.limits
  BY <1>2, <1>3, Zenon DEF PoliciesKeepLimits
<1>. QED
  BY <1>2, <1>3, <1>5, <1>6, Zenon

(* However its inputs arrive, a check is decided by the rules in force, an *)
(* unforced check of the same evidence repeats its answer, and a completed *)
(* run has a decision for every market, whatever operators save between.   *)
THEOREM GateChecksRepeat ==
  ASSUME IdsDiffer
  PROVE  GateServiceSpec =>
           [](GateServiceTypeOK /\ RestrictedMeansBlocked /\ UnchangedChecksRepeat /\ CompletedRunsDecided)
<1>1. GateServiceInit => GateServiceInv
  BY GateServiceStarts
<1>2. GateServiceInv /\ [GateServiceNext]_<<evidenceVars, gateVars>> => GateServiceInv'
  BY GateServiceStays
<1>3. GateServiceInv =>
        GateServiceTypeOK /\ RestrictedMeansBlocked /\ UnchangedChecksRepeat /\ CompletedRunsDecided
  BY DecisionsSound, ChecksSound, RunsSound
<1>. QED
  BY <1>1, <1>2, <1>3, PTL DEF GateServiceSpec

(* Where a policy that is saved anew under its id keeps its limits, equal  *)
(* input hashes have one decision as well.                                 *)
THEOREM GateServiceIsSound ==
  ASSUME IdsDiffer, PoliciesKeepLimits
  PROVE  GateServiceSpec => []GateServiceSound
<1>1. GateServiceInit => GateServiceInv
  BY GateServiceStarts
<1>2. GateServiceInv /\ [GateServiceNext]_<<evidenceVars, gateVars>> => GateServiceInv'
  BY GateServiceStays
<1>3. GateServiceInv => GateServiceSound
  BY DecisionsSound, ChecksSound, RunsSound, InputsDecide DEF GateServiceSound
<1>. QED
  BY <1>1, <1>2, <1>3, PTL DEF GateServiceSpec
=============================================================================
