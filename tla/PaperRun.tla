------------------------------- MODULE PaperRun -------------------------------
(***************************************************************************)
(* Paper simulation runs (paper/runner.py): the intents of a trade plan or *)
(* of a grid of times and markets, simulated one after another under the   *)
(* run's id in one database session, and the summary of what came of them. *)
(* A run that raises rolls the session back and leaves nothing, not even   *)
(* the FAILED status it wrote.                                             *)
(***************************************************************************)
EXTENDS PaperExecution, Sequences

CONSTANTS
  RunIds,        \* simulation_run_id, in the order runs are created
  MarketOrder,   \* the markets of the table, in the order of their ids
  Alive,         \* [market in the table -> [from, to]]
  Plans,         \* the intents of the trade plans and grids a run is started with
  runner,        \* the session runs are simulated in
  MaxOrders      \* max_orders of every run

ASSUME RunnerAssumption == runner \in Sessions /\ None \notin RunIds

(* An intent that is planned names no run yet.                             *)
Planned == UNION {{plan[n] : n \in DOMAIN plan} : plan \in Plans}
PlannedIntents ==
  [mkt : {i.mkt : i \in Planned}, out : {i.out : i \in Planned}, ven : {i.ven : i \in Planned},
   run : {None}, side : Sides, type : Types, limit : Int \cup {None}, size : Nat \ {0}, asof : Nat]

ASSUME PlansAssumption == \A plan \in Plans : plan \in Seq(PlannedIntents)

RunsUnderWay == [id : RunIds, plan : Plans, next : Nat]
ASSUME NoPaperRunAssumption == None \notin RunsUnderWay

VARIABLES
  paperRun,      \* the run under way and the item of its plan it is at
  tally,         \* what it has counted: orders, fills_count, errors, final_portfolio
  before,        \* the rows as it found them
  paperRuns      \* paper_simulation_runs with their summaries
runVars == <<paperRun, tally, before, paperRuns>>

Rows == [orders |-> orders, fills |-> fills, ledger |-> ledger, positions |-> positions,
         portfolios |-> portfolios]
NoRows == [orders |-> {}, fills |-> {}, ledger |-> {}, positions |-> {}, portfolios |-> {}]
NoRun == paperRun = None /\ pc[runner] = "idle"

(* summarize_paper_run: without a portfolio every balance is zero.         *)
NothingCounted ==
  [orders |-> <<>>, fills |-> 0, errors |-> 0, portfolio |-> [cash |-> 0, equity |-> 0]]
-----------------------------------------------------------------------------
(* The grid takes, at every step of the window, every market that lives at *)
(* some time of it: also one that is created later or closed by then.      *)
LivesIn(m, start, end) == Alive[m].from <= end /\ start <= Alive[m].to

GridPlan(item, start, end, interval) ==
  LET ms    == SelectSeq(MarketOrder, LAMBDA m : LivesIn(m, start, end))
      steps == (end - start) \div interval + 1
  IN  [n \in 1 .. steps * Len(ms) |->
         [item EXCEPT !.mkt = ms[((n - 1) % Len(ms)) + 1],
                      !.asof = start + interval * ((n - 1) \div Len(ms))]]

Item(n) == [paperRun.plan[n] EXCEPT !.run = paperRun.id]
NextItem == Item(paperRun.next)
Known(i) == i.mkt \in DOMAIN Alive

EndRun == paperRun' = None /\ tally' = NothingCounted /\ before' = NoRows

BeginRun(id, plan) ==
  /\ NoRun
  /\ \A r \in paperRuns : r.id # id
  /\ Len(plan) <= MaxOrders
  /\ paperRun' = [id |-> id, plan |-> plan, next |-> 1]
  /\ tally' = NothingCounted
  /\ before' = Rows
  /\ UNCHANGED <<vars, paperRuns>>

More == paperRun # None /\ pc[runner] = "idle" /\ paperRun.next <= Len(paperRun.plan)

(* market_not_found is the error a plan may raise; the run goes on.        *)
RunError ==
  /\ More /\ ~Known(NextItem)
  /\ paperRun' = [paperRun EXCEPT !.next = @ + 1]
  /\ tally' = [tally EXCEPT !.errors = @ + 1]
  /\ UNCHANGED <<vars, before, paperRuns>>

RunSubmit ==
  /\ More /\ Known(NextItem)
  /\ \E d \in DecisionSpace :
       \/ RejectIntent(runner, NextItem, d)
       \/ RestOrder(runner, NextItem, d)
       \/ StartWalk(runner, NextItem, d)
  /\ UNCHANGED runVars

RunProceed ==
  /\ paperRun # None
  /\ FillLevel(runner) \/ FinishWalk(runner) \/ SavePortfolio(runner)
  /\ UNCHANGED runVars

(* Faulty: the portfolio of the first item is kept.                        *)
FaultyAnswered(c, t) ==
  [c EXCEPT !.orders = Append(@, t.order), !.fills = @ + Cardinality(t.fills),
            !.portfolio = IF c.orders = <<>> THEN t.portfolio ELSE @]
Answered(c, t) ==
  [c EXCEPT !.orders = Append(@, t.order), !.fills = @ + Cardinality(t.fills),
            !.portfolio = t.portfolio]

(* The rows of one intent are flushed, for the next to see.                *)
RunFlush ==
  /\ paperRun # None
  /\ Commit(runner)
  /\ paperRun' = [paperRun EXCEPT !.next = @ + 1]
  /\ tally' = Answered(tally, tx[runner])
  /\ UNCHANGED <<before, paperRuns>>

RunStatus(c) == IF c.errors = 0 THEN "COMPLETED" ELSE "PARTIAL"

Counted(c, status) == Cardinality({n \in DOMAIN c.orders : c.orders[n].status = status})

Summary(c) ==
  [total |-> Len(c.orders), filled |-> Counted(c, "FILLED"),
   partial |-> Counted(c, "PARTIALLY_FILLED"), rejected |-> Counted(c, "REJECTED"),
   fills |-> c.fills, cash |-> c.portfolio.cash, equity |-> c.portfolio.equity]

FinishRun ==
  /\ paperRun # None /\ pc[runner] = "idle"
  /\ paperRun.next > Len(paperRun.plan)
  /\ paperRuns' = paperRuns \cup
       {[id |-> paperRun.id, plan |-> paperRun.plan, status |-> RunStatus(tally),
         errors |-> tally.errors, summary |-> Summary(tally)]}
  /\ EndRun
  /\ UNCHANGED vars

(* Faulty: what the run wrote before it raised is committed.               *)
FaultyFailRun ==
  /\ paperRun # None
  /\ Leave(runner)
  /\ EndRun
  /\ UNCHANGED <<market, policy, tables, digest, caller, paperRuns>>

(* Any other exception, at any point.                                      *)
FailRun ==
  /\ paperRun # None
  /\ Leave(runner)
  /\ orders' = before.orders /\ fills' = before.fills
  /\ ledger' = before.ledger /\ positions' = before.positions
  /\ portfolios' = before.portfolios
  /\ EndRun
  /\ UNCHANGED <<market, policy, digest, caller, paperRuns>>

RunInit ==
  /\ Init
  /\ paperRun = None /\ tally = NothingCounted /\ before = NoRows /\ paperRuns = {}

RunNext ==
  \/ \E b \in Books : CaptureBook(b) /\ UNCHANGED runVars
  \/ \E id \in RunIds, plan \in Plans : BeginRun(id, plan)
  \/ RunError \/ RunSubmit \/ RunProceed \/ RunFlush \/ FinishRun \/ FailRun

RunSpec == RunInit /\ [][RunNext]_<<vars, runVars>>
-----------------------------------------------------------------------------
OrdersOf(id) == {o \in orders : o.id.intent.run = id}
FillsOf(id) == {f \in fills : f.order.intent.run = id}
EntriesOf(id) == {e \in ledger : EntryIntent(e).run = id}
Distinct(plan) == \A i, j \in DOMAIN plan : plan[i] = plan[j] => i = j
InTime(plan) == \A i, j \in DOMAIN plan : i < j => plan[i].asof < plan[j].asof

(* What a run counts is what it stored: its orders, by their final status, *)
(* and its fills are rows under its id.  A plan that repeats an item is    *)
(* left out: its second order replaces the first and is counted again.     *)
RunCountsMatchRows ==
  \A r \in paperRuns : Distinct(r.plan) =>
    /\ r.summary.total = Cardinality(OrdersOf(r.id))
    /\ r.summary.fills = Cardinality(FillsOf(r.id))
    /\ r.summary.filled = Cardinality({o \in OrdersOf(r.id) : o.status = "FILLED"})
    /\ r.summary.rejected = Cardinality({o \in OrdersOf(r.id) : o.status = "REJECTED"})

(* The balances a run ends on are those of its whole ledger, and of no     *)
(* other run's, when its plan is in the order of its timestamps and some   *)
(* of it could be simulated.                                               *)
SortedPlansEndOnTheirLedger ==
  \A r \in paperRuns : InTime(r.plan) /\ r.summary.total > 0 =>
    LET total(type) == AmountSum({e \in EntriesOf(r.id) : e.type = type})
    IN  r.summary.cash =
          InitialCash + total("CASH_CREDIT") - total("CASH_DEBIT") - total("FEE_DEBIT")

(* A row of a run is of one that is finished or under way: a run that      *)
(* raised leaves no order, fill, position or portfolio.                    *)
NoHalfRuns ==
  LET runs == {r.id : r \in paperRuns} \cup IF paperRun = None THEN {} ELSE {paperRun.id}
  IN  /\ \A o \in orders : o.id.intent.run \in runs
      /\ \A f \in fills : f.order.intent.run \in runs
      /\ \A p \in positions \cup portfolios : p.run \in runs

(* A completed run has an order for every item of its plan.                *)
CompletedRunsCoverThePlan ==
  \A r \in paperRuns : r.status = "COMPLETED" =>
    \A n \in DOMAIN r.plan :
      \E o \in orders : o.id.intent = [r.plan[n] EXCEPT !.run = r.id]

(* What a run reports is what is stored: its counters are those of the     *)
(* orders and fills, and its balances those of its ledger.                 *)
PaperRunsSound == RunCountsMatchRows /\ SortedPlansEndOnTheirLedger

(* A run is all or nothing: a run that raised leaves no row, and one that  *)
(* completed has an order for every item of its plan.                      *)
PaperRunsAtomic == NoHalfRuns /\ CompletedRunsCoverThePlan
=============================================================================
