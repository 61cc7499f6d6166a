------------------------------- MODULE MCPaper -------------------------------
EXTENDS PaperExecution

CONSTANTS m1, yes, v1, r1

Level(p, q) == [price |-> p, qty |-> q]
Intent(side, size, limit, asof) ==
  [mkt |-> m1, out |-> yes, ven |-> v1, run |-> r1, side |-> side,
   type |-> "AGGRESSIVE_LIMIT", limit |-> limit, size |-> size, asof |-> asof]
DefaultPolicy ==
  [id |-> "default", model |-> "IMMEDIATE_TOP_OF_BOOK", shorts |-> FALSE, partial |-> TRUE,
   smaller |-> TRUE, passive |-> TRUE, rejectMR |-> TRUE, rejectNT |-> TRUE,
   requireAllow |-> TRUE, feeBps |-> 0]
WalkPolicy == [DefaultPolicy EXCEPT !.model = "IMMEDIATE_WALK_BOOK", !.feeBps = 5000]

SeqIntents == {Intent("BUY", 3, None, 1), Intent("SELL", 1, None, 2),
               Intent("BUY", 2, 3, 3), Intent("SELL", 3, 1, 4)}
SeqDecisions == {[act |-> "ALLOW", final |-> 3], [act |-> "ALLOW", final |-> 2],
                 [act |-> "ALLOW", final |-> 1],
                 [act |-> "ALLOW_SMALLER_SIZE", final |-> 2], [act |-> "NO_TRADE", final |-> 0]}
SeqPolicies == {WalkPolicy}
SeqBooks == {[mkt |-> m1, captured |-> 1, asks |-> {Level(3, 1), Level(4, 2)},
              bids |-> {Level(1, 5), Level(2, 1)}],
             [mkt |-> m1, captured |-> 3, asks |-> {Level(3, 1), Level(5, 1)},
              bids |-> {Level(2, 2)}]}
SeqQuotes == {[mkt |-> m1, available |-> 2, price |-> None, mid |-> 3, last |-> None,
               bid |-> 2, ask |-> 4]}

(* Two callers, retries, equal timestamps, a late book with no bids left.  *)
RaceIntents == {Intent("BUY", 2, None, 2), Intent("SELL", 2, None, 2)}
RaceDecisions == {[act |-> "ALLOW", final |-> 2]}
RacePolicies == {DefaultPolicy}
RaceBooks == {[mkt |-> m1, captured |-> 1, asks |-> {Level(3, 1)}, bids |-> {Level(2, 2)}],
              [mkt |-> m1, captured |-> 2, asks |-> {Level(3, 2)}, bids |-> {Level(2, 0)}]}

(* One caller that never retries, but submits three intents for one timestamp. *)
TiedIntents == RaceIntents \cup {Intent("SELL", 2, 1, 2)}

(* Every branch of the gate hand-over and of the early returns, and a book *)
(* with an empty level to pass over.                                       *)
BranchIntents ==
  LET buy == Intent("BUY", 2, 4, 1)
  IN  {buy, [buy EXCEPT !.type = "PASSIVE_LIMIT"], [buy EXCEPT !.type = "UNKNOWN", !.asof = 2],
       [buy EXCEPT !.side = "SELL", !.limit = 2, !.asof = 2],
       [buy EXCEPT !.side = "UNKNOWN", !.limit = None]}
BranchDecisions ==
  {[act |-> "ALLOW", final |-> 2], [act |-> "ALLOW_SMALLER_SIZE", final |-> 1],
   [act |-> "PASSIVE_ONLY", final |-> 2], [act |-> "MANUAL_REVIEW", final |-> 0],
   [act |-> "NO_TRADE", final |-> 0]}
BranchPolicies ==
  {DefaultPolicy, [WalkPolicy EXCEPT !.partial = FALSE, !.smaller = FALSE],
   [DefaultPolicy EXCEPT !.id = "lenient", !.shorts = TRUE, !.requireAllow = FALSE,
                         !.rejectMR = FALSE, !.rejectNT = FALSE, !.passive = FALSE],
   [DefaultPolicy EXCEPT !.id = "research", !.model = "RESEARCH_NO_FILL"]}
BranchBooks == {[mkt |-> m1, captured |-> 1, asks |-> {Level(3, 1), Level(4, 0), Level(5, 1)},
                 bids |-> {Level(1, 1), Level(2, 3)}]}
=============================================================================
