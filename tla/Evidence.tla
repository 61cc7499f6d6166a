------------------------------ MODULE Evidence ------------------------------
(***************************************************************************)
(* What the desk knows of its markets: rows of every kind, read as of a    *)
(* time, and the trust verdict that is built from them.                    *)
(***************************************************************************)
EXTENDS DeskBase, FiniteSets, Sequences, SequencesExt

CONSTANTS
  IdOrder,      \* [number of a row -> place of its id among the hashes], any order
  LastTime, MaxRows     \* bounds

Times == 1 .. LastTime
Actions == <<"ALLOW", "ALLOW_SMALLER_SIZE", "PASSIVE_ONLY", "MANUAL_REVIEW", "NO_TRADE">>
Strictness(action) == CHOOSE i \in DOMAIN Actions : Actions[i] = action
Strictest(a, b) == IF Strictness(a) < Strictness(b) THEN b ELSE a

VARIABLES
  rows,         \* what the desk knows: kind, markets, at, n, content
  stamp         \* rows numbered so far
evidenceVars == <<rows, stamp>>

-----------------------------------------------------------------------------
\* as-of reads: the newest row at or before t, the largest id of its time
AsOf(kind, m, t) == {r \in rows : r.kind = kind /\ m \in r.markets /\ r.at <= t}
Newest(S) ==
  IF S = {} THEN None
  ELSE CHOOSE r \in S : \A q \in S \ {r} :
         q.at < r.at \/ (q.at = r.at /\ IdOrder[q.n] < IdOrder[r.n])
Latest(kind, m, t) == Newest(AsOf(kind, m, t))

\* a component of the desk stores a row, late for its time or not
KnowRow(kind, ms, t, content) ==
  /\ Cardinality(rows) < MaxRows
  /\ rows' = rows \cup {[kind |-> kind, markets |-> ms, at |-> t, n |-> stamp + 1, content |-> content]}
  /\ stamp' = stamp + 1

-----------------------------------------------------------------------------
\* the trust verdict of a time: what the stored one was built from, and its action
VerdictInputs(m, t) ==
  {r.n : r \in ({Latest(kind, m, t) : kind \in {"rule", "book", "integrity"}} \ {None})
                 \cup AsOf("equivalence", m, t) \cup AsOf("divergence", m, t)}
VerdictRisk(m, t) == IF Latest("rule", m, t) = None THEN 100 ELSE Latest("rule", m, t).content.risk
HintAction(hint) == IF hint \in Range(Actions) THEN hint ELSE "ALLOW"
VerdictAction(m, t) ==
  LET book == Latest("book", m, t)
      integrity == Latest("integrity", m, t)
      base == IF VerdictRisk(m, t) >= 80 THEN "NO_TRADE"
              ELSE IF VerdictRisk(m, t) >= 50 \/ book = None THEN "MANUAL_REVIEW"
              ELSE IF book.content.thin THEN "PASSIVE_ONLY" ELSE "ALLOW"
  IN  IF integrity = None THEN base ELSE Strictest(base, HintAction(integrity.content.hint))
NewVerdict(m, t) ==
  [kind |-> "verdict", markets |-> {m}, at |-> t, n |-> stamp + 1,
   content |-> [action |-> VerdictAction(m, t), risk |-> VerdictRisk(m, t), inputs |-> VerdictInputs(m, t)]]

\* a verdict's id hashes its market, its time and the ids it was built from: as long as every
\* rule is analysed once, a verdict of the same id is the same verdict
BuiltVerdict(m, t) ==
  LET same == {r \in rows : r.kind = "verdict" /\ r.markets = {m} /\ r.at = t
                              /\ r.content.inputs = VerdictInputs(m, t)}
  IN  IF same = {} THEN NewVerdict(m, t) ELSE CHOOSE r \in same : TRUE
=============================================================================
