----------------------------- MODULE PointInTime -----------------------------
(***************************************************************************)
(* The point-in-time tables of one market and the three producers of trust *)
(* verdicts that share one table.                                          *)
(*                                                                         *)
(* Ingestion captures payloads and stores them, derives the analysis of    *)
(* the newest rule and a verdict; integrity and cross-venue assessments    *)
(* are written as of a timestamp; replay, the pre-trade gate and the       *)
(* recompute endpoint ask for the verdict of a timestamp.  The gate reuses *)
(* any stored verdict of its timestamp, replay only one that was built     *)
(* from the rows it has just read.                                         *)
(*                                                                         *)
(* Rows have content hashes for ids: at[x] is the timestamp the row of     *)
(* content x carries, so storing the same content again moves the row.     *)
(* A verdict's id hashes its timestamp and the ids of its inputs, so a     *)
(* verdict is the record of those.                                         *)
(***************************************************************************)
EXTENDS Integers, FiniteSets

CONSTANTS
  None,
  MaxTime,         \* the last timestamp
  Rules, Books,    \* contents of rule texts and order books
  Assessments,     \* integrity assessments
  Pairings,        \* cross-venue assessments, of equivalence and divergence
  IdOrder,         \* ranks of row ids, the largest id first
  OneAtATime,      \* a payload is ingested before the next is captured
  Recurs,          \* a market may return to an earlier rule text or book
  MaxFetches,      \* payloads captured
  MaxCalls         \* assessments, replays, evaluations and recomputations

Times == 1 .. MaxTime
Rows == Rules \cup Books \cup Assessments \cup Pairings

ASSUME BoundsAssumption ==
  MaxTime \in Nat \ {0} /\ MaxFetches \in Nat /\ MaxCalls \in Nat
ASSUME ModesAssumption == OneAtATime \in BOOLEAN /\ Recurs \in BOOLEAN
ASSUME RowsAssumption ==
  /\ None \notin Rows
  /\ Rules \cap Books = {} /\ Assessments \cap Pairings = {}
  /\ (Rules \cup Books) \cap (Assessments \cup Pairings) = {}
ASSUME IdAssumption ==
  /\ IdOrder \in [Rows -> Nat]
  /\ \A x, y \in Rows : IdOrder[x] = IdOrder[y] => x = y

VARIABLES
  now,             \* the clock captures are stamped with
  at,              \* the timestamp of each row, 0 when it is not stored
  analysed,        \* rules whose predicate and ambiguity are stored
  verdicts,        \* trust verdicts
  inflight,        \* payloads captured and not yet ingested
  replays, gates,  \* the last answer given for each timestamp
  fetches, calls

vars == <<now, at, analysed, verdicts, inflight, replays, gates, fetches, calls>>
tables == <<at, analysed, verdicts>>

Maybe(S) == S \cup {None}
Payloads == [at : Times, rule : Maybe(Rules), book : Maybe(Books)]
Verdicts == [asof : Times, rule : Maybe(Rules), ambiguity : Maybe(Rules),
             book : Maybe(Books), integrity : Maybe(Assessments),
             pairings : SUBSET Pairings]
Answers == [when : Times, forced : BOOLEAN, reads : Verdicts, verdict : Verdicts]
-----------------------------------------------------------------------------
(* As-of reads: the newest row at or before t, the largest id among equal  *)
(* timestamps.                                                             *)
KnownAt(f, x, t) == f[x] \in 1 .. t

Precedes(f, x, y) == f[y] < f[x] \/ (f[y] = f[x] /\ IdOrder[x] <= IdOrder[y])

IsNewest(S, f, t, x) ==
  KnownAt(f, x, t) /\ \A y \in S : KnownAt(f, y, t) => Precedes(f, x, y)

Pick(S) == IF S = {} THEN None ELSE CHOOSE x \in S : TRUE

FaultyNewestAsof(S, f, t) == Pick({x \in S : IsNewest(S, f, MaxTime, x)})

NewestAsof(S, f, t) == Pick({x \in S : IsNewest(S, f, t, x)})

Latest(S, f) == NewestAsof(S, f, MaxTime)

PairingsAsof(f, t) == {x \in Pairings : KnownAt(f, x, t)}

(* What replay and the gate build a verdict of t from.  They have the rule *)
(* analysed when it is not, so its ambiguity is always known to them.      *)
Reads(t) ==
  LET rule == NewestAsof(Rules, at, t)
  IN  [asof |-> t, rule |-> rule, ambiguity |-> rule, book |-> NewestAsof(Books, at, t),
       integrity |-> NewestAsof(Assessments, at, t), pairings |-> PairingsAsof(at, t)]

FaultyAnalyse(rule) == analysed' = analysed \cup {rule}

Analyse(rule) == analysed' = analysed \cup ({rule} \ {None})

(* The stored verdicts newest as of t.  There may be several of one        *)
(* timestamp; the query takes the largest hash among them, which can be    *)
(* any.                                                                    *)
StoredVerdicts(t) ==
  {v \in verdicts : /\ v.asof <= t
                    /\ \A w \in verdicts : w.asof <= t => w.asof <= v.asof}

(* The verdicts a caller may be handed: a stored one that it accepts, or   *)
(* one built from its reads.                                               *)
Handed(t, forced, accepted) ==
  LET stored == StoredVerdicts(t)
  IN  IF forced \/ stored = {} THEN {Reads(t)}
      ELSE (stored \cap accepted) \cup IF stored \subseteq accepted THEN {} ELSE {Reads(t)}

(* The caller has the rule analysed and the verdict it got is stored.      *)
Answer(forced, verdict, t) ==
  [when |-> now, forced |-> forced, reads |-> Reads(t), verdict |-> verdict]

Ask(t, verdict) ==
  /\ Analyse(Reads(t).rule)
  /\ verdicts' = verdicts \cup {verdict}
-----------------------------------------------------------------------------
(* The market is captured. Unless it recurs, a new capture brings new      *)
(* contents, or the rule text the market already has.                      *)
BringsNews(p) ==
  \A x \in {p.rule, p.book} \ {None, Latest(Rules, at)} :
    at[x] = 0 /\ \A q \in inflight : x \notin {q.rule, q.book}

Fetch(p) ==
  /\ fetches < MaxFetches
  /\ p.at = now
  /\ OneAtATime => inflight = {}
  /\ Recurs \/ BringsNews(p)
  /\ inflight' = inflight \cup {p}
  /\ fetches' = fetches + 1
  /\ UNCHANGED <<now, tables, replays, gates, calls>>

(* Storing a payload: the rule unless the newest one has the same text,    *)
(* the book always.                                                        *)
FaultyChanged(p) == p.rule # None

Changed(p) == p.rule # None /\ p.rule # Latest(Rules, at)

AtAfter(p) ==
  [x \in Rows |-> IF (x = p.rule /\ Changed(p)) \/ x = p.book THEN p.at ELSE at[x]]

VerdictTime(p) == IF Changed(p) \/ p.book # None THEN p.at ELSE now

IngestedVerdict(p) ==
  LET rule == Latest(Rules, at')
  IN  [asof |-> VerdictTime(p), rule |-> rule,
       ambiguity |-> IF rule \in analysed' THEN rule ELSE None,
       book |-> Latest(Books, at'),
       integrity |-> NewestAsof(Assessments, at', VerdictTime(p)), pairings |-> {}]

Ingest(p, analyse, recompute) ==
  /\ p \in inflight
  /\ inflight' = inflight \ {p}
  /\ at' = AtAfter(p)
  /\ IF analyse THEN Analyse(Latest(Rules, at')) ELSE UNCHANGED analysed
  /\ verdicts' = verdicts \cup IF recompute THEN {IngestedVerdict(p)} ELSE {}
  /\ UNCHANGED <<now, replays, gates, fetches, calls>>

(* An assessment as of t becomes available at t, whenever it is computed.  *)
Assess(x, t) ==
  /\ calls < MaxCalls
  /\ at[x] = 0
  /\ at' = [at EXCEPT ![x] = t]
  /\ calls' = calls + 1
  /\ UNCHANGED <<now, analysed, verdicts, inflight, replays, gates, fetches>>

RecomputedVerdict ==
  LET rule == Latest(Rules, at)
  IN  [asof |-> now, rule |-> rule, ambiguity |-> rule, book |-> Latest(Books, at),
       integrity |-> NewestAsof(Assessments, at, now), pairings |-> PairingsAsof(at, now)]

RecomputeTrustVerdict ==
  /\ calls < MaxCalls
  /\ Analyse(Latest(Rules, at))
  /\ verdicts' = verdicts \cup {RecomputedVerdict}
  /\ calls' = calls + 1
  /\ UNCHANGED <<now, at, inflight, replays, gates, fetches>>

FaultyVerdictMatchesInputs(v, reads) ==
  /\ v.asof = reads.asof
  /\ v.rule = reads.rule
  /\ v.book = reads.book
  /\ v.integrity = reads.integrity
  /\ v.pairings = reads.pairings

VerdictMatchesInputs(v, reads) ==
  /\ v.asof = reads.asof
  /\ v.rule = reads.rule
  /\ v.book = reads.book
  /\ v.ambiguity = reads.ambiguity
  /\ v.integrity = reads.integrity
  /\ v.pairings = reads.pairings

MatchingVerdicts(t) == {v \in verdicts : VerdictMatchesInputs(v, Reads(t))}

ReplayStep(t, forced) ==
  /\ calls < MaxCalls
  /\ \E verdict \in Handed(t, forced, MatchingVerdicts(t)) :
       /\ Ask(t, verdict)
       /\ replays' = [replays EXCEPT ![t] = Answer(forced, verdict, t)]
  /\ calls' = calls + 1
  /\ UNCHANGED <<now, at, inflight, gates, fetches>>

VerdictsOfTime(t) == {v \in verdicts : v.asof = t}

EvaluateGate(t, forced) ==
  /\ calls < MaxCalls
  /\ \E verdict \in Handed(t, forced, VerdictsOfTime(t)) :
       /\ Ask(t, verdict)
       /\ gates' = [gates EXCEPT ![t] = Answer(forced, verdict, t)]
  /\ calls' = calls + 1
  /\ UNCHANGED <<now, at, inflight, replays, fetches>>

Tick ==
  /\ now < MaxTime
  /\ OneAtATime => inflight = {}
  /\ now' = now + 1
  /\ UNCHANGED <<tables, inflight, replays, gates, fetches, calls>>

Init ==
  /\ now = 1
  /\ at = [x \in Rows |-> 0]
  /\ analysed = {}
  /\ verdicts = {}
  /\ inflight = {}
  /\ replays = [t \in Times |-> None]
  /\ gates = [t \in Times |-> None]
  /\ fetches = 0
  /\ calls = 0

Next ==
  \/ Tick
  \/ RecomputeTrustVerdict
  \/ \E p \in Payloads : Fetch(p)
  \/ \E p \in inflight, analyse \in BOOLEAN, recompute \in BOOLEAN :
       Ingest(p, analyse, recompute)
  \/ \E x \in Assessments \cup Pairings, t \in 1 .. now : Assess(x, t)
  \/ \E t \in Times, forced \in BOOLEAN : ReplayStep(t, forced) \/ EvaluateGate(t, forced)

Spec == Init /\ [][Next]_vars
-----------------------------------------------------------------------------
(* Rows, verdicts and answers are of the right shape, and an answer for t  *)
(* was read as of t.                                                       *)
TypeOK ==
  /\ now \in Times
  /\ at \in [Rows -> 0 .. MaxTime]
  /\ analysed \in SUBSET Rules
  /\ verdicts \in SUBSET Verdicts
  /\ inflight \in SUBSET Payloads
  /\ replays \in [Times -> Maybe(Answers)]
  /\ gates \in [Times -> Maybe(Answers)]
  /\ \A t \in Times : \A a \in {replays[t], gates[t]} : a # None => a.reads.asof = t
  /\ fetches \in 0 .. MaxFetches
  /\ calls \in 0 .. MaxCalls

(* A replay step, and a gate evaluation that is forced to recompute, use a *)
(* verdict built from exactly the rows they read, whatever verdicts of     *)
(* that timestamp ingestion, the gate and earlier replays have left in the *)
(* table they share (replay/runner.py, _verdict_matches_inputs).           *)
FreshVerdicts ==
  \A t \in Times :
    /\ replays[t] # None => replays[t].verdict = replays[t].reads
    /\ gates[t] # None /\ gates[t].forced => gates[t].verdict = gates[t].reads

(* No verdict of a timestamp names a row of a later one: whoever stored it *)
(* and with whatever queries, reusing it leaks nothing from the future     *)
(* (ingestion builds verdicts with queries that have no timestamp).        *)
NamedRows(v) ==
  ({v.rule, v.ambiguity, v.book, v.integrity} \ {None}) \cup v.pairings

VerdictsSeeNoFuture == \A v \in verdicts : \A x \in NamedRows(v) : KnownAt(at, x, v.asof)

(* Once t has passed, the rule and the book read as of t stay the ones     *)
(* known at t (the as-of queries of the repository).                       *)
PastIsFixed ==
  [][\A t \in 1 .. now - 1 :
       /\ NewestAsof(Rules, at', t) = NewestAsof(Rules, at, t)
       /\ NewestAsof(Books, at', t) = NewestAsof(Books, at, t)]_vars

(* A gate evaluation of t uses only data available at or before t          *)
(* (docs/pretrade_gate.md:11): the rows its verdict names were.            *)
GateSeesNoFuture ==
  \A t \in Times :
    gates[t] # None => \A x \in NamedRows(gates[t].verdict) : KnownAt(at, x, t)

(* Replaying a past timestamp again gives the same verdict, unless an      *)
(* assessment as of that timestamp has been added in between               *)
(* (replay/runner.py, _run_step).                                          *)
ReplayRepeats ==
  [][\A t \in Times :
       /\ replays[t] # None /\ replays[t].when > t
       /\ replays'[t].reads.integrity = replays[t].reads.integrity
       /\ replays'[t].reads.pairings = replays[t].reads.pairings
       => replays'[t].verdict = replays[t].verdict]_vars
=============================================================================
