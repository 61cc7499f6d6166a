-------------------------- MODULE PointInTimeProofs --------------------------
(***************************************************************************)
(* Theorems about the point-in-time tables, for every set of rules, books  *)
(* and assessments, every order of ids and every bound.                    *)
(***************************************************************************)
EXTENDS PointInTime, TLAPS

LEMMA PickType ==
  ASSUME NEW S
  PROVE  Pick(S) = None \/ Pick(S) \in S
BY DEF Pick

(* An as-of read returns nothing, or a row that was known at t.            *)
LEMMA NewestIsKnown ==
  ASSUME NEW S, NEW f, NEW t
  PROVE  LET x == NewestAsof(S, f, t)
         IN  x = None \/ (x \in S /\ KnownAt(f, x, t))
<1>1. PICK N : N = {x \in S : IsNewest(S, f, t, x)}
  OBVIOUS
<1>2. NewestAsof(S, f, t) = Pick(N)
  BY <1>1 DEF NewestAsof
<1>. QED
  BY <1>1, <1>2, PickType DEF IsNewest

(* An as-of read depends on nothing but the rows known at t.               *)
LEMMA NewestDependsOnKnown ==
  ASSUME NEW S, NEW f, NEW g, NEW t,
         \A x \in S : f[x] = g[x] \/ (~KnownAt(f, x, t) /\ ~KnownAt(g, x, t))
  PROVE  NewestAsof(S, f, t) = NewestAsof(S, g, t)
<1>1. \A x \in S : KnownAt(f, x, t) <=> KnownAt(g, x, t)
  BY DEF KnownAt
<1>2. \A x, y \in S : KnownAt(f, x, t) /\ KnownAt(f, y, t) =>
                        (Precedes(f, x, y) <=> Precedes(g, x, y))
  BY DEF Precedes
<1>3. {x \in S : IsNewest(S, f, t, x)} = {x \in S : IsNewest(S, g, t, x)}
  BY <1>1, <1>2 DEF IsNewest
<1>. QED
  BY <1>3 DEF NewestAsof

LEMMA RowTypes ==
  /\ None \notin Rules /\ None \notin Books /\ None \notin Assessments /\ None \notin Pairings
  /\ Rules \subseteq Rows /\ Books \subseteq Rows
  /\ Assessments \subseteq Rows /\ Pairings \subseteq Rows
BY RowsAssumption DEF Rows

LEMMA LatestIsStored ==
  ASSUME NEW S, NEW f
  PROVE  Latest(S, f) = None \/ (Latest(S, f) \in S /\ KnownAt(f, Latest(S, f), MaxTime))
BY NewestIsKnown DEF Latest

LEMMA ReadsType ==
  ASSUME NEW t \in Times
  PROVE  Reads(t) \in Verdicts /\ Reads(t).asof = t
<1>1. /\ NewestAsof(Rules, at, t) \in Maybe(Rules)
      /\ NewestAsof(Books, at, t) \in Maybe(Books)
      /\ NewestAsof(Assessments, at, t) \in Maybe(Assessments)
  BY NewestIsKnown DEF Maybe
<1>2. PairingsAsof(at, t) \in SUBSET Pairings
  BY DEF PairingsAsof
<1>. QED
  BY <1>1, <1>2 DEF Reads, Verdicts

(* Whatever a caller is handed is a stored verdict it accepts or what it   *)
(* builds from its reads; a forced caller gets the latter.                 *)
LEMMA HandedVerdict ==
  ASSUME NEW t \in Times, NEW forced \in BOOLEAN, NEW accepted,
         NEW v \in Handed(t, forced, accepted)
  PROVE  v = Reads(t) \/ (~forced /\ v \in accepted /\ v \in verdicts)
BY DEF Handed, StoredVerdicts

LEMMA AtAfterType ==
  ASSUME at \in [Rows -> 0 .. MaxTime], NEW p \in Payloads
  PROVE  AtAfter(p) \in [Rows -> 0 .. MaxTime]
<1>1. p.at \in 0 .. MaxTime
  BY BoundsAssumption DEF Payloads, Times
<1>. QED
  BY <1>1 DEF AtAfter

LEMMA IngestedVerdictType ==
  ASSUME TypeOK, NEW p \in inflight
  PROVE  IngestedVerdict(p) \in Verdicts
<1>1. VerdictTime(p) \in Times
  BY DEF TypeOK, VerdictTime, Payloads
<1>2. /\ Latest(Rules, at') \in Maybe(Rules)
      /\ Latest(Books, at') \in Maybe(Books)
      /\ NewestAsof(Assessments, at', VerdictTime(p)) \in Maybe(Assessments)
  BY LatestIsStored, NewestIsKnown DEF Maybe
<1>3. (IF Latest(Rules, at') \in analysed' THEN Latest(Rules, at') ELSE None) \in Maybe(Rules)
  BY <1>2 DEF Maybe
<1>. QED
  BY <1>1, <1>2, <1>3 DEF IngestedVerdict, Verdicts

LEMMA RecomputedVerdictType ==
  ASSUME TypeOK
  PROVE  RecomputedVerdict \in Verdicts
<1>1. /\ Latest(Rules, at) \in Maybe(Rules)
      /\ Latest(Books, at) \in Maybe(Books)
      /\ NewestAsof(Assessments, at, now) \in Maybe(Assessments)
  BY LatestIsStored, NewestIsKnown DEF Maybe
<1>2. PairingsAsof(at, now) \in SUBSET Pairings
  BY DEF PairingsAsof
<1>. QED
  BY <1>1, <1>2 DEF RecomputedVerdict, Verdicts, TypeOK
-----------------------------------------------------------------------------
(* Rows, verdicts and answers are of the right shape (every action that    *)
(* writes one of the shared tables).                                       *)
LEMMA TypeInit ==
  Init => TypeOK
<1>1. 1 \in Times /\ 0 \in 0 .. MaxTime /\ 0 \in 0 .. MaxFetches /\ 0 \in 0 .. MaxCalls
  BY BoundsAssumption DEF Times
<1>. QED
  BY <1>1 DEF Init, TypeOK, Maybe

LEMMA TypeStep ==
  TypeOK /\ [Next]_vars => TypeOK'
<1> SUFFICES ASSUME TypeOK, [Next]_vars
             PROVE  TypeOK'
  OBVIOUS
<1> USE DEF TypeOK
<1>0. /\ fetches < MaxFetches => fetches + 1 \in 0 .. MaxFetches
      /\ calls < MaxCalls => calls + 1 \in 0 .. MaxCalls
  BY BoundsAssumption
<1>1. CASE Tick
  <2>1. now' \in Times
    BY <1>1, BoundsAssumption DEF Tick, Times
  <2>. QED
    BY <1>1, <2>1 DEF Tick, tables
<1>2. CASE RecomputeTrustVerdict
  <2>1. analysed' \in SUBSET Rules
    BY <1>2, LatestIsStored DEF RecomputeTrustVerdict, Analyse
  <2>2. verdicts' \in SUBSET Verdicts
    BY <1>2, RecomputedVerdictType DEF RecomputeTrustVerdict
  <2>. QED
    BY <1>0, <1>2, <2>1, <2>2 DEF RecomputeTrustVerdict
<1>3. ASSUME NEW p \in Payloads, Fetch(p)
      PROVE  TypeOK'
  BY <1>0, <1>3 DEF Fetch, tables
<1>4. ASSUME NEW p \in inflight, NEW analyse \in BOOLEAN, NEW recompute \in BOOLEAN,
             Ingest(p, analyse, recompute)
      PROVE  TypeOK'
  <2>1. at' \in [Rows -> 0 .. MaxTime]
    BY <1>4, AtAfterType DEF Ingest
  <2>2. analysed' \in SUBSET Rules
    BY <1>4, LatestIsStored DEF Ingest, Analyse
  <2>3. verdicts' \in SUBSET Verdicts
    BY <1>4, IngestedVerdictType DEF Ingest
  <2>. QED
    BY <1>4, <2>1, <2>2, <2>3 DEF Ingest
<1>5. ASSUME NEW x \in Assessments \cup Pairings, NEW t \in 1 .. now, Assess(x, t)
      PROVE  TypeOK'
  <2>1. t \in 0 .. MaxTime
    BY BoundsAssumption DEF Times
  <2>. QED
    BY <1>0, <1>5, <2>1 DEF Assess
<1>6. ASSUME NEW t \in Times, NEW forced \in BOOLEAN, NEW v, Ask(t, v), v \in Verdicts
      PROVE  /\ Answer(forced, v, t) \in Answers /\ Answer(forced, v, t).reads.asof = t
             /\ analysed' \in SUBSET Rules /\ verdicts' \in SUBSET Verdicts
  <2>1. analysed' \in SUBSET Rules
    <3>1. Reads(t).rule \in Maybe(Rules)
      BY ReadsType DEF Verdicts
    <3>. QED
      BY <1>6, <3>1 DEF Ask, Analyse, Maybe
  <2>. QED
    BY <1>6, <2>1, ReadsType DEF Ask, Answer, Answers
<1>7. ASSUME NEW t \in Times, NEW forced \in BOOLEAN, ReplayStep(t, forced)
      PROVE  TypeOK'
  <2>1. PICK v \in Handed(t, forced, MatchingVerdicts(t)) :
          Ask(t, v) /\ replays' = [replays EXCEPT ![t] = Answer(forced, v, t)]
    BY <1>7 DEF ReplayStep
  <2>2. v \in Verdicts
    BY HandedVerdict, ReadsType
  <2>3. /\ Answer(forced, v, t) \in Maybe(Answers) /\ Answer(forced, v, t).reads.asof = t
        /\ analysed' \in SUBSET Rules /\ verdicts' \in SUBSET Verdicts
    BY <1>6, <2>1, <2>2 DEF Maybe
  <2>. QED
    BY <1>0, <1>7, <2>1, <2>3 DEF ReplayStep
<1>8. ASSUME NEW t \in Times, NEW forced \in BOOLEAN, EvaluateGate(t, forced)
      PROVE  TypeOK'
  <2>1. PICK v \in Handed(t, forced, VerdictsOfTime(t)) :
          Ask(t, v) /\ gates' = [gates EXCEPT ![t] = Answer(forced, v, t)]
    BY <1>8 DEF EvaluateGate
  <2>2. v \in Verdicts
    BY HandedVerdict, ReadsType
  <2>3. /\ Answer(forced, v, t) \in Maybe(Answers) /\ Answer(forced, v, t).reads.asof = t
        /\ analysed' \in SUBSET Rules /\ verdicts' \in SUBSET Verdicts
    BY <1>6, <2>1, <2>2 DEF Maybe
  <2>. QED
    BY <1>0, <1>8, <2>1, <2>3 DEF EvaluateGate
<1>9. CASE UNCHANGED vars
  BY <1>9 DEF vars
<1>. QED
  BY <1>1, <1>2, <1>3, <1>4, <1>5, <1>7, <1>8, <1>9 DEF Next

THEOREM TypeCorrect == Spec => []TypeOK
BY TypeInit, TypeStep, PTL DEF Spec
-----------------------------------------------------------------------------
(* A stored verdict that matches the reads is the verdict built from them. *)
LEMMA MatchingIsReads ==
  ASSUME TypeOK, NEW t \in Times, NEW v \in MatchingVerdicts(t)
  PROVE  v = Reads(t)
<1>1. v \in Verdicts /\ Reads(t) \in Verdicts
  BY ReadsType DEF MatchingVerdicts, TypeOK
<1>2. VerdictMatchesInputs(v, Reads(t))
  BY DEF MatchingVerdicts
<1>3. PICK r : r = Reads(t)
  OBVIOUS
<1>. QED
  BY <1>1, <1>2, <1>3 DEF Verdicts, VerdictMatchesInputs

(* A replay step uses the verdict of exactly what it read.                 *)
LEMMA ReplayVerdict ==
  ASSUME TypeOK, NEW t \in Times, NEW forced \in BOOLEAN, ReplayStep(t, forced)
  PROVE  replays' = [replays EXCEPT ![t] = Answer(forced, Reads(t), t)]
<1>1. PICK v \in Handed(t, forced, MatchingVerdicts(t)) :
        replays' = [replays EXCEPT ![t] = Answer(forced, v, t)]
  BY DEF ReplayStep
<1>2. v = Reads(t)
  BY <1>1, HandedVerdict, MatchingIsReads
<1>. QED
  BY <1>1, <1>2

LEMMA FreshStep ==
  TypeOK /\ FreshVerdicts /\ [Next]_vars => FreshVerdicts'
<1> SUFFICES ASSUME TypeOK, FreshVerdicts, [Next]_vars
             PROVE  FreshVerdicts'
  OBVIOUS
<1>1. ASSUME NEW t \in Times, NEW forced \in BOOLEAN, ReplayStep(t, forced)
      PROVE  FreshVerdicts'
  <2>1. replays' = [replays EXCEPT ![t] = Answer(forced, Reads(t), t)] /\ gates' = gates
    BY <1>1, ReplayVerdict DEF ReplayStep
  <2>2. Answer(forced, Reads(t), t).verdict = Answer(forced, Reads(t), t).reads
    BY DEF Answer
  <2>. QED
    BY <2>1, <2>2 DEF FreshVerdicts, TypeOK
<1>2. ASSUME NEW t \in Times, NEW forced \in BOOLEAN, EvaluateGate(t, forced)
      PROVE  FreshVerdicts'
  <2>1. PICK v \in Handed(t, forced, VerdictsOfTime(t)) :
          gates' = [gates EXCEPT ![t] = Answer(forced, v, t)]
    BY <1>2 DEF EvaluateGate
  <2>2. forced => v = Reads(t)
    BY <2>1, HandedVerdict
  <2>. QED
    BY <1>2, <2>1, <2>2 DEF EvaluateGate, FreshVerdicts, TypeOK, Answer
<1>3. CASE UNCHANGED <<replays, gates>>
  BY <1>3 DEF FreshVerdicts
<1>. QED
  BY <1>1, <1>2, <1>3 DEF Next, vars, Tick, RecomputeTrustVerdict, Fetch, Ingest, Assess

(* Replay, and the gate when it is forced to recompute, never use a stale  *)
(* verdict, whatever ingestion, the gate and replay leave in the table.    *)
THEOREM NoStaleReplay == Spec => []FreshVerdicts
<1>1. Init => FreshVerdicts
  BY DEF Init, FreshVerdicts
<1>. QED
  BY <1>1, FreshStep, TypeCorrect, PTL DEF Spec
-----------------------------------------------------------------------------
(* One payload at a time, and no content a second time.  The invariant:    *)
(* rows are no newer than the clock, the payload in flight is of the       *)
(* present and brings what is not stored, or the rule that is the newest.  *)
InOrder == OneAtATime /\ ~Recurs

PayloadIsNews(p) ==
  /\ p.at = now
  /\ p.rule # None => at[p.rule] = 0 \/ p.rule = Latest(Rules, at)
  /\ p.book # None => at[p.book] = 0

OrderInv ==
  /\ \A x \in Rules \cup Books : at[x] <= now
  /\ \A p, q \in inflight : p = q
  /\ \A p \in inflight : PayloadIsNews(p)

(* Storing a payload then only adds rows, stamped with the present.        *)
LEMMA IngestOnlyAdds ==
  ASSUME TypeOK, OrderInv, NEW p \in inflight, at' = AtAfter(p)
  PROVE  \A x \in Rows : at'[x] = at[x] \/ (at[x] = 0 /\ at'[x] = now)
<1>1. p \in Payloads /\ PayloadIsNews(p)
  BY DEF TypeOK, OrderInv
<1>2. SUFFICES ASSUME NEW x \in Rows, at'[x] # at[x]
               PROVE  at[x] = 0 /\ at'[x] = now
  OBVIOUS
<1>3. (x = p.rule /\ Changed(p)) \/ x = p.book
  BY <1>2 DEF AtAfter
<1>4. at'[x] = p.at
  BY <1>2 DEF AtAfter
<1>5. CASE x = p.rule /\ Changed(p)
  BY <1>1, <1>4, <1>5 DEF Changed, PayloadIsNews
<1>6. CASE x = p.book
  <2>1. p.book # None
    BY <1>6, RowsAssumption
  <2>. QED
    BY <1>1, <1>4, <1>6, <2>1 DEF PayloadIsNews
<1>. QED
  BY <1>3, <1>5, <1>6

(* The tables after any step in order: rows are only added, those of the   *)
(* market with the present as their timestamp.                             *)
LEMMA StepsOnlyAdd ==
  ASSUME TypeOK, OrderInv, [Next]_vars
  PROVE  \A x \in Rows : \/ at'[x] = at[x]
                         \/ at[x] = 0 /\ (x \in Rules \cup Books => at'[x] = now)
<1>1. ASSUME NEW p \in inflight, NEW analyse \in BOOLEAN, NEW recompute \in BOOLEAN,
             Ingest(p, analyse, recompute)
      PROVE  \A x \in Rows : at'[x] = at[x] \/ (at[x] = 0 /\ at'[x] = now)
  BY <1>1, IngestOnlyAdds DEF Ingest
<1>2. ASSUME NEW y \in Assessments \cup Pairings, NEW t \in 1 .. now, Assess(y, t)
      PROVE  \A x \in Rows : at'[x] = at[x] \/ (at[x] = 0 /\ x \notin Rules \cup Books)
  <2>1. \A x \in Rows : x # y => at'[x] = at[x]
    BY <1>2 DEF Assess, TypeOK
  <2>2. at[y] = 0 /\ y \notin Rules \cup Books
    BY <1>2, RowsAssumption DEF Assess
  <2>. QED
    BY <2>1, <2>2
<1>3. CASE UNCHANGED at
  BY <1>3
<1>. QED
  BY <1>1, <1>2, <1>3
  DEF Next, vars, tables, Tick, RecomputeTrustVerdict, Fetch, ReplayStep, EvaluateGate

(* What is read of the market as of a time that has passed stays as it is. *)
LEMMA PastReadsStay ==
  ASSUME TypeOK, OrderInv, [Next]_vars, NEW t \in 1 .. now - 1
  PROVE  /\ NewestAsof(Rules, at', t) = NewestAsof(Rules, at, t)
         /\ NewestAsof(Books, at', t) = NewestAsof(Books, at, t)
<1>1. now \in Int
  BY DEF TypeOK, Times
<1>2. \A x \in Rules \cup Books :
        at'[x] = at[x] \/ (~KnownAt(at, x, t) /\ ~KnownAt(at', x, t))
  BY <1>1, StepsOnlyAdd DEF KnownAt, Rows
<1>. QED
  BY <1>2, NewestDependsOnKnown

LEMMA OrderInit ==
  Init => OrderInv
BY BoundsAssumption DEF Init, OrderInv, Rows

LEMMA OrderStep ==
  ASSUME InOrder, TypeOK, OrderInv, [Next]_vars
  PROVE  OrderInv'
<1>1. now \in Int /\ now' \in Int /\ now <= now'
  BY TypeStep DEF TypeOK, Times, Next, vars, Tick, RecomputeTrustVerdict, Fetch, Ingest,
                  Assess, ReplayStep, EvaluateGate
<1>2. \A x \in Rules \cup Books : at'[x] <= now'
  <2>1. \A x \in Rules \cup Books : at[x] \in Int /\ at[x] <= now
    BY DEF OrderInv, TypeOK, Rows
  <2>. QED
    BY <1>1, <2>1, StepsOnlyAdd DEF Rows
<1>3. CASE inflight' = {}
  BY <1>2, <1>3 DEF OrderInv
<1>4. ASSUME NEW p \in Payloads, Fetch(p)
      PROVE  OrderInv'
  <2>1. inflight = {} /\ inflight' = {p} /\ at' = at /\ now' = now /\ p.at = now
    BY <1>4 DEF Fetch, tables, InOrder
  <2>2. \A x \in {p.rule, p.book} \ {None, Latest(Rules, at)} : at[x] = 0
    BY <1>4 DEF Fetch, BringsNews, InOrder
  <2>3. p.book # None => p.book # Latest(Rules, at)
    <3>1. p.book # None => p.book \in Books
      BY DEF Payloads, Maybe
    <3>. QED
      BY <3>1, LatestIsStored, RowsAssumption
  <2>4. PayloadIsNews(p)
    BY <2>1, <2>2, <2>3 DEF PayloadIsNews
  <2>5. PayloadIsNews(p)'
    BY <2>1, <2>4 DEF PayloadIsNews, Latest
  <2>. QED
    BY <1>2, <2>1, <2>5 DEF OrderInv
<1>5. ASSUME NEW y \in Assessments \cup Pairings, NEW t \in 1 .. now, Assess(y, t)
      PROVE  OrderInv'
  <2>1. \A x \in Rules \cup Books : at'[x] = at[x]
    BY <1>5, RowsAssumption DEF Assess, TypeOK, Rows
  <2>2. Latest(Rules, at') = Latest(Rules, at)
    BY <2>1, NewestDependsOnKnown DEF Latest
  <2>3. \A p \in inflight : PayloadIsNews(p)'
    <3>1. ASSUME NEW p \in inflight
          PROVE  PayloadIsNews(p)'
      <4>1. p \in Payloads /\ PayloadIsNews(p)
        BY DEF TypeOK, OrderInv
      <4>2. p.rule \in Rules \cup {None} /\ p.book \in Books \cup {None}
        BY <4>1 DEF Payloads, Maybe
      <4>. QED
        BY <1>5, <2>1, <2>2, <4>1, <4>2 DEF PayloadIsNews, Assess
    <3>. QED
      BY <3>1
  <2>. QED
    BY <1>2, <1>5, <2>3 DEF Assess, OrderInv
<1>6. CASE UNCHANGED <<now, at, inflight>>
  BY <1>6 DEF OrderInv, PayloadIsNews, Latest
<1>7. CASE Tick
  BY <1>3, <1>7 DEF Tick, InOrder
<1>8. ASSUME NEW p \in inflight, NEW analyse \in BOOLEAN, NEW recompute \in BOOLEAN,
             Ingest(p, analyse, recompute)
      PROVE  OrderInv'
  BY <1>3, <1>8 DEF Ingest, OrderInv
<1>. QED
  BY <1>4, <1>5, <1>6, <1>7, <1>8
  DEF Next, vars, tables, RecomputeTrustVerdict, ReplayStep, EvaluateGate

LEMMA StaysInOrder ==
  ASSUME InOrder
  PROVE  Spec => []OrderInv
<1>1. TypeOK /\ OrderInv /\ [Next]_vars => OrderInv'
  BY OrderStep
<1>. QED
  BY <1>1, OrderInit, TypeCorrect, PTL DEF Spec

(* In order, what was known of the market at a time that has passed is not *)
(* changed by anything stored later (the as-of queries of the repository). *)
THEOREM InOrderPastIsFixed ==
  ASSUME InOrder
  PROVE  Spec => PastIsFixed
<1>1. TypeOK /\ OrderInv /\ [Next]_vars =>
        [\A t \in 1 .. now - 1 :
           /\ NewestAsof(Rules, at', t) = NewestAsof(Rules, at, t)
           /\ NewestAsof(Books, at', t) = NewestAsof(Books, at, t)]_vars
  BY PastReadsStay
<1>. QED
  BY <1>1, StaysInOrder, TypeCorrect, PTL DEF Spec, PastIsFixed
-----------------------------------------------------------------------------
(* The rows a verdict built by replay or the gate names were known as of   *)
(* its timestamp; so were those of a verdict built from the newest rows,   *)
(* when all rows are known.                                                *)
SeesNoFuture(v, f) == \A x \in NamedRows(v) : KnownAt(f, x, v.asof)

LEMMA ReadsSeeNoFuture ==
  ASSUME NEW t \in Times
  PROVE  SeesNoFuture(Reads(t), at)
<1>1. \A x \in NamedRows(Reads(t)) : KnownAt(at, x, t)
  BY NewestIsKnown DEF NamedRows, Reads, PairingsAsof
<1>. QED
  BY <1>1, ReadsType DEF SeesNoFuture

LEMMA LatestIsKnown ==
  ASSUME NEW S, NEW f, NEW t \in Times, \A x \in S : f[x] <= t
  PROVE  Latest(S, f) # None => KnownAt(f, Latest(S, f), t)
BY LatestIsStored DEF KnownAt, Times

LEMMA IngestedSeesNoFuture ==
  ASSUME InOrder, TypeOK, OrderInv, OrderInv', NEW p \in inflight, now' = now
  PROVE  SeesNoFuture(IngestedVerdict(p), at')
<1>1. VerdictTime(p) = now /\ now \in Times
  BY DEF VerdictTime, OrderInv, PayloadIsNews, TypeOK
<1>2. \A x \in Rules \cup Books : at'[x] <= now
  BY DEF OrderInv
<1>3. \A x \in {Latest(Rules, at'), Latest(Books, at'), NewestAsof(Assessments, at', now)} :
        x # None => KnownAt(at', x, now)
  BY <1>1, <1>2, LatestIsKnown, NewestIsKnown
<1>. QED
  BY <1>1, <1>3 DEF SeesNoFuture, NamedRows, IngestedVerdict

LEMMA RecomputedSeesNoFuture ==
  ASSUME TypeOK, OrderInv
  PROVE  SeesNoFuture(RecomputedVerdict, at)
<1>1. now \in Times /\ \A x \in Rules \cup Books : at[x] <= now
  BY DEF TypeOK, OrderInv
<1>2. \A x \in {Latest(Rules, at), Latest(Books, at), NewestAsof(Assessments, at, now)} :
        x # None => KnownAt(at, x, now)
  BY <1>1, LatestIsKnown, NewestIsKnown
<1>. QED
  BY <1>2 DEF SeesNoFuture, NamedRows, RecomputedVerdict, PairingsAsof

LEMMA VerdictsStep ==
  ASSUME InOrder, TypeOK, OrderInv, VerdictsSeeNoFuture, [Next]_vars
  PROVE  VerdictsSeeNoFuture'
<1>1. ASSUME NEW v \in verdicts
      PROVE  SeesNoFuture(v, at')
  <2>1. v \in Verdicts /\ NamedRows(v) \subseteq Rows
    BY DEF TypeOK, NamedRows, Verdicts, Maybe, Rows
  <2>2. \A x \in NamedRows(v) : KnownAt(at, x, v.asof)
    BY DEF VerdictsSeeNoFuture
  <2>3. \A x \in NamedRows(v) : at'[x] = at[x]
    BY <2>1, <2>2, StepsOnlyAdd DEF KnownAt
  <2>. QED
    BY <2>2, <2>3 DEF SeesNoFuture, KnownAt
<1>2. SUFFICES ASSUME NEW v \in verdicts', v \notin verdicts
               PROVE  SeesNoFuture(v, at')
  BY <1>1 DEF SeesNoFuture, VerdictsSeeNoFuture
<1>3. ASSUME NEW p \in inflight, NEW analyse \in BOOLEAN, NEW recompute \in BOOLEAN,
             Ingest(p, analyse, recompute)
      PROVE  SeesNoFuture(v, at')
  <2>1. v = IngestedVerdict(p) /\ now' = now
    BY <1>2, <1>3 DEF Ingest
  <2>. QED
    BY <2>1, OrderStep, IngestedSeesNoFuture
<1>4. CASE RecomputeTrustVerdict
  BY <1>2, <1>4, RecomputedSeesNoFuture DEF RecomputeTrustVerdict
<1>5. ASSUME NEW t \in Times, NEW forced \in BOOLEAN, ReplayStep(t, forced)
      PROVE  SeesNoFuture(v, at')
  <2>1. at' = at
    BY <1>5 DEF ReplayStep
  <2>2. PICK w \in Handed(t, forced, MatchingVerdicts(t)) : verdicts' = verdicts \cup {w}
    BY <1>5 DEF ReplayStep, Ask
  <2>3. v = Reads(t)
    BY <1>2, <2>2, HandedVerdict
  <2>. QED
    BY <2>1, <2>3, ReadsSeeNoFuture
<1>6. ASSUME NEW t \in Times, NEW forced \in BOOLEAN, EvaluateGate(t, forced)
      PROVE  SeesNoFuture(v, at')
  <2>1. at' = at
    BY <1>6 DEF EvaluateGate
  <2>2. PICK w \in Handed(t, forced, VerdictsOfTime(t)) : verdicts' = verdicts \cup {w}
    BY <1>6 DEF EvaluateGate, Ask
  <2>3. v = Reads(t)
    BY <1>2, <2>2, HandedVerdict
  <2>. QED
    BY <2>1, <2>3, ReadsSeeNoFuture
<1>7. verdicts' # verdicts
  BY <1>2
<1>. QED
  BY <1>3, <1>4, <1>5, <1>6, <1>7 DEF Next, vars, tables, Tick, Fetch, Assess

(* In order, no stored verdict names a row of a time after its own, though *)
(* ingestion and the recompute endpoint read the newest rows.              *)
THEOREM InOrderVerdicts ==
  ASSUME InOrder
  PROVE  Spec => []VerdictsSeeNoFuture
<1>1. Init => VerdictsSeeNoFuture
  BY DEF Init, VerdictsSeeNoFuture
<1>2. TypeOK /\ OrderInv /\ VerdictsSeeNoFuture /\ [Next]_vars => VerdictsSeeNoFuture'
  BY VerdictsStep
<1>. QED
  BY <1>1, <1>2, StaysInOrder, TypeCorrect, PTL DEF Spec
-----------------------------------------------------------------------------
(* What the last replay of a time that had passed read of the market is    *)
(* what is read of it now.                                                 *)
ReplayRecords ==
  \A t \in Times : replays[t] # None =>
    /\ replays[t].when \in Int /\ replays[t].when <= now
    /\ replays[t].when > t =>
         /\ replays[t].reads.rule = NewestAsof(Rules, at, t)
         /\ replays[t].reads.ambiguity = NewestAsof(Rules, at, t)
         /\ replays[t].reads.book = NewestAsof(Books, at, t)

LEMMA ReplayRecordsStep ==
  ASSUME InOrder, TypeOK, OrderInv, ReplayRecords, [Next]_vars
  PROVE  ReplayRecords'
<1>1. now \in Int /\ now' \in Int /\ now <= now'
  BY TypeStep DEF TypeOK, Times, Next, vars, Tick, RecomputeTrustVerdict, Fetch, Ingest,
                  Assess, ReplayStep, EvaluateGate
<1>2. SUFFICES ASSUME NEW t \in Times, replays'[t] # None
               PROVE  /\ replays'[t].when \in Int /\ replays'[t].when <= now'
                      /\ replays'[t].when > t =>
                           /\ replays'[t].reads.rule = NewestAsof(Rules, at', t)
                           /\ replays'[t].reads.ambiguity = NewestAsof(Rules, at', t)
                           /\ replays'[t].reads.book = NewestAsof(Books, at', t)
  BY DEF ReplayRecords
<1>3. CASE replays'[t] = replays[t]
  <2>1. replays[t].when > t => t \in 1 .. now - 1
    BY <1>1, <1>2, <1>3 DEF ReplayRecords, Times
  <2>. QED
    BY <1>1, <1>2, <1>3, <2>1, PastReadsStay DEF ReplayRecords
<1>4. ASSUME NEW u \in Times, NEW forced \in BOOLEAN, ReplayStep(u, forced),
             replays'[t] # replays[t]
      PROVE  replays'[t] = Answer(forced, Reads(t), t) /\ at' = at /\ now' = now
  <2>1. replays' = [replays EXCEPT ![u] = Answer(forced, Reads(u), u)]
    BY <1>4, ReplayVerdict
  <2>2. u = t
    BY <1>4, <2>1 DEF TypeOK
  <2>3. at' = at /\ now' = now
    BY <1>4 DEF ReplayStep
  <2>. QED
    BY <2>1, <2>2, <2>3 DEF TypeOK
<1>5. ASSUME NEW forced \in BOOLEAN, replays'[t] = Answer(forced, Reads(t), t),
             at' = at, now' = now
      PROVE  /\ replays'[t].when \in Int /\ replays'[t].when <= now'
             /\ replays'[t].reads.rule = NewestAsof(Rules, at', t)
             /\ replays'[t].reads.ambiguity = NewestAsof(Rules, at', t)
             /\ replays'[t].reads.book = NewestAsof(Books, at', t)
  BY <1>1, <1>5 DEF Answer, Reads
<1>. QED
  BY <1>3, <1>4, <1>5
  DEF Next, vars, Tick, RecomputeTrustVerdict, Fetch, Ingest, Assess, EvaluateGate

(* In order, replaying a time that has passed gives the same verdict as    *)
(* the last time, unless an assessment as of it came in between.           *)
THEOREM InOrderReplayRepeats ==
  ASSUME InOrder
  PROVE  Spec => ReplayRepeats
<1>1. Init => ReplayRecords
  BY DEF Init, ReplayRecords
<1>2. TypeOK /\ OrderInv /\ ReplayRecords /\ [Next]_vars => ReplayRecords'
  BY ReplayRecordsStep
<1>3. ASSUME TypeOK, FreshVerdicts, ReplayRecords, [Next]_vars, NEW t \in Times,
             replays[t] # None, replays[t].when > t,
             replays'[t].reads.integrity = replays[t].reads.integrity,
             replays'[t].reads.pairings = replays[t].reads.pairings
      PROVE  replays'[t].verdict = replays[t].verdict
  <2>1. ASSUME NEW u \in Times, NEW forced \in BOOLEAN, ReplayStep(u, forced),
               replays'[t] # replays[t]
        PROVE  replays'[t].verdict = Reads(t) /\ replays'[t].reads = Reads(t)
    <3>1. replays' = [replays EXCEPT ![u] = Answer(forced, Reads(u), u)]
      BY <1>3, <2>1, ReplayVerdict
    <3>2. u = t
      BY <1>3, <2>1, <3>1 DEF TypeOK
    <3>. QED
      BY <1>3, <3>1, <3>2 DEF TypeOK, Answer
  <2>2. ASSUME replays'[t].verdict = Reads(t), replays'[t].reads = Reads(t)
        PROVE  replays'[t].verdict = replays[t].verdict
    <3>1. replays[t].verdict = replays[t].reads
      BY <1>3 DEF FreshVerdicts
    <3>2. replays[t].reads \in Verdicts /\ replays[t].reads.asof = t
      BY <1>3 DEF TypeOK, Maybe, Answers
    <3>3. /\ replays[t].reads.rule = Reads(t).rule
          /\ replays[t].reads.ambiguity = Reads(t).ambiguity
          /\ replays[t].reads.book = Reads(t).book
      BY <1>3 DEF ReplayRecords, Reads
    <3>4. replays[t].reads = Reads(t)
      <4>1. PICK r \in Verdicts : r = Reads(t)
        BY ReadsType
      <4>2. PICK o \in Verdicts : o = replays[t].reads
        BY <3>2
      <4>3. /\ o.asof = r.asof /\ o.rule = r.rule /\ o.ambiguity = r.ambiguity
            /\ o.book = r.book /\ o.integrity = r.integrity /\ o.pairings = r.pairings
        BY <1>3, <2>2, <3>2, <3>3, <4>1, <4>2, ReadsType
      <4>. QED
        BY <4>1, <4>2, <4>3 DEF Verdicts
    <3>. QED
      BY <2>2, <3>1, <3>4
  <2>. QED
    BY <1>3, <2>1, <2>2
    DEF Next, vars, Tick, RecomputeTrustVerdict, Fetch, Ingest, Assess, EvaluateGate
<1>4. TypeOK /\ FreshVerdicts /\ ReplayRecords /\ [Next]_vars =>
        [\A t \in Times :
           /\ replays[t] # None /\ replays[t].when > t
           /\ replays'[t].reads.integrity = replays[t].reads.integrity
           /\ replays'[t].reads.pairings = replays[t].reads.pairings
           => replays'[t].verdict = replays[t].verdict]_vars
  BY <1>3
<1>. QED
  BY <1>1, <1>2, <1>4, StaysInOrder, NoStaleReplay, TypeCorrect, PTL DEF Spec, ReplayRepeats
=============================================================================
