-------------------------- MODULE CollectionProofs --------------------------
(***************************************************************************)
(* Theorems about collection runs, for every set of markets, venues'       *)
(* fixtures, requests and tokens, every answer of the venues, any limit    *)
(* and any number of runs.                                                 *)
(***************************************************************************)
EXTENDS Collection, DeskLemmas, SequenceTheorems, TLAPS

-----------------------------------------------------------------------------
(* Sequences put together.                                                 *)

Flattens(f, seqs) ==
  f = [i \in 1 .. Len(seqs) |-> IF i = 1 THEN seqs[i] ELSE f[i - 1] \o seqs[i]]

LEMMA FlatteningExists ==
  ASSUME NEW V, NEW seqs \in Seq(Seq(V)), Len(seqs) # 0
  PROVE  \E f : Flattens(f, seqs)
<1> DEFINE n == Len(seqs)
           W == Seq(V)
           step == [e \in (1 .. n) \X W |-> e[2] \o seqs[e[1]]]
<1>1. n \in Nat /\ <<>> \in W
  OBVIOUS
<1>2. \A i \in 1 .. n : seqs[i] \in W
  OBVIOUS
<1>3. step \in [(1 .. n) \X W -> W]
  <2>1. \A e \in (1 .. n) \X W : e[2] \o seqs[e[1]] \in W
    BY <1>2, ConcatProperties
  <2>. HIDE DEF W, n
  <2>. QED
    BY <2>1
<1>4. PICK f \in [0 .. n -> W] : Recursion(f, n, <<>>, step)
  <2>. HIDE DEF step, W, n
  <2>. QED
    BY <1>1, <1>3, RecursionOverNaturals
<1>5. f[0] = <<>>
  BY <1>4 DEF Recursion
<1>6. ASSUME NEW i \in 1 .. n PROVE f[i] = f[i - 1] \o seqs[i]
  <2>1. f[i - 1] \in W
    <3>. HIDE DEF W, n
    <3>. QED BY <1>1
  <2>2. step[<<i, f[i - 1]>>] = f[i - 1] \o seqs[i]
    <3>. HIDE DEF W
    <3>. QED BY <2>1
  <2>. QED
    BY <1>4, <2>2 DEF Recursion
<1>7. PICK g : g = [i \in 1 .. n |-> f[i]]
  OBVIOUS
<1>8. ASSUME NEW i \in 1 .. n PROVE g[i] = IF i = 1 THEN seqs[i] ELSE g[i - 1] \o seqs[i]
  <2>1. CASE i = 1
    <3>1. f[i - 1] = <<>>
      BY <1>5, <2>1
    <3>2. seqs[i] \in W
      BY <1>2
    <3>3. <<>> \o seqs[i] = seqs[i]
      BY <3>2, ConcatEmptySeq
    <3>. QED
      BY <1>6, <1>7, <2>1, <3>1, <3>3
  <2>2. CASE i # 1
    <3>1. i - 1 \in 1 .. n /\ g[i - 1] = f[i - 1]
      BY <1>1, <1>7, <2>2
    <3>. QED
      BY <1>6, <1>7, <2>2, <3>1
  <2>. QED BY <2>1, <2>2
<1>9. g = [i \in 1 .. n |-> IF i = 1 THEN seqs[i] ELSE g[i - 1] \o seqs[i]]
  BY <1>7, <1>8
<1>. QED
  BY <1>9 DEF Flattens

(* FlattenSeq appends one sequence after the other.                        *)
LEMMA FlattenedBy ==
  ASSUME NEW V, NEW seqs \in Seq(Seq(V)), Len(seqs) # 0
  PROVE  \E f \in [1 .. Len(seqs) -> Seq(V)] :
            Flattens(f, seqs) /\ FlattenSeq(seqs) = f[Len(seqs)]
<1> DEFINE n == Len(seqs)
           F == CHOOSE f : Flattens(f, seqs)
<1>1. Flattens(F, seqs)
  BY FlatteningExists
<1>2. FlattenSeq(seqs) = F[n]
  BY DEF FlattenSeq, Flattens
<1>3. PICK f : f = F
  OBVIOUS
<1>4. f = [i \in 1 .. n |-> IF i = 1 THEN seqs[i] ELSE f[i - 1] \o seqs[i]]
  <2>1. Flattens(f, seqs)
    <3>. HIDE DEF F
    <3>. QED BY <1>1, <1>3
  <2>. QED
    BY <2>1 DEF Flattens
<1>5. \A i \in 1 .. n : f[i] = IF i = 1 THEN seqs[i] ELSE f[i - 1] \o seqs[i]
  BY <1>4
<1> DEFINE Q == {k \in Nat : k \in 1 .. n => f[k] \in Seq(V)}
<1>6. \A i \in 1 .. n : seqs[i] \in Seq(V)
  OBVIOUS
<1>7. 0 \in Q
  OBVIOUS
<1>8. ASSUME NEW k \in Nat, k \in Q PROVE k + 1 \in Q
  <2> SUFFICES ASSUME k + 1 \in 1 .. n PROVE f[k + 1] \in Seq(V)
    OBVIOUS
  <2>1. CASE k = 0
    BY <1>5, <1>6, <2>1
  <2>2. CASE k # 0
    <3>1. k \in 1 .. n /\ k + 1 # 1 /\ (k + 1) - 1 = k
      BY <2>2
    <3>2. f[k] \in Seq(V) /\ seqs[k + 1] \in Seq(V)
      BY <1>6, <1>8, <3>1
    <3>3. f[k + 1] = f[k] \o seqs[k + 1]
      BY <1>5, <3>1
    <3>. QED
      BY <3>2, <3>3, ConcatProperties
  <2>. QED BY <2>1, <2>2
<1>9. \A k \in Nat : k \in Q
  <2>. HIDE DEF Q
  <2>. QED
    BY <1>7, <1>8, NaturalsByInduction
<1>10. \A i \in 1 .. n : f[i] \in Seq(V)
  BY <1>9
<1>11. f \in [1 .. n -> Seq(V)]
  <2>1. f = [i \in 1 .. n |-> f[i]]
    BY <1>4, <1>5
  <2>. QED
    BY <1>10, <2>1
<1>12. Flattens(f, seqs) /\ FlattenSeq(seqs) = f[n]
  <2>. HIDE DEF F
  <2>. QED
    BY <1>1, <1>2, <1>3
<1>. QED
  BY <1>11, <1>12

LEMMA FlattenedStays ==
  ASSUME NEW V, NEW seqs \in Seq(Seq(V))
  PROVE  FlattenSeq(seqs) \in Seq(V)
<1>1. CASE Len(seqs) = 0
  <2>1. seqs = <<>>
    BY <1>1, EmptySeq
  <2>2. FlattenSeq(seqs) = seqs
    BY <1>1 DEF FlattenSeq
  <2>3. <<>> \in Seq(V)
    BY EmptySeq
  <2>. QED
    BY <2>1, <2>2, <2>3
<1>2. CASE Len(seqs) # 0
  <2>1. PICK f \in [1 .. Len(seqs) -> Seq(V)] : FlattenSeq(seqs) = f[Len(seqs)]
    BY <1>2, FlattenedBy
  <2>. QED
    BY <1>2, <2>1, LenProperties
<1>. QED
  BY <1>1, <1>2

(* Picked takes exactly the elements at the positions it is given.         *)
LEMMA PickedElements ==
  ASSUME NEW V, NEW s \in Seq(V), NEW I \in SUBSET (1 .. Len(s))
  PROVE  Picked(s, I) \in Seq(V) /\ Len(Picked(s, I)) = Cardinality(I)
<1> DEFINE n == Len(s)
           parts == [i \in 1 .. n |-> IF i \in I THEN <<s[i]>> ELSE <<>>]
<1>1. n \in Nat
  BY LenProperties
<1>2. \A i \in 1 .. n : parts[i] \in Seq(V) /\ Len(parts[i]) = IF i \in I THEN 1 ELSE 0
  <2> SUFFICES ASSUME NEW i \in 1 .. n
               PROVE  parts[i] \in Seq(V) /\ Len(parts[i]) = IF i \in I THEN 1 ELSE 0
    OBVIOUS
  <2>1. s[i] \in V
    BY ElementOfSeq
  <2>2. <<>> \in Seq(V) /\ Len(<<>>) = 0
    BY EmptySeq
  <2>. QED
    BY <2>1, <2>2
<1>3. parts \in Seq(Seq(V)) /\ Len(parts) = n
  <2>1. parts \in [1 .. n -> Seq(V)]
    BY <1>2
  <2>. HIDE DEF parts, n
  <2>. QED
    BY <1>1, <2>1
<1>4. Picked(s, I) = FlattenSeq(parts)
  BY DEF Picked
<1>5. Picked(s, I) \in Seq(V)
  <2>. HIDE DEF parts, n
  <2>. QED
    BY <1>3, <1>4, FlattenedStays
<1>6. CASE n = 0
  <2>1. I = {}
    BY <1>6
  <2>2. FlattenSeq(parts) = parts
    BY <1>3, <1>6 DEF FlattenSeq
  <2>. HIDE DEF parts, n
  <2>. QED
    BY <1>3, <1>4, <1>5, <1>6, <2>1, <2>2, FS_EmptySet
<1>7. CASE n # 0
  <2>1. PICK f \in [1 .. n -> Seq(V)] : Flattens(f, parts) /\ FlattenSeq(parts) = f[n]
    <3>. HIDE DEF parts, n
    <3>. QED
      BY <1>3, <1>7, FlattenedBy
  <2>2. \A i \in 1 .. n : f[i] = IF i = 1 THEN parts[i] ELSE f[i - 1] \o parts[i]
    <3>. HIDE DEF parts, n
    <3>. QED
      BY <1>3, <2>1 DEF Flattens
  <2> DEFINE upto(k) == I \cap (1 .. k)
             Q == {k \in Nat : k \in 1 .. n => Len(f[k]) = Cardinality(upto(k))}
  <2>3. \A k \in Nat : IsFiniteSet(upto(k)) /\ Cardinality(upto(k)) \in Nat
    <3> SUFFICES ASSUME NEW k \in Nat
                 PROVE  IsFiniteSet(upto(k)) /\ Cardinality(upto(k)) \in Nat
      OBVIOUS
    <3>1. IsFiniteSet(1 .. k)
      BY FS_Interval
    <3>2. IsFiniteSet(upto(k))
      BY <3>1, FS_Subset
    <3>. QED
      BY <3>2, FS_CardinalityType
  <2>4. ASSUME NEW k \in 0 .. n - 1
        PROVE  Cardinality(upto(k + 1)) = Cardinality(upto(k)) + Len(parts[k + 1])
    <3>1. CASE k + 1 \in I
      <4>1. upto(k + 1) = upto(k) \cup {k + 1} /\ k + 1 \notin upto(k)
        BY <1>1, <3>1
      <4>2. Cardinality(upto(k) \cup {k + 1}) = Cardinality(upto(k)) + 1
        <5>1. IsFiniteSet(upto(k))
          BY <1>1, <2>3
        <5>. HIDE DEF upto
        <5>. QED
          BY <4>1, <5>1, FS_AddElement
      <4>3. Len(parts[k + 1]) = 1
        <5>. HIDE DEF parts
        <5>. QED
          BY <1>1, <1>2, <3>1
      <4>. QED
        BY <4>1, <4>2, <4>3
    <3>2. CASE k + 1 \notin I
      <4>1. upto(k + 1) = upto(k)
        BY <1>1, <3>2
      <4>2. Len(parts[k + 1]) = 0
        <5>. HIDE DEF parts
        <5>. QED
          BY <1>1, <1>2, <3>2
      <4>. HIDE DEF upto, parts
      <4>. QED
        BY <2>3, <4>1, <4>2
    <3>. QED BY <3>1, <3>2
  <2>5. upto(0) = {}
    OBVIOUS
  <2>. HIDE DEF parts, upto
  <2>6. 0 \in Q
    OBVIOUS
  <2>7. ASSUME NEW k \in Nat, k \in Q PROVE k + 1 \in Q
    <3> SUFFICES ASSUME k + 1 \in 1 .. n PROVE Len(f[k + 1]) = Cardinality(upto(k + 1))
      OBVIOUS
    <3>1. Cardinality(upto(k + 1)) = Cardinality(upto(k)) + Len(parts[k + 1])
      BY <1>1, <2>4
    <3>2. CASE k = 0
      <4>1. Cardinality(upto(0)) = 0
        BY <2>5, FS_EmptySet
      <4>2. f[k + 1] = parts[k + 1]
        <5>1. k + 1 = 1
          BY <3>2
        <5>2. 1 \in 1 .. n
          BY <1>1, <1>7
        <5>3. f[1] = parts[1]
          BY <2>2, <5>2
        <5>. QED
          BY <5>1, <5>3
      <4>3. Len(parts[k + 1]) \in Nat
        BY <1>2, LenProperties
      <4>. QED
        BY <3>1, <3>2, <4>1, <4>2, <4>3
    <3>3. CASE k # 0
      <4>1. k \in 1 .. n /\ k + 1 # 1 /\ (k + 1) - 1 = k
        BY <1>1, <3>3
      <4>2. f[k + 1] = f[k] \o parts[k + 1]
        BY <2>2, <4>1
      <4>3. f[k] \in Seq(V) /\ parts[k + 1] \in Seq(V)
        BY <1>2, <4>1
      <4>4. Len(f[k + 1]) = Len(f[k]) + Len(parts[k + 1])
        BY <4>2, <4>3, ConcatProperties
      <4>5. Len(f[k]) = Cardinality(upto(k))
        BY <2>7, <4>1
      <4>. QED
        BY <3>1, <4>4, <4>5
    <3>. QED BY <3>2, <3>3
  <2>8. \A k \in Nat : k \in Q
    <3>. HIDE DEF Q
    <3>. QED
      BY <2>6, <2>7, NaturalsByInduction
  <2>9. Len(f[n]) = Cardinality(upto(n))
    BY <1>1, <1>7, <2>8
  <2>10. upto(n) = I
    BY DEF upto
  <2>. QED
    BY <1>4, <1>5, <2>1, <2>9, <2>10
<1>. QED
  BY <1>1, <1>6, <1>7

-----------------------------------------------------------------------------
(* What is asked of a venue, and what of it is fetched.                    *)

Own(v) == ToSet(VenueMarkets[v])
AskOf(v) == [market : Own(v), ask : BOOLEAN]

LEMMA MarketsOfVenue ==
  ASSUME NEW v \in VenueNames
  PROVE  /\ VenueMarkets[v] \in Seq(Own(v))
         /\ Own(v) \subseteq CollectedMarkets
         /\ \A m \in Own(v) : VenueOf(m) = v
<1>1. VenueMarkets[v] \in Seq(CollectedMarkets)
  BY VenuesAssumption
<1>2. VenueMarkets[v] \in Seq(Own(v))
  BY <1>1 DEF Own, ToSet
<1>3. Own(v) \subseteq CollectedMarkets
  BY DEF Own, CollectedMarkets
<1>4. ASSUME NEW m \in Own(v) PROVE VenueOf(m) = v
  <2>0. Own("kalshi") \cap Own("polymarket") = {}
    BY VenuesAssumption DEF Own
  <2>1. \A w \in VenueNames : m \in Own(w) => w = v
    BY <2>0 DEF VenueNames
  <2>. QED
    BY <2>1 DEF VenueOf, Own
<1>. QED
  BY <1>2, <1>3, <1>4

LEMMA MarketHasVenue ==
  ASSUME NEW m \in CollectedMarkets
  PROVE  VenueOf(m) \in VenueNames /\ m \in Own(VenueOf(m))
<1>1. \E v \in VenueNames : m \in ToSet(VenueMarkets[v])
  BY DEF CollectedMarkets
<1>. QED
  BY <1>1 DEF VenueOf, Own

LEMMA AmongElements ==
  ASSUME NEW V, NEW s \in Seq(V), NEW S
  PROVE  Among(s, S) \in Seq(V)
BY PickedElements DEF Among

LEMMA TargetsOfVenue ==
  ASSUME NEW v \in VenueNames, NEW limit \in Nat
  PROVE  TargetMappings(v, limit) \in Seq(Own(v))
<1>1. MappingsOf(v) \in Seq(Own(v))
  BY MarketsOfVenue, AmongElements DEF MappingsOf
<1>2. Among(MappingsOf(v), run.markets) \in Seq(Own(v))
  BY <1>1, AmongElements
<1>3. PICK k \in Nat : k = IF Len(MappingsOf(v)) < limit THEN Len(MappingsOf(v)) ELSE limit
  BY <1>1, LenProperties
<1>4. k <= Len(MappingsOf(v))
  BY <1>1, <1>3, LenProperties
<1>5. SubSeq(MappingsOf(v), 1, k) \in Seq(Own(v))
  BY <1>1, <1>4, SubSeqProperties
<1>. QED
  BY <1>2, <1>3, <1>5 DEF TargetMappings

LEMMA AsksOfMarket ==
  ASSUME NEW v \in VenueNames, NEW endpoint, NEW m \in Own(v)
  PROVE  Asks(v, endpoint, m) \in Seq(AskOf(v))
<1>1. \A ask \in BOOLEAN : <<[market |-> m, ask |-> ask]>> \in Seq(AskOf(v))
  BY DEF AskOf
<1>2. PICK n \in Nat : n = Len(Tokens[m])
  <2>1. Tokens[m] \in Seq(ToSet(Tokens[m]))
    BY MarketsOfVenue, VenuesAssumption
  <2>. QED
    BY <2>1, LenProperties
<1>3. TokensToAsk(m, endpoint) \in Seq(AskOf(v))
  <2>1. [i \in 1 .. n |-> [market |-> m, ask |-> ~(endpoint = "ORDERBOOK" /\ Tokens[m][i] \in ClosedBooks)]]
          \in [1 .. n -> AskOf(v)]
    BY DEF AskOf
  <2>2. [i \in 1 .. n |-> [market |-> m, ask |-> ~(endpoint = "ORDERBOOK" /\ Tokens[m][i] \in ClosedBooks)]]
          \in Seq(AskOf(v))
    BY <2>1
  <2>. QED
    BY <1>1, <1>2, <2>2 DEF TokensToAsk
<1>4. <<[market |-> m, ask |-> m \in GammaIds]>> \in Seq(AskOf(v))
  BY (m \in GammaIds) \in BOOLEAN DEF AskOf
<1>. QED
  BY <1>1, <1>3, <1>4 DEF Asks

LEMMA AsksOfVenue ==
  ASSUME NEW v \in VenueNames, NEW endpoint, NEW limit \in Nat
  PROVE  AsksOf(v, endpoint, limit) \in Seq(AskOf(v))
<1>1. PICK ms \in Seq(Own(v)) : ms = TargetMappings(v, limit)
  BY TargetsOfVenue
<1>2. PICK parts : parts = [i \in 1 .. Len(ms) |-> Asks(v, endpoint, ms[i])]
  OBVIOUS
<1>3. Len(ms) \in Nat /\ \A i \in 1 .. Len(ms) : ms[i] \in Own(v)
  BY LenProperties, ElementOfSeq
<1>4. parts \in [1 .. Len(ms) -> Seq(AskOf(v))]
  BY <1>2, <1>3, AsksOfMarket
<1>5. parts \in Seq(Seq(AskOf(v)))
  BY <1>3, <1>4
<1>. QED
  BY <1>1, <1>2, <1>5, FlattenedStays DEF AsksOf

Fetched(asks, ok, left) == {i \in Visited(asks, ok, left) : asks[i].ask /\ ok[i]}

(* The loop fetches no more than what was left: the last fetch had fewer   *)
(* before it.                                                              *)
LEMMA FetchesFit ==
  ASSUME NEW V, NEW asks \in Seq(V), NEW ok, NEW left \in Nat
  PROVE  /\ Fetched(asks, ok, left) \in SUBSET (1 .. Len(asks))
         /\ IsFiniteSet(Fetched(asks, ok, left))
         /\ Cardinality(Fetched(asks, ok, left)) \in Nat
         /\ Cardinality(Fetched(asks, ok, left)) <= left
         /\ Cardinality(Visited(asks, ok, left) \ Fetched(asks, ok, left)) \in Nat
<1>1. PICK n \in Nat : n = Len(asks)
  BY LenProperties
<1>2. PICK T : T = Fetched(asks, ok, left)
  OBVIOUS
<1>3. T \subseteq 1 .. n /\ Visited(asks, ok, left) \subseteq 1 .. n
  BY <1>1, <1>2 DEF Fetched, Visited
<1>4. IsFiniteSet(1 .. n)
  BY FS_Interval
<1>5. IsFiniteSet(T) /\ Cardinality(T) \in Nat
  BY <1>3, <1>4, FS_Subset, FS_CardinalityType
<1>6. Cardinality(Visited(asks, ok, left) \ T) \in Nat
  <2>1. Visited(asks, ok, left) \ T \subseteq 1 .. n
    BY <1>3
  <2>. QED
    BY <1>4, <2>1, FS_Subset, FS_CardinalityType
<1>7. CASE T = {}
  BY <1>1, <1>2, <1>3, <1>5, <1>6, <1>7, FS_EmptySet
<1>8. CASE T # {}
  <2> DEFINE D == {n - i : i \in T}
  <2>1. D \subseteq Nat /\ D # {}
    BY <1>3, <1>8
  <2>2. PICK d \in D : \A e \in D : d <= e
    BY <2>1, LeastNatural
  <2>3. PICK m \in T : d = n - m
    OBVIOUS
  <2>4. \A i \in T : i <= m
    <3> SUFFICES ASSUME NEW i \in T PROVE i <= m
      OBVIOUS
    <3>1. n - i \in D
      OBVIOUS
    <3>2. d <= n - i
      BY <2>2, <3>1
    <3>. QED
      BY <1>3, <2>3, <3>2
  <2>5. PICK K : K = {k \in 1 .. (m - 1) : asks[k].ask /\ ok[k]}
    OBVIOUS
  <2>6. Cardinality(K) < left
    BY <1>2, <2>5 DEF Fetched, Visited
  <2>7. T \ {m} \subseteq K
    BY <1>2, <1>3, <2>4, <2>5 DEF Fetched
  <2>8. IsFiniteSet(K) /\ Cardinality(K) \in Nat
    <3>1. IsFiniteSet(1 .. (m - 1)) /\ K \subseteq 1 .. (m - 1)
      BY <1>3, <2>5, FS_Interval
    <3>. QED
      BY <3>1, FS_Subset, FS_CardinalityType
  <2>9. Cardinality(T \ {m}) = Cardinality(T) - 1
    BY <1>5, FS_RemoveElement
  <2>10. Cardinality(T \ {m}) <= Cardinality(K)
    BY <2>7, <2>8, FS_Subset
  <2>. QED
    BY <1>1, <1>2, <1>3, <1>5, <1>6, <2>6, <2>8, <2>9, <2>10
<1>. QED
  BY <1>7, <1>8

-----------------------------------------------------------------------------
(* The run in progress.                                                    *)

(* A run collects only while it is not a fixture run, and only public      *)
(* endpoints; what it has queued is about markets of its venue.            *)
QueueOfVenue ==
  run # None =>
    /\ run.step = "venue" => run.queue = <<>> /\ run.got = 0 /\ run.failed = 0
    /\ run.step # "venue" => run.venue \in VenueNames /\ run.queue \in Seq(Payloads(run.venue))
    /\ run.step = "collect" => run.asked \in Seq(PublicEndpoints) /\ run.mode # "FIXTURE"

(* What is archived, queued and still to fetch never exceeds the limit.    *)
Budget ==
  run # None /\ run.mode # "FIXTURE" =>
    /\ run.archived + run.got + Len(run.queue) <= run.limit
    /\ run.step = "collect" => run.got = 0 /\ run.archived + Len(run.queue) + run.left <= run.limit

(* The tables t hold whole runs: every ingestion run and cursor belongs to *)
(* one of its collection runs, and a run that is COMPLETED has no PARTIAL  *)
(* ingestion run.                                                          *)
WholeRuns(t) ==
  /\ \A r1, r2 \in t.runs : r1.id = r2.id => r1 = r2
  /\ \A r \in t.runs : r.id <= collections
  /\ \A i \in t.ingestions : \E r \in t.runs : r.id = i.run
  /\ \A c \in t.cursors : \E r \in t.runs : r.id = c.run
  /\ \A r \in t.runs, i \in t.ingestions :
       i.run = r.id /\ r.status = "COMPLETED" => i.status = "COMPLETED"

(* Only the run in progress is RUNNING; nobody else sees anything of it.   *)
OneRunning ==
  /\ \A r \in committed.runs : r.status # "RUNNING"
  /\ run = None => db = committed
  /\ run # None =>
       /\ run.id = collections
       /\ \A r \in committed.runs : r.id # run.id
       /\ \E r \in db.runs : r.id = run.id
       /\ \A r \in db.runs : (r.status = "RUNNING") <=> (r.id = run.id)
       /\ run.errors = 0 => \A i \in db.ingestions : i.run = run.id => i.status = "COMPLETED"

(* Rows of known mappings, and cursors of one run for each endpoint and    *)
(* venue.                                                                  *)
MappedRows(t) ==
  /\ t.books \cup t.prices \subseteq t.mapped
  /\ \A c, d \in t.cursors :
       c.endpoint = d.endpoint /\ VenueOf(c.market) = VenueOf(d.market) => c.run = d.run

(* Every mapped market of an ingested venue v has a cursor.                *)
CursorsOf(t, v) ==
  \A i \in t.ingestions, m \in t.mapped :
    i.venue = v /\ VenueOf(m) = v => \E c \in t.cursors : c.market = m

Ingesting(v) == run # None /\ run.step = "ingest" /\ run.venue = v

CursorsInStep ==
  \A v \in VenueNames : CursorsOf(committed, v) /\ (~Ingesting(v) => CursorsOf(db, v))

CollectionTables ==
  [mapped : SUBSET CollectedMarkets, tokens : SUBSET CollectedMarkets,
   books : SUBSET CollectedMarkets, prices : SUBSET CollectedMarkets,
   ingestions : SUBSET IngestionRow, runs : SUBSET CollectedRuns, cursors : SUBSET CursorRow]

Shapes ==
  /\ collections \in 0 .. MaxCollections
  /\ db \in CollectionTables /\ committed \in CollectionTables
  /\ run \in RunsInProgress \cup {None}

-----------------------------------------------------------------------------
(* What the steps of a run do to it.                                       *)

Queued == [endpoint : PublicEndpoints, market : CollectedMarkets \cup {None}]

LEMMA PayloadShape ==
  ASSUME NEW v \in VenueNames, NEW q \in Seq(Payloads(v))
  PROVE  q \in Seq(Queued) /\ TypesOf(q) \subseteq PublicEndpoints
<1>1. Own(v) \subseteq CollectedMarkets
  BY MarketsOfVenue
<1>2. Payloads(v) \subseteq Queued
  BY <1>1 DEF Payloads, Own, Queued
<1>3. Len(q) \in Nat /\ q \in [1 .. Len(q) -> Payloads(v)]
  BY LenProperties
<1>4. q \in [1 .. Len(q) -> Queued]
  BY <1>2, <1>3
<1>5. q \in Seq(Queued)
  BY <1>3, <1>4
<1>6. \A i \in 1 .. Len(q) : q[i].endpoint \in PublicEndpoints
  BY <1>4 DEF Queued
<1>. QED
  BY <1>5, <1>6 DEF TypesOf

(* A run that gathers the payloads q keeps all but its queue, what is left *)
(* to fetch and what it still asks for.                                    *)
Gathers(q) ==
  /\ run' \in RunsInProgress
  /\ run'.queue = run.queue \o q /\ run'.left = run.left - Len(q)
  /\ run'.asked \in Seq(PublicEndpoints)
  /\ run'.id = run.id /\ run'.mode = run.mode /\ run'.limit = run.limit
  /\ run'.archived = run.archived /\ run'.errors = run.errors /\ run'.got = run.got
  /\ run'.venue = run.venue /\ run'.step = run.step

LEMMA QueueGrows ==
  ASSUME Shapes, QueueOfVenue, run # None, run.step = "collect", run.asked # <<>>,
         NEW q \in Seq(Payloads(run.venue)), Len(q) <= run.left, NEW bad \in Nat,
         run' = [run EXCEPT !.queue = run.queue \o q, !.left = run.left - Len(q),
                            !.failed = run.failed + bad, !.asked = Tail(run.asked)]
  PROVE  Gathers(q)
<1>1. /\ run \in RunsInProgress /\ run.venue \in VenueNames /\ run.asked \in Seq(PublicEndpoints)
      /\ run.queue \in Seq(Payloads(run.venue)) /\ run.left \in Nat /\ run.failed \in Nat
  BY DEF Shapes, QueueOfVenue, RunsInProgress
<1>2. PICK queue \in Seq(Queued) : queue = run.queue \o q
  BY <1>1, ConcatProperties, PayloadShape
<1>3. PICK left \in Nat : left = run.left - Len(q)
  BY <1>1, LenProperties
<1>4. PICK failed \in Nat : failed = run.failed + bad
  BY <1>1
<1>5. PICK asked \in Seq(PublicEndpoints) : asked = Tail(run.asked)
  BY <1>1, HeadTailProperties
<1>6. asked \in Seq(EndpointNames)
  BY <1>1, <1>5, HeadTailProperties DEF RunsInProgress
<1>7. run' = [run EXCEPT !.queue = queue, !.left = left, !.failed = failed, !.asked = asked]
  BY <1>2, <1>3, <1>4, <1>5, Zenon
<1>8. run' \in RunsInProgress
  BY <1>1, <1>6, <1>7 DEF RunsInProgress, Queued
<1>. QED
  BY <1>1, <1>2, <1>3, <1>5, <1>7, <1>8 DEF Gathers, RunsInProgress

(* A targeted endpoint queues the payloads fetched, ...                    *)
LEMMA TargetedGathers ==
  ASSUME Shapes, QueueOfVenue, run # None, run.step = "collect", run.asked # <<>>,
         NEW endpoint \in PublicEndpoints, NEW asks \in Seq(AskOf(run.venue)), NEW ok,
         CollectTargeted(endpoint, asks, ok)
  PROVE  \E q \in Seq(Payloads(run.venue)) : Len(q) <= run.left /\ Gathers(q)
<1> DEFINE payloads == [i \in 1 .. Len(asks) |-> [endpoint |-> endpoint, market |-> asks[i].market]]
<1>1. run.left \in Nat
  BY DEF Shapes, RunsInProgress
<1>2. PICK taken : taken = Fetched(asks, ok, run.left)
  OBVIOUS
<1>3. /\ taken \in SUBSET (1 .. Len(asks)) /\ Cardinality(taken) \in Nat
      /\ Cardinality(taken) <= run.left
      /\ Cardinality(Visited(asks, ok, run.left) \ taken) \in Nat
  BY <1>1, <1>2, FetchesFit
<1>4. Len(asks) \in Nat /\ \A i \in 1 .. Len(asks) : asks[i] \in AskOf(run.venue)
  BY LenProperties, ElementOfSeq
<1>5. payloads \in [1 .. Len(asks) -> Payloads(run.venue)]
  BY <1>4 DEF Payloads, AskOf, Own
<1>6. payloads \in Seq(Payloads(run.venue)) /\ Len(payloads) = Len(asks)
  <2>. HIDE DEF payloads
  <2>. QED
    BY <1>4, <1>5
<1>7. PICK q : q = Picked(payloads, taken)
  OBVIOUS
<1>8. q \in Seq(Payloads(run.venue)) /\ Len(q) = Cardinality(taken)
  <2>. HIDE DEF payloads
  <2>. QED
    BY <1>3, <1>6, <1>7, PickedElements
<1>9. PICK bad \in Nat : bad = Cardinality(Visited(asks, ok, run.left) \ taken)
  BY <1>3
<1>10. run' = [run EXCEPT !.queue = run.queue \o q, !.left = run.left - Cardinality(taken),
                          !.failed = run.failed + bad, !.asked = Tail(run.asked)]
  BY <1>2, <1>7, <1>9, Zenon DEF CollectTargeted, Fetched
<1>11. run' = [run EXCEPT !.queue = run.queue \o q, !.left = run.left - Len(q),
                          !.failed = run.failed + bad, !.asked = Tail(run.asked)]
  BY <1>8, <1>10, Zenon
<1>12. Gathers(q)
  BY <1>3, <1>8, <1>11, QueueGrows
<1>. QED
  BY <1>3, <1>8, <1>12

LEMMA CatalogGathers ==
  ASSUME Shapes, QueueOfVenue, run # None, run.step = "collect", run.asked # <<>>,
         NEW n \in Nat, CollectCatalog(n)
  PROVE  \E q \in Seq(Payloads(run.venue)) : Len(q) <= run.left /\ Gathers(q)
<1>1. run \in RunsInProgress /\ run.left \in Nat /\ run.failed \in Nat /\ run.venue \in VenueNames
  BY DEF Shapes, QueueOfVenue, RunsInProgress
<1>2. PICK taken \in Nat : taken = IF n < run.left THEN n ELSE run.left
  BY <1>1
<1>3. PICK q : q = [i \in 1 .. taken |-> [endpoint |-> "MARKET_LIST", market |-> None]]
  OBVIOUS
<1>4. q \in [1 .. taken -> Payloads(run.venue)]
  BY <1>3 DEF Payloads, PublicEndpoints
<1>5. q \in Seq(Payloads(run.venue)) /\ Len(q) = taken
  BY <1>3, <1>4
<1>6. run' = [run EXCEPT !.queue = run.queue \o q, !.left = run.left - taken, !.asked = Tail(run.asked)]
  BY <1>2, <1>3, Zenon DEF CollectCatalog
<1>7. taken <= run.left
  BY <1>1, <1>2
<1>8. PICK queue \in Seq(Queued) : queue = run.queue \o q
  <2>1. run.queue \in Seq(Payloads(run.venue))
    BY DEF QueueOfVenue
  <2>. QED
    BY <1>1, <1>5, <2>1, ConcatProperties, PayloadShape
<1>9. PICK left \in Nat : left = run.left - taken
  BY <1>1, <1>7
<1>10. PICK asked \in Seq(EndpointNames) : asked = Tail(run.asked)
  BY <1>1, HeadTailProperties DEF RunsInProgress
<1>11. run' = [run EXCEPT !.queue = queue, !.left = left, !.asked = asked]
  BY <1>6, <1>8, <1>9, <1>10, Zenon
<1>12. run' \in RunsInProgress
  BY <1>1, <1>11 DEF RunsInProgress, Queued
<1>13. Gathers(q)
  <2>1. run.asked \in Seq(PublicEndpoints)
    BY DEF QueueOfVenue
  <2>2. asked \in Seq(PublicEndpoints)
    BY <1>10, <2>1, HeadTailProperties
  <2>. QED
    BY <1>1, <1>5, <1>8, <1>11, <1>9, <1>12, <2>2 DEF Gathers, RunsInProgress
<1>. QED
  BY <1>5, <1>7, <1>13

LEMMA NothingGathers ==
  ASSUME Shapes, QueueOfVenue, run # None, run.step = "collect", run.asked # <<>>, CollectNothing
  PROVE  \E q \in Seq(Payloads(run.venue)) : Len(q) <= run.left /\ Gathers(q)
<1>1. run \in RunsInProgress /\ run.left \in Nat /\ run.failed \in Nat
  BY DEF Shapes, RunsInProgress
<1>2. PICK q \in Seq(Payloads(run.venue)) : Len(q) = 0 /\ run.queue \o q = run.queue
  <2>1. run.queue \in Seq(Payloads(run.venue))
    BY DEF QueueOfVenue
  <2>2. <<>> \in Seq(Payloads(run.venue)) /\ Len(<<>>) = 0
    BY EmptySeq
  <2>3. run.queue \o <<>> = run.queue
    BY <2>1, ConcatEmptySeq
  <2>. QED
    BY <2>2, <2>3
<1>3. PICK failed \in Nat : failed = run.failed + 1
  BY <1>1
<1>4. PICK asked \in Seq(EndpointNames) : asked = Tail(run.asked)
  BY <1>1, HeadTailProperties DEF RunsInProgress
<1>5. run' = [run EXCEPT !.failed = failed, !.asked = asked]
  BY <1>3, <1>4, Zenon DEF CollectNothing
<1>6. run' \in RunsInProgress
  BY <1>1, <1>5 DEF RunsInProgress
<1>7. asked \in Seq(PublicEndpoints)
  BY <1>4, HeadTailProperties DEF QueueOfVenue
<1>8. run.left - Len(q) = run.left /\ Len(q) <= run.left
  <2>1. \A n \in Nat : \A k : k = 0 => n - k = n /\ k <= n
    OBVIOUS
  <2>. QED
    BY <1>1, <1>2, <2>1, Zenon
<1>9. Gathers(q)
  <2>1. /\ run'.left = run.left /\ run'.queue = run.queue /\ run'.asked = asked
        /\ run'.id = run.id /\ run'.mode = run.mode /\ run'.limit = run.limit
        /\ run'.archived = run.archived /\ run'.errors = run.errors /\ run'.got = run.got
        /\ run'.venue = run.venue /\ run'.step = run.step
    BY <1>1, <1>5 DEF RunsInProgress
  <2>. QED
    BY <1>2, <1>6, <1>7, <1>8, <2>1, Zenon DEF Gathers
<1>. QED
  BY <1>2, <1>8, <1>9, Zenon

LEMMA CollectGathers ==
  ASSUME Shapes, QueueOfVenue, Budget, Collect
  PROVE  \E q \in Seq(Payloads(run.venue)) : Len(q) <= run.left /\ Gathers(q)
<1>1. /\ run # None /\ run.step = "collect" /\ run.asked # <<>>
      /\ run.venue \in VenueNames /\ run.asked \in Seq(PublicEndpoints)
  BY DEF Collect, QueueOfVenue
<1>2. PICK endpoint \in PublicEndpoints : endpoint = Head(run.asked)
  BY <1>1, HeadTailProperties
<1>3. PICK limit \in Nat : limit = run.limit - run.archived
  <2>1. run.limit \in Nat /\ run.archived \in Nat /\ run.left \in Nat /\ Len(run.queue) \in Nat
    BY <1>1, LenProperties DEF Shapes, RunsInProgress, QueueOfVenue
  <2>2. run.archived + Len(run.queue) + run.left <= run.limit
    BY <1>1 DEF Budget, QueueOfVenue
  <2>. QED
    BY <2>1, <2>2
<1>4. PICK asks : asks = AsksOf(run.venue, endpoint, limit)
  OBVIOUS
<1>5. asks \in Seq(AskOf(run.venue))
  BY <1>1, <1>4, AsksOfVenue
<1>6. \/ \E n \in 0 .. MaxCatalog : CollectCatalog(n)
      \/ CollectNothing
      \/ \E ok \in [1 .. Len(asks) -> BOOLEAN] : CollectTargeted(endpoint, asks, ok)
  BY <1>2, <1>3, <1>4, Zenon DEF Collect
<1>7. CASE \E n \in 0 .. MaxCatalog : CollectCatalog(n)
  BY <1>1, <1>7, CatalogGathers, CollectionAssumption
<1>8. CASE CollectNothing
  BY <1>1, <1>8, NothingGathers
<1>9. CASE \E ok \in [1 .. Len(asks) -> BOOLEAN] : CollectTargeted(endpoint, asks, ok)
  BY <1>1, <1>5, <1>9, TargetedGathers
<1>. QED
  BY <1>6, <1>7, <1>8, <1>9

-----------------------------------------------------------------------------
(* Every step keeps the shapes, the queue and the budget.                  *)
RunInv == Shapes /\ QueueOfVenue /\ Budget

RunFields ==
  /\ run \in RunsInProgress /\ run.id \in 1 .. MaxCollections
  /\ run.limit \in Nat /\ run.archived \in Nat /\ run.errors \in Nat /\ run.left \in Nat
  /\ run.got \in Nat /\ run.failed \in Nat /\ run.network \in BOOLEAN
  /\ run.venues \in Seq(VenueNames) /\ run.endpoints \in Seq(EndpointNames)
  /\ run.types \subseteq PublicEndpoints /\ run.queue \in Seq(Queued) /\ Len(run.queue) \in Nat

LEMMA FieldsOfRun ==
  ASSUME Shapes, run # None
  PROVE  RunFields
<1>1. /\ run \in RunsInProgress /\ run.id \in 1 .. MaxCollections
      /\ run.limit \in Nat /\ run.archived \in Nat /\ run.errors \in Nat /\ run.left \in Nat
      /\ run.got \in Nat /\ run.failed \in Nat /\ run.network \in BOOLEAN
      /\ run.venues \in Seq(VenueNames) /\ run.endpoints \in Seq(EndpointNames)
      /\ run.types \subseteq PublicEndpoints /\ run.queue \in Seq(Queued)
  BY DEF Shapes, RunsInProgress, Queued
<1>. QED
  BY <1>1, LenProperties DEF RunFields

LEMMA RunIsNotNone ==
  ASSUME run' \in RunsInProgress
  PROVE  run' # None
BY NoRunAssumption

(* Between ingestions a run only fetches: it stays the same run, and an    *)
(* error stays with it.                                                    *)
Goes ==
  /\ run' \in RunsInProgress /\ run'.id = run.id
  /\ run'.errors = 0 => run.errors = 0

LEMMA CollectKeeps ==
  ASSUME RunInv, Collect
  PROVE  RunInv' /\ Goes
<1>1. PICK q \in Seq(Payloads(run.venue)) : Len(q) <= run.left /\ Gathers(q)
  BY CollectGathers DEF RunInv
<1>2. /\ run # None /\ run.step = "collect" /\ run.venue \in VenueNames
      /\ run.queue \in Seq(Payloads(run.venue)) /\ UNCHANGED <<db, committed, collections>>
      /\ run.mode # "FIXTURE"
  BY DEF RunInv, QueueOfVenue, Collect
<1>3. RunFields
  BY <1>2, FieldsOfRun DEF RunInv
<1>4. Shapes'
  BY <1>1, <1>2 DEF RunInv, Shapes, Gathers
<1>5. run.queue \o q \in Seq(Payloads(run.venue)) /\ Len(run.queue \o q) = Len(run.queue) + Len(q)
  BY <1>2, ConcatProperties
<1>6. QueueOfVenue'
  <2>1. /\ run'.step = "collect" /\ run'.venue = run.venue /\ run'.queue = run.queue \o q
        /\ run'.asked \in Seq(PublicEndpoints) /\ run'.mode = run.mode
    BY <1>1, <1>2 DEF Gathers
  <2>2. Payloads(run'.venue) = Payloads(run.venue)
    BY <2>1, Zenon
  <2>. QED
    BY <1>2, <1>5, <2>1, <2>2 DEF QueueOfVenue
<1>7. Budget'
  <2>1. Len(q) \in Nat
    BY LenProperties
  <2>2. run.got = 0 /\ run.archived + Len(run.queue) + run.left <= run.limit
    BY <1>2 DEF RunInv, Budget
  <2>3. /\ run'.got = run.got /\ run'.archived = run.archived /\ run'.limit = run.limit
        /\ run'.left = run.left - Len(q) /\ Len(run'.queue) = Len(run.queue) + Len(q)
    BY <1>1, <1>5 DEF Gathers
  <2>4. /\ run.archived \in Nat /\ run.limit \in Nat /\ run.left \in Nat
        /\ Len(run.queue) \in Nat /\ Len(q) <= run.left
    BY <1>1, <1>3 DEF RunFields
  <2>5. /\ run'.archived + run'.got + Len(run'.queue) <= run'.limit
        /\ run'.got = 0 /\ run'.archived + Len(run'.queue) + run'.left <= run'.limit
    BY <2>1, <2>2, <2>3, <2>4
  <2>. QED
    BY <2>5 DEF Budget
<1>8. Goes
  BY <1>1 DEF Goes, Gathers
<1>. QED
  BY <1>4, <1>6, <1>7, <1>8 DEF RunInv

LEMMA CollectDoneKeeps ==
  ASSUME RunInv, CollectDone
  PROVE  RunInv' /\ Goes
<1>1. /\ run # None /\ run.step = "collect" /\ run.venue \in VenueNames
      /\ run.queue \in Seq(Payloads(run.venue)) /\ UNCHANGED <<db, committed, collections>>
  BY DEF RunInv, QueueOfVenue, CollectDone
<1>2. RunFields
  BY <1>1, FieldsOfRun DEF RunInv
<1>3. PICK types \in SUBSET PublicEndpoints : types = TypesOf(run.queue)
  BY <1>1, PayloadShape
<1>4. run' = [run EXCEPT !.step = "ingest", !.types = types]
  BY <1>3, Zenon DEF CollectDone
<1>5. run' \in RunsInProgress
  BY <1>2, <1>4 DEF RunFields, RunsInProgress
<1>6. /\ run'.step = "ingest" /\ run'.venue = run.venue /\ run'.queue = run.queue
      /\ run'.got = run.got /\ run'.archived = run.archived /\ run'.limit = run.limit
      /\ run'.mode = run.mode /\ run'.id = run.id /\ run'.errors = run.errors
  BY <1>2, <1>4 DEF RunFields, RunsInProgress
<1>7. Shapes'
  BY <1>1, <1>5 DEF RunInv, Shapes
<1>8. QueueOfVenue'
  BY <1>1, <1>6 DEF QueueOfVenue
<1>9. Budget'
  BY <1>1, <1>6 DEF RunInv, Budget
<1>. QED
  BY <1>5, <1>6, <1>7, <1>8, <1>9 DEF RunInv, Goes

LEMMA StartVenueKeeps ==
  ASSUME RunInv, StartVenue
  PROVE  RunInv' /\ Goes
<1>1. /\ run # None /\ run.step = "venue" /\ run.venues # <<>> /\ run.archived < run.limit
      /\ UNCHANGED <<db, committed, collections>>
  BY DEF StartVenue
<1>2. RunFields
  BY <1>1, FieldsOfRun DEF RunInv
<1>3. PICK v \in VenueNames : v = Head(run.venues)
  BY <1>1, <1>2, HeadTailProperties DEF RunFields
<1>4. PICK venues \in Seq(VenueNames) : venues = Tail(run.venues)
  BY <1>1, <1>2, HeadTailProperties DEF RunFields
<1>5. PICK left \in Nat : left = run.limit - run.archived
  BY <1>1, <1>2 DEF RunFields
<1>6. PICK r : r = [run EXCEPT !.venues = venues, !.venue = v, !.got = 0, !.failed = 0,
                               !.left = left, !.queue = <<>>, !.types = {}]
  OBVIOUS
<1>7. /\ r \in RunsInProgress /\ r.venue = v /\ r.got = 0 /\ r.failed = 0 /\ r.left = left
      /\ r.queue = <<>> /\ r.mode = run.mode /\ r.archived = run.archived /\ r.limit = run.limit
      /\ r.errors = run.errors /\ r.step = run.step /\ r.id = run.id
  <2>1. <<>> \in Seq(Queued)
    BY EmptySeq
  <2>2. PICK e \in Seq(Queued) : e = <<>>
    BY <2>1
  <2>3. r = [run EXCEPT !.venues = venues, !.venue = v, !.got = 0, !.failed = 0,
                        !.left = left, !.queue = e, !.types = {}]
    BY <1>6, <2>2, Zenon
  <2>4. r \in RunsInProgress
    BY <1>2, <2>3 DEF RunFields, RunsInProgress, Queued
  <2>. QED
    BY <1>2, <2>2, <2>3, <2>4 DEF RunFields, RunsInProgress
<1>8. \/ /\ run.mode = "FIXTURE"
         /\ run' = [r EXCEPT !.step = "ingest", !.queue = Fixtures[v], !.types = TypesOf(Fixtures[v])]
      \/ run' = [r EXCEPT !.errors = @ + 1]
      \/ /\ run.mode # "FIXTURE"
         /\ \A i \in 1 .. Len(run.endpoints) : run.endpoints[i] \in PublicEndpoints
         /\ run' = [r EXCEPT !.step = "collect", !.asked = run.endpoints]
  BY <1>3, <1>4, <1>5, <1>6, Zenon DEF StartVenue
<1>9. CASE /\ run.mode = "FIXTURE"
           /\ run' = [r EXCEPT !.step = "ingest", !.queue = Fixtures[v], !.types = TypesOf(Fixtures[v])]
  <2>1. PICK queue \in Seq(Payloads(v)) : queue = Fixtures[v]
    BY VenuesAssumption
  <2>2. queue \in Seq(Queued)
    BY PayloadShape
  <2>3. PICK types \in SUBSET PublicEndpoints : types = TypesOf(queue)
    BY PayloadShape
  <2>4. run' = [r EXCEPT !.step = "ingest", !.queue = queue, !.types = types]
    BY <1>9, <2>1, <2>3, Zenon
  <2>5. run' \in RunsInProgress
    BY <1>7, <2>2, <2>4 DEF RunsInProgress, Queued
  <2>6. /\ run'.step = "ingest" /\ run'.queue = queue /\ run'.venue = v /\ run'.mode = "FIXTURE"
        /\ run'.id = run.id /\ run'.errors = run.errors
    BY <1>7, <1>9, <2>4 DEF RunsInProgress
  <2>7. Shapes'
    BY <1>1, <2>5 DEF RunInv, Shapes
  <2>8. QueueOfVenue'
    BY <2>6 DEF QueueOfVenue
  <2>. QED
    BY <2>5, <2>6, <2>7, <2>8 DEF RunInv, Budget, Goes
<1>10. CASE run' = [r EXCEPT !.errors = @ + 1]
  <2>1. PICK errors \in Nat : errors = r.errors + 1
    BY <1>2, <1>7 DEF RunFields
  <2>2. run' = [r EXCEPT !.errors = errors]
    BY <1>10, <2>1, Zenon
  <2>3. run' \in RunsInProgress
    BY <1>7, <2>2 DEF RunsInProgress
  <2>4. /\ run'.step = "venue" /\ run'.queue = <<>> /\ run'.got = 0 /\ run'.failed = 0
        /\ run'.archived = run.archived /\ run'.limit = run.limit
        /\ run'.id = run.id /\ run'.errors = errors
    BY <1>1, <1>7, <2>2 DEF RunsInProgress
  <2>5. Shapes'
    BY <1>1, <2>3 DEF RunInv, Shapes
  <2>6. QueueOfVenue'
    BY <2>4 DEF QueueOfVenue
  <2>7. Budget'
    <3>1. Len(run'.queue) = 0
      BY <2>4, EmptySeq
    <3>. QED
      BY <1>1, <1>2, <2>4, <3>1 DEF Budget, RunFields
  <2>8. errors # 0
    BY <1>2, <1>7, <2>1 DEF RunFields
  <2>. QED
    BY <2>3, <2>4, <2>5, <2>6, <2>7, <2>8 DEF RunInv, Goes
<1>11. CASE /\ run.mode # "FIXTURE"
            /\ \A i \in 1 .. Len(run.endpoints) : run.endpoints[i] \in PublicEndpoints
            /\ run' = [r EXCEPT !.step = "collect", !.asked = run.endpoints]
  <2>1. run.endpoints \in Seq(PublicEndpoints)
    <3>1. Len(run.endpoints) \in Nat /\ run.endpoints \in [1 .. Len(run.endpoints) -> EndpointNames]
      BY <1>2, LenProperties DEF RunFields
    <3>2. run.endpoints \in [1 .. Len(run.endpoints) -> PublicEndpoints]
      BY <1>11, <3>1
    <3>. QED
      BY <3>1, <3>2
  <2>2. run' \in RunsInProgress
    BY <1>2, <1>7, <1>11 DEF RunFields, RunsInProgress
  <2>3. /\ run'.step = "collect" /\ run'.queue = <<>> /\ run'.venue = v /\ run'.got = 0
        /\ run'.asked = run.endpoints /\ run'.mode = run.mode /\ run'.left = left
        /\ run'.archived = run.archived /\ run'.limit = run.limit
        /\ run'.id = run.id /\ run'.errors = run.errors
    BY <1>7, <1>11 DEF RunsInProgress
  <2>4. Shapes'
    BY <1>1, <2>2 DEF RunInv, Shapes
  <2>5. QueueOfVenue'
    <3>1. <<>> \in Seq(Payloads(v))
      BY EmptySeq
    <3>. QED
      BY <1>11, <2>1, <2>3, <3>1 DEF QueueOfVenue
  <2>6. Budget'
    <3>1. Len(run'.queue) = 0
      BY <2>3, EmptySeq
    <3>. QED
      BY <1>2, <1>5, <1>11, <2>3, <3>1 DEF Budget, RunFields
  <2>. QED
    BY <2>2, <2>3, <2>4, <2>5, <2>6 DEF RunInv, Goes
<1>. QED
  BY <1>8, <1>9, <1>10, <1>11

LEMMA StartKeeps ==
  ASSUME RunInv, NEW q \in CollectionRequests, StartCollection(q)
  PROVE  RunInv' /\ run' \in RunsInProgress
<1>1. run = None /\ collections < MaxCollections /\ collections' = collections + 1 /\ UNCHANGED committed
  BY DEF StartCollection
<1>2. PICK id \in 1 .. MaxCollections : id = collections + 1
  BY <1>1, CollectionAssumption DEF RunInv, Shapes
<1>3. /\ q.mode \in {"FIXTURE", "MANUAL_PUBLIC_FETCH", "MIXED"} /\ q.network \in BOOLEAN
      /\ q.venues \in Seq(VenueNames) /\ q.endpoints \in Seq(EndpointNames)
      /\ q.max \in Nat \cup {None} /\ q.planMax \in Nat \cup {None}
  BY CollectionRequestsAssumption
<1>4. PICK limit \in Nat : limit = DefaultLimit(q)
  BY <1>3 DEF DefaultLimit
<1>5. PICK endpoints \in Seq(EndpointNames) : endpoints = ResolvedEndpoints(q)
  <2>1. <<"MARKET_LIST">> \in Seq(EndpointNames)
    <3>1. "MARKET_LIST" \in EndpointNames
      BY DEF EndpointNames, PublicEndpoints
    <3>. QED
      BY <3>1
  <2>. QED
    BY <1>3, <2>1 DEF ResolvedEndpoints
<1>6. PICK e \in Seq(EndpointNames) : e = <<>>
  BY EmptySeq
<1>7. PICK n \in Seq(Queued) : n = <<>>
  BY EmptySeq
<1>8. run' = [id |-> id, mode |-> q.mode, network |-> q.network,
              venues |-> q.venues, endpoints |-> endpoints,
              markets |-> q.markets, limit |-> limit, archived |-> 0,
              errors |-> 0, venue |-> None, step |-> "venue", left |-> 0,
              asked |-> e, queue |-> n, types |-> {}, got |-> 0, failed |-> 0]
  BY <1>2, <1>4, <1>5, <1>6, <1>7, Zenon DEF StartCollection
<1>9. run' \in RunsInProgress
  <2>1. q.markets \in {r.markets : r \in CollectionRequests}
    OBVIOUS
  <2>. QED
    BY <1>3, <1>8, <2>1 DEF RunsInProgress, Queued
<1>10. Shapes'
  <2>1. PICK row : row = [id |-> id, status |-> "RUNNING", archived |-> 0, errors |-> 0]
    OBVIOUS
  <2>2. row \in CollectedRuns
    BY <2>1 DEF CollectedRuns
  <2>3. db' = [db EXCEPT !.runs = db.runs \cup {row}]
    BY <1>2, <2>1, Zenon DEF StartCollection
  <2>4. db' \in CollectionTables
    BY <2>2, <2>3 DEF RunInv, Shapes, CollectionTables
  <2>5. collections' \in 0 .. MaxCollections
    BY <1>1, CollectionAssumption DEF RunInv, Shapes
  <2>. QED
    BY <1>1, <1>9, <2>4, <2>5 DEF RunInv, Shapes
<1>11. /\ run'.step = "venue" /\ run'.queue = <<>> /\ run'.got = 0 /\ run'.failed = 0
       /\ run'.archived = 0 /\ run'.limit = limit
  BY <1>7, <1>8
<1>12. QueueOfVenue'
  BY <1>11 DEF QueueOfVenue
<1>13. Budget'
  <2>1. Len(run'.queue) = 0
    BY <1>11, EmptySeq
  <2>. QED
    BY <1>11, <2>1 DEF Budget
<1>. QED
  BY <1>9, <1>10, <1>12, <1>13 DEF RunInv

LEMMA IngestKeeps ==
  ASSUME RunInv, NEW ms \in SUBSET CollectedMarkets, NEW fails \in BOOLEAN, IngestPayload(ms, fails)
  PROVE  /\ RunInv' /\ run' \in RunsInProgress /\ run'.id = run.id /\ run'.errors = run.errors
         /\ run'.step = "ingest" /\ run'.venue = run.venue
<1>1. /\ run # None /\ run.step = "ingest" /\ run.queue # <<>> /\ run.venue \in VenueNames
      /\ run.queue \in Seq(Payloads(run.venue)) /\ UNCHANGED <<committed, collections>>
  BY DEF RunInv, QueueOfVenue, IngestPayload
<1>2. RunFields
  BY <1>1, FieldsOfRun DEF RunInv
<1>3. PICK p \in Payloads(run.venue) : p = Head(run.queue)
  BY <1>1, HeadTailProperties
<1>4. p.endpoint \in PublicEndpoints
  BY DEF Payloads
<1>5. db' \in CollectionTables
  <2>1. db' = Upsert(p.endpoint, ms)
    BY <1>3, Zenon DEF IngestPayload
  <2>2. \/ db' = [db EXCEPT !.mapped = @ \cup ms, !.tokens = @ \cup {m \in ms : VenueOf(m) = "polymarket"}]
        \/ db' = [db EXCEPT !.books = @ \cup (ms \cap db.mapped)]
        \/ db' = [db EXCEPT !.prices = @ \cup (ms \cap db.mapped)]
    BY <1>4, <2>1 DEF Upsert, PublicEndpoints
  <2>. QED
    BY <2>2 DEF RunInv, Shapes, CollectionTables
<1>6. PICK queue \in Seq(Payloads(run.venue)) : queue = Tail(run.queue) /\ Len(queue) = Len(run.queue) - 1
  BY <1>1, HeadTailProperties
<1>7. PICK failed \in Nat : failed = IF fails THEN run.failed + 1 ELSE run.failed
  BY <1>2 DEF RunFields
<1>8. PICK got \in Nat : got = run.got + 1
  BY <1>2 DEF RunFields
<1>9. run' = [run EXCEPT !.queue = queue, !.got = got, !.failed = failed]
  BY <1>6, <1>7, <1>8, Zenon DEF IngestPayload
<1>10. queue \in Seq(Queued)
  BY <1>1, PayloadShape
<1>11. run' \in RunsInProgress
  BY <1>2, <1>9, <1>10 DEF RunFields, RunsInProgress, Queued
<1>12. /\ run'.step = "ingest" /\ run'.venue = run.venue /\ run'.queue = queue /\ run'.got = got
       /\ run'.archived = run.archived /\ run'.limit = run.limit /\ run'.mode = run.mode
       /\ run'.id = run.id /\ run'.errors = run.errors
  BY <1>1, <1>2, <1>9 DEF RunFields, RunsInProgress
<1>13. Shapes'
  BY <1>1, <1>5, <1>11 DEF RunInv, Shapes
<1>14. QueueOfVenue'
  BY <1>1, <1>12 DEF QueueOfVenue
<1>15. Budget'
  <2>1. run.mode # "FIXTURE" => run.archived + run.got + Len(run.queue) <= run.limit
    BY <1>1 DEF RunInv, Budget
  <2>2. run.archived \in Nat /\ run.got \in Nat /\ Len(run.queue) \in Nat /\ run.limit \in Nat
    BY <1>2 DEF RunFields
  <2>3. run.archived + got + Len(queue) = run.archived + run.got + Len(run.queue)
    <3>1. PICK n \in Nat : n = Len(run.queue)
      BY <2>2
    <3>2. PICK k \in Int : k = Len(queue) /\ k = n - 1
      BY <1>6, <3>1
    <3>3. PICK a \in Nat : a = run.archived
      BY <2>2
    <3>4. PICK g \in Nat : g = run.got /\ got = g + 1
      BY <1>8, <2>2
    <3>5. a + got + k = a + g + n
      <4>1. k = n - 1
        BY <3>2
      <4>2. got = g + 1
        BY <3>4
      <4>. QED
        BY <4>1, <4>2
    <3>. QED
      BY <3>1, <3>2, <3>3, <3>4, <3>5, Zenon
  <2>4. run'.mode # "FIXTURE" => run'.archived + run'.got + Len(run'.queue) <= run'.limit
    BY <1>12, <2>1, <2>3, Zenon
  <2>. QED
    BY <1>12, <2>4 DEF Budget
<1>. QED
  BY <1>11, <1>12, <1>13, <1>14, <1>15 DEF RunInv

LEMMA FinishVenueKeeps ==
  ASSUME RunInv, FinishVenue
  PROVE  /\ RunInv' /\ run' \in RunsInProgress /\ run'.id = run.id /\ run'.step = "venue"
         /\ run'.errors = 0 => run.errors = 0 /\ run.failed = 0
<1>1. /\ run # None /\ run.step = "ingest" /\ run.queue = <<>> /\ run.venue \in VenueNames
      /\ UNCHANGED <<committed, collections>>
  BY DEF RunInv, QueueOfVenue, FinishVenue
<1>2. RunFields
  BY <1>1, FieldsOfRun DEF RunInv
<1>3. PICK archived \in Nat : archived = run.archived + run.got
  BY <1>2 DEF RunFields
<1>4. PICK errors \in Nat : errors = run.errors + run.failed
  BY <1>2 DEF RunFields
<1>5. run' = [run EXCEPT !.step = "venue", !.archived = archived, !.errors = errors,
                         !.got = 0, !.failed = 0]
  BY <1>3, <1>4, Zenon DEF FinishVenue
<1>6. run' \in RunsInProgress
  BY <1>2, <1>5 DEF RunFields, RunsInProgress
<1>7. /\ run'.step = "venue" /\ run'.queue = <<>> /\ run'.got = 0 /\ run'.failed = 0
      /\ run'.archived = archived /\ run'.limit = run.limit /\ run'.mode = run.mode
      /\ run'.id = run.id /\ run'.errors = errors
  BY <1>1, <1>2, <1>5 DEF RunFields, RunsInProgress
<1>8. db' \in CollectionTables
  <2>1. PICK row : row = [run |-> run.id, venue |-> run.venue, archived |-> run.got,
                          status |-> IF run.failed = 0 THEN "COMPLETED" ELSE "PARTIAL"]
    OBVIOUS
  <2>2. row \in IngestionRow
    BY <1>1, <1>2, <2>1 DEF IngestionRow, RunFields
  <2>3. PICK kept \in SUBSET CursorRow :
          kept = {c \in db.cursors : ~(c.endpoint \in CursorTypes /\ VenueOf(c.market) = run.venue)}
    BY DEF RunInv, Shapes, CollectionTables
  <2>4. PICK new \in SUBSET CursorRow :
          new = [market : {m \in db.mapped : VenueOf(m) = run.venue}, endpoint : CursorTypes, run : {run.id}]
    <3>1. db.mapped \subseteq CollectedMarkets
      BY DEF RunInv, Shapes, CollectionTables
    <3>2. CursorTypes \subseteq PublicEndpoints \cup {"UNKNOWN"} /\ run.id \in 1 .. MaxCollections
      BY <1>2 DEF CursorTypes, RunFields
    <3>. QED
      BY <3>1, <3>2 DEF CursorRow
  <2>5. db' = [db EXCEPT !.ingestions = db.ingestions \cup {row}, !.cursors = kept \cup new]
    BY <2>1, <2>3, <2>4, Zenon DEF FinishVenue
  <2>. QED
    BY <2>2, <2>5 DEF RunInv, Shapes, CollectionTables
<1>9. Shapes'
  BY <1>1, <1>6, <1>8 DEF RunInv, Shapes
<1>10. QueueOfVenue'
  BY <1>7 DEF QueueOfVenue
<1>11. Budget'
  <2>1. run.mode # "FIXTURE" => run.archived + run.got + Len(run.queue) <= run.limit
    BY <1>1 DEF RunInv, Budget
  <2>2. Len(run.queue) = 0 /\ Len(run'.queue) = 0
    BY <1>1, <1>7, EmptySeq
  <2>3. run'.mode # "FIXTURE" => run'.archived + run'.got + Len(run'.queue) <= run'.limit
    BY <1>2, <1>3, <1>7, <2>1, <2>2 DEF RunFields
  <2>. QED
    BY <1>7, <2>3 DEF Budget
<1>12. errors = 0 => run.errors = 0 /\ run.failed = 0
  BY <1>2, <1>4 DEF RunFields
<1>. QED
  BY <1>6, <1>7, <1>9, <1>10, <1>11, <1>12 DEF RunInv

LEMMA RunEndsKeeps ==
  ASSUME RunInv, FinishCollection \/ Abort
  PROVE  RunInv'
<1>1. run # None /\ run' = None /\ UNCHANGED collections
  BY DEF FinishCollection, Abort
<1>2. RunFields
  BY <1>1, FieldsOfRun DEF RunInv
<1>3. db' \in CollectionTables /\ committed' \in CollectionTables
  <2>1. CASE Abort
    BY <2>1 DEF RunInv, Shapes, Abort
  <2>2. CASE FinishCollection
    <3>1. PICK row : row = [id |-> run.id, archived |-> run.archived, errors |-> run.errors,
                            status |-> IF run.errors = 0 THEN "COMPLETED" ELSE "PARTIAL"]
      OBVIOUS
    <3>2. row \in CollectedRuns
      BY <1>2, <3>1 DEF CollectedRuns, RunFields
    <3>3. PICK runs \in SUBSET CollectedRuns : runs = {r \in db.runs : r.id # run.id} \cup {row}
      BY <3>2 DEF RunInv, Shapes, CollectionTables
    <3>4. db' = [db EXCEPT !.runs = runs] /\ committed' = db'
      BY <2>2, <3>1, <3>3, Zenon DEF FinishCollection
    <3>. QED
      BY <3>4 DEF RunInv, Shapes, CollectionTables
  <2>. QED BY <2>1, <2>2
<1>. QED
  BY <1>1, <1>3 DEF RunInv, Shapes, QueueOfVenue, Budget

LEMMA RunInvHolds == CollectionSpec => []RunInv
<1>1. CollectionInit => RunInv
  <2> SUFFICES ASSUME CollectionInit PROVE RunInv
    OBVIOUS
  <2>1. EmptyTables \in CollectionTables
    BY DEF EmptyTables, CollectionTables
  <2>. QED
    BY <2>1, CollectionAssumption
       DEF CollectionInit, RunInv, Shapes, QueueOfVenue, Budget
<1>2. RunInv /\ [CollectionNext]_collectionVars => RunInv'
  <2> SUFFICES ASSUME RunInv, [CollectionNext]_collectionVars PROVE RunInv'
    OBVIOUS
  <2>1. CASE \E q \in CollectionRequests : StartCollection(q)
    BY <2>1, StartKeeps
  <2>2. CASE StartVenue
    BY <2>2, StartVenueKeeps
  <2>3. CASE Collect
    BY <2>3, CollectKeeps
  <2>4. CASE CollectDone
    BY <2>4, CollectDoneKeeps
  <2>5. CASE \E ms \in SUBSET CollectedMarkets, fails \in BOOLEAN : IngestPayload(ms, fails)
    BY <2>5, IngestKeeps
  <2>6. CASE FinishVenue
    BY <2>6, FinishVenueKeeps
  <2>7. CASE FinishCollection \/ Abort
    BY <2>7, RunEndsKeeps
  <2>8. CASE UNCHANGED collectionVars
    BY <2>8 DEF collectionVars, RunInv, Shapes, QueueOfVenue, Budget
  <2>. QED
    BY <2>1, <2>2, <2>3, <2>4, <2>5, <2>6, <2>7, <2>8 DEF CollectionNext, CollectionStep
<1>. QED
  BY <1>1, <1>2, PTL DEF CollectionSpec

(* However many venues, endpoint types, mappings and tokens a public run   *)
(* goes through, it never archives more payloads than its limit            *)
(* (orchestrator.py:147, service.py:366).                                  *)
THEOREM LimitHolds == CollectionSpec => []PayloadLimitHolds
<1>1. RunInv => PayloadLimitHolds
  <2> SUFFICES ASSUME RunInv, run # None
               PROVE  /\ run.mode # "FIXTURE" => run.archived + run.got + Len(run.queue) <= run.limit
                      /\ run.left >= 0
    BY DEF PayloadLimitHolds
  <2>1. run.left \in Nat
    BY FieldsOfRun DEF RunInv, RunFields
  <2>. QED
    BY <2>1 DEF RunInv, Budget
<1>. QED
  BY <1>1, RunInvHolds, PTL

-----------------------------------------------------------------------------
(* The tables: every step keeps them whole.                                *)
TableInv ==
  OneRunning /\ CursorsInStep /\ \A t \in {db, committed} : WholeRuns(t) /\ MappedRows(t)

LEMMA FetchingKeepsTables ==
  ASSUME RunInv, TableInv, StartVenue \/ Collect \/ CollectDone
  PROVE  TableInv'
<1>1. /\ run # None /\ run.step # "ingest" /\ UNCHANGED <<db, committed, collections>>
  BY DEF StartVenue, Collect, CollectDone
<1>2. Goes
  BY StartVenueKeeps, CollectKeeps, CollectDoneKeeps
<1>3. run' # None /\ run'.id = run.id /\ (run'.errors = 0 => run.errors = 0)
  BY <1>2, RunIsNotNone DEF Goes
<1>4. OneRunning'
  BY <1>1, <1>3 DEF TableInv, OneRunning
<1>5. CursorsInStep'
  BY <1>1 DEF TableInv, CursorsInStep, CursorsOf, Ingesting
<1>. QED
  BY <1>1, <1>4, <1>5 DEF TableInv, WholeRuns, MappedRows

LEMMA StartKeepsTables ==
  ASSUME RunInv, TableInv, NEW q \in CollectionRequests, StartCollection(q)
  PROVE  TableInv'
<1>1. run = None /\ collections' = collections + 1 /\ UNCHANGED committed /\ db = committed
  BY DEF StartCollection, TableInv, OneRunning
<1>2. collections \in Nat /\ db \in CollectionTables /\ \A r \in db.runs : r.id \in Nat
  BY CollectionAssumption DEF RunInv, Shapes, CollectionTables, CollectedRuns
<1>3. run' # None
  BY StartKeeps, RunIsNotNone
<1>4. /\ run'.id = collections + 1 /\ run'.step = "venue" /\ run'.errors = 0
  BY Zenon DEF StartCollection
<1>5. PICK row : row = [id |-> collections + 1, status |-> "RUNNING", archived |-> 0, errors |-> 0]
  OBVIOUS
<1>6. db' = [db EXCEPT !.runs = db.runs \cup {row}]
  BY <1>5, Zenon DEF StartCollection
<1>7. /\ db'.runs = db.runs \cup {row} /\ row.id = collections + 1 /\ row.status = "RUNNING"
      /\ db'.ingestions = db.ingestions /\ db'.cursors = db.cursors /\ db'.mapped = db.mapped
      /\ db'.books = db.books /\ db'.prices = db.prices
  BY <1>2, <1>5, <1>6 DEF CollectionTables
<1>8. \A r \in db.runs : r.id <= collections
  BY DEF TableInv, WholeRuns
<1>9. WholeRuns(db)'
  <2>1. \A i \in db.ingestions : i.run # collections + 1
    BY <1>2, <1>8 DEF TableInv, WholeRuns
  <2>. QED
    BY <1>1, <1>2, <1>7, <1>8, <2>1 DEF TableInv, WholeRuns
<1>10. WholeRuns(committed)'
  <2>1. \A r \in committed.runs : r.id <= collections'
    BY <1>1, <1>2, <1>8
  <2>. QED
    BY <1>1, <2>1 DEF TableInv, WholeRuns
<1>11. MappedRows(db)' /\ MappedRows(committed)'
  BY <1>1, <1>7 DEF TableInv, MappedRows
<1>12. OneRunning'
  <2>1. \A r \in committed.runs : r.id # run'.id
    BY <1>1, <1>2, <1>4, <1>8
  <2>2. \A i \in db'.ingestions : i.run # run'.id
    BY <1>2, <1>4, <1>7, <1>8 DEF TableInv, WholeRuns
  <2>3. \A r \in db'.runs : (r.status = "RUNNING") <=> (r.id = run'.id)
    BY <1>1, <1>4, <1>7, <2>1 DEF TableInv, OneRunning
  <2>. QED
    BY <1>1, <1>3, <1>4, <1>7, <2>1, <2>2, <2>3 DEF TableInv, OneRunning
<1>13. CursorsInStep'
  BY <1>1, <1>7 DEF TableInv, CursorsInStep, CursorsOf, Ingesting
<1>. QED
  BY <1>9, <1>10, <1>11, <1>12, <1>13 DEF TableInv

LEMMA IngestKeepsTables ==
  ASSUME RunInv, TableInv, NEW ms \in SUBSET CollectedMarkets, NEW fails \in BOOLEAN,
         IngestPayload(ms, fails)
  PROVE  TableInv'
<1>1. /\ run # None /\ run.step = "ingest" /\ run.queue # <<>> /\ run.venue \in VenueNames
      /\ run.queue \in Seq(Payloads(run.venue)) /\ UNCHANGED <<committed, collections>>
  BY DEF RunInv, QueueOfVenue, IngestPayload
<1>2. PICK p \in Payloads(run.venue) : p = Head(run.queue)
  BY <1>1, HeadTailProperties
<1>3. p.endpoint \in PublicEndpoints /\ p.market \in Own(run.venue) \cup {None}
  BY DEF Payloads, Own
<1>4. \A m \in ms : VenueOf(m) = run.venue
  <2>1. IF p.market = None THEN \A m \in ms : VenueOf(m) = run.venue
        ELSE ms \subseteq {p.market}
    BY <1>2, Zenon DEF IngestPayload
  <2>2. \A m \in Own(run.venue) : VenueOf(m) = run.venue
    BY <1>1, MarketsOfVenue
  <2>. QED
    BY <1>3, <2>1, <2>2
<1>5. db \in CollectionTables
  BY DEF RunInv, Shapes
<1>6. /\ db'.runs = db.runs /\ db'.ingestions = db.ingestions /\ db'.cursors = db.cursors
      /\ db.mapped \subseteq db'.mapped /\ db'.mapped \subseteq db.mapped \cup ms
      /\ db'.books \subseteq db.books \cup db.mapped /\ db'.prices \subseteq db.prices \cup db.mapped
  <2>1. db' = Upsert(p.endpoint, ms)
    BY <1>2, Zenon DEF IngestPayload
  <2>2. \/ db' = [db EXCEPT !.mapped = @ \cup ms, !.tokens = @ \cup {m \in ms : VenueOf(m) = "polymarket"}]
        \/ db' = [db EXCEPT !.books = @ \cup (ms \cap db.mapped)]
        \/ db' = [db EXCEPT !.prices = @ \cup (ms \cap db.mapped)]
    BY <1>3, <2>1 DEF Upsert, PublicEndpoints
  <2>. QED
    BY <1>5, <2>2 DEF CollectionTables
<1>7. /\ run' # None /\ run'.id = run.id /\ run'.errors = run.errors
      /\ run'.step = "ingest" /\ run'.venue = run.venue
  BY IngestKeeps, RunIsNotNone
<1>8. WholeRuns(db)' /\ WholeRuns(committed)'
  BY <1>1, <1>6 DEF TableInv, WholeRuns
<1>9. MappedRows(db)' /\ MappedRows(committed)'
  BY <1>1, <1>6 DEF TableInv, MappedRows
<1>10. OneRunning'
  BY <1>1, <1>6, <1>7 DEF TableInv, OneRunning
<1>11. CursorsInStep'
  <2> SUFFICES ASSUME NEW v \in VenueNames
               PROVE  CursorsOf(committed, v)' /\ (~Ingesting(v)' => CursorsOf(db, v)')
    BY DEF CursorsInStep
  <2>1. CursorsOf(committed, v)'
    BY <1>1 DEF TableInv, CursorsInStep, CursorsOf
  <2>2. CASE v = run.venue
    BY <1>7, <2>1, <2>2 DEF Ingesting
  <2>3. CASE v # run.venue
    <3>1. CursorsOf(db, v)
      BY <2>3 DEF TableInv, CursorsInStep, Ingesting
    <3>2. CursorsOf(db, v)'
      BY <1>4, <1>6, <2>3, <3>1 DEF CursorsOf
    <3>. QED
      BY <2>1, <3>2
  <2>. QED
    BY <2>2, <2>3
<1>. QED
  BY <1>8, <1>9, <1>10, <1>11 DEF TableInv

LEMMA FinishVenueKeepsTables ==
  ASSUME RunInv, TableInv, FinishVenue
  PROVE  TableInv'
<1>1. /\ run # None /\ run.step = "ingest" /\ run.venue \in VenueNames
      /\ UNCHANGED <<committed, collections>>
  BY DEF RunInv, QueueOfVenue, FinishVenue
<1>2. db \in CollectionTables
  BY DEF RunInv, Shapes
<1>3. /\ run' # None /\ run'.id = run.id /\ run'.step = "venue"
      /\ run'.errors = 0 => run.errors = 0 /\ run.failed = 0
  BY FinishVenueKeeps, RunIsNotNone
<1>4. PICK row : row = [run |-> run.id, venue |-> run.venue, archived |-> run.got,
                        status |-> IF run.failed = 0 THEN "COMPLETED" ELSE "PARTIAL"]
  OBVIOUS
<1>5. PICK kept : kept = {c \in db.cursors : ~(c.endpoint \in CursorTypes /\ VenueOf(c.market) = run.venue)}
  OBVIOUS
<1>6. PICK new : new = [market : {m \in db.mapped : VenueOf(m) = run.venue},
                        endpoint : CursorTypes, run : {run.id}]
  OBVIOUS
<1>7. db' = [db EXCEPT !.ingestions = db.ingestions \cup {row}, !.cursors = kept \cup new]
  BY <1>4, <1>5, <1>6, Zenon DEF FinishVenue
<1>8. /\ db'.runs = db.runs /\ db'.ingestions = db.ingestions \cup {row}
      /\ db'.cursors = kept \cup new /\ db'.mapped = db.mapped
      /\ db'.books = db.books /\ db'.prices = db.prices
  BY <1>2, <1>7 DEF CollectionTables
<1>9. /\ row.run = run.id /\ row.venue = run.venue /\ (run.failed = 0 => row.status = "COMPLETED")
  BY <1>4
<1>10. \A c \in new : c.run = run.id /\ c.endpoint \in CursorTypes /\ VenueOf(c.market) = run.venue
  BY <1>6
<1>11. \A c \in kept : c \in db.cursors /\ ~(c.endpoint \in CursorTypes /\ VenueOf(c.market) = run.venue)
  BY <1>5
<1>12. PICK e : e \in CursorTypes
  BY DEF CursorTypes
<1>13. \A m \in db.mapped : VenueOf(m) = run.venue => \E c \in new : c.market = m
  <2> SUFFICES ASSUME NEW m \in db.mapped, VenueOf(m) = run.venue
               PROVE  \E c \in new : c.market = m
    OBVIOUS
  <2>1. PICK c : c = [market |-> m, endpoint |-> e, run |-> run.id]
    OBVIOUS
  <2>2. c \in new /\ c.market = m
    BY <1>6, <1>12, <2>1
  <2>. QED
    BY <2>2
<1>14. WholeRuns(db)' /\ WholeRuns(committed)'
  <2>1. \E r \in db.runs : r.id = run.id
    BY <1>1 DEF TableInv, OneRunning
  <2>2. \A r \in db.runs : r.id = run.id => r.status = "RUNNING"
    BY <1>1 DEF TableInv, OneRunning
  <2>3. \A i \in db'.ingestions : \E r \in db'.runs : r.id = i.run
    BY <1>8, <1>9, <2>1 DEF TableInv, WholeRuns
  <2>4. \A c \in db'.cursors : \E r \in db'.runs : r.id = c.run
    BY <1>8, <1>10, <1>11, <2>1 DEF TableInv, WholeRuns
  <2>5. \A r \in db'.runs, i \in db'.ingestions :
          i.run = r.id /\ r.status = "COMPLETED" => i.status = "COMPLETED"
    BY <1>8, <1>9, <2>2 DEF TableInv, WholeRuns
  <2>6. WholeRuns(db)'
    BY <1>1, <1>8, <2>3, <2>4, <2>5 DEF TableInv, WholeRuns
  <2>7. WholeRuns(committed)'
    BY <1>1 DEF TableInv, WholeRuns
  <2>. QED
    BY <2>6, <2>7
<1>15. MappedRows(db)' /\ MappedRows(committed)'
  <2>1. ASSUME NEW c \in kept \cup new, NEW d \in kept \cup new,
               c.endpoint = d.endpoint, VenueOf(c.market) = VenueOf(d.market)
        PROVE  c.run = d.run
    BY <1>10, <1>11, <2>1 DEF TableInv, MappedRows
  <2>2. MappedRows(db)'
    BY <1>8, <2>1 DEF TableInv, MappedRows
  <2>3. MappedRows(committed)'
    BY <1>1 DEF TableInv, MappedRows
  <2>. QED
    BY <2>2, <2>3
<1>16. OneRunning'
  <2>1. run'.errors = 0 => \A i \in db'.ingestions : i.run = run'.id => i.status = "COMPLETED"
    BY <1>1, <1>3, <1>8, <1>9 DEF TableInv, OneRunning
  <2>. QED
    BY <1>1, <1>3, <1>8, <2>1 DEF TableInv, OneRunning
<1>17. CursorsInStep'
  <2> SUFFICES ASSUME NEW v \in VenueNames
               PROVE  CursorsOf(committed, v)' /\ CursorsOf(db, v)'
    BY DEF CursorsInStep
  <2>1. CursorsOf(committed, v)'
    BY <1>1 DEF TableInv, CursorsInStep, CursorsOf
  <2>2. CASE v = run.venue
    BY <1>8, <1>13, <2>1, <2>2 DEF CursorsOf
  <2>3. CASE v # run.venue
    <3>1. CursorsOf(db, v)
      BY <2>3 DEF TableInv, CursorsInStep, Ingesting
    <3>2. ASSUME NEW i \in db'.ingestions, NEW m \in db.mapped, i.venue = v, VenueOf(m) = v
          PROVE  \E c \in db'.cursors : c.market = m
      <4>1. i \in db.ingestions
        BY <1>8, <1>9, <2>3, <3>2
      <4>2. PICK c \in db.cursors : c.market = m
        BY <3>1, <3>2, <4>1 DEF CursorsOf
      <4>3. c \in kept
        BY <1>5, <2>3, <3>2, <4>2
      <4>. QED
        BY <1>8, <4>2, <4>3
    <3>. QED
      BY <1>8, <2>1, <3>2 DEF CursorsOf
  <2>. QED
    BY <2>2, <2>3
<1>. QED
  BY <1>14, <1>15, <1>16, <1>17 DEF TableInv

LEMMA RunEndsKeepsTables ==
  ASSUME RunInv, TableInv, FinishCollection \/ Abort
  PROVE  TableInv'
<1>1. run # None /\ run' = None /\ UNCHANGED collections /\ db' = committed'
  BY DEF FinishCollection, Abort
<1>2. CASE Abort
  <2>1. db' = committed /\ committed' = committed
    BY <1>2 DEF Abort
  <2>. QED
    BY <1>1, <2>1 DEF TableInv, OneRunning, CursorsInStep, CursorsOf, WholeRuns, MappedRows
<1>3. CASE FinishCollection
  <2>1. run.step = "venue"
    BY <1>3 DEF FinishCollection
  <2>2. db \in CollectionTables /\ run.errors \in Nat
    BY <1>1, FieldsOfRun DEF RunInv, Shapes, RunFields
  <2>3. PICK row : row = [id |-> run.id, archived |-> run.archived, errors |-> run.errors,
                          status |-> IF run.errors = 0 THEN "COMPLETED" ELSE "PARTIAL"]
    OBVIOUS
  <2>4. PICK runs : runs = {r \in db.runs : r.id # run.id} \cup {row}
    OBVIOUS
  <2>5. db' = [db EXCEPT !.runs = runs]
    BY <1>3, <2>3, <2>4, Zenon DEF FinishCollection
  <2>6. /\ db'.runs = runs /\ db'.ingestions = db.ingestions /\ db'.cursors = db.cursors
        /\ db'.mapped = db.mapped /\ db'.books = db.books /\ db'.prices = db.prices
    BY <2>2, <2>5 DEF CollectionTables
  <2>7. /\ row.id = run.id /\ row.status # "RUNNING" /\ (row.status = "COMPLETED" => run.errors = 0)
    BY <2>3
  <2>8. \A r \in runs : r = row \/ (r \in db.runs /\ r.id # run.id)
    BY <2>4
  <2>9. \A r \in db.runs : \E s \in runs : s.id = r.id
    BY <2>4, <2>7
  <2>10. WholeRuns(db)'
    <3>1. \A r1, r2 \in runs : r1.id = r2.id => r1 = r2
      BY <2>7, <2>8 DEF TableInv, WholeRuns
    <3>2. \A r \in runs : r.id <= collections
      BY <1>1, <2>7, <2>8 DEF TableInv, WholeRuns, OneRunning
    <3>3. \A r \in runs, i \in db.ingestions :
            i.run = r.id /\ r.status = "COMPLETED" => i.status = "COMPLETED"
      BY <1>1, <2>7, <2>8 DEF TableInv, WholeRuns, OneRunning
    <3>4. (\A i \in db.ingestions : \E r \in runs : r.id = i.run)
          /\ (\A c \in db.cursors : \E r \in runs : r.id = c.run)
      BY <2>9 DEF TableInv, WholeRuns
    <3>. QED
      BY <1>1, <2>6, <3>1, <3>2, <3>3, <3>4 DEF WholeRuns
  <2>11. MappedRows(db)'
    BY <2>6 DEF TableInv, MappedRows
  <2>12. \A r \in db'.runs : r.status # "RUNNING"
    BY <1>1, <2>6, <2>7, <2>8 DEF TableInv, OneRunning
  <2>13. \A v \in VenueNames : CursorsOf(db, v)'
    BY <2>1, <2>6 DEF TableInv, CursorsInStep, CursorsOf, Ingesting
  <2>14. OneRunning'
    BY <1>1, <2>12 DEF OneRunning
  <2>15. CursorsInStep'
    BY <1>1, <2>13 DEF CursorsInStep, CursorsOf
  <2>16. WholeRuns(committed)' /\ MappedRows(committed)'
    BY <1>1, <2>10, <2>11 DEF WholeRuns, MappedRows
  <2>. QED
    BY <2>10, <2>11, <2>14, <2>15, <2>16 DEF TableInv
<1>. QED
  BY <1>2, <1>3

LEMMA CollectionInvHolds == CollectionSpec => [](RunInv /\ TableInv)
<1>1. CollectionInit => TableInv
  BY DEF CollectionInit, EmptyTables, TableInv, OneRunning, CursorsInStep, CursorsOf,
         WholeRuns, MappedRows
<1>2. RunInv /\ TableInv /\ [CollectionNext]_collectionVars => TableInv'
  <2> SUFFICES ASSUME RunInv, TableInv, [CollectionNext]_collectionVars PROVE TableInv'
    OBVIOUS
  <2>1. CASE \E q \in CollectionRequests : StartCollection(q)
    BY <2>1, StartKeepsTables
  <2>2. CASE StartVenue \/ Collect \/ CollectDone
    BY <2>2, FetchingKeepsTables
  <2>3. CASE \E ms \in SUBSET CollectedMarkets, fails \in BOOLEAN : IngestPayload(ms, fails)
    BY <2>3, IngestKeepsTables
  <2>4. CASE FinishVenue
    BY <2>4, FinishVenueKeepsTables
  <2>5. CASE FinishCollection \/ Abort
    BY <2>5, RunEndsKeepsTables
  <2>6. CASE UNCHANGED collectionVars
    BY <2>6 DEF collectionVars, TableInv, OneRunning, CursorsInStep, CursorsOf, Ingesting,
                WholeRuns, MappedRows
  <2>. QED
    BY <2>1, <2>2, <2>3, <2>4, <2>5, <2>6 DEF CollectionNext, CollectionStep
<1>. QED
  BY <1>1, <1>2, RunInvHolds, PTL DEF CollectionSpec

(* A collection run is all or nothing: whatever is interrupted, others see *)
(* its rows, ingestion runs and cursors together and finished, or none of  *)
(* them (orchestrator.py:129).                                             *)
THEOREM RunsAreAtomic == CollectionSpec => []CollectionIsAtomic
<1>1. RunInv /\ TableInv => CollectionIsAtomic
  <2> SUFFICES ASSUME RunInv, TableInv PROVE CollectionIsAtomic
    OBVIOUS
  <2>1. CollectionTypeOK
    BY DEF RunInv, Shapes, CollectionTables, TableInv, WholeRuns, CollectionTypeOK
  <2>2. CommittedRunsAreFinal
    BY DEF TableInv, OneRunning, WholeRuns, CommittedRunsAreFinal
  <2>3. NothingOfAbortedRuns
    BY DEF TableInv, OneRunning, WholeRuns, NothingOfAbortedRuns
  <2>4. CursorsFollowMappings
    <3>1. ASSUME NEW i \in committed.ingestions, NEW m \in committed.mapped, VenueOf(m) = i.venue
          PROVE  \E c \in committed.cursors : c.market = m
      <4>1. i.venue \in VenueNames
        BY DEF RunInv, Shapes, CollectionTables, IngestionRow
      <4>2. CursorsOf(committed, i.venue)
        BY <4>1 DEF TableInv, CursorsInStep
      <4>. QED
        BY <3>1, <4>2 DEF CursorsOf
    <3>. QED
      BY <3>1 DEF TableInv, MappedRows, CursorsFollowMappings
  <2>. QED
    BY <2>1, <2>2, <2>3, <2>4 DEF CollectionIsAtomic
<1>. QED
  BY <1>1, CollectionInvHolds, PTL
=============================================================================
