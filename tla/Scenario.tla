------------------------------ MODULE Scenario ------------------------------
(***************************************************************************)
(* Scenario context (scenario/): seed bundles of what is known of a market *)
(* at a time, artifacts imported from fixtures or by hand, the feature     *)
(* snapshots they are normalised to, and import runs.  Ids are hashes, so  *)
(* a row is stored under what its id hashes; `n' numbers the rows and      *)
(* `gen' is their generated_at.                                            *)
(***************************************************************************)
EXTENDS Evidence

CONSTANTS
  Known,        \* markets with a row in the market table
  Payloads,     \* [payload -> [market, scores]], the market None when it names none
  Fixtures,     \* the payloads of the fixture directory, in the order of their paths
  MaxScenarioCalls    \* bound

VARIABLES
  seeds,        \* scenario_seed_bundles
  artifacts,    \* scenario_artifacts
  snapshots,    \* scenario_feature_snapshots
  imports       \* scenario_runs, in order, and the calls between them
scenarioVars == <<evidenceVars, seeds, artifacts, snapshots, imports>>

-----------------------------------------------------------------------------
\* the rest of the desk stores a row, late for its time or not
StoreRow(kind, ms, t, content) ==
  /\ KnowRow(kind, ms, t, content)
  /\ UNCHANGED <<seeds, artifacts, snapshots, imports>>

-----------------------------------------------------------------------------
\* a seed's id hashes its market, its time and every row it describes
SeedContext(m, t) ==
  ({Latest(kind, m, t) : kind \in {"rule", "quality", "integrity", "verdict"}}
     \cup AsOf("divergence", m, t)) \ {None}

SeedOf(m, t) == [market |-> m, at |-> t, context |-> SeedContext(m, t)]

Seedable(m) == m \in Known

ArtifactKey(a) == [payload |-> a.payload, source |-> a.source, market |-> a.market, at |-> a.at]
Artifact(payload, source, m, t, seed) ==
  [payload |-> payload, source |-> source, market |-> m, at |-> t, seed |-> seed]

\* the artifact with this payload, of whatever market and time: the least id, any of them
SamePayload(payload, stored) == {a \in stored : a.payload = payload}

Answer(a, stored, force) ==
  LET old == SamePayload(a.payload, stored)
  IN  IF force \/ old = {} THEN a ELSE CHOOSE b \in old : TRUE

StoredAfter(a, stored) == {b \in stored : ArtifactKey(b) # ArtifactKey(a)} \cup {a}

\* a session: what one call has written so far
Opened ==
  [seeds |-> seeds, artifacts |-> artifacts, snapshots |-> snapshots, stamp |-> stamp,
   answers |-> <<>>, features |-> {}, errors |-> 0]

WithArtifact(s, a, force) ==
  LET answer == Answer(a, s.artifacts, force)
  IN  [s EXCEPT !.artifacts = StoredAfter(answer, @), !.answers = Append(@, ArtifactKey(answer))]
WithSeed(s, m, t) == [s EXCEPT !.seeds = @ \cup {SeedOf(m, t)}]

\* _save_artifact_input: the seed is built even when the artifact is already there
FixtureImported(s, payload, t, force) ==
  LET m == Payloads[payload].market
  IN  IF m = None
        THEN WithArtifact(s, Artifact(payload, "FIXTURE", None, t, None), force)
        ELSE WithArtifact(WithSeed(s, m, t), Artifact(payload, "FIXTURE", m, t, SeedOf(m, t)), force)

ChosenFixtures(ms) == SelectSeq(Fixtures, LAMBDA p : ms = {} \/ Payloads[p].market \in ms)
FixturesOfUnknown(ms) ==
  \E p \in Range(ChosenFixtures(ms)) : Payloads[p].market # None /\ ~Seedable(Payloads[p].market)
FixturesImported(s, ms, t, force) ==
  FoldLeft(LAMBDA acc, p : FixtureImported(acc, p, t, force), s, ChosenFixtures(ms))

ManualMarket(payload, m) == IF m # None THEN m ELSE Payloads[payload].market
ManualImported(s, payload, m, seed, t, force) ==
  WithArtifact(s, Artifact(payload, "MANUAL_IMPORT", ManualMarket(payload, m), t, seed), force)

-----------------------------------------------------------------------------
\* normalizers.py: the market of an artifact, or of its seed
FeatureMarket(a) ==
  IF a.market # None THEN a.market ELSE IF a.seed # None THEN a.seed.market ELSE None
\* normalize_mirofish_style_artifact: everything else is read from the artifact's payload
FeatureSnapshot(a, n, gen) ==
  [artifact |-> ArtifactKey(a), seed |-> a.seed, market |-> FeatureMarket(a), at |-> a.at,
   n |-> n, gen |-> gen]
FeatureKey(f) == [artifact |-> f.artifact, seed |-> f.seed, market |-> f.market]

Normalised(s, key, force) ==
  LET a == CHOOSE b \in s.artifacts : ArtifactKey(b) = key
      feature == [artifact |-> key, seed |-> a.seed, market |-> FeatureMarket(a)]
      old == {f \in s.snapshots : FeatureKey(f) = feature}
      n == IF old = {} THEN s.stamp + 1 ELSE (CHOOSE f \in old : TRUE).n
      new == FeatureSnapshot(a, n, s.stamp + 1)
  IN  IF feature.market = None THEN [s EXCEPT !.errors = @ + 1]
      ELSE IF old # {} /\ ~force THEN [s EXCEPT !.features = @ \cup {feature}]
      ELSE [s EXCEPT !.snapshots = (@ \ old) \cup {new}, !.stamp = @ + 1,
                     !.features = @ \cup {feature}]
AllNormalised(s, keys, force) ==
  FoldLeft(LAMBDA acc, key : Normalised(acc, key, force), s, keys)

\* a score outside 0..100 is dropped
ScoreOf(payload, name) ==
  LET value == Payloads[payload].scores[name]
  IN  IF value # None /\ value \in 0 .. 100 THEN value ELSE None
AtLeast(value, bound) == value # None /\ value >= bound
RiskCodes(payload) ==
  (IF AtLeast(ScoreOf(payload, "uncertainty"), 70) THEN {"SCENARIO_HIGH_UNCERTAINTY"} ELSE {})
  \cup (IF AtLeast(ScoreOf(payload, "polarization"), 70) THEN {"SCENARIO_HIGH_POLARIZATION"} ELSE {})
  \cup (IF AtLeast(ScoreOf(payload, "narrative"), 70) \/ AtLeast(ScoreOf(payload, "shock"), 70)
        THEN {"SCENARIO_HIGH_NARRATIVE_RISK"} ELSE {})

\* the newest available feature, the last generated among equals
LatestFeature(m, t) ==
  LET S == {f \in snapshots : f.market = m /\ f.at <= t}
  IN  IF S = {} THEN None
      ELSE CHOOSE f \in S : \A g \in S \ {f} : g.at < f.at \/ (g.at = f.at /\ g.gen < f.gen)

-----------------------------------------------------------------------------
Closed(s, record) ==
  /\ Len(imports) < MaxScenarioCalls
  /\ seeds' = s.seeds /\ artifacts' = s.artifacts /\ snapshots' = s.snapshots /\ stamp' = s.stamp
  /\ imports' = Append(imports, record)
  /\ UNCHANGED rows
Call(name) == [mode |-> name, status |-> "CALL", at |-> None, markets |-> {}, force |-> FALSE,
               features |-> {}, errors |-> 0]

BuildSeed(m, t) == Seedable(m) /\ Closed(WithSeed(Opened, m, t), Call("SEED"))

\* create_scenario_spec: of its seed's market and time; nothing reads it
CreateSpec(seed) ==
  /\ seed \in seeds
  /\ Closed(Opened, [Call("SPEC") EXCEPT !.at = seed.at, !.markets = {seed.market}])

\* an unchecked seed may be of another market or time
ImportManual(payload, m, seed, t, force) ==
  Closed(ManualImported(Opened, payload, m, seed, t, force), Call("MANUAL"))

NormaliseArtifact(a, force) ==
  FeatureMarket(a) # None /\ Closed(Normalised(Opened, ArtifactKey(a), force), Call("NORMALIZE"))

\* the newest `limit' of them
Newer(S, limit) ==
  IF Cardinality(S) <= limit THEN S
  ELSE CHOOSE T \in SUBSET S : Cardinality(T) = limit /\ \A a \in T, b \in S \ T : b.at <= a.at

First(seq, limit) == SubSeq(seq, 1, Lesser(limit, Len(seq)))

\* the four modes of _run_scenario_import
SeedsBuilt(s, ms, t, limit) ==
  FoldLeft(LAMBDA acc, m : IF Seedable(m) THEN WithSeed(acc, m, t) ELSE [acc EXCEPT !.errors = @ + 1],
           s, First(ms, limit))
FixturesRun(s, ms, t, limit, force) ==
  LET imported == FixturesImported(s, ms, t, force)
  IN  AllNormalised(imported, First(imported.answers, limit), force)
ManualRun(s, payloads, t, limit, force) ==
  FoldLeft(LAMBDA acc, p :
             LET imported == ManualImported(acc, p, None, None, t, force)
             IN  Normalised(imported, Last(imported.answers), force),
           s, First(payloads, limit))
ExistingRun(s, ms, t, limit, force) ==
  LET m == IF ms = <<>> THEN None ELSE ms[1]
      found == {a \in artifacts : (m = None \/ a.market = m) /\ a.at <= t}
  IN  AllNormalised(s, SetToSeq({ArtifactKey(a) : a \in Newer(found, limit)}), force)

Ran(mode, ms, t, force, s) ==
  [mode |-> mode, status |-> IF s.errors = 0 THEN "COMPLETED" ELSE "PARTIAL", at |-> t,
   markets |-> ms, force |-> force, features |-> s.features, errors |-> s.errors]

\* a fixture of an unknown market fails the run, and with it everything it wrote
Imported(s, mode, ms, t, limit, force) ==
  CASE mode = "BUILD_SEEDS_ONLY" -> SeedsBuilt(s, ms, t, limit)
    [] mode = "IMPORT_FIXTURES" -> FixturesRun(s, Range(ms), t, limit, force)
    [] mode = "IMPORT_MANUAL_ARTIFACTS" -> ManualRun(s, Fixtures, t, limit, force)
    [] OTHER -> ExistingRun(s, ms, t, limit, force)
CloseRun(s, mode, ms, t, force) == Closed(s, Ran(mode, ms, t, force, s))
RunImport(mode, ms, t, limit, force) ==
  /\ mode = "IMPORT_FIXTURES" => ~FixturesOfUnknown(Range(ms))
  /\ CloseRun(Imported(Opened, mode, ms, t, limit, force), mode, Range(ms), t, force)

\* the shape of the rows
SeedRow == [market : Known, at : Times, context : SUBSET rows]
ArtifactRow ==
  [payload : DOMAIN Payloads, source : {"FIXTURE", "MANUAL_IMPORT"}, market : Known \cup {None}, at : Times,
   seed : seeds \cup {None}]
SnapshotRow ==
  [artifact : {ArtifactKey(a) : a \in artifacts}, seed : seeds \cup {None}, market : Known, at : Times,
   n : 1 .. stamp, gen : 1 .. stamp]
ImportRow ==
  [mode : {"BUILD_SEEDS_ONLY", "IMPORT_FIXTURES", "IMPORT_MANUAL_ARTIFACTS", "NORMALIZE_EXISTING",
           "SEED", "MANUAL", "NORMALIZE", "SPEC"},
   status : {"COMPLETED", "PARTIAL", "CALL"}, at : Times \cup {None}, markets : SUBSET Known, force : BOOLEAN,
   features : SUBSET {FeatureKey(f) : f \in snapshots}, errors : 0 .. Len(Fixtures)]

\* a spec is of a stored seed, an artifact's seed is stored, a feature rests on a stored artifact
SpecRow(call) == \E seed \in seeds : seed.at = call.at /\ call.markets = {seed.market}
ArtifactTable == \A a, b \in artifacts : ArtifactKey(a) = ArtifactKey(b) => a = b
SnapshotTable == \A f, g \in snapshots : FeatureKey(f) = FeatureKey(g) \/ f.n = g.n => f = g
Snapshot(f) == \E a \in artifacts : ArtifactKey(a) = f.artifact /\ a.at = f.at
Run(r) ==
  /\ r.status = "PARTIAL" <=> r.errors > 0
  /\ r.status = "CALL" => r.features = {}
  /\ r.mode = "BUILD_SEEDS_ONLY" => r.features = {}

ScenarioInit ==
  rows = {} /\ stamp = 0 /\ seeds = {} /\ artifacts = {} /\ snapshots = {} /\ imports = <<>>

-----------------------------------------------------------------------------
(* What a forced fixture run answers with is what it was asked for: the    *)
(* features of the markets named, as of the run's time.  An unforced run   *)
(* may be handed artifacts of other markets and times, found by payload.   *)
ForcedImportsAnswerTheRequest ==
  \A i \in DOMAIN imports :
    LET run == imports[i]
    IN  run.mode = "IMPORT_FIXTURES" /\ run.force =>
          \A f \in run.features :
            f.artifact.at = run.at /\ (run.markets # {} => f.market \in run.markets)

(* A feature from a fixture rests on a seed of its own market and of its   *)
(* own time, through every import, forced replacement and normalisation.   *)
FixtureFeaturesMatchSeeds ==
  \A f \in snapshots :
    f.artifact.source = "FIXTURE" /\ f.seed # None =>
      f.seed.market = f.market /\ f.seed.at = f.at
=============================================================================
