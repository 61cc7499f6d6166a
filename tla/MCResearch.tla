------------------------------ MODULE MCResearch ------------------------------
(***************************************************************************)
(* Scenario context, strategy research and replay over shared rows.  A     *)
(* behaviour is of one part, chosen at the start.                          *)
(***************************************************************************)
EXTENDS Replay

CONSTANTS m1, m2

VARIABLE part
vars == <<part, scenarioVars, researchVars, replayVars>>

-----------------------------------------------------------------------------
Scores(confidence, uncertainty, polarization, narrative, shock) ==
  [confidence |-> confidence, uncertainty |-> uncertainty, polarization |-> polarization,
   narrative |-> narrative, shock |-> shock]
MCPayloads ==
  [calm |-> [market |-> m1, scores |-> Scores(60, 20, 20, 20, 20)],
   split |-> [market |-> m1, scores |-> Scores(60, 20, 80, 20, 20)],
   wild |-> [market |-> m2, scores |-> Scores(None, 150, None, 75, None)],
   loose |-> [market |-> None, scores |-> Scores(50, None, None, None, None)]]
MCFixtures == <<"calm", "loose", "wild">>
MCLives == m1 :> [from |-> 1, to |-> 2] @@ m2 :> [from |-> 2, to |-> 2]
MCIdOrder == [n \in 1 .. 40 |-> (17 * n) % 41]
MCStrategies == <<"baseline", "integrity">>

Assessed(hint, risk) == [hint |-> hint, risk |-> risk]
Diverging(status, lower) == [status |-> status, lower |-> lower]
Analysed(risk) == [risk |-> risk, analyses |-> 1]
Verdict(action) == [action |-> action, risk |-> 20, inputs |-> {}]
Assessments == {Assessed("NO_TRADE", 95), Assessed("MANUAL_REVIEW", 50), Assessed("PASSIVE_ONLY", 70),
                Assessed("NONE", 0)}
Divergences == {Diverging("DO_NOT_COMPARE", None), Diverging("WATCH", m1),
                Diverging("MATERIAL_DIVERGENCE", None)}

\* imports of every mode over what earlier ones left
Importing ==
  \/ Len(imports) = 1 /\ StoreRow("rule", {m1}, 1, Analysed(20))
  \/ \E m \in {m1, m2}, t \in Times : BuildSeed(m, t)
  \/ \E seed \in seeds : CreateSpec(seed)
  \/ \E payload \in {"split", "loose"}, m \in {m1, None}, t \in Times, force \in BOOLEAN :
       \E seed \in seeds \cup {None} : ImportManual(payload, m, seed, t, force)
  \/ \E a \in artifacts, force \in BOOLEAN : NormaliseArtifact(a, force)
  \/ \E mode \in {"BUILD_SEEDS_ONLY", "IMPORT_FIXTURES", "IMPORT_MANUAL_ARTIFACTS", "NORMALIZE_EXISTING"},
        ms \in {<<>>, <<m1>>, <<m2, m1>>}, t \in Times, limit \in {1, 3}, force \in BOOLEAN :
       RunImport(mode, ms, t, limit, force)

\* rows are stored kind by kind; a market has at most two divergences and one row of each other kind
Kinds == <<"integrity", "quality", "divergence", "verdict">>
InTurn(kind) ==
  \A r \in rows : \E i, j \in DOMAIN Kinds :
    Kinds[i] = r.kind /\ Kinds[j] = kind /\ (i < j \/ (i = j /\ kind = "divergence"))

\* what the strategies make of what one market is known by
Filtering ==
  \/ /\ UNCHANGED researchVars
     /\ \/ \E content \in Assessments : InTurn("integrity") /\ StoreRow("integrity", {m1}, 1, content)
        \/ \E score \in {60, 80} : InTurn("quality") /\ StoreRow("quality", {m1}, 1, [score |-> score])
        \/ \E content \in Divergences :
             InTurn("divergence") /\ StoreRow("divergence", {m1, m2}, 1, content)
        \/ \E action \in {"ALLOW", "PASSIVE_ONLY", "MANUAL_REVIEW"} :
             InTurn("verdict") /\ StoreRow("verdict", {m1}, 1, Verdict(action))
        \/ \E payload \in {"calm", "split"} :
             imports = <<>> /\ rows = {} /\ ImportManual(payload, m1, None, 1, FALSE)
        \/ \E a \in artifacts : snapshots = {} /\ NormaliseArtifact(a, FALSE)
  \/ /\ UNCHANGED <<seeds, artifacts, snapshots, imports>>
     /\ \/ \E strategy \in {"baseline", "composite", "scenario"} :
             rows = {} /\ signals = {} /\ GenerateAlone(strategy, m1, 1, FALSE)
        \/ \E p \in proposals, action \in GateActions : decisions = {} /\ EvaluateAlone(p, action)

\* two runs over the same times, the first with paper orders, while rows of both times arrive
New(kind, t) == \A r \in rows : r.kind = kind => r.at # t
Arriving ==
  \/ /\ run = None
     /\ \/ stamp = 0 /\ StoreRow("rule", {m1}, 1, Analysed(20))
        \/ stamp = 1 /\ StoreRow("book", {m1}, 1, [thin |-> FALSE])
        \/ finished = <<>> /\ New("quality", 1) /\ StoreRow("quality", {m1}, 1, [score |-> 60])
        \/ \E row \in rows : RecomputeQuality(row, [score |-> 80]) \/ AnalyseAgain(row, 60)
  \/ \E t \in Times : run # None /\ finished = <<>> /\ New("integrity", t)
       /\ StoreRow("integrity", {m1}, t, Assessed("NONE", 0))
Researching ==
  \/ UNCHANGED researchVars /\ Arriving
  \/ /\ UNCHANGED <<seeds, artifacts, snapshots, imports>>
     /\ \/ \E force \in BOOLEAN : BeginResearch({m1}, 1, 2, 1, Strategies, 4, force, finished = <<>>)
        \/ ResearchStep \/ FinishResearch

\* replays of one time by several policies while rows arrive, some of them late
Replaying ==
  \/ /\ UNCHANGED <<researchVars, replayVars>> /\ Len(replays) < MaxReplays
     /\ \/ \E content \in {Assessed("NO_TRADE", 95), Assessed("NONE", 0)} :
             New("integrity", 1) /\ StoreRow("integrity", {m1}, 1, content)
        \/ New("rule", 1) /\ StoreRow("rule", {m1}, 1, Analysed(60))
        \/ \E row \in rows : AnalyseAgain(row, 20)
        \/ ReplayIdle /\ New("book", 1) /\ StoreRow("book", {m1}, 1, [thin |-> TRUE])
  \/ /\ UNCHANGED <<seeds, artifacts, snapshots, imports, features, signals, proposals, traces, run, finished>>
     /\ \/ \E policy \in Policies, force \in BOOLEAN :
             /\ IF replays = <<>> THEN ~force
                ELSE \/ policy \in {s.policy : s \in steps} /\ force
                     \/ policy \in {"trust_verdict", "pretrade_gate"} /\ ~force
             /\ BeginReplay(policy, {m1}, 1, 2, 2, 2, force)
        \/ Cardinality(rows) < 2 /\ replays = <<>> /\ BeginReplay("allow_all", {m1, m2}, 1, 2, 1, 4, FALSE)
        \/ DecideStep \/ GateStep \/ FinishReplay
        \/ Cardinality(rows) < 2 /\ replays = <<>> /\ FailStep
  \/ /\ UNCHANGED <<seeds, artifacts, snapshots, imports, replayVars>>
     /\ replays = <<>> /\ ReplayIdle
     /\ \/ rows = {} /\ GenerateAlone("baseline", m1, 1, FALSE)
        \/ \E p \in proposals, action \in GateActions : decisions = {} /\ EvaluateAlone(p, action)

-----------------------------------------------------------------------------
Parts == {"scenario", "strategies", "research", "replay"}
Init == part \in Parts /\ ScenarioInit /\ ResearchInit /\ ReplayInit
Next ==
  /\ UNCHANGED part
  /\ \/ part = "scenario" /\ Importing /\ UNCHANGED <<researchVars, replayVars>>
     \/ part = "strategies" /\ Filtering /\ UNCHANGED replayVars
     \/ part = "research" /\ Researching /\ UNCHANGED replayVars
     \/ part = "replay" /\ Replaying
Spec == Init /\ [][Next]_vars
=============================================================================
