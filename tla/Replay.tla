------------------------------- MODULE Replay -------------------------------
(***************************************************************************)
(* Replay (replay/): a policy decides every market at every time of a      *)
(* window, each step from what was known at its time, and each step        *)
(* recorded with a hash of its inputs.  A run is taken a step at a time;   *)
(* one that raises is rolled back whole and is no action here.             *)
(***************************************************************************)
EXTENDS Research

CONSTANTS MaxReplays    \* bound

Policies == {"allow_all", "trust_verdict", "resolution_risk_only", "integrity_gate",
             "pretrade_gate", "paper_sim_gate", "research_policy"}
GatePolicies == {"pretrade_gate", "paper_sim_gate"}

VARIABLES
  replay,       \* the run under way
  steps,        \* replay_steps
  replays       \* replay_runs that ended, with their summaries
replayVars == <<replay, steps, replays>>

-----------------------------------------------------------------------------
\* the payload of a step's input hash: the rows read, not the verdict
ResearchInputs(m, t) ==
  [signals |-> {s \in signals : s.market = m /\ s.at <= t},
   proposals |-> {p \in proposals : p.signal.market = m /\ p.signal.at <= t},
   traces |-> {TraceKey(u) : u \in {v \in traces : Point(v).market = m /\ Point(v).at <= t}}]
StepInputs(m, t) ==
  [rows |-> VerdictInputs(m, t) \cup Number(Latest("quality", m, t)) \cup Number(LatestFeature(m, t)),
   quality |-> Field(Latest("quality", m, t), "score")] @@ ResearchInputs(m, t)

\* Faulty: any verdict of the step's time matches, as for the gate.
FaultyVerdictMatches(v, m, t) == v.at = t
VerdictMatches(v, m, t) == v.at = t /\ v.content.inputs = VerdictInputs(m, t)
ReplayVerdict(m, t, force) ==
  LET old == Latest("verdict", m, t)
  IN  IF ~force /\ old # None /\ VerdictMatches(old, m, t) THEN old ELSE RebuiltVerdict(m, t)

\* what the gate finds once the step's verdict is stored: the largest id of the time
VerdictFound(verdict, m, t) == Newest({r \in AsOf("verdict", m, t) : r.n # verdict.n} \cup {verdict})

\* the newest trace, the least id of its time: an id hashes what TraceKey names, not the run
LatestTrace(m, t) ==
  LET S == {u \in traces : Point(u).market = m /\ Point(u).at <= t}
      newest == {u \in S : \A v \in S : Point(v).at <= Point(u).at}
      least == CHOOSE key \in {TraceKey(u) : u \in newest} : TRUE
  IN  IF S = {} THEN None ELSE CHOOSE u \in newest : TraceKey(u) = least
TrustPolicy(verdict) == verdict.content.action
ResolutionPolicy(verdict) ==
  IF verdict.content.risk >= 80 THEN "NO_TRADE"
  ELSE IF verdict.content.risk >= 50 THEN "MANUAL_REVIEW" ELSE "ALLOW"
IntegrityPolicy(integrity) ==
  IF integrity = None THEN "MANUAL_REVIEW" ELSE HintAction(integrity.content.hint)
ResearchPolicy(trace) == IF trace = None THEN "MANUAL_REVIEW" ELSE trace.action
PolicyAction(policy, m, t, verdict) ==
  CASE policy = "allow_all" -> "ALLOW"
    [] policy = "trust_verdict" -> TrustPolicy(verdict)
    [] policy = "resolution_risk_only" -> ResolutionPolicy(verdict)
    [] policy = "integrity_gate" -> IntegrityPolicy(Latest("integrity", m, t))
    [] policy = "research_policy" -> ResearchPolicy(LatestTrace(m, t))

\* the resolution risk a step shows beside its action
PolicyRisk(policy, verdict) ==
  IF policy \in {"trust_verdict", "resolution_risk_only"} \cup GatePolicies THEN verdict.content.risk
  ELSE None

-----------------------------------------------------------------------------
ReplayIdle == replay = None
ReplayGrid(ms, times) == Grid(ms, times, <<"step">>)

\* a run's configuration: a window that ends after it begins
ReplayConfig(policy, from, to) == policy \in Policies /\ from < to
\* an unknown policy or a window over max_steps is refused before anything is stored
BeginReplay(policy, ms, from, to, every, maxSteps, force) ==
  LET grid == ReplayGrid(Listed(ms, from, to), Window(from, to, every))
  IN  /\ ReplayIdle /\ Len(replays) < MaxReplays
      /\ ReplayConfig(policy, from, to) /\ Len(grid) <= maxSteps
      /\ replay' = [id |-> Len(replays) + 1, policy |-> policy, force |-> force, left |-> grid]
      /\ UNCHANGED <<rows, stamp, decisions, steps, replays>>

Recorded(action, risk, inputs, error) ==
  /\ steps' = steps \cup {[run |-> replay.id, policy |-> replay.policy, market |-> Head(replay.left).market,
                           at |-> Head(replay.left).at, action |-> action, risk |-> risk, inputs |-> inputs,
                           error |-> error]}
  /\ replay' = [replay EXCEPT !.left = Tail(@)]
  /\ UNCHANGED replays

\* _run_step of the policies that read the step's own inputs
DecideBy(verdict, m, t) ==
  /\ rows' = WithVerdict(verdict)
  /\ stamp' = stamp + 1
  /\ Recorded(PolicyAction(replay.policy, m, t, verdict), PolicyRisk(replay.policy, verdict),
              StepInputs(m, t), FALSE)
DecideStep ==
  /\ ~ReplayIdle /\ replay.left # <<>> /\ replay.policy \notin GatePolicies
  /\ LET next == Head(replay.left)
     IN  DecideBy(ReplayVerdict(next.market, next.at, replay.force), next.market, next.at)
  /\ UNCHANGED decisions

\* _run_step of the policies that ask the gate about a default intent
DefaultIntent == [signal |-> None, intent |-> "RESEARCH_ONLY"]
AskGate(found, m, t) ==
  \E action \in GateActions :
    /\ CheckIntent(DecisionKey(DefaultIntent, m, t, found), found, action)
    /\ Recorded(action, PolicyRisk(replay.policy, found), StepInputs(m, t), FALSE)
AskOn(verdict, m, t) ==
  rows' = WithVerdict(verdict) /\ AskGate(VerdictFound(verdict, m, t), m, t)
GateStep ==
  /\ ~ReplayIdle /\ replay.left # <<>> /\ replay.policy \in GatePolicies
  /\ LET next == Head(replay.left)
     IN  AskOn(ReplayVerdict(next.market, next.at, replay.force), next.market, next.at)

\* a step that raises, before its verdict or after, is recorded as NO_TRADE without inputs
FailStep ==
  /\ ~ReplayIdle /\ replay.left # <<>>
  /\ \/ UNCHANGED <<rows, stamp>>
     \/ /\ rows' = WithVerdict(ReplayVerdict(Head(replay.left).market, Head(replay.left).at, replay.force))
        /\ stamp' = stamp + 1
  /\ Recorded("NO_TRADE", None, None, TRUE)
  /\ UNCHANGED decisions

Multiplier(action) ==
  CASE action = "ALLOW" -> 100 [] action = "ALLOW_SMALLER_SIZE" -> 50 [] action = "PASSIVE_ONLY" -> 25
    [] OTHER -> 0
StepsOfRun == {s \in steps : s.run = replay.id}
Counted(actions) == Cardinality({s \in StepsOfRun : s.action \in actions})
ReplaySummary ==
  [total |-> Cardinality(StepsOfRun), errored |-> Cardinality({s \in StepsOfRun : s.error}),
   refused |-> Counted({"NO_TRADE"}), reviewed |-> Counted({"MANUAL_REVIEW"}),
   passive |-> Counted({"PASSIVE_ONLY"}), allowed |-> Counted({"ALLOW", "ALLOW_SMALLER_SIZE"}),
   exposure |-> SumFunction([s \in StepsOfRun |-> Multiplier(s.action)])]
FinishReplay ==
  /\ ~ReplayIdle /\ replay.left = <<>>
  /\ replays' = Append(replays, ReplaySummary)
  /\ replay' = None
  /\ UNCHANGED <<rows, stamp, decisions, steps>>

\* the rows as the models declare them
ReplayRun(r) ==
  /\ r.id = Len(replays) + 1 /\ r.policy \in Policies
  /\ \A s \in steps : s.run = r.id => [market |-> s.market, at |-> s.at, strategy |-> "step"] \notin Range(r.left)
StepRow(s) ==
  /\ s.run \in 1 .. MaxReplays /\ s.policy \in Policies /\ s.market \in DOMAIN Lives /\ s.at \in Times
  /\ s.action \in Range(Actions) /\ s.risk \in (0 .. 100) \cup {None}
  /\ s.error => s.action = "NO_TRADE" /\ s.inputs = None
ReplaySummaryRow(s) ==
  /\ s.refused + s.reviewed + s.passive + s.allowed = s.total
  /\ s.errored <= s.refused /\ s.exposure \in 0 .. 100 * (s.allowed + s.passive)

ReplayInit == replay = None /\ steps = {} /\ replays = <<>>

-----------------------------------------------------------------------------
Alike(s, u) == s.market = u.market /\ s.at = u.at /\ s.inputs = u.inputs /\ ~s.error /\ ~u.error

AnalysedAgain(s) ==
  \E r \in rows : r.kind = "rule" /\ r.n \in s.inputs.rows /\ r.content.analyses > 1

(* "Deterministic replay admissibility policies": two steps of a policy    *)
(* with equal inputs have equal actions, whichever verdicts the other      *)
(* producers left for their time, unless their rule was analysed again:    *)
(* the hash of the inputs names an assessment by an id that it keeps       *)
(* (replay/runner.py:625).  Then the risks the steps show tell them apart. *)
(* The gate's policies are left out: the gate reuses a verdict of its time *)
(* that was built from other inputs.                                       *)
SameInputsSameAction ==
  \A s, u \in steps :
    Alike(s, u) /\ s.policy = u.policy /\ s.policy \notin GatePolicies /\ s.action # u.action =>
      s.risk # u.risk /\ AnalysedAgain(s)

(* On equal inputs the trust verdict is at least as strict as its parts    *)
(* alone: the resolution risk, if it is none that a later analysis of the  *)
(* rule raised, and the integrity hint where there is one.                 *)
TrustIsStrictest ==
  \A s, u \in steps :
    /\ Alike(s, u) /\ s.policy = "trust_verdict"
    /\ \/ u.policy = "resolution_risk_only" /\ u.risk <= s.risk
       \/ u.policy = "integrity_gate"
            /\ \E r \in rows : r.kind = "integrity" /\ r.n \in s.inputs.rows
    => Strictness(s.action) >= Strictness(u.action)

\* A step is of its run and of one market and time of its grid; a run counts its steps.
ReplayTypeOK ==
  /\ replay = None \/ ReplayRun(replay)
  /\ \A s \in steps : StepRow(s)
  /\ \A s, u \in steps : s.run = u.run /\ s.market = u.market /\ s.at = u.at => s = u
  /\ \A s \in Range(replays) : ReplaySummaryRow(s)

\* A replay repeats: equal inputs give equal actions as long as no rule is analysed again, and the
\* verdict is the strictest of them.
ReplaySound == ReplayTypeOK /\ SameInputsSameAction /\ TrustIsStrictest
=============================================================================
