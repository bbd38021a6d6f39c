---------------------------- MODULE DemoPipeline ----------------------------
(***************************************************************************)
(* DemoPipeline (src/pipeline/demo_pipeline.py), which the dashboard runs  *)
(* for mock tasks and `archon demo` with real agents if there are any:     *)
(* attempts of backend, QA, reviewer, consensus and gate.  The gate and    *)
(* the consensus are those of Gate, without the changed files and the      *)
(* instructions, which this pipeline does not pass.                        *)
(***************************************************************************)
EXTENDS Integers, Sequences

CONSTANTS
  DemoRetries,      \* quality_policy.max_retry_before_escalation
  DemoThreshold,    \* quality_policy.review_score_threshold
  CoverageThreshold,
  DemoReports,      \* what a real QA run may measure
  DemoScores,       \* and a real reviewer answer
  DemoBallots,      \* what the models of a consensus may answer
  DemoDivergence    \* reviewer_config.score_divergence_threshold

G == INSTANCE Gate WITH
       MaxRetries <- DemoRetries, HumanOn <- {}, ScoreThreshold <- DemoThreshold,
       DivergenceThreshold <- DemoDivergence

ASSUME DemoAssumption ==
  /\ DemoRetries \in Nat /\ {DemoThreshold, CoverageThreshold} \subseteq Int
  /\ DemoDivergence \in Nat
  /\ DemoReports \subseteq G!Measures /\ DemoScores \subseteq 0 .. 100
  /\ DemoBallots \subseteq Seq(G!Vote)

VARIABLES
  demoConfig,    \* scenario ("real": not a mock), multi_provider_mode,
                 \* consensus_strategy, dry_run
  demoAttempts,  \* the attempts made
  demoPhase,     \* of run(): "runs", "ended" or "raised"
  demoResult     \* of the last attempt: quality, the gate's decision, the level of its
                 \* package, and whether there is a commit

demoVars == <<demoConfig, demoAttempts, demoPhase, demoResult>>

\* A report, the lint result, coverage and score of an attempt of MOCK_SCENARIOS.
Mock(lint, percent, score) == [lint |-> lint, percent |-> percent, score |-> score]
MockScenarios ==
  [auto_pass |-> <<Mock(TRUE, 88, 92)>>,
   l1 |-> <<Mock(FALSE, 82, 78), Mock(TRUE, 85, 89)>>,
   l2 |-> <<Mock(TRUE, 76, 58)>>,
   l1_exhausted |-> [i \in 1 .. 4 |-> Mock(FALSE, 82, 78)]]

\* A single reviewer leaves the strategy unused.
DemoConfigs ==
  {c \in [scenario : DOMAIN MockScenarios \cup {"real"},
          mode : {"single", "shadow", "consensus", "strict"},
          strategy : {"majority", "unanimous", "strictest"}, dryRun : BOOLEAN] :
     c.mode = "single" => c.strategy = "majority"}

DemoTypeOK ==
  /\ demoConfig \in DemoConfigs
  /\ demoAttempts \in 0 .. DemoRetries + 1
  /\ demoPhase \in {"runs", "ended", "raised"}
  /\ demoResult \in [quality : G!Quality, gate : G!Decision,
                     package : {"none", "L2_HUMAN"}, committed : BOOLEAN]

Coverage(percent) ==
  IF percent >= CoverageThreshold THEN "enough"
  ELSE IF percent >= CoverageThreshold - 10 THEN "slightly_below" ELSE "below"

Reviewed(measures, score, pathGuard) ==
  [measures |-> measures, score |-> score, pathGuard |-> pathGuard,
   consensus |-> "none", gate |-> "L2_HUMAN"]

\* QualityGates(), which a reviewer that corrects its output starts again from.
Unreported(pathGuard) ==
  Reviewed([build |-> TRUE, lint |-> TRUE, unit |-> TRUE, security |-> "clean",
            coverage |-> Coverage(0), sop |-> "unchecked"], 0, pathGuard)

DemoInit ==
  /\ demoConfig \in DemoConfigs
  /\ demoAttempts = 0 /\ demoPhase = "runs"
  /\ demoResult = [quality |-> Unreported(FALSE), gate |-> "L2_HUMAN", package |-> "none",
                   committed |-> FALSE]
-----------------------------------------------------------------------------

\* _attempt_data(): the last entry of a scenario serves every attempt beyond it.
MockQuality(scenario, attempt) ==
  LET pool == MockScenarios[scenario]
      data == pool[IF attempt < Len(pool) THEN attempt + 1 ELSE Len(pool)]
  IN  Reviewed([build |-> TRUE, lint |-> data.lint, unit |-> TRUE, security |-> "clean",
                coverage |-> Coverage(data.percent), sop |-> "unchecked"],
               data.score, FALSE)

\* Backend, QA and reviewer of an attempt: it starts from the initial handoff, and QA's
\* report replaces what the backend brought, and is lost if the reviewer corrects itself.
DemoOutcomes(attempt) ==
  IF demoConfig.scenario = "real"
  THEN {Reviewed(m, s, g) : m \in DemoReports, s \in DemoScores, g \in BOOLEAN}
         \cup {Unreported(g) : g \in BOOLEAN}
  ELSE {MockQuality(demoConfig.scenario, attempt)}

\* _run_multi_provider_step(): every mode but SINGLE merges the consensus, SHADOW too.
Crossed(q, votes) ==
  LET reached == G!Successful(votes) # {} /\ G!Reached(demoConfig.strategy, votes)
      merged == [q EXCEPT !.consensus = IF reached THEN "reached" ELSE "failed"]
  IN  IF demoConfig.mode = "single" THEN q
      ELSE IF demoConfig.mode = "strict" /\ ~reached
      THEN [merged EXCEPT !.gate = "L2_HUMAN",
                          !.score = IF G!Successful(votes) = {} THEN @ ELSE G!MeanScore(votes)]
      ELSE IF G!Successful(votes) = {} THEN merged
      ELSE [merged EXCEPT !.score = G!MeanScore(votes),
                          !.gate = G!ConsensusDecision(demoConfig.strategy, votes)]

\* An attempt that gives q, and what run() does with the gate's decision.  A rework that
\* has no attempt left would become an L2_HUMAN without a package.  auto_commit() gives a
\* SHA, gives none or raises.
Dispatch(q) ==
  LET gate == G!EvaluateGate(q, {}, FALSE, demoAttempts)
      reworks == gate = "L1_REWORK" /\ demoAttempts < DemoRetries
      decision == IF gate = "L1_REWORK" /\ ~reworks THEN "L2_HUMAN" ELSE gate
      refused == demoConfig.mode = "strict" /\ q.consensus = "failed"
      commits == gate = "AUTO_PASS" /\ ~demoConfig.dryRun
  IN  \E sha \in IF commits THEN BOOLEAN ELSE {FALSE} :
        /\ demoResult' =
             [quality |-> [q EXCEPT !.gate = decision], gate |-> decision, committed |-> sha,
              package |-> IF gate = "L2_HUMAN" \/ refused THEN "L2_HUMAN" ELSE "none"]
        /\ demoPhase' \in IF reworks THEN {"runs"}
                          ELSE IF commits /\ ~sha THEN {"ended", "raised"} ELSE {"ended"}

DemoAttempt ==
  /\ demoPhase = "runs"
  /\ \E q \in DemoOutcomes(demoAttempts), votes \in DemoBallots : Dispatch(Crossed(q, votes))
  /\ demoAttempts' = demoAttempts + 1
  /\ UNCHANGED demoConfig

\* A real agent or QA raises: nothing catches it.
DemoRaises ==
  /\ demoPhase = "runs" /\ demoConfig.scenario = "real"
  /\ demoPhase' = "raised"
  /\ UNCHANGED <<demoConfig, demoAttempts, demoResult>>

DemoNext == DemoAttempt \/ DemoRaises

DemoSpec == DemoInit /\ [][DemoNext]_demoVars
-----------------------------------------------------------------------------
\* A mock run without a second reviewer ends as SCENARIO_LABELS says, if the policy
\* allows two retries and its thresholds are between what the scenarios measure, as the
\* default policy's are (demo_pipeline.py:93).
LabelsApply ==
  /\ demoConfig.mode = "single" /\ DemoRetries >= 2
  /\ DemoThreshold \in 59 .. 78 /\ CoverageThreshold <= 85

DemoEndsAsLabelled ==
  demoPhase = "ended" /\ LabelsApply =>
    CASE demoConfig.scenario = "auto_pass" -> demoResult.gate = "AUTO_PASS" /\ demoAttempts = 1
      [] demoConfig.scenario = "l1" -> demoResult.gate = "AUTO_PASS" /\ demoAttempts = 2
      [] demoConfig.scenario = "l2" -> demoResult.gate = "L2_HUMAN" /\ demoAttempts = 1
      [] demoConfig.scenario = "l1_exhausted" ->
           demoResult.gate = "L2_HUMAN" /\ demoAttempts = DemoRetries + 1
      [] OTHER -> TRUE

\* However the models vote, a pass is one of the report and the score it comes with, on
\* an attempt before the last, and no disagreement of the models passes: nothing of an
\* earlier attempt is carried into it; a report lost to a correction counts as a
\* coverage of 0 (demo_pipeline.py:377).
DemoPassesClean ==
  demoResult.gate = "AUTO_PASS" =>
    LET q == demoResult.quality IN
    /\ q.measures.build /\ q.measures.lint /\ q.measures.unit
    /\ q.measures.security = "clean" /\ q.measures.coverage = "enough"
    /\ q.score >= DemoThreshold /\ q.consensus # "failed"
    /\ demoAttempts <= DemoRetries

\* Who is asked gets a package, and a package never comes with a result that went on
\* without asking (demo_pipeline.py:251, 421).
DemoAsksWithPackage ==
  /\ demoPhase = "ended" /\ demoResult.gate = "L2_HUMAN" => demoResult.package = "L2_HUMAN"
  /\ demoResult.package = "L2_HUMAN" => G!AtLeast(demoResult.gate, "L2_HUMAN")
=============================================================================
