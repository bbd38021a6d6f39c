-------------------------------- MODULE Gate --------------------------------
(***************************************************************************)
(* The gate decision: evaluate_gate of src/gate/evaluator.py, and the      *)
(* consensus of several reviewing models, src/gate/consensus.py.           *)
(*                                                                         *)
(* A quality record holds what QualityGates holds, cut at the thresholds   *)
(* the policy cuts it at.  A set of changed files is the set of the kinds  *)
(* of path in it: "plain", "schema" and "external" as the orchestrator     *)
(* recognises them, "risky" for high_risk_paths, "config" for              *)
(* config_file_patterns, "protected" for GitConfig.protected_paths and     *)
(* "sensitive" for what PathGuard protects beyond these.                   *)
(***************************************************************************)
EXTENDS Integers, FiniteSets, Sequences, FiniteSetsExt, Functions

CONSTANTS
  MaxRetries,           \* quality_policy.max_retry_before_escalation
  HumanOn,              \* the kinds of change the policy requires a human on
  ScoreThreshold,       \* quality_policy.review_score_threshold
  DivergenceThreshold   \* reviewer_config.score_divergence_threshold

ASSUME GateAssumption ==
  /\ MaxRetries \in Nat
  /\ HumanOn \subseteq {"schema", "external"}
  /\ ScoreThreshold \in Int
  /\ DivergenceThreshold \in Nat

Kinds == {"plain", "schema", "external", "risky", "config", "protected", "sensitive"}

Severity == [AUTO_PASS |-> 0, L1_REWORK |-> 1, L2_HUMAN |-> 2, L3_HALT |-> 3, L4_DEPLOY |-> 4]

Decision == DOMAIN Severity

AtLeast(d, e) == Severity[d] >= Severity[e]

\* What run_qa_pipeline measures.
Measures ==
  [build : BOOLEAN, lint : BOOLEAN, unit : BOOLEAN,   \* passed
   security : {"clean", "medium", "high"},            \* high: or critical
   coverage : {"enough", "slightly_below", "below"},  \* below: by more than 10
   sop : {"unchecked", "met", "missed"}]

\* measures, and what the reviewers and PathGuard add to them.
Quality ==
  [measures : Measures, score : 0 .. 100, pathGuard : BOOLEAN,
   consensus : {"none", "reached", "failed"}, gate : Decision]
-----------------------------------------------------------------------------
(***************************************************************************)
(* evaluate_gate.  No caller passes is_deploy_request.                     *)
(***************************************************************************)
L3Halt(q) == ~q.measures.build \/ q.measures.security = "high"

\* Mutant of RetriesExhausted: one attempt more before a human is asked.
RetriesExhausted_late(retry) == retry > MaxRetries

RetriesExhausted(retry) == retry >= MaxRetries

\* Mutant of L2Human: coverage far below the threshold is rework like any other.
L2Human_no_coverage(q, files, retry) ==
  \/ q.score < ScoreThreshold
  \/ files \cap HumanOn # {}
  \/ q.measures.security = "medium"
  \/ RetriesExhausted(retry)

L2Human(q, files, retry) ==
  \/ q.score < ScoreThreshold
  \/ q.measures.coverage = "below"
  \/ files \cap HumanOn # {}
  \/ q.measures.security = "medium"
  \/ RetriesExhausted(retry)

\* A path of high_risk_paths, or a keyword of high_risk_keywords in the instructions.
DynamicGuardrails(files, keywords) == "risky" \in files \/ keywords

L1Rework(q) ==
  ~q.measures.lint \/ q.measures.coverage = "slightly_below" \/ ~q.measures.unit

PolicyDecision(q, files, keywords, retry) ==
  IF L3Halt(q) THEN "L3_HALT"
  ELSE IF \/ L2Human(q, files, retry)
          \/ q.pathGuard
          \/ DynamicGuardrails(files, keywords)
          \/ q.measures.sop = "missed"
  THEN "L2_HUMAN"
  ELSE IF L1Rework(q) THEN "L1_REWORK"
  ELSE "AUTO_PASS"

\* Mutant of Binding: the consensus is recorded, and the policy decides.
Binding_policy(q, policy) == policy

\* The stricter of the policy's decision and, once it has run, the consensus's.
Binding(q, policy) ==
  IF q.consensus # "none" /\ ~AtLeast(policy, q.gate) THEN q.gate ELSE policy

EvaluateGate(q, files, keywords, retry) ==
  Binding(q, PolicyDecision(q, files, keywords, retry))
-----------------------------------------------------------------------------
(***************************************************************************)
(* ConsensusGate._resolve_consensus.  votes is the sequence of the models' *)
(* answers; a model that timed out, raised or could not be parsed failed.  *)
(***************************************************************************)
Vote == [failed : BOOLEAN, decision : Decision, score : 0 .. 100, keywords : BOOLEAN]

Successful(votes) == {i \in DOMAIN votes : ~votes[i].failed}

Voters(votes, d) == {i \in Successful(votes) : votes[i].decision = d}

Strictest(votes) ==
  CHOOSE d \in Decision :
    /\ Voters(votes, d) # {}
    /\ \A i \in Successful(votes) : AtLeast(d, votes[i].decision)

\* The decision with most votes: of several, the first that was voted.
Favourite(votes) ==
  LET count(d) == Cardinality(Voters(votes, d)) IN
  CHOOSE d \in Decision :
    /\ Voters(votes, d) # {}
    /\ \A e \in Decision \ {d} : Voters(votes, e) # {} =>
         \/ count(d) > count(e)
         \/ count(d) = count(e) /\ \E i \in Voters(votes, d) :
                                     \A j \in Voters(votes, e) : i < j

\* min_agreement_ratio is 0.5: half of the votes are a majority.
Majority(votes) ==
  IF 2 * Cardinality(Voters(votes, Favourite(votes))) >= Cardinality(Successful(votes))
  THEN Favourite(votes)
  ELSE Strictest(votes)

Agree(votes) == Voters(votes, Strictest(votes)) = Successful(votes)

Escalate(d) ==
  IF d = "L4_DEPLOY" THEN d ELSE CHOOSE e \in Decision : Severity[e] = Severity[d] + 1

Unanimous(votes) ==
  IF Agree(votes) THEN Strictest(votes) ELSE Escalate(Strictest(votes))

Resolved(strategy, votes) ==
  CASE strategy = "strictest" -> Strictest(votes)
    [] strategy = "unanimous" -> Unanimous(votes)
    [] OTHER -> Majority(votes)

Total(votes) == SumFunction([i \in Successful(votes) |-> votes[i].score])

\* The standard deviation of the n scores exceeds the threshold.
Diverge(votes) ==
  LET n == Cardinality(Successful(votes))
      Square(x) == x * x
  IN  SumFunction([i \in Successful(votes) |-> Square(n * votes[i].score - Total(votes))])
        > n * n * n * Square(DivergenceThreshold)

Reached(strategy, votes) ==
  IF strategy = "unanimous" THEN Agree(votes) ELSE ~Diverge(votes)

\* A pass the models do not agree on is at least reworked.
ConsensusDecision(strategy, votes) ==
  IF Resolved(strategy, votes) = "AUTO_PASS" /\ ~Reached(strategy, votes)
  THEN "L1_REWORK"
  ELSE Resolved(strategy, votes)

\* round(round(mean, 1)), both to even.
MeanScore(votes) ==
  LET ToEven(a, b) == LET r == a % b IN
        IF 2 * r < b \/ (2 * r = b /\ (a \div b) % 2 = 0) THEN a \div b ELSE a \div b + 1
  IN  ToEven(ToEven(10 * Total(votes), Cardinality(Successful(votes))), 10)
=============================================================================
