---------------------------- MODULE Orchestrator ----------------------------
(***************************************************************************)
(* Orchestrator.process_chain of src/orchestrator/orchestrator.py: one     *)
(* handoff through a chain of roles, each role's process_handoff a loop of *)
(* attempts, each attempt _execute_pipeline: agent, QA, reviewer, several  *)
(* reviewing models, gate.  A step ends where the code awaits the next of  *)
(* these, or where one of them raises.                                     *)
(***************************************************************************)
EXTENDS Gate

CONSTANTS
  Routes,       \* the chains: the handoff's role and DEFAULT_TASK_CHAINS of it
  ChangeSets,   \* the sets of changed files agents return
  Reports,      \* the QA results
  Reviews,      \* the reviewer's answers: score (0 if it gives none), keywords in
                \* its flags, keywords in its summary
  Ballots,      \* the answers of the reviewing models
  Unmeasured    \* where the coverage of 0 that a result starts from stands to
                \* coverage_threshold ("below" for the default policy)

ASSUME OrchestratorAssumption ==
  /\ Routes \subseteq Seq({"backend", "frontend", "tester", "devops", "docs", "reviewer"}) \ {<<>>}
  /\ ChangeSets \subseteq SUBSET Kinds
  /\ Reports \subseteq Measures
  /\ Reviews \subseteq [score : 0 .. 100, flags : BOOLEAN, summary : BOOLEAN]
  /\ Ballots \subseteq Seq(Vote) \ {<<>>}
  /\ Unmeasured \in {"enough", "slightly_below", "below"}

VARIABLES
  mode,         \* multi_provider_mode of the reviewer
  strategy,     \* its consensus_strategy
  guarded,      \* the agents have a guardrail policy, and so run PathGuard
  reviewer,     \* the agent pool has a reviewer
  route,
  stage,        \* which role of the route is at work
  attempt,      \* retry_count of its handoff
  original,     \* the handoff's instructions hold a high-risk keyword
  instructed,   \* the attempt's instructions do
  phase,        \* what the attempt awaits
  files,        \* artifacts.changed_files of its result
  quality,      \* quality_gates of its result
  measured,     \* history: its measures are what QA has reported
  package,      \* gate_level of its human_gate_package
  flags,        \* its review flags hold a high-risk keyword
  summary,      \* its completed_summary does
  verdict,      \* history: what the consensus decided
  told,         \* history: the decision of the attempt the notifier was called with
  results,      \* the results process_chain has collected
  committed     \* history: the stages whose files were committed

config == <<mode, strategy, guarded, reviewer, route>>
output == <<files, quality, measured, package, flags, summary, verdict, told>>
progress == <<stage, attempt, original, instructed>>
vars == <<config, progress, phase, output, results, committed>>

NoGate == "none"

\* A result process_handoff has returned: of its QualityGates and package, what
\* its caller looks at; and the history of how it came about.
Outcome ==
  [gate : Decision, package : Decision \cup {NoGate},
   told : Decision \cup {NoGate}, error : BOOLEAN]

Role == route[stage]
Multi == mode \in {"consensus", "strict"}

\* A reviewer's own work is not reviewed, nor is any where the pool has no reviewer.
IsReviewed == reviewer /\ Role # "reviewer"

TypeOK ==
  /\ mode \in {"single", "shadow", "consensus", "strict"}
  /\ strategy \in {"majority", "unanimous", "strictest"}
  /\ guarded \in BOOLEAN /\ reviewer \in BOOLEAN
  /\ route \in Routes
  /\ stage \in DOMAIN route
  /\ attempt \in 0 .. MaxRetries
  /\ original \in BOOLEAN /\ instructed \in BOOLEAN
  /\ phase \in {"agent", "qa", "review", "vote", "gate", "branch", "done", "raised", "hung"}
  /\ files \in SUBSET Kinds
  /\ quality \in Quality
  /\ measured \in BOOLEAN
  /\ package \in Decision \cup {NoGate}
  /\ flags \in BOOLEAN /\ summary \in BOOLEAN
  /\ verdict \in Decision \cup {NoGate}
  /\ told \in Decision \cup {NoGate}
  /\ results \in Seq(Outcome)
  /\ committed \subseteq DOMAIN route

\* QualityGates(): the defaults a result starts from.
Defaults ==
  [measures |-> [build |-> TRUE, lint |-> TRUE, unit |-> TRUE, security |-> "clean",
                 coverage |-> Unmeasured, sop |-> "unchecked"],
   score |-> 0, pathGuard |-> FALSE, consensus |-> "none", gate |-> "L2_HUMAN"]

Init ==
  /\ mode \in {"single", "shadow", "consensus", "strict"}
  /\ strategy \in IF Multi THEN {"majority", "unanimous", "strictest"} ELSE {"majority"}
  /\ guarded \in BOOLEAN /\ reviewer \in BOOLEAN
  /\ route \in Routes
  /\ stage = 1 /\ attempt = 0
  /\ original \in BOOLEAN /\ instructed = original
  /\ phase = "agent"
  /\ files = {} /\ quality = Defaults /\ measured = FALSE /\ package = NoGate
  /\ flags = FALSE /\ summary = FALSE /\ verdict = NoGate /\ told = NoGate
  /\ results = <<>>
  /\ committed = {}

\* The result of the attempt before the agent has produced one.
Blank ==
  /\ files' = {} /\ quality' = Defaults /\ measured' = FALSE /\ package' = NoGate
  /\ flags' = FALSE /\ summary' = FALSE /\ verdict' = NoGate /\ told' = NoGate
-----------------------------------------------------------------------------
(***************************************************************************)
(* _execute_pipeline, up to the gate.                                      *)
(***************************************************************************)

\* _run_path_guard lets a result with these files through.
PassesPathGuard(F) == ~guarded \/ F \cap {"protected", "sensitive"} = {}

\* Mutant of HumanOnPaths: only the agent's own run of PathGuard sets the flag.
HumanOnPaths_never(q, F) == q

\* _run_path_guard on a result: a change of a config file requires a human.
HumanOnPaths(q, F) ==
  [q EXCEPT !.pathGuard = @ \/ (guarded /\ "config" \in F)]

\* agent.execute.  Its own path_guard flag is lost: QA replaces quality_gates.  The
\* summary is the agent's, until a reviewer writes its own.
AgentReturns ==
  /\ phase = "agent"
  /\ Role = "reviewer" => reviewer
  /\ \E F \in ChangeSets : PassesPathGuard(F) /\ files' = F
  /\ summary' \in IF IsReviewed THEN {FALSE} ELSE BOOLEAN
  /\ phase' = "qa"
  /\ UNCHANGED <<config, progress, quality, measured, package, flags, verdict, told,
                 results, committed>>

AfterReview == IF Multi THEN "vote" ELSE "gate"

\* run_qa_pipeline.  Other models review what a missing reviewer has not.
QAReports ==
  /\ phase = "qa"
  /\ \E m \in Reports : quality' = [Defaults EXCEPT !.measures = m]
  /\ measured' = TRUE
  /\ phase' = IF Role = "reviewer" THEN "gate" ELSE IF reviewer THEN "review" ELSE AfterReview
  /\ UNCHANGED <<config, progress, files, package, flags, summary, verdict, told,
                 results, committed>>

\* reviewer.execute: score, flags and summary are its own, the rest is kept.
ReviewerReviews ==
  /\ phase = "review"
  /\ \E r \in Reviews :
       /\ quality' = HumanOnPaths([quality EXCEPT !.score = r.score], files)
       /\ flags' = r.flags
       /\ summary' = r.summary
  /\ phase' = AfterReview
  /\ UNCHANGED <<config, progress, files, measured, package, verdict, told, results, committed>>

\* reviewer.execute when its output has no summary and a second call corrects it: the
\* result is built from the corrected output alone, with the files that names and new
\* QualityGates.
ReviewerCorrects ==
  /\ phase = "review"
  /\ \E F \in ChangeSets :
       /\ PassesPathGuard(F)
       /\ files' = F
       /\ quality' = HumanOnPaths(Defaults, F)
  /\ measured' = FALSE
  /\ flags' = FALSE
  /\ summary' \in BOOLEAN
  /\ phase' = AfterReview
  /\ UNCHANGED <<config, progress, package, verdict, told, results, committed>>

\* _merge_consensus: when every model failed, only consensus_score is set.
Merged(votes) ==
  LET reached == Successful(votes) # {} /\ Reached(strategy, votes)
      q == [quality EXCEPT !.consensus = IF reached THEN "reached" ELSE "failed"]
  IN  IF Successful(votes) = {} THEN q
      ELSE [q EXCEPT !.score = MeanScore(votes),
                     !.gate = ConsensusDecision(strategy, votes)]

\* _run_consensus_review and _run_strict_review.
ModelsVote ==
  /\ phase = "vote"
  /\ \E votes \in Ballots :
       LET q == Merged(votes)
           refused == mode = "strict" /\ q.consensus = "failed" IN
       /\ verdict' = q.gate
       /\ quality' = IF refused THEN [q EXCEPT !.gate = "L2_HUMAN"] ELSE q
       /\ package' = IF refused THEN "L2_HUMAN" ELSE NoGate
       /\ flags' = (flags \/ \E i \in Successful(votes) : votes[i].keywords)
  /\ phase' = "gate"
  /\ UNCHANGED <<config, progress, files, measured, summary, told, results, committed>>

\* should_notify: the notifier is called unless it is a pass.
Announced(gate) == IF gate = "AUTO_PASS" THEN NoGate ELSE gate

\* _send_notification swallows the notifier's failure.
GateDecides ==
  LET gate == EvaluateGate(quality, files, instructed, attempt) IN
  /\ phase = "gate"
  /\ quality' = [quality EXCEPT !.gate = gate]
  /\ told' = Announced(gate)
  /\ phase' = "branch"
  /\ UNCHANGED <<config, progress, files, measured, package, flags, summary, verdict,
                 results, committed>>

\* The model call of an agent has no timeout.
AgentHangs ==
  /\ phase \in {"agent", "review"}
  /\ phase' = "hung"
  /\ Blank
  /\ UNCHANGED <<config, progress, results, committed>>
-----------------------------------------------------------------------------
(***************************************************************************)
(* process_handoff's branches and process_chain's loop.                    *)
(***************************************************************************)

\* Mutant of ChainGoesOn: only a halt stops the chain.
ChainGoesOn_unless_halted(gate) == gate # "L3_HALT"

ChainGoesOn(gate) == gate = "AUTO_PASS"

Result(gate, pkg, announced, error) ==
  [gate |-> gate, package |-> pkg, told |-> announced, error |-> error]

\* process_handoff returns this result; process_chain routes it on or stops.
Returns(result) ==
  /\ results' = Append(results, result)
  /\ IF ChainGoesOn(result.gate) /\ stage < Len(route)
     THEN /\ stage' = stage + 1
          /\ attempt' = 0
          /\ original' = summary
          /\ instructed' = summary
          /\ phase' = "agent"
     ELSE /\ phase' = "done"
          /\ UNCHANGED progress
  /\ Blank

\* Anything below _execute_pipeline raises: an agent's model call or guardrail,
\* QA, or, after the gate has been notified, store_handoff.
PipelineRaises ==
  /\ phase \in {"agent", "qa", "review", "gate"}
  /\ LET announced == IF phase = "gate"
                      THEN Announced(EvaluateGate(quality, files, instructed, attempt))
                      ELSE NoGate
     IN  Returns(Result("L2_HUMAN", "L2_HUMAN", announced, TRUE))
  /\ UNCHANGED <<config, committed>>

Delivered == quality.gate = "AUTO_PASS" /\ phase = "branch"

\* auto_commit's validate_protected_paths.
CommitAllowed == "protected" \notin files

NothingToCommit ==
  /\ Delivered
  /\ files = {}
  /\ Returns(Result("AUTO_PASS", NoGate, told, FALSE))
  /\ UNCHANGED <<config, committed>>

Commit ==
  /\ Delivered
  /\ files # {}
  /\ CommitAllowed
  /\ committed' = committed \cup {stage}
  /\ Returns(Result("AUTO_PASS", NoGate, told, FALSE))
  /\ UNCHANGED config

\* ProtectedPathError, or a git command fails, and process_chain raises; or one never
\* returns, as none has a timeout.  It may be one of those after the commit.
CommitBreaksOff ==
  /\ Delivered
  /\ files # {}
  /\ phase' \in {"raised", "hung"}
  /\ committed' \in {committed, IF CommitAllowed THEN committed \cup {stage} ELSE committed}
  /\ Blank
  /\ UNCHANGED <<config, progress, results>>

\* Mutant of NextAttempt: the reworked handoff keeps its retry_count.
NextAttempt_same == attempt

\* Mutant of NextAttempt: the loop and _prepare_rework_handoff both count.
NextAttempt_twice == attempt + 2

NextAttempt == attempt + 1

\* _prepare_rework_handoff adds the review flags to the original instructions.
Rework ==
  /\ phase = "branch"
  /\ quality.gate = "L1_REWORK"
  /\ IF attempt < MaxRetries
     THEN /\ attempt' = NextAttempt
          /\ instructed' = (original \/ flags)
          /\ phase' = "agent"
          /\ Blank
          /\ UNCHANGED <<stage, original, results>>
     ELSE Returns(Result("L2_HUMAN", "L2_HUMAN", told, FALSE))
  /\ UNCHANGED <<config, committed>>

\* _handle_human_gate and _handle_deploy_gate build the package; _handle_halt,
\* which does not, leaves what the consensus left.
HandToHuman ==
  /\ phase = "branch"
  /\ quality.gate \in {"L2_HUMAN", "L3_HALT", "L4_DEPLOY"}
  /\ LET pkg == IF quality.gate = "L3_HALT" THEN package ELSE quality.gate
     IN  Returns(Result(quality.gate, pkg, told, FALSE))
  /\ UNCHANGED <<config, committed>>

Next ==
  \/ AgentReturns \/ QAReports \/ ReviewerReviews \/ ReviewerCorrects
  \/ ModelsVote \/ GateDecides
  \/ PipelineRaises \/ AgentHangs
  \/ NothingToCommit \/ Commit \/ CommitBreaksOff
  \/ Rework \/ HandToHuman

Spec == Init /\ [][Next]_vars

\* The loop resumes the coroutine whenever what it awaits has ended; what never ends is
\* a step of its own, AgentHangs or CommitBreaksOff.
FairSpec == Spec /\ WF_vars(Next)
-----------------------------------------------------------------------------
\* Whatever was reworked, reviewed or voted on the way, the files of a stage are
\* committed only under the conditions of AUTO_PASS (docs/en/human-gate.md:52-61), and
\* those are met by what QA has reported: a reviewer that corrects its output wipes the
\* report, which only a policy that asks for no coverage lets through.
CleanCommit ==
  [][committed' # committed =>
       /\ LET m == quality.measures IN
            /\ m.build /\ m.lint /\ m.unit
            /\ m.security = "clean" /\ m.coverage = "enough" /\ m.sop # "missed"
       /\ measured \/ Unmeasured = "enough"
       /\ quality.score >= ScoreThreshold
       /\ ~instructed /\ files \cap (HumanOn \cup {"risky"}) = {}]_vars

\* No protected path is ever committed, and under a guardrail policy neither is a
\* sensitive file.  QA wipes the flag the agent's own PathGuard has set for a config
\* file, and it takes a reviewer to set it again: a config file is committed only in a
\* stage nobody reviews.
GuardedPathsHeldBack ==
  [][committed' # committed =>
       /\ "protected" \notin files
       /\ guarded => "sensitive" \notin files
       /\ guarded /\ IsReviewed => "config" \notin files]_vars

\* The gate is never below what the models agreed on, and is no pass when they
\* did not agree or all of them failed.
ConsensusBinds ==
  phase = "branch" =>
    CASE quality.consensus = "reached" -> AtLeast(quality.gate, verdict)
      [] quality.consensus = "failed"  -> quality.gate # "AUTO_PASS"
      [] OTHER                         -> TRUE

\* Unless the pipeline raised, a handoff that did not pass was announced to the
\* notifier with the very decision it returns: the evaluator asks for a human no
\* later than the loop runs out of attempts.  Its package, if the decision comes
\* with one, names that decision too.
ReturnsWhatItAnnounced ==
  \A i \in DOMAIN results :
    LET r == results[i] IN
    ~r.error => /\ r.told = Announced(r.gate)
                /\ r.gate \in {"L2_HUMAN", "L4_DEPLOY"} => r.package = r.gate

\* Nothing is committed after a stage of the chain was handed to a human, halted
\* or failed.
NoCommitAfterStop ==
  [][committed' # committed => \A i \in DOMAIN results : results[i].gate = "AUTO_PASS"]_vars

\* process_chain implements ChainRun: whatever is reworked, reviewed and voted in between,
\* stages come in order, each is tried within its retries and committed at most once, as it
\* passes, and nothing is tried or committed after one that did not (orchestrator.py:465).
Abstract == INSTANCE ChainRun WITH
  length <- Len(route),
  outcomes <- [i \in DOMAIN results |-> results[i].gate],
  retries <- attempt,
  delivered <- committed,
  over <- IF phase \in {"done", "raised", "hung"} THEN phase ELSE "no"

ImplementsChainRun == Abstract!Spec

\* Rework ends: every chain is over at some time, unless a model call or a git command
\* of it never returns.
ChainEnds == <>(phase \in {"done", "raised", "hung"})

\* Every result of L2_HUMAN and above comes with a package for the developer
\* (docs/en/handoff-schema.md:66).
PackageForEveryHumanGate ==
  \A i \in DOMAIN results :
    AtLeast(results[i].gate, "L2_HUMAN") => results[i].package # NoGate

\* STRICT raises the decision of models that do not agree, and never lowers it
\* (orchestrator.py:578).
StrictNeverRelaxes ==
  phase = "branch" /\ mode = "strict" /\ verdict # NoGate => AtLeast(quality.gate, verdict)
=============================================================================
