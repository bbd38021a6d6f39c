------------------------ MODULE Orchestrator_proofs ------------------------
(***************************************************************************)
(* Proofs about Gate and Orchestrator, for every policy, chain and input.  *)
(***************************************************************************)
EXTENDS Orchestrator, Sums

LEMMA Ranks ==
  /\ Decision = {"AUTO_PASS", "L1_REWORK", "L2_HUMAN", "L3_HALT", "L4_DEPLOY"}
  /\ Severity["AUTO_PASS"] = 0
  /\ Severity["L1_REWORK"] = 1
  /\ Severity["L2_HUMAN"] = 2
  /\ Severity["L3_HALT"] = 3
  /\ Severity["L4_DEPLOY"] = 4
  /\ \A d \in Decision : Severity[d] \in 0 .. 4
  BY DEF Decision, Severity

LEMMA PolicyTyped ==
  ASSUME NEW q, NEW F, NEW k, NEW n
  PROVE  PolicyDecision(q, F, k, n) \in {"AUTO_PASS", "L1_REWORK", "L2_HUMAN", "L3_HALT"}
  BY DEF PolicyDecision

\* The gate is the policy's decision or a stricter one of the models, ...
LEMMA GateAtLeastPolicy ==
  ASSUME NEW q, NEW F, NEW k, NEW n, q.gate \in Decision
  PROVE  /\ EvaluateGate(q, F, k, n) \in Decision
         /\ AtLeast(EvaluateGate(q, F, k, n), PolicyDecision(q, F, k, n))
         /\ q.consensus # "none" => AtLeast(EvaluateGate(q, F, k, n), q.gate)
  <1> DEFINE p == PolicyDecision(q, F, k, n)
  <1>1. p \in Decision
    BY PolicyTyped, Ranks
  <1>2. Severity[p] \in 0 .. 4 /\ Severity[q.gate] \in 0 .. 4
    BY <1>1, Ranks
  <1> HIDE DEF p
  <1> QED
    BY <1>1, <1>2 DEF EvaluateGate, Binding, AtLeast, p

\* ... so it is a pass only if the policy passes, and no rework once the retries
\* are exhausted.
LEMMA PassIsPolicys ==
  ASSUME NEW q, NEW F, NEW k, NEW n, q.gate \in Decision,
         EvaluateGate(q, F, k, n) = "AUTO_PASS"
  PROVE  PolicyDecision(q, F, k, n) = "AUTO_PASS"
  BY GateAtLeastPolicy, PolicyTyped, Ranks DEF AtLeast

LEMMA NoReworkWhenExhausted ==
  ASSUME NEW q, NEW F, NEW k, NEW n, q.gate \in Decision, RetriesExhausted(n)
  PROVE  EvaluateGate(q, F, k, n) \notin {"AUTO_PASS", "L1_REWORK"}
  <1>1. PolicyDecision(q, F, k, n) \in {"L2_HUMAN", "L3_HALT"}
    BY DEF PolicyDecision, L2Human
  <1> QED
    BY <1>1, GateAtLeastPolicy, Ranks DEF AtLeast
-----------------------------------------------------------------------------
(***************************************************************************)
(* The consensus is a decision: both ways to choose one find one.          *)
(***************************************************************************)
LEMMA VotersCounted ==
  ASSUME NEW votes \in Seq(Vote), NEW d
  PROVE  /\ Voters(votes, d) \subseteq 1 .. Len(votes)
         /\ IsFiniteSet(Voters(votes, d))
  <1>1. Voters(votes, d) \subseteq 1 .. Len(votes)
    BY DEF Voters, Successful
  <1>2. IsFiniteSet(1 .. Len(votes))
    BY FS_Interval
  <1> QED
    BY <1>1, <1>2, FS_Subset

LEMMA SomeVoted ==
  ASSUME NEW votes \in Seq(Vote), Successful(votes) # {}
  PROVE  /\ \A i \in Successful(votes) : votes[i].decision \in Decision
         /\ \E d \in Decision : Voters(votes, d) # {}
  <1>1. \A i \in Successful(votes) : votes[i] \in Vote
    BY DEF Successful
  <1> QED
    BY <1>1 DEF Voters, Vote

LEMMA StrictestTyped ==
  ASSUME NEW votes \in Seq(Vote), Successful(votes) # {}
  PROVE  Strictest(votes) \in Decision
  <1> DEFINE N == {d \in Decision : Voters(votes, d) # {}}
             T == {4 - Severity[d] : d \in N}
  <1>1. N # {}
    BY SomeVoted
  <1>2. T \subseteq Nat /\ T # {}
    BY <1>1, Ranks
  <1>3. PICK x \in T : \A y \in T : x <= y
    BY <1>2, Least
  <1>4. PICK d \in N : x = 4 - Severity[d]
    OBVIOUS
  <1>5. ASSUME NEW i \in Successful(votes)
        PROVE  AtLeast(d, votes[i].decision)
    <2>1. votes[i].decision \in N
      BY SomeVoted DEF Voters
    <2>2. 4 - Severity[d] <= 4 - Severity[votes[i].decision]
      BY <1>3, <1>4, <2>1
    <2>3. Severity[d] \in Int /\ Severity[votes[i].decision] \in Int
      BY <2>1, Ranks
    <2> QED
      BY <2>2, <2>3 DEF AtLeast
  <1> QED
    BY <1>5 DEF Strictest

LEMMA FavouriteTyped ==
  ASSUME NEW votes \in Seq(Vote), Successful(votes) # {}
  PROVE  Favourite(votes) \in Decision
  <1> DEFINE V == [d \in Decision |-> Voters(votes, d)]
  <1>1. IsFiniteSet(Decision)
    <2>1. \A S, d : IsFiniteSet(S) => IsFiniteSet(S \cup {d})
      BY FS_AddElement
    <2>2. Decision = ((({"AUTO_PASS"} \cup {"L1_REWORK"}) \cup {"L2_HUMAN"}) \cup {"L3_HALT"})
                        \cup {"L4_DEPLOY"}
      BY Ranks
    <2>3. IsFiniteSet({"AUTO_PASS"})
      BY FS_Singleton
    <2> QED
      BY <2>1, <2>2, <2>3
  <1>2. \A d \in Decision : V[d] \subseteq Nat /\ IsFiniteSet(V[d])
    BY VotersCounted
  <1>3. /\ \A d, e \in Decision : d # e => V[d] \cap V[e] = {}
        /\ \E d \in Decision : V[d] # {}
    BY SomeVoted DEF Voters
  <1> HIDE DEF V
  <1>4. \E d \in Decision :
          /\ V[d] # {}
          /\ \A e \in Decision \ {d} : V[e] # {} =>
               \/ Cardinality(V[d]) > Cardinality(V[e])
               \/ /\ Cardinality(V[d]) = Cardinality(V[e])
                  /\ \E i \in V[d] : \A j \in V[e] : i < j
    BY <1>1, <1>2, <1>3, FavouriteExists
  <1> QED
    BY <1>4 DEF Favourite, V

LEMMA ConsensusTyped ==
  ASSUME NEW votes \in Seq(Vote), Successful(votes) # {}, NEW s
  PROVE  ConsensusDecision(s, votes) \in Decision
  <1>1. Strictest(votes) \in Decision /\ Favourite(votes) \in Decision
    BY StrictestTyped, FavouriteTyped
  <1>2. \A d \in Decision : Escalate(d) \in Decision
    <2>1. \A d \in Decision \ {"L4_DEPLOY"} : \E e \in Decision : Severity[e] = Severity[d] + 1
      BY Ranks
    <2> QED
      BY <2>1 DEF Escalate
  <1>3. Majority(votes) \in Decision /\ Unanimous(votes) \in Decision
    BY <1>1, <1>2 DEF Majority, Unanimous
  <1>4. Resolved(s, votes) \in Decision
    BY <1>1, <1>3 DEF Resolved
  <1> QED
    BY <1>4, Ranks DEF ConsensusDecision

\* The mean of scores, rounded twice, is a score.
LEMMA MeanIsScore ==
  ASSUME NEW votes \in Seq(Vote), Successful(votes) # {}
  PROVE  MeanScore(votes) \in 0 .. 100
  <1> DEFINE S == Successful(votes)
             f == [i \in S |-> votes[i].score]
             n == Cardinality(S)
             Even(a, b) == IF 2 * (a % b) < b \/ (2 * (a % b) = b /\ (a \div b) % 2 = 0)
                           THEN a \div b ELSE a \div b + 1
  <1>1. IsFiniteSet(S)
    BY FS_Interval, FS_Subset DEF Successful
  <1>2. \A i \in S : f[i] \in 0 .. 100
    <2>1. \A i \in S : votes[i] \in Vote
      BY DEF Successful
    <2> QED
      BY <2>1 DEF Vote
  <1>3. DOMAIN f = S /\ S # {}
    OBVIOUS
  <1>4. /\ 10 * SumFunctionOnSet(f, S) \in Nat /\ n \in Nat \ {0}
        /\ 10 * SumFunctionOnSet(f, S) <= 1000 * n
    <2> HIDE DEF f, S
    <2> QED BY <1>1, <1>2, <1>3, MeanIsBounded DEF n
  <1>5. Total(votes) = SumFunctionOnSet(f, S)
    BY <1>3, Zenon DEF Total, SumFunction, SumFunctionOnSet, FoldFunction, FoldFunctionOnSet
  <1>6. MeanScore(votes) = Even(Even(10 * Total(votes), n), 10)
    BY Zenon DEF MeanScore
  <1> HIDE DEF f, S, n
  <1>7. PICK a, b, m : a = 10 * Total(votes) /\ b = n /\ m = Even(a, b)
    OBVIOUS
  <1>8. m \in 0 .. 1000
    <2>1. a \in Nat /\ a <= 1000 * b /\ b \in Nat \ {0}
      BY <1>4, <1>5, <1>7
    <2>2. Even(a, b) \in 0 .. 1000
      BY <2>1, RoundedIsBounded
    <2> HIDE DEF Even
    <2> QED
      BY <1>7, <2>2
  <1>9. MeanScore(votes) = Even(m, 10)
    <2>1. MeanScore(votes) = Even(Even(a, b), 10)
      <3> HIDE DEF Even
      <3> QED BY <1>6, <1>7, Zenon
    <2> HIDE DEF Even
    <2> QED
      BY <1>7, <2>1
  <1>10. Even(m, 10) \in 0 .. 100
    BY <1>8, RoundedIsBounded
  <1> HIDE DEF Even
  <1> QED
    BY <1>9, <1>10
-----------------------------------------------------------------------------
(***************************************************************************)
(* The inductive invariant: what is known at each point of an attempt.     *)
(***************************************************************************)

\* The files passed PathGuard, and where a reviewer looked at the work it looked at
\* them again after QA had wiped its flag.
PathsLookedAt ==
  /\ PassesPathGuard(files)
  /\ phase = "review" => IsReviewed
  /\ phase \in {"vote", "gate", "branch"} /\ IsReviewed =>
       (guarded /\ "config" \in files => quality.pathGuard)

\* The measures are what QA has reported or, after a corrected review, the defaults.
MeasuresKnown ==
  phase \in {"review", "vote", "gate", "branch"} =>
    measured \/ quality.measures = Defaults.measures

\* What the gate will find of the models' votes.
VotesRecorded ==
  /\ phase \in {"review", "vote"} =>
       quality.gate = "L2_HUMAN" /\ quality.consensus = "none"
  /\ phase = "gate" =>
       /\ quality.consensus = "reached" => quality.gate = verdict
       /\ quality.consensus = "failed" => quality.gate # "AUTO_PASS"

\* What the decision of an attempt rests on.
DecisionGrounded ==
  phase = "branch" =>
    /\ told = Announced(quality.gate)
    /\ quality.gate = "AUTO_PASS" =>
         PolicyDecision(quality, files, instructed, attempt) = "AUTO_PASS"
    /\ quality.gate = "L1_REWORK" => attempt < MaxRetries

StagesPassed ==
  phase # "done" => \A i \in DOMAIN results : results[i].gate = "AUTO_PASS"

IInv ==
  /\ TypeOK
  /\ PathsLookedAt
  /\ MeasuresKnown
  /\ VotesRecorded
  /\ ConsensusBinds
  /\ DecisionGrounded
  /\ StagesPassed
  /\ ReturnsWhatItAnnounced

LEMMA DefaultsTyped ==
  /\ Defaults \in Quality
  /\ Defaults.gate = "L2_HUMAN" /\ Defaults.consensus = "none" /\ Defaults.score = 0
  BY Ranks, OrchestratorAssumption DEF Defaults, Quality, Measures

LEMMA AnnouncedTyped ==
  ASSUME NEW d \in Decision
  PROVE  Announced(d) \in Decision \cup {NoGate}
  BY DEF Announced

LEMMA IInvInit == Init => IInv
  <1> SUFFICES ASSUME Init PROVE IInv
    OBVIOUS
  <1>1. route \in Seq({"backend", "frontend", "tester", "devops", "docs", "reviewer"}) /\ route # <<>>
    BY OrchestratorAssumption DEF Init
  <1>2. 1 \in DOMAIN route
    BY <1>1
  <1>3. 0 \in 0 .. MaxRetries
    BY GateAssumption
  <1>4. TypeOK
    <2>1. results \in Seq(Outcome) /\ files \in SUBSET Kinds /\ committed \subseteq DOMAIN route
      BY DEF Init
    <2>2. /\ original \in BOOLEAN /\ instructed \in BOOLEAN /\ flags \in BOOLEAN
          /\ summary \in BOOLEAN /\ measured \in BOOLEAN
      BY Zenon DEF Init
    <2>3. strategy \in {"majority", "unanimous", "strictest"}
      BY DEF Init
    <2>4. quality \in Quality
      BY DefaultsTyped DEF Init
    <2> QED
      BY <1>2, <1>3, <2>1, <2>2, <2>3, <2>4 DEF Init, TypeOK
  <1> QED
    BY <1>4 DEF Init, IInv, PathsLookedAt, MeasuresKnown, VotesRecorded, ConsensusBinds,
                DecisionGrounded, StagesPassed, ReturnsWhatItAnnounced, PassesPathGuard

\* A returned result is recorded and the next stage begins, or the chain is over.
LEMMA ReturnsKeeps ==
  ASSUME IInv, phase # "done", NEW r \in Outcome, Returns(r), UNCHANGED config,
         committed' \subseteq DOMAIN route,
         ~r.error => /\ r.told = Announced(r.gate)
                     /\ r.gate \in {"L2_HUMAN", "L4_DEPLOY"} => r.package = r.gate
  PROVE  IInv'
  <1> USE DEF IInv
  <1>1. results \in Seq(Outcome) /\ results' = Append(results, r)
    BY DEF TypeOK, Returns
  <1>2. /\ results' \in Seq(Outcome)
        /\ DOMAIN results' = 1 .. Len(results) + 1
        /\ \A i \in 1 .. Len(results) : results'[i] = results[i]
        /\ results'[Len(results) + 1] = r
        /\ DOMAIN results = 1 .. Len(results)
    BY <1>1
  <1>3. \A i \in DOMAIN results' : i \in DOMAIN results \/ results'[i] = r
    BY <1>1, <1>2
  <1>4. phase' \in {"agent", "done"} /\ (phase' = "agent" => r.gate = "AUTO_PASS")
    BY DEF Returns, ChainGoesOn
  <1>5. StagesPassed'
    BY <1>2, <1>3, <1>4 DEF StagesPassed
  <1>6. ReturnsWhatItAnnounced'
    BY <1>2, <1>3 DEF ReturnsWhatItAnnounced
  <1>7. route \in Seq({"backend", "frontend", "tester", "devops", "docs", "reviewer"})
    BY OrchestratorAssumption DEF TypeOK
  <1>8. stage' \in DOMAIN route /\ attempt' \in 0 .. MaxRetries
    <2>1. CASE ChainGoesOn(r.gate) /\ stage < Len(route)
      <3>1. stage' = stage + 1 /\ attempt' = 0
        BY <2>1 DEF Returns
      <3> QED
        BY <2>1, <3>1, <1>7, GateAssumption DEF TypeOK
    <2>2. CASE ~(ChainGoesOn(r.gate) /\ stage < Len(route))
      BY <2>2 DEF Returns, progress, TypeOK
    <2> QED
      BY <2>1, <2>2
  <1>9. original' \in BOOLEAN /\ instructed' \in BOOLEAN
    BY Zenon DEF Returns, progress, TypeOK
  <1>10. TypeOK'
    <2>1. quality' \in Quality /\ files' \in SUBSET Kinds
      BY DefaultsTyped DEF Returns, Blank
    <2>2. flags' \in BOOLEAN /\ summary' \in BOOLEAN /\ measured' \in BOOLEAN
      BY Zenon DEF Returns, Blank
    <2>3. /\ mode' = mode /\ strategy' = strategy /\ guarded' = guarded
          /\ reviewer' = reviewer /\ route' = route
      BY DEF config
    <2>4. package' = NoGate /\ verdict' = NoGate /\ told' = NoGate
      BY DEF Returns, Blank
    <2>5. guarded' \in BOOLEAN /\ reviewer' \in BOOLEAN
      BY <2>3, Zenon DEF TypeOK
    <2> QED
      BY <1>2, <1>4, <1>8, <1>9, <2>1, <2>2, <2>3, <2>4, <2>5 DEF TypeOK
  <1>11. PathsLookedAt'
    BY <1>4 DEF PathsLookedAt, PassesPathGuard, Returns, Blank
  <1> QED
    BY <1>4, <1>5, <1>6, <1>10, <1>11
       DEF MeasuresKnown, VotesRecorded, ConsensusBinds, DecisionGrounded
-----------------------------------------------------------------------------
(***************************************************************************)
(* The steps of an attempt.                                                *)
(***************************************************************************)
LEMMA AgentKeeps == IInv /\ AgentReturns => IInv'
  <1> SUFFICES ASSUME IInv, AgentReturns PROVE IInv'
    OBVIOUS
  <1>1. PassesPathGuard(files)' /\ files' \in SUBSET Kinds
    BY OrchestratorAssumption DEF AgentReturns, PassesPathGuard, config
  <1>2. summary' \in BOOLEAN
    BY Zenon DEF AgentReturns
  <1>3. /\ phase = "agent" /\ phase' = "qa"
        /\ UNCHANGED <<config, progress, quality, measured, package, flags, verdict, told,
                       results, committed>>
    BY DEF AgentReturns
  <1>4. TypeOK'
    BY <1>1, <1>2, <1>3 DEF IInv, TypeOK, config, progress
  <1> QED
    BY <1>1, <1>3, <1>4 DEF IInv, PathsLookedAt, MeasuresKnown, VotesRecorded, ConsensusBinds,
       DecisionGrounded, StagesPassed, ReturnsWhatItAnnounced

LEMMA QAKeeps == IInv /\ QAReports => IInv'
  <1> SUFFICES ASSUME IInv, QAReports PROVE IInv'
    OBVIOUS
  <1>1. PICK m \in Reports : quality' = [Defaults EXCEPT !.measures = m]
    BY DEF QAReports
  <1>2. m \in Measures
    BY OrchestratorAssumption
  <1>3. /\ quality' \in Quality
        /\ quality'.gate = "L2_HUMAN" /\ quality'.consensus = "none" /\ quality'.score = 0
    BY <1>1, <1>2, DefaultsTyped DEF Quality
  <1>4. /\ phase = "qa" /\ phase' \in {"review", "vote", "gate"} /\ measured' = TRUE
        /\ phase' = "review" <=> IsReviewed
        /\ UNCHANGED <<config, progress, files, package, flags, summary, verdict, told, results,
                       committed>>
    BY DEF QAReports, AfterReview, IsReviewed
  <1>5. TypeOK'
    BY <1>3, <1>4 DEF IInv, TypeOK, config, progress
  <1> QED
    BY <1>3, <1>4, <1>5 DEF IInv, PathsLookedAt, PassesPathGuard, MeasuresKnown, VotesRecorded,
       ConsensusBinds, DecisionGrounded, StagesPassed, ReturnsWhatItAnnounced, IsReviewed, Role,
       config, progress

LEMMA ReviewKeeps == IInv /\ ReviewerReviews => IInv'
  <1> SUFFICES ASSUME IInv, ReviewerReviews PROVE IInv'
    OBVIOUS
  <1>1. PICK r \in Reviews :
          /\ quality' = HumanOnPaths([quality EXCEPT !.score = r.score], files)
          /\ flags' = r.flags
          /\ summary' = r.summary
    BY DEF ReviewerReviews
  <1>2. r.score \in 0 .. 100 /\ flags' \in BOOLEAN /\ summary' \in BOOLEAN
    BY <1>1, OrchestratorAssumption
  <1>3. quality \in Quality /\ guarded \in BOOLEAN
    BY DEF IInv, TypeOK
  <1>4. /\ quality' \in Quality
        /\ quality'.gate = quality.gate /\ quality'.consensus = quality.consensus
        /\ quality'.measures = quality.measures
        /\ guarded /\ "config" \in files => quality'.pathGuard
    BY <1>1, <1>2, <1>3 DEF HumanOnPaths, Quality
  <1>5. /\ phase = "review" /\ phase' \in {"vote", "gate"}
        /\ UNCHANGED <<config, progress, files, measured, package, verdict, told, results,
                       committed>>
    BY DEF ReviewerReviews, AfterReview
  <1>6. TypeOK'
    BY <1>2, <1>4, <1>5 DEF IInv, TypeOK, config, progress
  <1>7. Defaults' = Defaults
    BY DEF Defaults
  <1> QED
    BY <1>4, <1>5, <1>6, <1>7 DEF IInv, PathsLookedAt, PassesPathGuard, MeasuresKnown,
       VotesRecorded, ConsensusBinds, DecisionGrounded, StagesPassed, ReturnsWhatItAnnounced,
       config, progress

\* A corrected review starts from the defaults, which are no decision of the models.
LEMMA CorrectKeeps == IInv /\ ReviewerCorrects => IInv'
  <1> SUFFICES ASSUME IInv, ReviewerCorrects PROVE IInv'
    OBVIOUS
  <1>1. PICK F \in ChangeSets :
          PassesPathGuard(F) /\ files' = F /\ quality' = HumanOnPaths(Defaults, F)
    BY DEF ReviewerCorrects
  <1>2. /\ phase = "review" /\ phase' \in {"vote", "gate"} /\ measured' = FALSE /\ flags' = FALSE
        /\ UNCHANGED <<config, progress, package, verdict, told, results, committed>>
    BY DEF ReviewerCorrects, AfterReview
  <1>3. summary' \in BOOLEAN /\ flags' \in BOOLEAN /\ measured' \in BOOLEAN
    BY Zenon DEF ReviewerCorrects
  <1>4. F \in SUBSET Kinds
    BY OrchestratorAssumption
  <1>5. Defaults \in Quality /\ Defaults.gate = "L2_HUMAN" /\ Defaults.consensus = "none"
    BY DefaultsTyped
  <1>6. guarded \in BOOLEAN
    BY DEF IInv, TypeOK
  <1>7. Defaults' = Defaults
    BY DEF Defaults
  <1>8. ASSUME NEW d, d = Defaults
        PROVE  /\ quality' \in Quality
               /\ quality'.gate = "L2_HUMAN" /\ quality'.consensus = "none"
               /\ quality'.measures = d.measures
               /\ guarded /\ "config" \in F => quality'.pathGuard
    <2>1. quality' = [d EXCEPT !.pathGuard = @ \/ (guarded /\ "config" \in F)]
      BY <1>1, <1>8 DEF HumanOnPaths
    <2>2. d \in Quality /\ d.gate = "L2_HUMAN" /\ d.consensus = "none"
      BY <1>5, <1>8
    <2> QED
      BY <2>1, <2>2, <1>6 DEF Quality
  <1>9. /\ quality' \in Quality
        /\ quality'.gate = "L2_HUMAN" /\ quality'.consensus = "none"
        /\ quality'.measures = Defaults.measures
        /\ guarded /\ "config" \in F => quality'.pathGuard
    BY <1>8
  <1>10. TypeOK'
    <2>1. files' \in SUBSET Kinds
      BY <1>1, <1>4
    <2>2. /\ phase' \in {"vote", "gate"}
          /\ UNCHANGED <<config, progress, package, verdict, told, results, committed>>
      BY <1>2
    <2> QED
      BY <1>3, <1>9, <2>1, <2>2 DEF IInv, TypeOK, config, progress
  <1> QED
    BY <1>1, <1>2, <1>7, <1>9, <1>10 DEF IInv, PathsLookedAt, PassesPathGuard, MeasuresKnown,
       VotesRecorded, ConsensusBinds, DecisionGrounded, StagesPassed, ReturnsWhatItAnnounced,
       config, progress

\* What a vote leaves in the record, whichever models failed.
LEMMA MergedTyped ==
  ASSUME quality \in Quality, quality.gate = "L2_HUMAN", NEW votes \in Ballots
  PROVE  /\ Merged(votes) \in Quality
         /\ Merged(votes).consensus \in {"reached", "failed"}
         /\ Merged(votes).consensus = "failed" => Merged(votes).gate # "AUTO_PASS"
         /\ Merged(votes).pathGuard = quality.pathGuard
         /\ Merged(votes).measures = quality.measures
  <1> DEFINE reached == Successful(votes) # {} /\ Reached(strategy, votes)
             q == [quality EXCEPT !.consensus = IF reached THEN "reached" ELSE "failed"]
  <1>1. /\ q \in Quality /\ q.gate = "L2_HUMAN" /\ q.pathGuard = quality.pathGuard
        /\ q.measures = quality.measures
        /\ q.consensus = IF reached THEN "reached" ELSE "failed"
    BY DEF Quality
  <1>2. CASE Successful(votes) = {}
    <2>1. Merged(votes) = q
      BY <1>2 DEF Merged
    <2> QED
      BY <1>1, <2>1
  <1>3. CASE Successful(votes) # {}
    <2>1. MeanScore(votes) \in 0 .. 100 /\ votes \in Seq(Vote)
      BY <1>3, MeanIsScore, OrchestratorAssumption
    <2>2. ConsensusDecision(strategy, votes) \in Decision
      BY <1>3, <2>1, ConsensusTyped
    <2>3. ~reached => ConsensusDecision(strategy, votes) # "AUTO_PASS"
      BY <1>3 DEF ConsensusDecision
    <2>4. Merged(votes) = [q EXCEPT !.score = MeanScore(votes),
                                    !.gate = ConsensusDecision(strategy, votes)]
      BY <1>3 DEF Merged
    <2> HIDE DEF q, reached
    <2>5. /\ Merged(votes) \in Quality
          /\ Merged(votes).gate = ConsensusDecision(strategy, votes)
          /\ Merged(votes).pathGuard = q.pathGuard
          /\ Merged(votes).measures = q.measures
          /\ Merged(votes).consensus = q.consensus
      BY <1>1, <2>1, <2>2, <2>4 DEF Quality
    <2> QED
      BY <1>1, <2>3, <2>5
  <1> QED
    BY <1>2, <1>3

LEMMA VoteKeeps == IInv /\ ModelsVote => IInv'
  <1> SUFFICES ASSUME IInv, ModelsVote PROVE IInv'
    OBVIOUS
  <1>1. /\ phase = "vote" /\ phase' = "gate"
        /\ UNCHANGED <<config, progress, files, measured, summary, told, results, committed>>
    BY DEF ModelsVote
  <1>2. quality \in Quality /\ quality.gate = "L2_HUMAN"
    BY <1>1 DEF IInv, TypeOK, VotesRecorded
  <1>3. PICK votes \in Ballots :
          LET q == Merged(votes)
              refused == mode = "strict" /\ q.consensus = "failed" IN
          /\ verdict' = q.gate
          /\ quality' = IF refused THEN [q EXCEPT !.gate = "L2_HUMAN"] ELSE q
          /\ package' = IF refused THEN "L2_HUMAN" ELSE NoGate
          /\ flags' = (flags \/ \E i \in Successful(votes) : votes[i].keywords)
    BY DEF ModelsVote
  <1> DEFINE q == Merged(votes)
  <1>4. /\ q \in Quality /\ q.consensus \in {"reached", "failed"}
        /\ q.consensus = "failed" => q.gate # "AUTO_PASS"
        /\ q.pathGuard = quality.pathGuard /\ q.measures = quality.measures
    BY <1>2, MergedTyped
  <1>5. flags' \in BOOLEAN
    BY <1>3, Zenon
  <1> HIDE DEF q
  <1>6. /\ verdict' = q.gate
        /\ quality' = q \/ (q.consensus = "failed" /\ quality' = [q EXCEPT !.gate = "L2_HUMAN"])
        /\ package' \in {"L2_HUMAN", NoGate}
    BY <1>3 DEF q
  <1>7. /\ quality' \in Quality /\ verdict' \in Decision
        /\ package' \in Decision \cup {NoGate}
        /\ quality'.pathGuard = quality.pathGuard /\ quality'.measures = quality.measures
        /\ quality'.consensus = "reached" => quality'.gate = verdict'
        /\ quality'.consensus = "failed" => quality'.gate # "AUTO_PASS"
    BY <1>4, <1>6, Ranks DEF Quality
  <1>8. TypeOK'
    BY <1>1, <1>5, <1>7 DEF IInv, TypeOK, config, progress
  <1>9. Defaults' = Defaults
    BY DEF Defaults
  <1> QED
    BY <1>1, <1>2, <1>7, <1>8, <1>9 DEF IInv, PathsLookedAt, PassesPathGuard, MeasuresKnown,
       VotesRecorded, ConsensusBinds, DecisionGrounded, StagesPassed, ReturnsWhatItAnnounced,
       IsReviewed, Role, config, progress

\* The policy does not look at the decision or the consensus in the record.
LEMMA PolicyIgnoresGate ==
  ASSUME NEW q \in Quality, NEW d, NEW F, NEW k, NEW n
  PROVE  PolicyDecision([q EXCEPT !.gate = d], F, k, n) = PolicyDecision(q, F, k, n)
  <1> DEFINE p == [q EXCEPT !.gate = d]
  <1>1. p.measures = q.measures /\ p.score = q.score /\ p.pathGuard = q.pathGuard
    BY DEF Quality
  <1> HIDE DEF p
  <1>2. PolicyDecision(p, F, k, n) = PolicyDecision(q, F, k, n)
    BY <1>1 DEF PolicyDecision, L3Halt, L2Human, L1Rework
  <1> QED
    BY <1>2 DEF p

LEMMA GateKeeps == IInv /\ GateDecides => IInv'
  <1> SUFFICES ASSUME IInv, GateDecides PROVE IInv'
    OBVIOUS
  <1> DEFINE gate == EvaluateGate(quality, files, instructed, attempt)
             policy == PolicyDecision(quality, files, instructed, attempt)
  <1>1. /\ phase = "gate" /\ phase' = "branch"
        /\ quality' = [quality EXCEPT !.gate = gate]
        /\ told' = Announced(gate)
        /\ UNCHANGED <<config, progress, files, measured, package, flags, summary, verdict,
                       results, committed>>
    BY DEF GateDecides
  <1>2. quality \in Quality /\ quality.gate \in Decision /\ attempt \in 0 .. MaxRetries
    BY DEF IInv, TypeOK, Quality
  <1>3. /\ gate \in Decision
        /\ quality.consensus # "none" => AtLeast(gate, quality.gate)
        /\ gate = "AUTO_PASS" => policy = "AUTO_PASS"
    BY <1>2, GateAtLeastPolicy, PassIsPolicys
  <1>4. gate = "L1_REWORK" => attempt < MaxRetries
    BY <1>2, NoReworkWhenExhausted, GateAssumption DEF RetriesExhausted
  <1>5. PolicyDecision(quality', files, instructed, attempt) = policy
    BY <1>1, <1>2, PolicyIgnoresGate
  <1> HIDE DEF gate, policy
  <1>6. /\ quality' \in Quality /\ quality'.gate = gate
        /\ quality'.consensus = quality.consensus /\ quality'.score = quality.score
        /\ quality'.pathGuard = quality.pathGuard /\ quality'.measures = quality.measures
    BY <1>1, <1>2, <1>3 DEF Quality
  <1>7. TypeOK'
    BY <1>1, <1>3, <1>6, AnnouncedTyped DEF IInv, TypeOK, config, progress
  <1>8. ConsensusBinds'
    <2>1. quality.consensus = "reached" => quality.gate = verdict
      BY <1>1 DEF IInv, VotesRecorded
    <2>2. quality.consensus = "failed" => gate # "AUTO_PASS"
      BY <1>1, <1>2, <1>3, Ranks DEF IInv, VotesRecorded, AtLeast
    <2> QED
      BY <1>1, <1>3, <1>6, <2>1, <2>2 DEF ConsensusBinds
  <1>9. DecisionGrounded'
    BY <1>1, <1>3, <1>4, <1>5, <1>6 DEF DecisionGrounded, progress
  <1>10. Defaults' = Defaults
    BY DEF Defaults
  <1> QED
    BY <1>1, <1>6, <1>7, <1>8, <1>9, <1>10 DEF IInv, PathsLookedAt, PassesPathGuard, MeasuresKnown,
       VotesRecorded, StagesPassed, ReturnsWhatItAnnounced, IsReviewed, Role, config, progress

\* Neither a model call that never returns nor a commit that breaks off leaves a result.
LEMMA BrokenOff ==
  ASSUME IInv, phase # "done", phase' \in {"raised", "hung"}, Blank,
         UNCHANGED <<config, progress, results>>, committed' \subseteq DOMAIN route
  PROVE  IInv'
  <1>1. flags' \in BOOLEAN /\ summary' \in BOOLEAN /\ measured' \in BOOLEAN
    BY Zenon DEF Blank
  <1>2. TypeOK'
    BY <1>1, DefaultsTyped DEF IInv, TypeOK, Blank, config, progress
  <1> QED
    BY <1>2 DEF IInv, PathsLookedAt, PassesPathGuard, MeasuresKnown, VotesRecorded,
       ConsensusBinds, DecisionGrounded, StagesPassed, ReturnsWhatItAnnounced, Blank

LEMMA HangKeeps == IInv /\ AgentHangs => IInv'
  <1> SUFFICES ASSUME IInv, AgentHangs PROVE IInv'
    OBVIOUS
  <1>1. committed' \subseteq DOMAIN route
    BY DEF IInv, TypeOK, AgentHangs, config
  <1> QED
    BY <1>1, BrokenOff DEF AgentHangs
-----------------------------------------------------------------------------
(***************************************************************************)
(* The branches of process_handoff.                                        *)
(***************************************************************************)
LEMMA RaiseKeeps == IInv /\ PipelineRaises => IInv'
  <1> SUFFICES ASSUME IInv, PipelineRaises PROVE IInv'
    OBVIOUS
  <1> DEFINE gate == EvaluateGate(quality, files, instructed, attempt)
             announced == IF phase = "gate" THEN Announced(gate) ELSE NoGate
             r == Result("L2_HUMAN", "L2_HUMAN", announced, TRUE)
  <1>1. /\ phase \in {"agent", "qa", "review", "gate"}
        /\ Returns(r)
        /\ UNCHANGED <<config, committed>>
    BY DEF PipelineRaises
  <1>2. gate \in Decision
    <2>1. quality.gate \in Decision
      BY DEF IInv, TypeOK, Quality
    <2> QED
      BY <2>1, GateAtLeastPolicy
  <1> HIDE DEF gate
  <1>3. announced \in Decision \cup {NoGate}
    BY <1>2, AnnouncedTyped
  <1> HIDE DEF announced
  <1>4. r \in Outcome /\ r.error
    BY <1>3, Ranks DEF Result, Outcome
  <1>5. committed' \subseteq DOMAIN route
    BY <1>1 DEF IInv, TypeOK
  <1> HIDE DEF r
  <1> QED
    BY <1>1, <1>4, <1>5, ReturnsKeeps

LEMMA NothingKeeps == IInv /\ NothingToCommit => IInv'
  <1> SUFFICES ASSUME IInv, NothingToCommit PROVE IInv'
    OBVIOUS
  <1> DEFINE r == Result("AUTO_PASS", NoGate, told, FALSE)
  <1>1. /\ phase = "branch" /\ quality.gate = "AUTO_PASS"
        /\ Returns(r)
        /\ UNCHANGED <<config, committed>>
    BY DEF NothingToCommit, Delivered
  <1>2. told = Announced("AUTO_PASS")
    BY <1>1 DEF IInv, DecisionGrounded
  <1>3. /\ r \in Outcome /\ r.told = Announced(r.gate)
        /\ r.gate = "AUTO_PASS"
    BY <1>2, Ranks DEF Result, Outcome, Announced
  <1>4. committed' \subseteq DOMAIN route
    BY <1>1 DEF IInv, TypeOK
  <1> HIDE DEF r
  <1> QED
    BY <1>1, <1>3, <1>4, ReturnsKeeps

LEMMA CommitKeeps == IInv /\ Commit => IInv'
  <1> SUFFICES ASSUME IInv, Commit PROVE IInv'
    OBVIOUS
  <1> DEFINE r == Result("AUTO_PASS", NoGate, told, FALSE)
  <1>1. /\ phase = "branch" /\ quality.gate = "AUTO_PASS"
        /\ committed' = committed \cup {stage}
        /\ Returns(r)
        /\ UNCHANGED config
    BY DEF Commit, Delivered
  <1>2. told = Announced("AUTO_PASS")
    BY <1>1 DEF IInv, DecisionGrounded
  <1>3. /\ r \in Outcome /\ r.told = Announced(r.gate)
        /\ r.gate = "AUTO_PASS"
    BY <1>2, Ranks DEF Result, Outcome, Announced
  <1>4. committed' \subseteq DOMAIN route
    BY <1>1 DEF IInv, TypeOK
  <1> HIDE DEF r
  <1> QED
    BY <1>1, <1>3, <1>4, ReturnsKeeps

LEMMA CommitBreaksOffKeeps == IInv /\ CommitBreaksOff => IInv'
  <1> SUFFICES ASSUME IInv, CommitBreaksOff PROVE IInv'
    OBVIOUS
  <1>1. committed' \subseteq DOMAIN route
    BY DEF IInv, TypeOK, CommitBreaksOff
  <1> QED
    BY <1>1, BrokenOff DEF CommitBreaksOff, Delivered

LEMMA ReworkKeeps == IInv /\ Rework => IInv'
  <1> SUFFICES ASSUME IInv, Rework PROVE IInv'
    OBVIOUS
  <1>1. phase = "branch" /\ quality.gate = "L1_REWORK" /\ UNCHANGED <<config, committed>>
    BY DEF Rework
  <1>2. attempt < MaxRetries
    BY <1>1 DEF IInv, DecisionGrounded
  <1>3. /\ attempt' = attempt + 1
        /\ instructed' = (original \/ flags)
        /\ phase' = "agent"
        /\ Blank
        /\ UNCHANGED <<stage, original, results>>
    BY <1>2 DEF Rework, NextAttempt
  <1>4. /\ flags' \in BOOLEAN /\ summary' \in BOOLEAN /\ measured' \in BOOLEAN
        /\ instructed' \in BOOLEAN
    BY <1>3, Zenon DEF Blank
  <1>5. attempt' \in 0 .. MaxRetries
    BY <1>2, <1>3, GateAssumption DEF IInv, TypeOK
  <1>6. TypeOK'
    BY <1>1, <1>3, <1>4, <1>5, DefaultsTyped DEF IInv, TypeOK, Blank, config
  <1> QED
    BY <1>1, <1>3, <1>6 DEF IInv, PathsLookedAt, PassesPathGuard, MeasuresKnown, VotesRecorded,
       ConsensusBinds, DecisionGrounded, StagesPassed, ReturnsWhatItAnnounced, Blank

LEMMA HandKeeps == IInv /\ HandToHuman => IInv'
  <1> SUFFICES ASSUME IInv, HandToHuman PROVE IInv'
    OBVIOUS
  <1> DEFINE pkg == IF quality.gate = "L3_HALT" THEN package ELSE quality.gate
             r == Result(quality.gate, pkg, told, FALSE)
  <1>1. /\ phase = "branch" /\ quality.gate \in {"L2_HUMAN", "L3_HALT", "L4_DEPLOY"}
        /\ Returns(r)
        /\ UNCHANGED <<config, committed>>
    BY DEF HandToHuman
  <1>2. told = Announced(quality.gate)
    BY <1>1 DEF IInv, DecisionGrounded
  <1>3. /\ r \in Outcome /\ r.told = Announced(r.gate)
        /\ r.gate \in {"L2_HUMAN", "L4_DEPLOY"} => r.package = r.gate
    BY <1>1, <1>2, Ranks DEF Result, Outcome, Announced, IInv, TypeOK
  <1>4. committed' \subseteq DOMAIN route
    BY <1>1 DEF IInv, TypeOK
  <1> HIDE DEF r
  <1> QED
    BY <1>1, <1>3, <1>4, ReturnsKeeps

LEMMA IInvStep == IInv /\ [Next]_vars => IInv'
  <1> SUFFICES ASSUME IInv, [Next]_vars PROVE IInv'
    OBVIOUS
  <1>1. CASE UNCHANGED vars
    <2>1. Defaults' = Defaults
      BY DEF Defaults
    <2> QED
      BY <1>1, <2>1 DEF vars, config, progress, output, IInv, TypeOK, PathsLookedAt,
         PassesPathGuard, MeasuresKnown, VotesRecorded, ConsensusBinds, DecisionGrounded,
         StagesPassed, ReturnsWhatItAnnounced, IsReviewed, Role
  <1>2. CASE Next
    BY <1>2, AgentKeeps, QAKeeps, ReviewKeeps, CorrectKeeps, VoteKeeps, GateKeeps, RaiseKeeps,
       HangKeeps, NothingKeeps, CommitKeeps, CommitBreaksOffKeeps, ReworkKeeps, HandKeeps DEF Next
  <1> QED
    BY <1>1, <1>2
-----------------------------------------------------------------------------
\* Every behaviour of the orchestrator, for every policy, chain and input, keeps
\* the inductive invariant.
THEOREM Inductive == Spec => []IInv
  <1> QED
    BY IInvInit, IInvStep, PTL DEF Spec

\* The state the code builds up is the state the model says it has; among it,
\* retry_count stays within max_retry_before_escalation.
THEOREM TypeCorrect == Spec => []TypeOK
  <1>1. IInv => TypeOK
    BY DEF IInv
  <1> QED
    BY <1>1, Inductive, PTL

\* The models' agreement binds the gate, and their disagreement forbids a pass.
THEOREM ConsensusAlwaysBinds == Spec => []ConsensusBinds
  <1>1. IInv => ConsensusBinds
    BY DEF IInv
  <1> QED
    BY <1>1, Inductive, PTL

\* A handoff returns the decision it was announced with: the branch that escalates
\* an exhausted L1_REWORK after announcing L1_REWORK is never taken.
THEOREM ReturnsAnnounced == Spec => []ReturnsWhatItAnnounced
  <1>1. IInv => ReturnsWhatItAnnounced
    BY DEF IInv
  <1> QED
    BY <1>1, Inductive, PTL

\* Files are committed only in a stage that passes and touches no protected path,
\* whether or not the commit ends well.
LEMMA OnlyDelivered ==
  ASSUME IInv, [Next]_vars, committed' # committed
  PROVE  Delivered /\ CommitAllowed
  <1>1. Commit \/ CommitBreaksOff
    BY DEF Next, vars, AgentReturns, QAReports, ReviewerReviews, ReviewerCorrects, ModelsVote,
       GateDecides, PipelineRaises, AgentHangs, NothingToCommit, Rework, HandToHuman
  <1> QED
    BY <1>1 DEF Commit, CommitBreaksOff

\* What the policy's pass says of the record.
LEMMA PassIsClean ==
  ASSUME NEW q \in Quality, NEW F, NEW k \in BOOLEAN, NEW n \in Nat,
         PolicyDecision(q, F, k, n) = "AUTO_PASS"
  PROVE  /\ q.measures.build /\ q.measures.lint /\ q.measures.unit
         /\ q.measures.security = "clean" /\ q.measures.coverage = "enough"
         /\ q.measures.sop # "missed"
         /\ q.score >= ScoreThreshold
         /\ ~k /\ F \cap (HumanOn \cup {"risky"}) = {}
         /\ ~q.pathGuard
  <1>1. ~L3Halt(q) /\ ~L2Human(q, F, n) /\ ~q.pathGuard /\ ~DynamicGuardrails(F, k)
        /\ q.measures.sop # "missed" /\ ~L1Rework(q)
    BY DEF PolicyDecision
  <1>2. /\ q.measures.security \in {"clean", "medium", "high"}
        /\ q.measures.coverage \in {"enough", "slightly_below", "below"}
        /\ q.score \in Int /\ ScoreThreshold \in Int
    BY GateAssumption DEF Quality, Measures
  <1>3. q.measures.build /\ q.measures.lint /\ q.measures.unit
    BY <1>1, Zenon DEF L3Halt, L1Rework
  <1>4. q.measures.security = "clean" /\ q.measures.coverage = "enough"
    BY <1>1, <1>2 DEF L3Halt, L2Human, L1Rework
  <1>5. q.score >= ScoreThreshold
    BY <1>1, <1>2 DEF L2Human
  <1>6. ~k /\ F \cap (HumanOn \cup {"risky"}) = {}
    <2>1. ~k /\ "risky" \notin F
      BY <1>1, Zenon DEF DynamicGuardrails
    <2>2. F \cap HumanOn = {}
      BY <1>1 DEF L2Human
    <2> QED
      BY <2>1, <2>2
  <1> QED
    BY <1>1, <1>3, <1>4, <1>5, <1>6

LEMMA CommitIsClean ==
  ASSUME IInv, Delivered
  PROVE  /\ quality \in Quality
         /\ PolicyDecision(quality, files, instructed, attempt) = "AUTO_PASS"
         /\ instructed \in BOOLEAN /\ attempt \in Nat
  BY GateAssumption DEF Delivered, IInv, DecisionGrounded, TypeOK

\* Nothing is committed but under the conditions of AUTO_PASS, whatever the agents
\* return, the reviewers say and the models vote; and where the policy asks for any
\* coverage, nothing is committed whose measures QA has not reported.
THEOREM CommitsAreClean == Spec => CleanCommit
  <1> DEFINE Clean ==
        committed' # committed =>
          /\ LET m == quality.measures IN
               /\ m.build /\ m.lint /\ m.unit
               /\ m.security = "clean" /\ m.coverage = "enough" /\ m.sop # "missed"
          /\ measured \/ Unmeasured = "enough"
          /\ quality.score >= ScoreThreshold
          /\ ~instructed /\ files \cap (HumanOn \cup {"risky"}) = {}
  <1>1. ASSUME IInv, [Next]_vars, committed' # committed
        PROVE  /\ LET m == quality.measures IN
                    /\ m.build /\ m.lint /\ m.unit
                    /\ m.security = "clean" /\ m.coverage = "enough" /\ m.sop # "missed"
               /\ measured \/ Unmeasured = "enough"
               /\ quality.score >= ScoreThreshold
               /\ ~instructed /\ files \cap (HumanOn \cup {"risky"}) = {}
    <2>1. Delivered
      BY <1>1, OnlyDelivered
    <2>2. /\ quality.measures.build /\ quality.measures.lint /\ quality.measures.unit
          /\ quality.measures.security = "clean" /\ quality.measures.coverage = "enough"
          /\ quality.measures.sop # "missed"
          /\ quality.score >= ScoreThreshold
          /\ ~instructed /\ files \cap (HumanOn \cup {"risky"}) = {}
      BY <1>1, <2>1, CommitIsClean, PassIsClean, Zenon
    <2>3. measured \/ quality.measures = Defaults.measures
      BY <1>1, <2>1 DEF IInv, MeasuresKnown, Delivered
    <2>4. Defaults.measures.coverage = Unmeasured
      BY DEF Defaults
    <2> QED
      BY <2>2, <2>3, <2>4
  <1>2. IInv /\ [Next]_vars => [Clean]_vars
    BY <1>1
  <1> QED
    BY <1>2, Inductive, PTL DEF Spec, CleanCommit

\* No protected path is committed; under a guardrail policy no sensitive file is and, in a
\* stage a reviewer looks at, no config file, although QA wipes the flag of the agent's
\* own PathGuard.
THEOREM GuardedPathsStayBack == Spec => GuardedPathsHeldBack
  <1> DEFINE Held ==
        committed' # committed =>
          /\ "protected" \notin files
          /\ guarded => "sensitive" \notin files
          /\ guarded /\ IsReviewed => "config" \notin files
  <1>1. ASSUME IInv, [Next]_vars, committed' # committed
        PROVE  /\ "protected" \notin files
               /\ guarded => "sensitive" \notin files
               /\ guarded /\ IsReviewed => "config" \notin files
    <2>1. Delivered /\ CommitAllowed
      BY <1>1, OnlyDelivered
    <2>2. phase = "branch" /\ "protected" \notin files
      BY <2>1 DEF Delivered, CommitAllowed
    <2>3. ~quality.pathGuard
      BY <1>1, <2>1, CommitIsClean, PassIsClean, Zenon
    <2>4. guarded /\ IsReviewed => "config" \notin files
      BY <1>1, <2>2, <2>3 DEF IInv, PathsLookedAt
    <2>5. guarded => "sensitive" \notin files
      BY <1>1 DEF IInv, PathsLookedAt, PassesPathGuard
    <2> QED
      BY <2>2, <2>4, <2>5
  <1>2. IInv /\ [Next]_vars => [Held]_vars
    BY <1>1
  <1> QED
    BY <1>2, Inductive, PTL DEF Spec, GuardedPathsHeldBack

\* A chain that stopped, or whose stage failed, commits nothing more.
THEOREM StoppedChainsStayStopped == Spec => NoCommitAfterStop
  <1> DEFINE Still ==
        committed' # committed => \A i \in DOMAIN results : results[i].gate = "AUTO_PASS"
  <1>1. ASSUME IInv, [Next]_vars PROVE Still
    <2>1. Delivered => phase = "branch"
      BY DEF Delivered
    <2> QED
      BY <1>1, <2>1, OnlyDelivered DEF IInv, StagesPassed
  <1>2. IInv /\ [Next]_vars => [Still]_vars
    BY <1>1
  <1> QED
    BY <1>2, Inductive, PTL DEF Spec, NoCommitAfterStop

-----------------------------------------------------------------------------
(***************************************************************************)
(* The chain implements ChainRun.                                          *)
(***************************************************************************)
\* The stage at work is the one after those that have ended.
StageFollows == phase \notin {"done", "raised", "hung"} => stage = Len(results) + 1

Gates(rs) == [i \in DOMAIN rs |-> rs[i].gate]

LEMMA GatesAppended ==
  ASSUME NEW rs \in Seq(Outcome), NEW r \in Outcome
  PROVE  /\ Gates(Append(rs, r)) = Append(Gates(rs), r.gate)
         /\ Len(Gates(rs)) = Len(rs)
  <1> DEFINE a == Gates(Append(rs, r))
             b == Append(Gates(rs), r.gate)
  <1>1. /\ Len(rs) \in Nat /\ DOMAIN rs = 1 .. Len(rs)
        /\ Append(rs, r) \in Seq(Outcome) /\ Len(Append(rs, r)) = Len(rs) + 1
        /\ \A i \in 1 .. Len(rs) : Append(rs, r)[i] = rs[i]
        /\ Append(rs, r)[Len(rs) + 1] = r
    OBVIOUS
  <1>2. \A i \in 1 .. Len(rs) : rs[i] \in Outcome
    OBVIOUS
  <1>3. Gates(rs) = [i \in 1 .. Len(rs) |-> rs[i].gate]
    BY <1>1 DEF Gates
  <1>4. Gates(rs) \in Seq(Decision) /\ Len(Gates(rs)) = Len(rs)
    <2>1. \A i \in 1 .. Len(rs) : rs[i].gate \in Decision
      BY <1>2 DEF Outcome
    <2> HIDE DEF Decision
    <2>2. [i \in 1 .. Len(rs) |-> rs[i].gate] \in Seq(Decision)
      BY <1>1, <2>1
    <2>3. Len([i \in 1 .. Len(rs) |-> rs[i].gate]) = Len(rs)
      BY <1>1, <2>2
    <2> QED
      BY <1>3, <2>2, <2>3
  <1>5. /\ DOMAIN b = 1 .. Len(rs) + 1
        /\ \A i \in 1 .. Len(rs) : b[i] = rs[i].gate
        /\ b[Len(rs) + 1] = r.gate
        /\ b = [i \in 1 .. Len(rs) + 1 |-> b[i]]
    <2>1. r.gate \in Decision
      BY DEF Outcome
    <2>2. b \in Seq(Decision)
      BY <1>4, <2>1
    <2> QED
      BY <1>1, <1>3, <1>4, <2>1, <2>2
  <1>6. a = [i \in 1 .. Len(rs) + 1 |-> Append(rs, r)[i].gate]
    BY <1>1 DEF Gates
  <1>7. \A i \in 1 .. Len(rs) + 1 : Append(rs, r)[i].gate = b[i]
    <2> SUFFICES ASSUME NEW i \in 1 .. Len(rs) + 1
                 PROVE  Append(rs, r)[i].gate = b[i]
      OBVIOUS
    <2> HIDE DEF b
    <2>1. i \in 1 .. Len(rs) \/ i = Len(rs) + 1
      BY <1>1
    <2> QED
      BY <1>1, <1>5, <2>1
  <1> HIDE DEF b
  <1>8. a = b
    BY <1>5, <1>6, <1>7
  <1> QED
    BY <1>4, <1>8 DEF a, b

LEMMA StageFollowsStep == IInv /\ StageFollows /\ [Next]_vars => StageFollows'
  <1> SUFFICES ASSUME IInv, StageFollows, [Next]_vars PROVE StageFollows'
    OBVIOUS
  <1>1. results \in Seq(Outcome) /\ stage \in Nat
    BY OrchestratorAssumption DEF IInv, TypeOK
  <1>2. ASSUME NEW r, Returns(r), phase \notin {"done", "raised", "hung"}
        PROVE  StageFollows'
    <2>1. results' = Append(results, r) /\ stage = Len(results) + 1
      BY <1>2 DEF Returns, StageFollows
    <2>2. Len(results') = Len(results) + 1 /\ Len(results) \in Nat
      BY <1>1, <2>1
    <2>3. phase' = "done" \/ stage' = stage + 1
      BY <1>2 DEF Returns
    <2> QED
      BY <2>1, <2>2, <2>3 DEF StageFollows
  <1>3. CASE PipelineRaises
    BY <1>2, <1>3 DEF PipelineRaises
  <1>4. CASE NothingToCommit \/ Commit
    BY <1>2, <1>4 DEF NothingToCommit, Commit, Delivered
  <1>5. CASE AgentHangs \/ CommitBreaksOff
    BY <1>5 DEF AgentHangs, CommitBreaksOff, StageFollows
  <1>6. CASE Rework
    <2>1. phase = "branch"
      BY <1>6 DEF Rework
    <2>2. CASE attempt < MaxRetries
      BY <1>6, <2>1, <2>2 DEF Rework, StageFollows
    <2> QED
      BY <1>2, <1>6, <2>1, <2>2 DEF Rework
  <1>7. CASE HandToHuman
    BY <1>2, <1>7 DEF HandToHuman
  <1>8. CASE \/ AgentReturns \/ QAReports \/ ReviewerReviews \/ ReviewerCorrects
             \/ ModelsVote \/ GateDecides \/ UNCHANGED vars
    BY <1>8 DEF AgentReturns, QAReports, ReviewerReviews, ReviewerCorrects, ModelsVote,
       GateDecides, AfterReview, vars, progress, StageFollows
  <1> QED
    BY <1>3, <1>4, <1>5, <1>6, <1>7, <1>8 DEF Next

Over == IF phase \in {"done", "raised", "hung"} THEN phase ELSE "no"

\* A stage that returns ends the abstract stage: it passes, or it is handed over.
LEMMA ReturnsImplements ==
  ASSUME IInv, StageFollows, phase \notin {"done", "raised", "hung"}, UNCHANGED config,
         NEW r \in Outcome, Returns(r),
         \/ r.gate = "AUTO_PASS" /\ committed' \in {committed, committed \cup {stage}}
         \/ r.gate \in {"L2_HUMAN", "L3_HALT", "L4_DEPLOY"} /\ committed' = committed
  PROVE  Abstract!Next
  <1>1. results \in Seq(Outcome) /\ stage = Len(results) + 1
    BY DEF IInv, TypeOK, StageFollows
  <1>2. results' = Append(results, r) /\ route' = route
    BY DEF Returns, config
  <1>3. Gates(results') = Append(Gates(results), r.gate) /\ Len(Gates(results)) = Len(results)
    BY <1>1, <1>2, GatesAppended
  <1>4. Over = "no"
    BY DEF Over
  <1>5. CASE r.gate = "AUTO_PASS"
    <2>1. IF stage < Len(route) THEN attempt' = 0 /\ Over' = "no"
                                ELSE attempt' = attempt /\ Over' = "done"
      BY <1>5 DEF Returns, ChainGoesOn, progress, Over
    <2>2. committed' \in {committed, committed \cup {stage}}
      BY <1>5
    <2>3. Abstract!Pass
      BY <1>1, <1>2, <1>3, <1>4, <1>5, <2>1, <2>2
         DEF Abstract!Pass, Abstract!Present, Gates, Over
    <2> QED
      BY <2>3 DEF Abstract!Next
  <1>6. CASE r.gate # "AUTO_PASS"
    <2>1. attempt' = attempt /\ Over' = "done"
      BY <1>6 DEF Returns, ChainGoesOn, progress, Over
    <2>2. r.gate \in Abstract!HandedOver /\ committed' = committed
      BY <1>6 DEF Abstract!HandedOver
    <2>3. Abstract!HandOver
      BY <1>2, <1>3, <1>4, <2>1, <2>2 DEF Abstract!HandOver, Gates, Over
    <2> QED
      BY <2>3 DEF Abstract!Next
  <1> QED
    BY <1>5, <1>6

LEMMA StepImplements ==
  ASSUME IInv, StageFollows, [Next]_vars
  PROVE  [Abstract!Next]_(Abstract!vars)
  <1> DEFINE same == UNCHANGED <<route, results, attempt, committed, Over>>
  <1>1. same => UNCHANGED Abstract!vars
    BY DEF Abstract!vars, Over
  <1>2. told \in Decision \cup {NoGate} /\ package \in Decision \cup {NoGate}
        /\ quality \in Quality
    BY DEF IInv, TypeOK
  <1> HIDE DEF same
  <1>3. CASE \/ AgentReturns \/ QAReports \/ ReviewerReviews \/ ReviewerCorrects
             \/ ModelsVote \/ GateDecides \/ UNCHANGED vars
    <2>1. same
      BY <1>3 DEF AgentReturns, QAReports, ReviewerReviews, ReviewerCorrects, ModelsVote,
         GateDecides, AfterReview, vars, config, progress, same, Over
    <2> QED
      BY <1>1, <2>1
  <1>4. CASE PipelineRaises
    <2> DEFINE gate == EvaluateGate(quality, files, instructed, attempt)
               announced == IF phase = "gate" THEN Announced(gate) ELSE NoGate
               r == Result("L2_HUMAN", "L2_HUMAN", announced, TRUE)
    <2>1. /\ phase \in {"agent", "qa", "review", "gate"}
          /\ Returns(r) /\ UNCHANGED <<config, committed>>
      BY <1>4 DEF PipelineRaises
    <2>2. gate \in Decision
      <3>1. quality.gate \in Decision
        BY <1>2 DEF Quality
      <3> QED
        BY <3>1, GateAtLeastPolicy
    <2> HIDE DEF gate
    <2>3. announced \in Decision \cup {NoGate}
      BY <2>2, AnnouncedTyped
    <2> HIDE DEF announced
    <2>4. r \in Outcome /\ r.gate = "L2_HUMAN"
      BY <2>3, Ranks DEF Result, Outcome
    <2> HIDE DEF r
    <2> QED
      BY <2>1, <2>4, ReturnsImplements
  <1>5. CASE NothingToCommit \/ Commit
    <2> DEFINE r == Result("AUTO_PASS", NoGate, told, FALSE)
    <2>1. r \in Outcome /\ r.gate = "AUTO_PASS"
      BY <1>2 DEF Result, Outcome, Decision, Severity
    <2> HIDE DEF r
    <2>2. /\ phase = "branch" /\ Returns(r) /\ UNCHANGED config
          /\ committed' \in {committed, committed \cup {stage}}
      BY <1>5 DEF NothingToCommit, Commit, Delivered, r
    <2> QED
      BY <2>1, <2>2, ReturnsImplements
  <1>6. CASE AgentHangs \/ CommitBreaksOff
    <2>1. /\ phase \in {"agent", "review", "branch"} /\ Over' \in {"raised", "hung"}
          /\ UNCHANGED <<route, results, attempt>>
          /\ committed' \in {committed, committed \cup {stage}}
      BY <1>6 DEF AgentHangs, CommitBreaksOff, Delivered, Over, config, progress
    <2>2. Over = "no"
      BY <2>1 DEF Over
    <2>3. stage = Len(Gates(results)) + 1
      <3>1. Len(Gates(results)) = Len(results)
        <4>1. Result("L2_HUMAN", "L2_HUMAN", NoGate, TRUE) \in Outcome
          BY Ranks DEF Result, Outcome
        <4> QED
          BY <4>1, GatesAppended DEF IInv, TypeOK
      <3> QED
        BY <3>1, <2>1 DEF StageFollows
    <2>4. Abstract!Fail
      BY <2>1, <2>2, <2>3 DEF Abstract!Fail, Abstract!Present, Gates, Over
    <2> QED
      BY <2>4 DEF Abstract!Next
  <1>7. CASE Rework
    <2>1. attempt < MaxRetries /\ phase = "branch"
      BY <1>7 DEF IInv, DecisionGrounded, Rework
    <2>2. /\ attempt' = attempt + 1 /\ Over = "no" /\ Over' = "no"
          /\ UNCHANGED <<route, results, committed>>
      BY <1>7, <2>1 DEF Rework, NextAttempt, Over, config
    <2>3. Abstract!Retry
      BY <2>1, <2>2 DEF Abstract!Retry, Over
    <2> QED
      BY <2>3 DEF Abstract!Next
  <1>8. CASE HandToHuman
    <2> DEFINE pkg == IF quality.gate = "L3_HALT" THEN package ELSE quality.gate
               r == Result(quality.gate, pkg, told, FALSE)
    <2>1. phase = "branch" /\ Returns(r) /\ UNCHANGED <<config, committed>>
          /\ quality.gate \in {"L2_HUMAN", "L3_HALT", "L4_DEPLOY"}
      BY <1>8 DEF HandToHuman
    <2>2. r \in Outcome /\ r.gate = quality.gate
      BY <1>2, <2>1 DEF Result, Outcome, Decision, Severity
    <2> HIDE DEF r
    <2> QED
      BY <2>1, <2>2, ReturnsImplements
  <1> QED
    BY <1>3, <1>4, <1>5, <1>6, <1>7, <1>8 DEF Next

\* process_chain implements ChainRun for every chain, number of retries and policy
\* (orchestrator.py:465).
THEOREM ChainIsRun == Spec => ImplementsChainRun
  <1>1. Init => Abstract!Init
    <2> SUFFICES ASSUME Init PROVE Abstract!Init
      OBVIOUS
    <2>1. Len(route) \in Nat \ {0}
      BY OrchestratorAssumption DEF Init
    <2>2. [i \in DOMAIN results |-> results[i].gate] = <<>>
      BY DEF Init
    <2> QED
      BY <2>1, <2>2 DEF Init, Abstract!Init
  <1>2. Init => StageFollows
    BY DEF Init, StageFollows
  <1> QED
    BY <1>1, <1>2, StageFollowsStep, StepImplements, Inductive, PTL
       DEF Spec, ImplementsChainRun, Abstract!Spec
=============================================================================
