-------------------------- MODULE Services_proofs --------------------------
(***************************************************************************)
(* Properties of single services, proved for every value of their bounds.  *)
(* A step of Services is a step of the service that moves, and a stutter   *)
(* of every other.                                                         *)
(***************************************************************************)
EXTENDS Spending_proofs

(***************************************************************************)
(* Notification rules.                                                     *)
(***************************************************************************)
\* Ids below the next one, each once; what an open transaction can have changed.
RuleInv ==
  /\ newRule \in Nat
  /\ ruleCall \in [op : {"none", "insert", "update", "waits", "delete"}, id : Nat]
  /\ \A r \in rules : r.id \in Nat /\ r.id < newRule
  /\ \A r, q \in rules : r.id = q.id => r = q
  /\ ruleCall.op = "insert" =>
       \E c \in RuleContents : rowsInTx = rules \cup {[id |-> newRule, content |-> c]}
  /\ ruleCall.op = "delete" => rowsInTx = rules \ Row(ruleCall.id)
  /\ ruleCall.op = "update" /\ Row(ruleCall.id) = {} => rowsInTx = rules

LEMMA RuleInvInit == RuleStoreInit => RuleInv
BY DEF RuleStoreInit, RuleInv, NoCall

LEMMA RuleInvNext ==
  ASSUME RuleInv, [RuleStoreNext]_ruleVars
  PROVE  RuleInv'
<1>1. ASSUME NEW c \in RuleContents, BeginInsert(c)
      PROVE  RuleInv'
  BY <1>1 DEF RuleInv, BeginInsert
<1>2. ASSUME NEW c \in RuleContents, NEW id \in 1 .. MaxRules, BeginUpdate(id, c)
      PROVE  RuleInv'
  BY <1>2 DEF RuleInv, BeginUpdate, Row
<1>3. ASSUME NEW id \in 1 .. MaxRules, BeginDelete(id)
      PROVE  RuleInv'
  BY <1>3 DEF RuleInv, BeginDelete, Row
<1>4. CASE ReadsCreatedAt
  <2>1. ruleCall'.op = "waits"
    BY <1>4 DEF ReadsCreatedAt
  <2>2. QED
    BY <1>4, <2>1 DEF RuleInv, ReadsCreatedAt
<1>5. CASE CommitRules
  <2>1. ruleCall' = [op |-> "none", id |-> 0]
    BY <1>5 DEF CommitRules, NoCall
  <2>2. CASE ruleCall.op = "insert"
    <3>1. PICK c \in RuleContents : rules' = rules \cup {[id |-> newRule, content |-> c]}
      BY <1>5, <2>2 DEF RuleInv, CommitRules
    <3>2. newRule' = newRule + 1
      BY <1>5, <2>2 DEF CommitRules
    <3>3. QED
      BY <2>1, <3>1, <3>2 DEF RuleInv
  <2>3. CASE ruleCall.op # "insert"
    <3>1. rules' \subseteq rules /\ newRule' = newRule
      BY <1>5, <2>3 DEF RuleInv, CommitRules
    <3>2. QED
      BY <2>1, <3>1 DEF RuleInv
  <2>4. QED
    BY <2>2, <2>3
<1>6. CASE RestartRules
  BY <1>6 DEF RuleInv, RestartRules, NoCall
<1>7. CASE UNCHANGED ruleVars
  BY <1>7 DEF RuleInv, ruleVars, Row
<1>8. QED
  BY <1>1, <1>2, <1>3, <1>4, <1>5, <1>6, <1>7 DEF RuleStoreNext

LEMMA RulesKept ==
  ASSUME RuleInv, [RuleStoreNext]_ruleVars
  PROVE  /\ newRule' >= newRule
         /\ \A r \in rules : r \notin rules' =>
              ruleCall.op \in {"update", "delete"} /\ ruleCall.id = r.id
         /\ \A q \in rules' \ rules :
              \/ ruleCall.op = "insert" /\ q.id = newRule
              \/ ruleCall.op = "update" /\ q.id = ruleCall.id
<1>1. CASE \/ \E c \in RuleContents :
                BeginInsert(c) \/ \E id \in 1 .. MaxRules : BeginUpdate(id, c)
           \/ \E id \in 1 .. MaxRules : BeginDelete(id)
  <2>1. rules' = rules /\ newRule' = newRule /\ ruleCall'.op # "waits"
    BY <1>1 DEF BeginInsert, BeginUpdate, BeginDelete
  <2>2. QED
    BY <2>1 DEF RuleInv
<1>2. CASE ReadsCreatedAt
  BY <1>2 DEF RuleInv, ReadsCreatedAt
<1>3. CASE CommitRules
  <2>2. CASE ruleCall.op = "insert"
    <3>1. PICK c \in RuleContents : rules' = rules \cup {[id |-> newRule, content |-> c]}
      BY <1>3, <2>2 DEF RuleInv, CommitRules
    <3>2. newRule' = newRule + 1
      BY <1>3, <2>2 DEF CommitRules
    <3>3. QED
      BY <2>2, <3>1, <3>2 DEF RuleInv
  <2>3. CASE ruleCall.op # "insert"
    <3>1. rules' = rowsInTx /\ newRule' = newRule
      BY <1>3, <2>3 DEF CommitRules
    <3>2. CASE ruleCall.op = "update"
      <4>1. rowsInTx = rules
        BY <1>3, <3>2 DEF RuleInv, CommitRules
      <4>2. QED
        BY <3>1, <4>1 DEF RuleInv
    <3>3. CASE ruleCall.op = "delete"
      <4>1. rowsInTx = {r \in rules : r.id # ruleCall.id}
        BY <3>3 DEF RuleInv, Row
      <4>2. rowsInTx \subseteq rules
            /\ \A r \in rules : r \notin rowsInTx => ruleCall.id = r.id
        BY <4>1
      <4>3. QED
        BY <3>1, <3>3, <4>2 DEF RuleInv
    <3>4. QED
      BY <1>3, <2>3, <3>2, <3>3 DEF CommitRules
  <2>4. QED
    BY <2>2, <2>3
<1>4. CASE RestartRules
  BY <1>4 DEF RuleInv, RestartRules, NoCall
<1>5. CASE UNCHANGED ruleVars
  BY <1>5 DEF RuleInv, ruleVars
<1>6. QED
  BY <1>1, <1>2, <1>3, <1>4, <1>5 DEF RuleStoreNext

\* Stored rules change by whole calls, and only the rule the call names
\* (persistence.py:325).
THEOREM RulesChangeByCalls == ServicesSpec => RulesChangeAsAsked
<1>1. ServicesInit => RuleInv
  BY RuleInvInit DEF ServicesInit
<1>2. RuleInv /\ [ServicesNext]_servicesVars => RuleInv'
  BY OnePartMoves, RuleInvNext
<1>3. RuleInv /\ [ServicesNext]_servicesVars =>
        [/\ newRule' >= newRule
         /\ \A r \in rules : r \notin rules' =>
              ruleCall.op \in {"update", "delete"} /\ ruleCall.id = r.id
         /\ \A q \in rules' \ rules :
              \/ ruleCall.op = "insert" /\ q.id = newRule
              \/ ruleCall.op = "update" /\ q.id = ruleCall.id]_ruleVars
  BY OnePartMoves, RulesKept
<1>4. QED
  BY <1>1, <1>2, <1>3, PTL DEF ServicesSpec, RulesChangeAsAsked
-----------------------------------------------------------------------------
(***************************************************************************)
(* The evolution loop.                                                     *)
(***************************************************************************)
\* While a stop() waits nothing runs, unless it was started meanwhile.
EvolutionInv ==
  /\ evolving \in BOOLEAN /\ restarted \in BOOLEAN
  /\ loopTask \in 0 .. MaxEvolutionLoops
  /\ evoLoops \in [EvoLoops -> {"none", "lives", "cancelled", "over"}]
  /\ stopAwaits \in [Stoppers -> 0 .. MaxEvolutionLoops]
  /\ OneEvolutionLoop
  /\ ~restarted => \A s \in Stoppers : stopAwaits[s] # 0 => ~evolving

LEMMA LoopsBounded == MaxEvolutionLoops \in Nat /\ 0 \in 0 .. MaxEvolutionLoops
BY EvolutionAssumption

LEMMA EvolutionInvInit == EvolutionInit => EvolutionInv
<1> SUFFICES ASSUME EvolutionInit PROVE EvolutionInv
  OBVIOUS
<1>1. /\ evolving = FALSE /\ restarted = FALSE /\ loopTask = 0
      /\ evoLoops = [l \in EvoLoops |-> "none"]
      /\ stopAwaits = [s \in Stoppers |-> 0]
  BY DEF EvolutionInit
<1>2. OneEvolutionLoop
  BY <1>1 DEF OneEvolutionLoop, Living
<1>3. QED
  BY <1>1, <1>2, LoopsBounded DEF EvolutionInv

LEMMA EvolutionInvNext ==
  ASSUME EvolutionInv, [EvolutionNext]_evolutionVars
  PROVE  EvolutionInv'
<1> USE LoopsBounded DEF EvoLoops
<1>1. CASE \/ \E e \in Execution : RecordExecution(e)
           \/ LeavesWindow \/ ClearCollected \/ RunCycle \/ UNCHANGED evolutionVars
  <2>1. UNCHANGED loopVars
    BY <1>1 DEF RecordExecution, LeavesWindow, ClearCollected, RunCycle, evolutionVars,
       loopVars
  <2>2. QED
    BY <2>1 DEF EvolutionInv, loopVars, OneEvolutionLoop, Living
<1>2. CASE StartBackground
  <2>1. PICK l \in EvoLoops : /\ evoLoops[l] = "none" /\ loopTask' = l
                             /\ evoLoops' = [evoLoops EXCEPT ![l] = "lives"]
    BY <1>2 DEF StartBackground, LoopGoes
  <2>2. Living' = Living \cup {l}
    BY <2>1 DEF EvolutionInv, Living
  <2>3. /\ restarted' \in BOOLEAN /\ evolving' = TRUE
        /\ ~restarted' => ~restarted /\ \A s \in Stoppers : stopAwaits[s] = 0
    BY <1>2 DEF StartBackground, EvolutionInv
  <2>4. ~evolving /\ UNCHANGED stopAwaits
    BY <1>2 DEF StartBackground
  <2>5. OneEvolutionLoop'
    BY <2>1, <2>2, <2>3, <2>4 DEF EvolutionInv, OneEvolutionLoop
  <2>6. QED
    BY <2>1, <2>3, <2>4, <2>5 DEF EvolutionInv
<1>3. ASSUME NEW s \in Stoppers, Stop(s)
      PROVE  EvolutionInv'
  <2>1. evolving' = FALSE /\ restarted' = restarted
    BY <1>3 DEF Stop
  <2>2. CASE loopTask # 0 /\ evoLoops[loopTask] # "over"
    <3>1. /\ evoLoops' = [evoLoops EXCEPT ![loopTask] = "cancelled"]
          /\ stopAwaits' = [stopAwaits EXCEPT ![s] = loopTask] /\ loopTask' = loopTask
      BY <1>3, <2>2 DEF Stop, LoopGoes
    <3>2. Living' = Living \ {loopTask}
      BY <2>2, <3>1 DEF EvolutionInv, Living
    <3>3. OneEvolutionLoop'
      BY <2>1, <3>2 DEF EvolutionInv, OneEvolutionLoop
    <3>4. QED
      BY <2>1, <2>2, <3>1, <3>3 DEF EvolutionInv
  <2>3. CASE ~(loopTask # 0 /\ evoLoops[loopTask] # "over")
    <3>1. loopTask' = 0 /\ UNCHANGED <<evoLoops, stopAwaits>>
      BY <1>3, <2>3 DEF Stop
    <3>2. loopTask \notin Living /\ Living' = Living
      BY <2>3, <3>1 DEF Living
    <3>3. OneEvolutionLoop'
      BY <2>1, <3>2 DEF EvolutionInv, OneEvolutionLoop
    <3>4. QED
      BY <2>1, <3>1, <3>3 DEF EvolutionInv
  <2>4. QED
    BY <2>2, <2>3
<1>4. ASSUME NEW s \in Stoppers, StopReturns(s)
      PROVE  EvolutionInv'
  <2>1. /\ stopAwaits[s] # 0 /\ stopAwaits' = [stopAwaits EXCEPT ![s] = 0]
        /\ loopTask' = 0 /\ UNCHANGED <<evolving, evoLoops, restarted>>
    BY <1>4 DEF StopReturns
  <2>2. OneEvolutionLoop'
    BY <2>1 DEF EvolutionInv, OneEvolutionLoop, Living
  <2>3. QED
    BY <2>1, <2>2 DEF EvolutionInv
<1>5. ASSUME NEW l \in EvoLoops, LoopWakes(l)
      PROVE  EvolutionInv'
  <2>1. CASE evolving
    BY <1>5, <2>1 DEF EvolutionInv, LoopWakes, OneEvolutionLoop, Living
  <2>2. CASE ~evolving
    BY <1>5, <2>2 DEF EvolutionInv, LoopWakes, LoopGoes, OneEvolutionLoop, Living
  <2>3. QED
    BY <2>1, <2>2
<1>6. ASSUME NEW l \in EvoLoops, LoopCancelled(l)
      PROVE  EvolutionInv'
  BY <1>6 DEF EvolutionInv, LoopCancelled, LoopGoes, OneEvolutionLoop, Living
<1>7. QED
  BY <1>1, <1>2, <1>3, <1>4, <1>5, <1>6 DEF EvolutionNext

\* One loop at most evolves the policy, unless it was started while a stop() waited
\* (loop.py:128).
THEOREM OneLoopEvolves == ServicesSpec => []OneEvolutionLoop
<1>1. ServicesInit => EvolutionInv
  BY EvolutionInvInit DEF ServicesInit
<1>2. EvolutionInv /\ [ServicesNext]_servicesVars => EvolutionInv'
  BY OnePartMoves, EvolutionInvNext
<1>3. EvolutionInv => OneEvolutionLoop
  BY DEF EvolutionInv
<1>4. QED
  BY <1>1, <1>2, <1>3, PTL DEF ServicesSpec

\* What a cycle looks at.
EvidenceInv ==
  /\ threshold \in Nat
  /\ collected \in Seq(Execution) /\ outside \in 0 .. Len(collected)

LEMMA EvidenceInvInit == EvolutionInit => EvidenceInv
BY EvolutionAssumption DEF EvolutionInit, EvidenceInv

\* The threshold after a cycle.
LEMMA LoweredBySteps ==
  ASSUME EvidenceInv
  PROVE  /\ Lowered \in Nat /\ Lowered <= threshold /\ threshold - Lowered <= 2 * MaxDelta
         /\ Lowered # threshold => LowersForRework \/ LowersForScore
<1> DEFINE steps == (IF LowersForRework THEN 1 ELSE 0) + (IF LowersForScore THEN 1 ELSE 0)
           to == threshold - steps * MaxDelta
<1>1. /\ steps \in {0, 1, 2} /\ (steps # 0 => LowersForRework \/ LowersForScore)
      /\ Lowered = Max({0, threshold - steps * MaxDelta})
  <2>1. Lowered = Max({0, threshold - steps * MaxDelta})
    BY DEF Lowered
  <2>2. CASE LowersForRework /\ LowersForScore
    BY <2>1, <2>2
  <2>3. CASE LowersForRework /\ ~LowersForScore
    BY <2>1, <2>3
  <2>4. CASE ~LowersForRework /\ LowersForScore
    BY <2>1, <2>4
  <2>5. CASE ~LowersForRework /\ ~LowersForScore
    BY <2>1, <2>5
  <2>6. QED
    BY <2>2, <2>3, <2>4, <2>5
<1>2. to \in Int /\ to <= threshold /\ threshold - to <= 2 * MaxDelta
      /\ (to # threshold => steps # 0)
  <2> HIDE DEF steps
  <2> QED BY <1>1, EvolutionAssumption DEF EvidenceInv
<1>3. Lowered = Max({0, to})
  BY <1>1
<1> HIDE DEF to, steps
<1>4. Lowered = IF to >= 0 THEN to ELSE 0
  BY <1>2, <1>3 DEF Max
<1>5. threshold \in Nat /\ 2 * MaxDelta \in Nat
  BY EvolutionAssumption DEF EvidenceInv
<1>6. CASE to >= 0
  BY <1>1, <1>2, <1>4, <1>5, <1>6
<1>7. CASE ~(to >= 0)
  BY <1>1, <1>2, <1>4, <1>5, <1>7
<1>8. QED
  BY <1>6, <1>7

LEMMA RecentIsFinite ==
  ASSUME EvidenceInv
  PROVE  IsFiniteSet(Recent) /\ Recent \subseteq DOMAIN collected
<1>1. outside + 1 \in Int /\ outside + 1 >= 1 /\ Len(collected) \in Int
      /\ DOMAIN collected = 1 .. Len(collected)
  BY DEF EvidenceInv
<1>2. QED
  BY <1>1, FS_Interval DEF Recent

LEMMA ReworkedIsSeen ==
  ASSUME EvidenceInv, LowersForRework
  PROVE  \E i \in Recent : collected[i].rework
<1> DEFINE R == {i \in Recent : collected[i].rework}
<1>1. IsFiniteSet(Recent) /\ IsFiniteSet(R)
  <2>1. R \subseteq Recent
    OBVIOUS
  <2>2. QED
    BY <2>1, RecentIsFinite, FS_Subset
<1>2. Cardinality(Recent) \in Nat /\ Cardinality(R) \in Nat
  BY <1>1, FS_CardinalityType
<1>3. 10 * Cardinality(R) > 4 * Cardinality(Recent)
  BY DEF LowersForRework, Reworked
<1>4. Cardinality(R) # 0
  <2> HIDE DEF R
  <2> QED BY <1>2, <1>3
<1>5. R # {}
  BY <1>4, FS_EmptySet
<1>6. QED
  BY <1>5

\* The mean is below 60 only where a score is.
LEMMA LowScoreIsSeen ==
  ASSUME EvidenceInv, LowersForScore
  PROVE  \E i \in Recent : collected[i].score < 60
<1> DEFINE score == [i \in Recent |-> collected[i].score]
<1> SUFFICES ASSUME \A i \in Recent : ~(collected[i].score < 60)
             PROVE  FALSE
  OBVIOUS
<1>1. IsFiniteSet(Recent)
  BY RecentIsFinite
<1>2. ASSUME NEW i \in Recent
      PROVE  collected[i].score \in Int
  <2>1. collected[i] \in Execution
    BY RecentIsFinite DEF EvidenceInv
  <2>2. collected[i].score \in ReviewScores
    BY <2>1 DEF Execution
  <2>3. ReviewScores \subseteq 0 .. 100
    BY Zenon, EvolutionAssumption
  <2>4. \A x \in ReviewScores : x \in Int
    BY <2>3
  <2>5. QED
    BY Zenon, <2>2, <2>4
<1>3. \A i \in Recent : score[i] \in Int /\ score[i] >= 60
  BY <1>2
<1>4. ScoreSum = SumFunctionOnSet(score, Recent)
  BY DEF ScoreSum, SumFunction
<1> HIDE DEF score
<1>5. ScoreSum >= 60 * Cardinality(Recent)
  BY <1>1, <1>3, <1>4, SumAtLeast
<1>6. ScoreSum \in Int /\ Cardinality(Recent) \in Int
  BY <1>1, <1>3, <1>4, SumIsInt, FS_CardinalityType
<1>7. QED
  BY <1>5, <1>6 DEF LowersForScore

Evident ==
  threshold' # threshold =>
    /\ threshold' < threshold /\ threshold - threshold' <= 2 * MaxDelta
    /\ Cardinality(Recent) >= MinExecutions
    /\ \E i \in Recent : collected[i].rework \/ collected[i].score < 60

LEMMA CycleIsEvident ==
  ASSUME EvidenceInv, Cycle
  PROVE  EvidenceInv' /\ Evident
<1>1. CASE ~(EvolutionEnabled /\ Cardinality(Recent) >= MinExecutions)
  BY <1>1 DEF Cycle, EvidenceInv, evidence, Evident
<1>2. CASE EvolutionEnabled /\ Cardinality(Recent) >= MinExecutions
  <2>1. threshold' = Lowered /\ UNCHANGED evidence
    BY <1>2 DEF Cycle
  <2>2. QED
    BY <1>2, <2>1, LoweredBySteps, ReworkedIsSeen, LowScoreIsSeen
       DEF EvidenceInv, evidence, Evident
<1>3. QED
  BY <1>1, <1>2

LEMMA EvidenceInvNext ==
  ASSUME EvidenceInv, [EvolutionNext]_evolutionVars
  PROVE  EvidenceInv' /\ Evident
<1>1. ASSUME NEW e \in Execution, RecordExecution(e)
      PROVE  EvidenceInv' /\ Evident
  <2>1. threshold' = threshold
    BY <1>1 DEF RecordExecution
  <2>2. CASE Len(collected) < MaxCollected
    <3>1. collected' = Append(collected, e) /\ outside' = outside
      BY <1>1, <2>2 DEF RecordExecution
    <3>2. QED
      BY <2>1, <3>1 DEF EvidenceInv, Evident
  <2>3. CASE ~(Len(collected) < MaxCollected)
    <3>1. /\ collected' = Append(Tail(collected), e)
          /\ outside' = IF outside = 0 THEN 0 ELSE outside - 1
      BY <1>1, <2>3 DEF RecordExecution
    <3>2. Len(collected) >= 1 /\ collected # <<>>
      BY <2>3, EvolutionAssumption DEF EvidenceInv
    <3>3. Tail(collected) \in Seq(Execution) /\ Len(Tail(collected)) = Len(collected) - 1
      BY <3>2 DEF EvidenceInv
    <3>4. collected' \in Seq(Execution) /\ Len(collected') = Len(collected)
      BY <3>1, <3>3 DEF EvidenceInv
    <3>5. QED
      BY <2>1, <3>1, <3>4 DEF EvidenceInv, Evident
  <2>4. QED
    BY <2>2, <2>3
<1>2. CASE LeavesWindow \/ ClearCollected
  <2>1. threshold' = threshold
    BY <1>2 DEF LeavesWindow, ClearCollected
  <2>2. CASE LeavesWindow
    BY <2>1, <2>2 DEF EvidenceInv, LeavesWindow, Evident
  <2>3. CASE ClearCollected
    BY <2>1, <2>3 DEF EvidenceInv, ClearCollected, Evident
  <2>4. QED
    BY <1>2, <2>2, <2>3
<1>3. CASE RunCycle
  BY <1>3, CycleIsEvident DEF RunCycle
<1>4. ASSUME NEW l \in EvoLoops, LoopWakes(l)
      PROVE  EvidenceInv' /\ Evident
  <2>1. CASE evolving
    BY <1>4, <2>1, CycleIsEvident DEF LoopWakes
  <2>2. CASE ~evolving
    BY <1>4, <2>2 DEF LoopWakes, EvidenceInv, evidence, Evident
  <2>3. QED
    BY <2>1, <2>2
<1>5. CASE \/ StartBackground \/ UNCHANGED evolutionVars
           \/ \E s \in Stoppers : Stop(s) \/ StopReturns(s)
           \/ \E l \in EvoLoops : LoopCancelled(l)
  <2>1. threshold' = threshold /\ UNCHANGED evidence
    BY <1>5 DEF StartBackground, evolutionVars, Stop, StopReturns, LoopCancelled, evidence
  <2>2. QED
    BY <2>1 DEF EvidenceInv, evidence, Evident
<1>6. QED
  BY <1>1, <1>2, <1>3, <1>4, <1>5 DEF EvolutionNext

LEMMA ThresholdFollows == ServicesSpec => ThresholdFollowsEvidence
<1>1. ServicesInit => EvidenceInv
  BY EvidenceInvInit DEF ServicesInit
<1>2. EvidenceInv /\ [ServicesNext]_servicesVars => EvidenceInv'
  BY OnePartMoves, EvidenceInvNext
<1>3. EvidenceInv /\ [ServicesNext]_servicesVars =>
        [threshold' # threshold =>
           /\ threshold' < threshold /\ threshold - threshold' <= 2 * MaxDelta
           /\ Cardinality(Recent) >= MinExecutions
           /\ \E i \in Recent : collected[i].rework \/ collected[i].score < 60]_evolutionVars
  BY OnePartMoves, EvidenceInvNext DEF Evident
<1>4. QED
  BY <1>1, <1>2, <1>3, PTL DEF ServicesSpec, ThresholdFollowsEvidence

\* One loop evolves the policy, its threshold falls on evidence only, and stored rules
\* change as they are asked to (loop.py:128, tuner.py:48, persistence.py:325).
THEOREM ChangesStayJustified == ServicesSpec => ChangesAreJustified
BY OneLoopEvolves, ThresholdFollows, RulesChangeByCalls, PTL DEF ChangesAreJustified
-----------------------------------------------------------------------------
(***************************************************************************)
(* Model servers.                                                          *)
(***************************************************************************)
\* A check is of a registration, the present one unless its name has raced.
ServersInv ==
  /\ registrations \in Nat
  /\ endpoint \in [Names -> Nat] /\ vouched \in [Names -> Nat]
  /\ check \in [Checkers -> [phase : {"idle", "health", "tags"},
                             name : Names \cup {"none"}, as : Nat]]
  /\ \A c \in Checkers :
       check[c].phase # "idle" =>
         /\ check[c].name \in Names /\ check[c].as # 0
         /\ check[c].name \notin raced => check[c].as = endpoint[check[c].name]
  /\ \A n \in Names :
       n \in healthy /\ n \notin raced => endpoint[n] # 0 /\ vouched[n] = endpoint[n]
  /\ healthy \subseteq Names

LEMMA ServersInvInit == ServersInit => ServersInv
BY DEF ServersInit, ServersInv, NoCheck

LEMMA ServersInvNext ==
  ASSUME ServersInv, [ServersNext]_serverVars
  PROVE  ServersInv'
<1>1. ASSUME NEW n \in Names, Register(n)
      PROVE  ServersInv'
  BY <1>1 DEF ServersInv, Register, InCheck
<1>2. ASSUME NEW n \in Names, Unregister(n)
      PROVE  ServersInv'
  BY <1>2 DEF ServersInv, Unregister, InCheck
<1>3. ASSUME NEW c \in Checkers, NEW n \in Names, n \in Registered,
             Checking(c, "health", n),
             UNCHANGED <<endpoint, registrations, healthy, vouched, raced>>
      PROVE  ServersInv'
  BY <1>3 DEF ServersInv, Registered, Checking
<1>4. ASSUME NEW n \in Names, SweepNext(n) \/ \E c \in Checks : StartCheck(c, n)
      PROVE  ServersInv'
  BY <1>3, <1>4 DEF SweepNext, StartCheck, Checkers
<1>5. ASSUME NEW c \in Checkers, AsksForTags(c)
      PROVE  ServersInv'
  BY <1>5 DEF ServersInv, AsksForTags
<1>6. ASSUME NEW c \in Checkers, NEW ok \in BOOLEAN, CheckEnds(c, ok)
      PROVE  ServersInv'
  BY <1>6 DEF ServersInv, CheckEnds, NoCheck
<1>7. ASSUME NEW c \in Checkers, CheckRaises(c)
      PROVE  ServersInv'
  BY <1>7 DEF ServersInv, CheckRaises, NoCheck
<1>8. CASE StartSweep \/ SweepEnds \/ UNCHANGED serverVars
  <2>1. UNCHANGED <<endpoint, registrations, healthy, vouched, raced, check>>
    BY <1>8 DEF StartSweep, SweepEnds, serverVars
  <2>2. QED
    BY <2>1 DEF ServersInv
<1>9. QED
  BY <1>1, <1>2, <1>4, <1>5, <1>6, <1>8, <1>7 DEF ServersNext

\* Whoever counts as healthy was found healthy as it is registered now, up to the race
\* of a registration with a check (vllm_bridge.py:113).
THEOREM HealthyWereChecked == ServicesSpec => []HealthyMeansChecked
<1>1. ServicesInit => ServersInv
  BY ServersInvInit DEF ServicesInit
<1>2. ServersInv /\ [ServicesNext]_servicesVars => ServersInv'
  BY OnePartMoves, ServersInvNext
<1>3. ServersInv => HealthyMeansChecked
  BY DEF ServersInv, HealthyMeansChecked, Registered
<1>4. QED
  BY <1>1, <1>2, <1>3, PTL DEF ServicesSpec
\* Names are in the dict in the order of their insertion, and a sweep has yet to come to
\* those it has missed so far.
SweepInv ==
  /\ registrations \in Nat /\ endpoint \in [Names -> Nat]
  /\ inserted \in [Names -> Nat]
  /\ \A n \in Names : inserted[n] <= registrations
  /\ \A n \in Registered : inserted[n] > 0
  /\ \A m, n \in Registered : inserted[m] = inserted[n] => m = n
  /\ sweep \in [phase : {"idle", "next", "checks", "raised"}, at : Nat, size : Int,
                missed : SUBSET Names]
  /\ check \in [Checkers -> [phase : {"idle", "health", "tags"},
                             name : Names \cup {"none"}, as : Nat]]
  /\ sweep.missed \subseteq Registered
  /\ sweep.phase \in {"idle", "raised"} => sweep.missed = {}
  /\ check["sweep"].phase # "idle" <=> sweep.phase = "checks"
  /\ \A n \in sweep.missed :
       \/ inserted[n] > sweep.at
       \/ sweep.phase = "checks" /\ check["sweep"].name = n

LEMMA SweepInvInit == ServersInit => SweepInv
BY DEF ServersInit, SweepInv, NoCheck, NoSweep, Registered, Checkers

LEMMA SweepInvNext ==
  ASSUME SweepInv, [ServersNext]_serverVars
  PROVE  SweepInv'
<1> USE DEF Registered
<1>1. ASSUME NEW n \in Names, Register(n)
      PROVE  SweepInv'
  <2>1. CASE n \in Registered
    BY <1>1, <2>1 DEF SweepInv, Register
  <2>2. CASE n \notin Registered
    BY <1>1, <2>2 DEF SweepInv, Register
  <2>3. QED
    BY <2>1, <2>2
<1>2. ASSUME NEW n \in Names, Unregister(n)
      PROVE  SweepInv'
  BY <1>2 DEF SweepInv, Unregister
<1>3. ASSUME NEW n \in Names, SweepNext(n)
      PROVE  SweepInv'
  <2>1. /\ n \in Registered /\ inserted[n] > sweep.at /\ sweep.phase = "next"
        /\ \A m \in Registered : inserted[m] > sweep.at => inserted[n] <= inserted[m]
        /\ sweep' = [sweep EXCEPT !.phase = "checks", !.at = inserted[n]]
        /\ check' = [check EXCEPT !["sweep"] =
                        [phase |-> "health", name |-> n, as |-> endpoint[n]]]
        /\ UNCHANGED <<endpoint, inserted, registrations>>
    BY <1>3 DEF SweepNext, Checking
  <2>2. \A m \in sweep.missed : m = n \/ inserted[m] > inserted[n]
    BY <2>1 DEF SweepInv
  <2>3. /\ sweep'.phase = "checks" /\ sweep'.at = inserted[n]
        /\ sweep'.missed = sweep.missed
        /\ check'["sweep"].phase = "health" /\ check'["sweep"].name = n
    BY <2>1 DEF SweepInv, Checkers
  <2>4. /\ sweep' \in [phase : {"idle", "next", "checks", "raised"}, at : Nat, size : Int,
                       missed : SUBSET Names]
        /\ check' \in [Checkers -> [phase : {"idle", "health", "tags"},
                                    name : Names \cup {"none"}, as : Nat]]
    BY <2>1 DEF SweepInv, Checkers
  <2>5. QED
    BY <2>1, <2>2, <2>3, <2>4 DEF SweepInv
<1>4. ASSUME NEW n \in Names, NEW c \in Checks, StartCheck(c, n)
      PROVE  SweepInv'
  BY <1>4, ModelServersAssumption DEF SweepInv, StartCheck, Checking, Checkers
<1>5. ASSUME NEW c \in Checkers, AsksForTags(c)
      PROVE  SweepInv'
  BY <1>5 DEF SweepInv, AsksForTags, Checkers
<1>6. ASSUME NEW c \in Checkers, NEW ok \in BOOLEAN, CheckEnds(c, ok)
      PROVE  SweepInv'
  <2>1. CASE c = "sweep"
    BY <1>6, <2>1 DEF SweepInv, CheckEnds, NoCheck
  <2>2. CASE c # "sweep"
    BY <1>6, <2>2 DEF SweepInv, CheckEnds, NoCheck
  <2>3. QED
    BY <2>1, <2>2
<1>7. ASSUME NEW c \in Checkers, CheckRaises(c)
       PROVE  SweepInv'
  <2>1. CASE c = "sweep"
    BY <1>7, <2>1 DEF SweepInv, CheckRaises, NoCheck, NoSweep
  <2>2. CASE c # "sweep"
    BY <1>7, <2>2 DEF SweepInv, CheckRaises, NoCheck
  <2>3. QED
    BY <2>1, <2>2
<1>8. CASE StartSweep
  <2>1. Cardinality(Registered) \in Int
    BY ModelServersAssumption, FS_Subset, FS_CardinalityType
  <2>2. QED
    BY <1>8, <2>1 DEF SweepInv, StartSweep
<1>9. CASE SweepEnds
  BY <1>9 DEF SweepInv, SweepEnds, NoSweep
<1>10. CASE UNCHANGED serverVars
  BY <1>10 DEF SweepInv, serverVars
<1>11. QED
  BY <1>1, <1>2, <1>3, <1>4, <1>5, <1>6, <1>8, <1>9, <1>10, <1>7 DEF ServersNext

LEMMA SweepsComplete == ServicesSpec => []SweepIsComplete
<1>1. ServicesInit => SweepInv
  BY SweepInvInit DEF ServicesInit
<1>2. SweepInv /\ [ServicesNext]_servicesVars => SweepInv'
  BY OnePartMoves, SweepInvNext
<1>3. SweepInv => SweepIsComplete
  BY DEF SweepInv, SweepIsComplete
<1>4. QED
  BY <1>1, <1>2, <1>3, PTL DEF ServicesSpec
-----------------------------------------------------------------------------
(***************************************************************************)
(* Worker nodes.                                                           *)
(***************************************************************************)
NodesInv ==
  /\ node \in [Nodes -> {"absent"} \cup WorkerStatuses]
  /\ \A n \in drained : n \in Nodes /\ (n \notin givenUp => node[n] = "DRAINING")

LEMMA NodesInvNext ==
  ASSUME NodesInv, [NodesNext]_nodeVars
  PROVE  NodesInv'
<1>1. ASSUME NEW n \in Nodes, RegisterNode(n) \/ UnregisterNode(n)
      PROVE  NodesInv'
  BY <1>1 DEF NodesInv, RegisterNode, UnregisterNode, SetNode, WorkerStatuses
<1>2. ASSUME NEW n \in Nodes, Heartbeat(n)
      PROVE  NodesInv'
  BY <1>2 DEF NodesInv, Heartbeat, SetNode, WorkerStatuses
<1>3. ASSUME NEW n \in Nodes, MarkOffline(n) \/ DrainNode(n)
      PROVE  NodesInv'
  BY <1>3 DEF NodesInv, MarkOffline, DrainNode, SetNode, WorkerStatuses
<1>4. CASE UNCHANGED nodeVars
  BY <1>4 DEF NodesInv, nodeVars
<1>5. QED
  BY <1>1, <1>2, <1>3, <1>4 DEF NodesNext

\* A drained node takes tasks again only once it was registered anew, or given up
\* (cluster.py:194).
THEOREM DrainedTakeNothing == ServicesSpec => []DrainedStaysDrained
<1>1. ServicesInit => NodesInv
  BY DEF ServicesInit, RayInit, NodesInv
<1>2. NodesInv /\ [ServicesNext]_servicesVars => NodesInv'
  BY OnePartMoves, NodesInvNext
<1>3. NodesInv => DrainedStaysDrained
  BY DEF NodesInv, DrainedStaysDrained
<1>4. QED
  BY <1>1, <1>2, <1>3, PTL DEF ServicesSpec
-----------------------------------------------------------------------------
(***************************************************************************)
(* The cluster of an API server.                                           *)
(***************************************************************************)
\* What the status says of the cluster when nobody is at work on it.
AtRest ==
  /\ rayStatus \notin {"CREATING", "SCALING"}
  /\ hasClient /\ rayStatus = "RUNNING" => cluster = wanted
  /\ ~hasClient \/ rayStatus \in {"UNKNOWN", "DELETED"} => cluster = Absent

\* What it will say after the answer, while one operation is under way and nothing has
\* come in between.
UnderWay(op) ==
  /\ op.kind \in {"deploy", "scale"} /\ op.phase = "done" => cluster = wanted
  /\ op.kind \in {"deploy", "scale"} => op.replicas = wanted
  /\ op.kind = "delete" =>
       IF op.phase = "done" THEN cluster = Absent ELSE AtRest

KubeInv ==
  /\ operation \in [Operations -> [kind : Kinds \cup {"none"}, replicas : Replicas \cup {Absent},
                                   phase : {"new", "sent", "done", "refused", "over"}]]
  /\ \A o \in InFlight : operation[o].kind \in Kinds
  /\ hasClient \in BOOLEAN /\ (~hasClient => InFlight = {} /\ excuses = {})
  /\ excuses = {} =>
       /\ \A o, p \in InFlight : o = p
       /\ InFlight = {} => AtRest
       /\ \A o \in InFlight : UnderWay(operation[o])

LEMMA KubeInvInit == RayInit => KubeInv
BY DEF RayInit, KubeInv, InFlight, AtRest

LEMMA KubeInvNext ==
  ASSUME KubeInv, [KubeNext]_kubeVars
  PROVE  KubeInv'
<1> USE RayAssumption DEF Kinds, Absent
<1>0. hasClient' = hasClient
  BY DEF KubeNext, Send, ServerHandles, Answered, Lost, SucceedAlone, kubeVars
<1>1. ASSUME NEW o \in Operations, NEW kind \in Kinds, NEW r \in Replicas, Send(o, kind, r)
      PROVE  KubeInv'
  <2>1. InFlight' = InFlight \cup {o} /\ o \notin InFlight
    BY <1>1 DEF KubeInv, Send, InFlight
  <2>2. operation' = [operation EXCEPT ![o] = [kind |-> kind, replicas |-> r, phase |-> "sent"]]
    BY <1>1 DEF Send
  <2>3. excuses' = {} => excuses = {} /\ InFlight = {}
    BY <1>1, <2>1 DEF Send, Overlap
  <2>4. InFlight = {} /\ excuses = {} => UnderWay(operation[o])'
    <3>1. CASE kind = "delete"
      BY <1>1, <2>2, <3>1 DEF KubeInv, Send, UnderWay, AtRest
    <3>2. CASE kind # "delete"
      BY <1>1, <2>2, <3>2 DEF KubeInv, Send, UnderWay
    <3>3. QED
      BY <3>1, <3>2
  <2>5. (~hasClient => InFlight = {} /\ excuses = {})'
    BY <1>0, <1>1 DEF Send
  <2>6. QED
    BY <1>0, <2>1, <2>2, <2>3, <2>4, <2>5 DEF KubeInv
<1>2. ASSUME NEW o \in Operations, ServerHandles(o)
      PROVE  KubeInv'
  <2>1. InFlight' = InFlight /\ o \in InFlight /\ operation[o].phase = "sent"
    BY <1>2 DEF KubeInv, ServerHandles, Reaches, InFlight
  <2>2. excuses = {} => UnderWay(operation[o]) /\ \A p \in InFlight : p = o
    BY <2>1 DEF KubeInv
  <2>3. excuses = {} => UnderWay(operation[o])'
    BY <1>2, <2>1, <2>2 DEF KubeInv, ServerHandles, Reaches, UnderWay, AtRest
  <2>4. QED
    BY <1>2, <2>1, <2>2, <2>3 DEF KubeInv, ServerHandles, Reaches
<1>3. ASSUME NEW o \in Operations, Answered(o)
      PROVE  KubeInv'
  <2>1. InFlight' = InFlight \ {o} /\ o \in InFlight
    BY <1>3 DEF KubeInv, Answered, Reaches, InFlight
  <2>2. excuses' = {} => excuses = {} /\ UnderWay(operation[o]) /\ \A p \in InFlight : p = o
    BY <1>3, <2>1 DEF KubeInv, Answered
  <2>3. excuses' = {} => AtRest'
    BY <1>3, <2>1, <2>2 DEF KubeInv, Answered, UnderWay, AtRest
  <2>4. QED
    <3>1. operation' = [operation EXCEPT ![o].phase = "over"]
      BY <1>3 DEF Answered, Reaches
    <3>2. excuses' = {} => InFlight' = {}
      BY <2>1, <2>2
    <3>3. \A p \in InFlight' : operation'[p] = operation[p]
      BY <2>1, <3>1 DEF KubeInv
    <3>4. QED
      BY <1>0, <2>1, <2>2, <2>3, <3>1, <3>2, <3>3 DEF KubeInv
<1>4. ASSUME NEW o \in Operations, Lost(o)
      PROVE  KubeInv'
  <2>1. InFlight' = InFlight \ {o} /\ excuses' # {}
    BY <1>4 DEF KubeInv, Lost, Reaches, InFlight
  <2>2. QED
    BY <1>4, <2>1 DEF KubeInv, Lost, Reaches
<1>5. ASSUME NEW kind \in Kinds, NEW r \in Replicas, SucceedAlone(kind, r)
      PROVE  KubeInv'
  BY <1>5 DEF KubeInv, SucceedAlone, InFlight, AtRest
<1>6. CASE UNCHANGED kubeVars
  BY <1>6 DEF KubeInv, kubeVars, InFlight, AtRest, UnderWay
<1>7. QED
  BY <1>1, <1>2, <1>3, <1>4, <1>5, <1>6 DEF KubeNext

LEMMA KubeStatusStaysTrue == ServicesSpec => []KubeStatusIsTrue
<1>1. ServicesInit => KubeInv
  BY KubeInvInit DEF ServicesInit
<1>2. KubeInv /\ [ServicesNext]_servicesVars => KubeInv'
  BY OnePartMoves, KubeInvNext
<1>3. KubeInv => KubeStatusIsTrue
  BY DEF KubeInv, KubeStatusIsTrue, AtRest
<1>4. QED
  BY <1>1, <1>2, <1>3, PTL DEF ServicesSpec
-----------------------------------------------------------------------------
(***************************************************************************)
(* The web client.                                                         *)
(***************************************************************************)
ReadyStates == {"CONNECTING", "OPEN", "CLOSING", "CLOSED"}
WebClients == [socket : Nat, intentionallyClosed : BOOLEAN,
               status : {"closed", "connecting", "open"}, timer : BOOLEAN]

\* The client c has the sockets ss, and no other connection than its current one.
HasSockets(c, ss) ==
  /\ c \in WebClients /\ ss \in Seq(ReadyStates) /\ c.socket <= Len(ss)
  /\ \A i \in 1 .. Len(ss) : ss[i] \in {"CONNECTING", "OPEN"} => i = c.socket

Tries(c, ss) == c.timer \/ (c.socket # 0 /\ ss[c.socket] # "CLOSED")

\* Whoever wants a connection has not closed it; whoever wants none has closed all there
\* were.
WebInv ==
  /\ HasSockets(client, sockets)
  /\ Wants(route, hasToken) => ~client.intentionallyClosed /\ Tries(client, sockets)
  /\ ~Wants(route, hasToken) =>
       /\ ~client.timer /\ client.socket = 0
       /\ client.intentionallyClosed \/ sockets = <<>>

LEMMA ConnectsTries ==
  ASSUME NEW c, NEW ss, HasSockets(c, ss), Connects(c, ss),
         c.intentionallyClosed => c.socket = 0
  PROVE  /\ HasSockets(client, sockets)' /\ Tries(client, sockets)'
         /\ ~client'.intentionallyClosed
<1>1. CASE c.socket # 0 /\ ss[c.socket] # "CLOSED"
  BY <1>1 DEF Connects, HasSockets, WebClients, Tries
<1>2. CASE ~(c.socket # 0 /\ ss[c.socket] # "CLOSED")
  <2>1. \A i \in 1 .. Len(ss) : ss[i] \notin {"CONNECTING", "OPEN"}
    BY <1>2 DEF HasSockets, WebClients
  <2> DEFINE d == [c EXCEPT !.intentionallyClosed = FALSE, !.status = "connecting"]
  <2>2. /\ d \in WebClients /\ d.intentionallyClosed = FALSE /\ d.socket = c.socket
    BY DEF HasSockets, WebClients
  <2> HIDE DEF d
  <2>3. CASE client' = [d EXCEPT !.socket = Len(ss) + 1] /\ sockets' = Append(ss, "CONNECTING")
    <3>1. /\ client' \in WebClients /\ client'.socket = Len(ss) + 1
          /\ client'.intentionallyClosed = FALSE
      <4>1. Len(ss) + 1 \in Nat
        BY DEF HasSockets
      <4>2. QED
        BY <2>2, <2>3, <4>1 DEF WebClients
    <3>2. /\ sockets' \in Seq(ReadyStates) /\ Len(sockets') = Len(ss) + 1
          /\ sockets'[Len(ss) + 1] = "CONNECTING"
          /\ \A i \in 1 .. Len(ss) : sockets'[i] = ss[i]
      BY <2>3 DEF HasSockets, ReadyStates
    <3>3. QED
      BY <2>1, <3>1, <3>2 DEF HasSockets, Tries
  <2>4. CASE client' = [d EXCEPT !.timer = TRUE] /\ sockets' = ss
    <3>1. /\ client' \in WebClients /\ client'.socket = c.socket /\ client'.timer = TRUE
          /\ client'.intentionallyClosed = FALSE
      BY <2>2, <2>4 DEF WebClients
    <3>2. QED
      BY <2>4, <3>1 DEF HasSockets, Tries
  <2>5. QED
    BY <1>2, <2>3, <2>4 DEF Connects, d
<1>3. QED
  BY <1>1, <1>2

LEMMA RendersKeeps ==
  ASSUME WebInv, NEW r, NEW token, Renders(r, token)
  PROVE  WebInv'
<1> DEFINE had == Wants(route, hasToken)
           c == IF had THEN ClosedBy(client) ELSE client
           ss == IF had THEN Closing(sockets, client.socket) ELSE sockets
<1>1. route' = r /\ hasToken' = token
  BY DEF Renders
<1>2. CASE r.mounted = route.mounted /\ r.probe = route.probe /\ token = hasToken
  <2>1. UNCHANGED <<client, sockets>> /\ (Wants(r, token) <=> had)
    BY <1>2 DEF Renders, Wants
  <2>2. QED
    BY <1>1, <2>1 DEF WebInv, HasSockets, Tries
<1>3. CASE ~(r.mounted = route.mounted /\ r.probe = route.probe /\ token = hasToken)
  <2>1. HasSockets(c, ss) /\ c.socket = 0 /\ ~c.timer
        /\ (c.intentionallyClosed \/ ss = <<>>)
    <3>1. CASE had
      <4>1. c \in WebClients /\ c.socket = 0 /\ c.timer = FALSE /\ c.intentionallyClosed = TRUE
        BY <3>1 DEF WebInv, HasSockets, WebClients, ClosedBy
      <4>2. /\ ss \in Seq(ReadyStates)
            /\ \A i \in 1 .. Len(ss) : ss[i] \notin {"CONNECTING", "OPEN"}
        BY <3>1 DEF WebInv, HasSockets, WebClients, Closing, ReadyStates
      <4>3. QED
        BY <4>1, <4>2 DEF HasSockets
    <3>2. CASE ~had
      BY <3>2 DEF WebInv
    <3>3. QED
      BY <3>1, <3>2
  <2>2. CASE Wants(r, token)
    <3>1. Connects(c, ss)
      BY <1>3, <2>2 DEF Renders
    <3>2. QED
      BY <1>1, <2>1, <2>2, <3>1, ConnectsTries DEF WebInv
  <2>3. CASE ~Wants(r, token)
    <3>1. client' = c /\ sockets' = ss
      BY <1>3, <2>3 DEF Renders
    <3>2. QED
      BY <1>1, <2>1, <2>3, <3>1 DEF WebInv, HasSockets
  <2>4. QED
    BY <2>2, <2>3
<1>4. QED
  BY <1>2, <1>3

LEMMA WebInvNext ==
  ASSUME WebInv, [WebNext]_webVars
  PROVE  WebInv'
<1>1. CASE Enter \/ ProbePasses \/ ProbeUnauthorized \/ TokenCleared \/ LeaveForLogin
  BY <1>1, RendersKeeps DEF Enter, ProbePasses, ProbeUnauthorized, TokenCleared, LeaveForLogin
<1>2. CASE RetryTimerFires
  <2> DEFINE c == [client EXCEPT !.timer = FALSE]
  <2>1. Wants(route, hasToken) /\ UNCHANGED <<route, hasToken>> /\ Connects(c, sockets)
    BY <1>2 DEF WebInv, RetryTimerFires
  <2>2. HasSockets(c, sockets) /\ ~c.intentionallyClosed
    BY <2>1 DEF WebInv, HasSockets, WebClients
  <2>3. QED
    BY <2>1, <2>2, ConnectsTries DEF WebInv
<1>3. ASSUME NEW i \in DOMAIN sockets, SocketOpens(i) \/ ServerStartsClosing(i)
      PROVE  WebInv'
  <2>1. PICK to \in {"OPEN", "CLOSING"} : sockets' = [sockets EXCEPT ![i] = to]
    BY <1>3 DEF SocketOpens, ServerStartsClosing
  <2>2. /\ client' \in WebClients /\ client'.socket = client.socket
        /\ client'.timer = client.timer
        /\ client'.intentionallyClosed = client.intentionallyClosed
    BY <1>3 DEF WebInv, HasSockets, WebClients, SocketOpens, ServerStartsClosing
  <2>3. sockets[i] \in {"CONNECTING", "OPEN"} /\ UNCHANGED <<route, hasToken>>
    BY <1>3 DEF SocketOpens, ServerStartsClosing
  <2>4. sockets' \in Seq(ReadyStates) /\ Len(sockets') = Len(sockets)
    BY <2>1 DEF WebInv, HasSockets, ReadyStates
  <2>5. QED
    BY <2>1, <2>2, <2>3, <2>4 DEF WebInv, HasSockets, Tries
<1>4. ASSUME NEW i \in DOMAIN sockets, SocketCloses(i)
      PROVE  WebInv'
  <2>1. sockets' = [sockets EXCEPT ![i] = "CLOSED"] /\ UNCHANGED <<route, hasToken>>
    BY <1>4 DEF SocketCloses
  <2>2. /\ client' \in WebClients /\ client'.socket = client.socket
        /\ client'.timer = (client.timer \/ ~client.intentionallyClosed)
        /\ client'.intentionallyClosed = client.intentionallyClosed
    BY <1>4 DEF WebInv, HasSockets, WebClients, SocketCloses
  <2>3. sockets' \in Seq(ReadyStates) /\ Len(sockets') = Len(sockets) /\ sockets # <<>>
    BY <2>1 DEF WebInv, HasSockets, ReadyStates
  <2>4. HasSockets(client, sockets)'
    BY <2>1, <2>2, <2>3 DEF WebInv, HasSockets
  <2>5. CASE Wants(route, hasToken)
    <3>1. client'.timer /\ client'.intentionallyClosed = FALSE /\ Wants(route, hasToken)'
      BY <2>1, <2>2, <2>5 DEF WebInv, HasSockets, WebClients, Wants
    <3>2. QED
      BY <2>4, <3>1 DEF WebInv, Tries
  <2>6. CASE ~Wants(route, hasToken)
    <3>1. /\ client'.timer = FALSE /\ client'.intentionallyClosed /\ client'.socket = 0
          /\ ~Wants(route, hasToken)'
      BY <2>1, <2>2, <2>3, <2>6 DEF WebInv, HasSockets, WebClients, Wants
    <3>2. QED
      BY <2>4, <3>1 DEF WebInv
  <2>7. QED
    BY <2>5, <2>6
<1>5. CASE UNCHANGED webVars
  BY <1>5 DEF WebInv, webVars, HasSockets, Tries, Wants
<1>6. QED
  BY <1>1, <1>2, <1>3, <1>4, <1>5 DEF WebNext

LEMMA WebInvInit == ServicesInit => WebInv
<1> SUFFICES ASSUME ServicesInit PROVE WebInv
  OBVIOUS
<1>1. /\ route.mounted = FALSE /\ sockets = <<>>
      /\ client = [socket |-> 0, intentionallyClosed |-> FALSE, status |-> "closed",
                   timer |-> FALSE]
  BY DEF ServicesInit, WebInit, LoginPage
<1>2. HasSockets(client, sockets)
  BY <1>1 DEF HasSockets, WebClients
<1>3. ~Wants(route, hasToken)
  BY <1>1 DEF Wants
<1>4. QED
  BY <1>1, <1>2, <1>3 DEF WebInv

\* However often the effect runs and old timers fire, the client has one connection at
\* most, tries again for as long as one is wanted, and never once it is not (ws.ts:28, 59).
THEOREM OneConnectionWhileWanted == ServicesSpec => [](OneConnection /\ KeepsTrying)
<1>1. ServicesInit => WebInv
  BY WebInvInit
<1>2. WebInv /\ [ServicesNext]_servicesVars => WebInv'
  BY OnePartMoves, WebInvNext
<1>3. WebInv => OneConnection /\ KeepsTrying
  BY DEF WebInv, HasSockets, Tries, OneConnection, KeepsTrying
<1>4. QED
  BY <1>1, <1>2, <1>3, PTL DEF ServicesSpec

Open(c, ss) == c.socket # 0 /\ ss[c.socket] = "OPEN"

\* "open" is shown without an open connection only while some socket is closing, and is
\* missing on an open one only if it was overtaken.
StatusFits(c, ss, late) ==
  /\ c.status = "open" /\ ~Open(c, ss) => \E i \in 1 .. Len(ss) : ss[i] = "CLOSING"
  /\ Open(c, ss) /\ c.status # "open" => late

StatusInv == StatusFits(client, sockets, overtaken)

LEMMA ConnectsFits ==
  ASSUME NEW c, NEW ss, HasSockets(c, ss), Connects(c, ss), StatusFits(c, ss, overtaken)
  PROVE  StatusInv'
<1>1. CASE c.socket # 0 /\ ss[c.socket] # "CLOSED"
  BY <1>1 DEF Connects, StatusInv
<1>2. CASE ~(c.socket # 0 /\ ss[c.socket] # "CLOSED")
  <2> DEFINE d == [c EXCEPT !.intentionallyClosed = FALSE, !.status = "connecting"]
  <2>1. d \in WebClients /\ d.socket = c.socket /\ d.status = "connecting"
    BY DEF HasSockets, WebClients
  <2>2. Len(ss) \in Nat /\ ss \in Seq(ReadyStates)
    BY DEF HasSockets
  <2> HIDE DEF d
  <2>3. CASE client' = [d EXCEPT !.socket = Len(ss) + 1] /\ sockets' = Append(ss, "CONNECTING")
    <3>1. /\ client'.socket = Len(ss) + 1 /\ client'.status = "connecting"
          /\ sockets'[Len(ss) + 1] = "CONNECTING"
      BY <2>1, <2>2, <2>3 DEF WebClients, ReadyStates
    <3>2. QED
      BY <3>1 DEF StatusInv, StatusFits, Open
  <2>4. CASE client' = [d EXCEPT !.timer = TRUE] /\ sockets' = ss
    <3>1. client'.socket = c.socket /\ client'.status = "connecting"
      BY <2>1, <2>4 DEF WebClients
    <3>2. QED
      BY <1>2, <2>4, <3>1 DEF StatusInv, StatusFits, Open
  <2>5. QED
    BY <1>2, <2>3, <2>4 DEF Connects, d
<1>3. QED
  BY <1>1, <1>2

LEMMA RendersFits ==
  ASSUME WebInv, StatusInv, NEW r, NEW token, Renders(r, token)
  PROVE  StatusInv'
<1> DEFINE had == Wants(route, hasToken)
           c == IF had THEN ClosedBy(client) ELSE client
           ss == IF had THEN Closing(sockets, client.socket) ELSE sockets
<1>1. CASE r.mounted = route.mounted /\ r.probe = route.probe /\ token = hasToken
  BY <1>1 DEF Renders, StatusInv
<1>2. CASE ~(r.mounted = route.mounted /\ r.probe = route.probe /\ token = hasToken)
  <2>1. HasSockets(c, ss) /\ c.socket = 0 /\ c.status = client.status
    <3>1. CASE had
      <4>1. c \in WebClients /\ c.socket = 0 /\ c.status = client.status
        BY <3>1 DEF WebInv, HasSockets, WebClients, ClosedBy
      <4>2. /\ ss \in Seq(ReadyStates)
            /\ \A i \in 1 .. Len(ss) : ss[i] \notin {"CONNECTING", "OPEN"}
        BY <3>1 DEF WebInv, HasSockets, WebClients, Closing, ReadyStates
      <4>3. QED
        BY <4>1, <4>2 DEF HasSockets
    <3>2. CASE ~had
      BY <3>2 DEF WebInv
    <3>3. QED
      BY <3>1, <3>2
  <2>2. c.status = "open" => \E i \in 1 .. Len(ss) : ss[i] = "CLOSING"
    <3>1. CASE had /\ client.socket # 0 /\ sockets[client.socket] # "CLOSED"
      <4>1. client.socket \in 1 .. Len(sockets)
        BY <3>1 DEF WebInv, HasSockets, WebClients
      <4>2. ss = [sockets EXCEPT ![client.socket] = "CLOSING"]
        BY <3>1 DEF Closing
      <4>3. Len(ss) = Len(sockets) /\ ss[client.socket] = "CLOSING"
        BY <4>1, <4>2 DEF WebInv, HasSockets
      <4>4. QED
        BY <4>1, <4>3
    <3>2. CASE ~(had /\ client.socket # 0 /\ sockets[client.socket] # "CLOSED")
      <4>1. ss = sockets /\ (~had => client.socket = 0)
        BY <3>2 DEF Closing, WebInv
      <4>2. ~Open(client, sockets)
        BY <3>2, <4>1 DEF Open
      <4>3. QED
        BY <2>1, <4>1, <4>2 DEF StatusInv, StatusFits
    <3>3. QED
      BY <3>1, <3>2
  <2>3. \A late : StatusFits(c, ss, late)
    BY <2>1, <2>2 DEF StatusFits, Open
  <2>4. CASE Wants(r, token)
    <3>1. Connects(c, ss)
      BY <1>2, <2>4 DEF Renders
    <3> HIDE DEF c, ss
    <3>2. QED
      BY <2>1, <2>3, <3>1, ConnectsFits
  <2>5. CASE ~Wants(r, token)
    <3>1. client' = c /\ sockets' = ss
      BY <1>2, <2>5 DEF Renders
    <3> HIDE DEF c, ss
    <3>2. QED
      BY <2>3, <3>1 DEF StatusInv
  <2>6. QED
    BY <2>4, <2>5
<1>3. QED
  BY <1>1, <1>2

LEMMA StatusInvNext ==
  ASSUME WebInv, StatusInv, [WebNext]_webVars
  PROVE  StatusInv'
<1>1. CASE Enter \/ ProbePasses \/ ProbeUnauthorized \/ TokenCleared \/ LeaveForLogin
  BY <1>1, RendersFits DEF Enter, ProbePasses, ProbeUnauthorized, TokenCleared, LeaveForLogin
<1>2. CASE RetryTimerFires
  <2> DEFINE c == [client EXCEPT !.timer = FALSE]
  <2>1. Connects(c, sockets)
    BY <1>2 DEF RetryTimerFires
  <2>2. c \in WebClients /\ c.socket = client.socket /\ c.status = client.status
    BY DEF WebInv, HasSockets, WebClients
  <2> HIDE DEF c
  <2>3. HasSockets(c, sockets) /\ StatusFits(c, sockets, overtaken)
    BY <2>2 DEF WebInv, HasSockets, StatusInv, StatusFits, Open
  <2>4. QED
    BY <2>1, <2>3, ConnectsFits
<1>3. ASSUME NEW i \in DOMAIN sockets, SocketOpens(i) \/ ServerStartsClosing(i)
      PROVE  StatusInv'
  <2>1. i \in 1 .. Len(sockets) /\ i = client.socket /\ i # 0
    BY <1>3 DEF WebInv, HasSockets, SocketOpens, ServerStartsClosing
  <2>2. CASE SocketOpens(i)
    <3>1. client'.status = "open" /\ client'.socket = i /\ sockets'[i] = "OPEN"
      BY <2>1, <2>2 DEF WebInv, HasSockets, WebClients, SocketOpens
    <3>2. QED
      BY <2>1, <3>1 DEF StatusInv, StatusFits, Open
  <2>3. CASE ServerStartsClosing(i)
    <3>1. client'.socket = i /\ sockets'[i] = "CLOSING" /\ Len(sockets') = Len(sockets)
      BY <2>1, <2>3 DEF WebInv, HasSockets, WebClients, ServerStartsClosing
    <3>2. QED
      BY <2>1, <3>1 DEF StatusInv, StatusFits, Open
  <2>4. QED
    BY <1>3, <2>2, <2>3
<1>4. ASSUME NEW i \in DOMAIN sockets, SocketCloses(i)
      PROVE  StatusInv'
  <2>1. client'.status = "closed" /\ client'.socket = client.socket
    BY <1>4 DEF WebInv, HasSockets, WebClients, SocketCloses
  <2>2. sockets' = [sockets EXCEPT ![i] = "CLOSED"] /\ i \in 1 .. Len(sockets)
    BY <1>4 DEF WebInv, HasSockets, SocketCloses
  <2>3. Open(client, sockets)' => i # client.socket /\ Open(client, sockets)
    BY <2>1, <2>2 DEF WebInv, HasSockets, Open
  <2>4. Open(client, sockets)' => overtaken'
    BY <1>4, <2>3 DEF SocketCloses, Open
  <2>5. QED
    BY <2>1, <2>4 DEF StatusInv, StatusFits
<1>5. CASE UNCHANGED webVars
  BY <1>5 DEF StatusInv, StatusFits, Open, webVars
<1>6. QED
  BY <1>1, <1>2, <1>3, <1>4, <1>5 DEF WebNext

LEMMA StatusStaysTheSockets == ServicesSpec => []StatusIsTheSockets
<1>1. ServicesInit => WebInv /\ StatusInv
  <2>1. ServicesInit => StatusInv
    <3> SUFFICES ASSUME ServicesInit PROVE StatusInv
      OBVIOUS
    <3>1. client.status = "closed" /\ client.socket = 0
      BY DEF ServicesInit, WebInit
    <3>2. QED
      BY <3>1 DEF StatusInv, StatusFits, Open
  <2>2. QED
    BY <2>1, WebInvInit
<1>2. WebInv /\ StatusInv /\ [ServicesNext]_servicesVars => WebInv' /\ StatusInv'
  BY OnePartMoves, WebInvNext, StatusInvNext
<1>3. WebInv /\ StatusInv => StatusIsTheSockets
  BY DEF WebInv, HasSockets, StatusInv, StatusFits, Open, StatusIsTheSockets
<1>4. QED
  BY <1>1, <1>2, <1>3, PTL DEF ServicesSpec

\* Who counts as healthy was found healthy, a sweep that returns has asked everyone, a
\* drained node stays drained, the status of a cluster and of the web client are true of
\* what is there, and the client keeps one connection for as long as it wants one
\* (vllm_bridge.py:113, cluster.py:194, kuberay.py:205, ws.ts:28).
THEOREM RemotesStayKnown == ServicesSpec => []RemotesAreKnown
BY HealthyWereChecked, SweepsComplete, DrainedTakeNothing, KubeStatusStaysTrue,
   OneConnectionWhileWanted, StatusStaysTheSockets, PTL DEF RemotesAreKnown

-----------------------------------------------------------------------------
(***************************************************************************)
(* Recovery: the breaker the steps share, with what is proved of it.       *)
(***************************************************************************)
Shared == INSTANCE CircuitBreaker_proofs WITH
  Callers <- RecoverySteps, Cancellable <- RecoverySteps,
  failure_threshold <- BreakerOpensAt, success_threshold <- BreakerClosesAt,
  half_open_max_calls <- BreakerProbes, MaxFailures <- MaxBreakerFailures,
  state <- brState, failureCount <- brFailures, successCount <- brSuccesses,
  halfOpenCalls <- brProbes, elapsed <- brElapsed, call <- brCall, leaked <- brLeaked

\* The assumption of the breaker's proofs.
LEMMA SharedAssumed ==
  /\ Shared!IsFiniteSet(RecoverySteps)
  /\ RecoverySteps \subseteq RecoverySteps
  /\ BreakerOpensAt \in Nat \ {0} /\ BreakerClosesAt \in Nat \ {0}
  /\ BreakerProbes \in Nat \ {0} /\ MaxBreakerFailures \in Nat
<1>1. Shared!IsFiniteSet(RecoverySteps)
  BY RecoveryAssumption, Zenon DEF Shared!IsFiniteSet, IsFiniteSet
<1>2. QED
  BY <1>1, RecoveryAssumption

\* The breaker of the model is the one of the proofs.
LEMMA SharedIsBreaker ==
  /\ Breaker!Init <=> Shared!Init
  /\ Breaker!TypeOK <=> Shared!TypeOK
  /\ Shared!SlotAccounting => Breaker!SlotAccounting
  /\ Breaker!CountersBelowThresholds <=> Shared!CountersBelowThresholds
  /\ Breaker!TimeoutPasses <=> Shared!TimeoutPasses
  /\ \A s : /\ Breaker!CallNormally(s) <=> Shared!CallNormally(s)
            /\ Breaker!CallAsProbe(s) <=> Shared!CallAsProbe(s)
            /\ Breaker!CallRefused(s) <=> Shared!CallRefused(s)
            /\ Breaker!Succeed(s) <=> Shared!Succeed(s)
            /\ Breaker!Fail(s) <=> Shared!Fail(s)
            /\ Breaker!Cancel(s) <=> Shared!Cancel(s)
<1> USE DEF Breaker!vars, Shared!vars, Breaker!counters, Shared!counters,
            Breaker!Evaluated, Shared!Evaluated, Breaker!PeriodStarts, Shared!PeriodStarts,
            Breaker!Calls, Shared!Calls, Breaker!Closes, Shared!Closes,
            Breaker!InFlight, Shared!InFlight
<1>1. Breaker!Init <=> Shared!Init
  BY DEF Breaker!Init, Shared!Init
<1>2. Breaker!TypeOK <=> Shared!TypeOK
  BY DEF Breaker!TypeOK, Shared!TypeOK
<1>3. Shared!SlotAccounting => Breaker!SlotAccounting
  BY Zenon DEF Shared!SlotAccounting, Breaker!SlotAccounting, Shared!Probes, Breaker!Probes,
               Shared!Cardinality, Breaker!Cardinality
<1>4. Breaker!CountersBelowThresholds <=> Shared!CountersBelowThresholds
  BY DEF Breaker!CountersBelowThresholds, Shared!CountersBelowThresholds
<1>5. Breaker!TimeoutPasses <=> Shared!TimeoutPasses
  BY DEF Breaker!TimeoutPasses, Shared!TimeoutPasses
<1>6. ASSUME NEW s PROVE Breaker!CallNormally(s) <=> Shared!CallNormally(s)
  BY DEF Breaker!CallNormally, Shared!CallNormally
<1>7. ASSUME NEW s PROVE Breaker!CallAsProbe(s) <=> Shared!CallAsProbe(s)
  BY DEF Breaker!CallAsProbe, Shared!CallAsProbe, Breaker!HasSlot, Shared!HasSlot,
         Breaker!CountsOnEvaluation, Shared!CountsOnEvaluation
<1>8. ASSUME NEW s PROVE Breaker!CallRefused(s) <=> Shared!CallRefused(s)
  BY DEF Breaker!CallRefused, Shared!CallRefused, Breaker!HasSlot, Shared!HasSlot
<1>9. ASSUME NEW s PROVE Breaker!Succeed(s) <=> Shared!Succeed(s)
  BY DEF Breaker!Succeed, Shared!Succeed, Breaker!FailuresAfterSuccess,
         Shared!FailuresAfterSuccess, Breaker!SlotsAfterSuccess, Shared!SlotsAfterSuccess
<1>10. ASSUME NEW s PROVE Breaker!Fail(s) <=> Shared!Fail(s)
  BY DEF Breaker!Fail, Shared!Fail
<1>11. ASSUME NEW s PROVE Breaker!Cancel(s) <=> Shared!Cancel(s)
  BY DEF Breaker!Cancel, Shared!Cancel
<1>12. QED
  BY <1>1, <1>2, <1>3, <1>4, <1>5, <1>6, <1>7, <1>8, <1>9, <1>10, <1>11

BreakerMoves(s) ==
  \/ Breaker!CallNormally(s) \/ Breaker!CallAsProbe(s) \/ Breaker!CallRefused(s)
  \/ Breaker!Succeed(s) \/ Breaker!Fail(s) \/ Breaker!Cancel(s)

LEMMA SharedNext ==
  ASSUME Shared!IInv,
         \/ Breaker!TimeoutPasses \/ UNCHANGED breakerVars
         \/ \E s \in RecoverySteps : BreakerMoves(s)
  PROVE  Shared!IInv'
<1>1. [Shared!Next]_(Shared!vars)
  <2>1. CASE Breaker!TimeoutPasses
    BY <2>1, SharedIsBreaker DEF Shared!Next
  <2>2. CASE UNCHANGED breakerVars
    BY <2>2 DEF breakerVars, Shared!vars, Shared!counters
  <2>3. ASSUME NEW s \in RecoverySteps, BreakerMoves(s)
        PROVE  Shared!Next
    <3>1. \/ Shared!CallNormally(s) \/ Shared!CallAsProbe(s) \/ Shared!CallRefused(s)
          \/ Shared!Succeed(s) \/ Shared!Fail(s) \/ Shared!Cancel(s)
      BY <2>3, SharedIsBreaker DEF BreakerMoves
    <3>2. QED
      BY <3>1 DEF Shared!Next
  <2>4. QED
    BY <2>1, <2>2, <2>3
<1>2. QED
  BY <1>1, Shared!TypeStep, Shared!CountersStep, SharedAssumed DEF Shared!IInv

\* Whose call is in flight before and after a step of the breaker.
Calling(u) == brCall[u] # "idle"

LEMMA CallingFollows ==
  ASSUME Shared!IInv, NEW s \in RecoverySteps, BreakerMoves(s)
  PROVE  /\ \A u \in RecoverySteps : u # s => (Calling(u)' <=> Calling(u))
         /\ Breaker!CallNormally(s) \/ Breaker!CallAsProbe(s) => ~Calling(s) /\ Calling(s)'
         /\ Breaker!CallRefused(s) => ~Calling(s) /\ ~Calling(s)'
         /\ Breaker!Succeed(s) \/ Breaker!Fail(s) \/ Breaker!Cancel(s) => Calling(s) /\ ~Calling(s)'
<1>1. brCall \in [RecoverySteps -> {"normal", "probe", "late", "idle"}]
  BY DEF Shared!IInv, Shared!TypeOK, Shared!InFlight
<1>2. CASE Breaker!CallNormally(s) \/ Breaker!CallAsProbe(s)
  BY <1>1, <1>2 DEF Calling, Breaker!CallNormally, Breaker!CallAsProbe, Breaker!CallRefused,
     Breaker!Succeed, Breaker!Fail, Breaker!Cancel, Breaker!InFlight
<1>3. CASE Breaker!CallRefused(s)
  BY <1>1, <1>3 DEF Calling, Breaker!CallNormally, Breaker!CallAsProbe, Breaker!CallRefused,
     Breaker!Succeed, Breaker!Fail, Breaker!Cancel, Breaker!InFlight, Breaker!vars
<1>4. CASE Breaker!Succeed(s) \/ Breaker!Fail(s)
  <2>1. \E over : brCall' = Breaker!Calls(s, "idle", over)
    BY <1>4, Zenon DEF Breaker!Succeed, Breaker!Fail
  <2>2. brCall[s] \in Breaker!InFlight
    BY <1>4 DEF Breaker!Succeed, Breaker!Fail
  <2>3. QED
    BY <1>1, <2>1, <2>2 DEF Calling, Breaker!Calls, Breaker!CallNormally, Breaker!CallAsProbe,
       Breaker!CallRefused, Breaker!InFlight
<1>5. CASE Breaker!Cancel(s)
  BY <1>1, <1>5 DEF Calling, Breaker!CallNormally, Breaker!CallAsProbe, Breaker!CallRefused,
     Breaker!Cancel, Breaker!InFlight
<1>6. QED
  BY <1>2, <1>3, <1>4, <1>5 DEF BreakerMoves

\* What holds of a step with these values: how it stands, what it has of its result, how
\* often it was tried, and why it failed or was skipped.
Fine(s, phase, status, result, attempt, attempts, n) ==
  /\ phase \in {"registered", "calls", "sleeps", "alternative"} \cup Over
  /\ status \in {"PENDING", "RUNNING", "SUCCESS", "FAILED", "SKIPPED", "RECOVERED"}
  /\ result \in Results
  /\ attempt \in 0 .. MaxRetries /\ attempts \in 0 .. MaxRetries + 1 /\ n \in 0 .. MaxRetries + 1
  /\ status = "PENDING" <=> phase = "registered"
  /\ status = "RUNNING" <=> phase \in {"calls", "sleeps", "alternative", "cancelled"}
  /\ status = "FAILED" <=> phase = "raised"
  /\ status = "SUCCESS" => result = s /\ n > 0
  /\ status = "RECOVERED" => \/ result = "alternative" /\ s \in WithFallbackFn
                             \/ result \in RecoverySteps /\ fallback.mode = "CACHED"
  /\ status \notin {"SUCCESS", "RECOVERED"} => result = "none"
  /\ phase \in {"registered", "sleeps"} => n <= attempt
  /\ phase = "calls" => n > 0
  /\ n <= attempt + 1
  /\ phase \in {"alternative", "returned", "raised"} => n <= attempts
  /\ phase = "alternative" =>
       s \in WithFallbackFn /\ fallback.mode = "ALTERNATIVE_MODEL" /\ fallback.target
  /\ status = "FAILED" => /\ ~fallback.continues
                          /\ fallback.mode = "NONE" \/ HasAlternative \/ IsDelegated
  /\ status = "SKIPPED" => \/ fallback.continues \/ fallback.mode \in {"DEGRADED", "CACHED"}
                            \/ LacksTarget

FineStep(s) ==
  Fine(s, stepPhase[s], stepStatus[s], stepResult[s], attemptNo[s], stepAttempts[s], tries[s])

StepFunctions ==
  /\ DOMAIN stepPhase = RecoverySteps /\ DOMAIN stepStatus = RecoverySteps
  /\ DOMAIN stepResult = RecoverySteps /\ DOMAIN attemptNo = RecoverySteps
  /\ DOMAIN stepAttempts = RecoverySteps /\ DOMAIN tries = RecoverySteps
  /\ stepPhase = [s \in RecoverySteps |-> stepPhase[s]]
  /\ stepStatus = [s \in RecoverySteps |-> stepStatus[s]]
  /\ stepResult = [s \in RecoverySteps |-> stepResult[s]]
  /\ attemptNo = [s \in RecoverySteps |-> attemptNo[s]]
  /\ stepAttempts = [s \in RecoverySteps |-> stepAttempts[s]]
  /\ tries = [s \in RecoverySteps |-> tries[s]]

\* The results that are there are of steps that succeeded.
Earned ==
  /\ cached \in RecoverySteps => stepStatus[cached] = "SUCCESS"
  /\ \A s \in RecoverySteps :
       stepResult[s] \in RecoverySteps => stepStatus[stepResult[s]] = "SUCCESS"

RecoveryInv ==
  /\ Shared!IInv
  /\ fallback \in Fallbacks /\ cached \in RecoverySteps \cup {"none"}
  /\ hung \subseteq RecoverySteps
  /\ StepFunctions
  /\ \A s \in RecoverySteps : FineStep(s) /\ (Calling(s) <=> stepPhase[s] = "calls")
  /\ Earned

\* A step moves on to these values, and a result that is not its own is the cached one.
LEMMA OneStepMoves ==
  ASSUME RecoveryInv, Shared!IInv', UNCHANGED <<fallback, hung>>, NEW s \in RecoverySteps,
         NEW phase, NEW status, NEW result, NEW attempt, NEW attempts, NEW n,
         Ends(s, phase, status, result),
         attemptNo' = [attemptNo EXCEPT ![s] = attempt],
         stepAttempts' = [stepAttempts EXCEPT ![s] = attempts],
         tries' = [tries EXCEPT ![s] = n],
         Fine(s, phase, status, result, attempt, attempts, n),
         stepStatus[s] # "SUCCESS",
         result \in RecoverySteps => (result = s /\ status = "SUCCESS") \/ result = cached,
         cached' = cached \/ (cached' = s /\ status = "SUCCESS"),
         \A u \in RecoverySteps : u # s => (Calling(u)' <=> Calling(u)),
         Calling(s)' <=> phase = "calls"
  PROVE  RecoveryInv'
<1>1. /\ stepPhase' = [stepPhase EXCEPT ![s] = phase]
      /\ stepStatus' = [stepStatus EXCEPT ![s] = status]
      /\ stepResult' = [stepResult EXCEPT ![s] = result]
  BY DEF Ends
<1>2. StepFunctions'
  BY <1>1 DEF RecoveryInv, StepFunctions
<1>3. /\ stepPhase'[s] = phase /\ stepStatus'[s] = status /\ stepResult'[s] = result
      /\ attemptNo'[s] = attempt /\ stepAttempts'[s] = attempts /\ tries'[s] = n
  BY <1>1 DEF RecoveryInv, StepFunctions
<1>4. \A u \in RecoverySteps : u # s =>
        /\ stepPhase'[u] = stepPhase[u] /\ stepStatus'[u] = stepStatus[u]
        /\ stepResult'[u] = stepResult[u] /\ attemptNo'[u] = attemptNo[u]
        /\ stepAttempts'[u] = stepAttempts[u] /\ tries'[u] = tries[u]
  BY <1>1 DEF RecoveryInv, StepFunctions
<1>5. ASSUME NEW u \in RecoverySteps
      PROVE  FineStep(u)' /\ (Calling(u)' <=> stepPhase'[u] = "calls")
  <2>1. CASE u = s
    BY <1>3, <2>1 DEF FineStep, Fine, HasAlternative, IsDelegated, LacksTarget
  <2>2. CASE u # s
    BY <1>4, <2>2 DEF RecoveryInv, FineStep, Fine, HasAlternative, IsDelegated, LacksTarget
  <2>3. QED
    BY <2>1, <2>2
<1>6. \A u \in RecoverySteps : stepStatus[u] = "SUCCESS" => stepStatus'[u] = "SUCCESS"
  BY <1>4
<1>7. Earned'
  BY <1>3, <1>4, <1>6 DEF RecoveryInv, Earned
<1>8. cached' \in RecoverySteps \cup {"none"}
  BY DEF RecoveryInv
<1>9. QED
  BY <1>2, <1>5, <1>7, <1>8 DEF RecoveryInv

\* Nothing recovers the step.
LEMMA NotRecoveredIsFine ==
  ASSUME fallback \in Fallbacks, Decide # "CACHED", NEW s \in RecoverySteps,
         NEW attempt \in 0 .. MaxRetries, NEW attempts \in 0 .. MaxRetries + 1,
         NEW n \in 0 .. MaxRetries + 1, n <= attempt + 1, n <= attempts
  PROVE  Fine(s, IF Skips THEN "returned" ELSE "raised", IF Skips THEN "SKIPPED" ELSE "FAILED",
              "none", attempt, attempts, n)
<1>1. fallback.mode \in Modes
  BY RecoveryAssumption
<1>2. CASE Skips
  <2>1. fallback.continues \/ fallback.mode \in {"DEGRADED", "CACHED"} \/ LacksTarget
    BY <1>1, <1>2 DEF Skips, Decide, Modes, LacksTarget
  <2>2. QED
    BY <1>2, <2>1 DEF Fine, Over, Results
<1>3. CASE ~Skips
  <2>1. ~fallback.continues /\ (fallback.mode = "NONE" \/ HasAlternative \/ IsDelegated)
    BY <1>1, <1>3 DEF Skips, Decide, Modes, HasAlternative, IsDelegated
  <2>2. QED
    BY <1>3, <2>1 DEF Fine, Over, Results
<1>4. QED
  BY <1>2, <1>3

LEMMA AttemptFails ==
  ASSUME RecoveryInv, Shared!IInv', NEW s \in RecoverySteps, NEW retryable \in BOOLEAN,
         stepPhase[s] \in {"registered", "sleeps", "calls"},
         AttemptFailed(s, retryable), UNCHANGED <<fallback, hung, cached, tries>>,
         \A u \in RecoverySteps : u # s => (Calling(u)' <=> Calling(u)), ~Calling(s)'
  PROVE  RecoveryInv'
<1> DEFINE n == tries[s]
           attempt == attemptNo[s]
<1>1. /\ n \in 0 .. MaxRetries + 1 /\ attempt \in 0 .. MaxRetries /\ n <= attempt + 1
      /\ stepAttempts[s] \in 0 .. MaxRetries + 1 /\ stepStatus[s] # "SUCCESS"
      /\ MaxRetries \in Nat
  BY RecoveryAssumption DEF RecoveryInv, FineStep, Fine
<1>2. /\ tries' = [tries EXCEPT ![s] = n]
      /\ attemptNo = [attemptNo EXCEPT ![s] = attempt]
      /\ stepAttempts = [stepAttempts EXCEPT ![s] = stepAttempts[s]]
  BY DEF RecoveryInv, StepFunctions
<1> HIDE DEF n, attempt
<1>3. CASE retryable /\ attempt < MaxRetries
  <2>1. /\ Ends(s, "sleeps", "RUNNING", "none")
        /\ attemptNo' = [attemptNo EXCEPT ![s] = attempt + 1] /\ UNCHANGED stepAttempts
    BY <1>3 DEF AttemptFailed, attempt
  <2>2. Fine(s, "sleeps", "RUNNING", "none", attempt + 1, stepAttempts[s], n)
    BY <1>1, <1>3 DEF Fine, Over, Results
  <2>3. "none" \notin RecoverySteps
    BY RecoveryAssumption
  <2>4. QED
    BY <1>1, <1>2, <2>1, <2>2, <2>3, OneStepMoves
<1>4. CASE ~(retryable /\ attempt < MaxRetries)
  <2>1. FallsBack(s)
    BY <1>4 DEF AttemptFailed, attempt
  <2>2. /\ stepAttempts' = [stepAttempts EXCEPT ![s] = MaxRetries + 1]
        /\ attemptNo' = [attemptNo EXCEPT ![s] = attempt]
    BY <1>2, <2>1 DEF FallsBack
  <2>3. n <= MaxRetries + 1 /\ MaxRetries + 1 \in 0 .. MaxRetries + 1
    BY <1>1
  <2>4. "none" \notin RecoverySteps
    BY RecoveryAssumption
  <2>5. CASE Decide = "CACHED"
    <3>1. fallback.mode = "CACHED" /\ cached # "none"
      BY <2>5 DEF Decide
    <3>2. cached \in RecoverySteps
      BY <3>1 DEF RecoveryInv
    <3>3. Ends(s, "returned", "RECOVERED", cached)
      BY <2>1, <2>5 DEF FallsBack
    <3>4. Fine(s, "returned", "RECOVERED", cached, attempt, MaxRetries + 1, n)
      BY <1>1, <2>3, <3>1, <3>2 DEF Fine, Over, Results
    <3>5. QED
      BY <1>1, <1>2, <2>2, <3>3, <3>4, OneStepMoves
  <2>6. CASE Decide = "ALTERNATIVE_MODEL" /\ s \in WithFallbackFn
    <3>1. fallback.mode = "ALTERNATIVE_MODEL" /\ fallback.target
      BY <2>6 DEF Decide
    <3>2. Ends(s, "alternative", "RUNNING", "none")
      BY <2>1, <2>6 DEF FallsBack
    <3>3. Fine(s, "alternative", "RUNNING", "none", attempt, MaxRetries + 1, n)
      BY <1>1, <2>3, <2>6, <3>1 DEF Fine, Over, Results
    <3>4. QED
      BY <1>1, <1>2, <2>2, <2>4, <3>2, <3>3, OneStepMoves
  <2>7. CASE Decide # "CACHED" /\ ~(Decide = "ALTERNATIVE_MODEL" /\ s \in WithFallbackFn)
    <3>1. NotRecovered(s)
      BY <2>1, <2>7 DEF FallsBack
    <3> DEFINE phase == IF Skips THEN "returned" ELSE "raised"
               status == IF Skips THEN "SKIPPED" ELSE "FAILED"
    <3>2. Ends(s, phase, status, "none")
      BY <3>1 DEF NotRecovered
    <3>3. Fine(s, phase, status, "none", attempt, MaxRetries + 1, n)
      BY <1>1, <2>3, <2>7, NotRecoveredIsFine DEF RecoveryInv
    <3>4. phase # "calls"
      OBVIOUS
    <3> HIDE DEF phase, status
    <3>5. QED
      BY <1>1, <1>2, <2>2, <2>4, <3>2, <3>3, <3>4, OneStepMoves
  <2>8. QED
    BY <2>5, <2>6, <2>7
<1>5. QED
  BY <1>3, <1>4

LEMMA RecoveryInvNext ==
  ASSUME RecoveryInv, [RecoveryNext]_recoveryVars
  PROVE  RecoveryInv'
<1>0. "none" \notin RecoverySteps /\ "alternative" \notin RecoverySteps /\ MaxRetries \in Nat
  BY RecoveryAssumption
<1>a. ASSUME NEW s \in RecoverySteps
      PROVE  /\ FineStep(s) /\ (Calling(s) <=> stepPhase[s] = "calls")
             /\ stepPhase' = stepPhase => stepPhase'[s] = stepPhase[s]
             /\ attemptNo = [attemptNo EXCEPT ![s] = attemptNo[s]]
             /\ stepAttempts = [stepAttempts EXCEPT ![s] = stepAttempts[s]]
             /\ tries = [tries EXCEPT ![s] = tries[s]]
  BY DEF RecoveryInv, StepFunctions
<1>1. ASSUME NEW s \in RecoverySteps, Attempt(s)
      PROVE  RecoveryInv'
  <2>1. /\ stepPhase[s] \in {"registered", "sleeps"}
        /\ Breaker!CallNormally(s) \/ Breaker!CallAsProbe(s)
        /\ Ends(s, "calls", "RUNNING", "none")
        /\ tries' = [tries EXCEPT ![s] = tries[s] + 1]
        /\ UNCHANGED <<fallback, hung, attemptNo, stepAttempts, cached>>
    BY <1>1 DEF Attempt, Ready
  <2>2. BreakerMoves(s)
    BY <2>1 DEF BreakerMoves
  <2>3. Shared!IInv'
    BY <2>2, SharedNext DEF RecoveryInv
  <2>4. Calling(s)' /\ \A u \in RecoverySteps : u # s => (Calling(u)' <=> Calling(u))
    BY <2>1, <2>2, CallingFollows DEF RecoveryInv
  <2>5. Fine(s, "calls", "RUNNING", "none", attemptNo[s], stepAttempts[s], tries[s] + 1)
    BY <1>0, <1>a, <2>1 DEF FineStep, Fine, Over, Results
  <2>6. stepStatus[s] # "SUCCESS"
    BY <1>a, <2>1 DEF FineStep, Fine
  <2>7. /\ attemptNo' = [attemptNo EXCEPT ![s] = attemptNo[s]]
        /\ stepAttempts' = [stepAttempts EXCEPT ![s] = stepAttempts[s]]
    BY <1>a, <2>1
  <2>8. QED
    BY <1>0, <2>1, <2>3, <2>4, <2>5, <2>6, <2>7, OneStepMoves
<1>2. ASSUME NEW s \in RecoverySteps, NEW retryable \in BOOLEAN, AttemptRefused(s, retryable)
      PROVE  RecoveryInv'
  <2>1. /\ stepPhase[s] \in {"registered", "sleeps"} /\ Breaker!CallRefused(s)
        /\ AttemptFailed(s, retryable) /\ UNCHANGED <<fallback, hung, cached, tries>>
    BY <1>2 DEF AttemptRefused, Ready
  <2>2. BreakerMoves(s)
    BY <2>1 DEF BreakerMoves
  <2>3. Shared!IInv'
    BY <2>2, SharedNext DEF RecoveryInv
  <2>4. ~Calling(s)' /\ \A u \in RecoverySteps : u # s => (Calling(u)' <=> Calling(u))
    BY <2>1, <2>2, CallingFollows DEF RecoveryInv
  <2>5. QED
    BY <2>1, <2>3, <2>4, AttemptFails
<1>3. ASSUME NEW s \in RecoverySteps, CallReturns(s)
      PROVE  RecoveryInv'
  <2>1. /\ Breaker!Succeed(s) /\ Ends(s, "returned", "SUCCESS", s)
        /\ stepAttempts' = [stepAttempts EXCEPT ![s] = attemptNo[s] + 1]
        /\ cached' = s /\ UNCHANGED <<fallback, hung, attemptNo, tries>>
    BY <1>3 DEF CallReturns, CacheResult
  <2>2. BreakerMoves(s)
    BY <2>1 DEF BreakerMoves
  <2>3. Shared!IInv'
    BY <2>2, SharedNext DEF RecoveryInv
  <2>4. Calling(s) /\ ~Calling(s)' /\ \A u \in RecoverySteps : u # s => (Calling(u)' <=> Calling(u))
    BY <2>1, <2>2, CallingFollows DEF RecoveryInv
  <2>5. stepPhase[s] = "calls"
    BY <1>a, <2>4
  <2>6. Fine(s, "returned", "SUCCESS", s, attemptNo[s], attemptNo[s] + 1, tries[s])
    BY <1>0, <1>a, <2>5 DEF FineStep, Fine, Over, Results
  <2>7. stepStatus[s] # "SUCCESS"
    BY <1>a, <2>5 DEF FineStep, Fine
  <2>8. /\ attemptNo' = [attemptNo EXCEPT ![s] = attemptNo[s]]
        /\ tries' = [tries EXCEPT ![s] = tries[s]]
    BY <1>a, <2>1
  <2>9. QED
    BY <2>1, <2>3, <2>4, <2>6, <2>7, <2>8, OneStepMoves
<1>4. ASSUME NEW s \in RecoverySteps, NEW retryable \in BOOLEAN, CallRaises(s, retryable)
      PROVE  RecoveryInv'
  <2>1. /\ Breaker!Fail(s)
        /\ AttemptFailed(s, retryable) /\ UNCHANGED <<fallback, hung, cached, tries>>
    BY <1>4 DEF CallRaises
  <2>2. BreakerMoves(s)
    BY <2>1 DEF BreakerMoves
  <2>3. Shared!IInv'
    BY <2>2, SharedNext DEF RecoveryInv
  <2>4. Calling(s) /\ ~Calling(s)' /\ \A u \in RecoverySteps : u # s => (Calling(u)' <=> Calling(u))
    BY <2>1, <2>2, CallingFollows DEF RecoveryInv
  <2>5. stepPhase[s] = "calls"
    BY <1>a, <2>4
  <2>6. QED
    BY <2>1, <2>3, <2>4, <2>5, AttemptFails
<1>5. ASSUME NEW s \in RecoverySteps, stepPhase[s] = "alternative", UNCHANGED breakerVars
      PROVE  /\ Shared!IInv' /\ ~Calling(s)'
             /\ \A u \in RecoverySteps : u # s => (Calling(u)' <=> Calling(u))
             /\ stepStatus[s] # "SUCCESS" /\ s \in WithFallbackFn
             /\ fallback.mode = "ALTERNATIVE_MODEL" /\ tries[s] <= stepAttempts[s]
  <2>1. Shared!IInv'
    BY <1>5, SharedNext DEF RecoveryInv
  <2>2. brCall' = brCall
    BY <1>5 DEF breakerVars
  <2>3. QED
    BY <1>a, <1>5, <2>1, <2>2 DEF FineStep, Fine, Calling
<1>6. ASSUME NEW s \in RecoverySteps, AlternativeReturns(s)
      PROVE  RecoveryInv'
  <2>1. /\ stepPhase[s] = "alternative" /\ Ends(s, "returned", "RECOVERED", "alternative")
        /\ UNCHANGED <<fallback, hung, breakerVars, attemptNo, stepAttempts, cached, tries>>
    BY <1>6 DEF AlternativeReturns
  <2>2. Fine(s, "returned", "RECOVERED", "alternative", attemptNo[s], stepAttempts[s], tries[s])
    BY <1>0, <1>a, <1>5, <2>1 DEF FineStep, Fine, Over, Results
  <2>3. /\ attemptNo' = [attemptNo EXCEPT ![s] = attemptNo[s]]
        /\ stepAttempts' = [stepAttempts EXCEPT ![s] = stepAttempts[s]]
        /\ tries' = [tries EXCEPT ![s] = tries[s]]
    BY <1>a, <2>1
  <2>4. /\ UNCHANGED <<fallback, hung>> /\ UNCHANGED breakerVars /\ cached' = cached
    BY <2>1, Zenon
  <2>5. /\ Shared!IInv' /\ ~Calling(s)' /\ \A u \in RecoverySteps : u # s => (Calling(u)' <=> Calling(u))
        /\ stepStatus[s] # "SUCCESS"
    BY <1>5, <2>1, <2>4
  <2>6. Ends(s, "returned", "RECOVERED", "alternative")
    BY <2>1
  <2>7. QED
    BY <1>0, <2>2, <2>3, <2>4, <2>5, <2>6, OneStepMoves
<1>7. ASSUME NEW s \in RecoverySteps, AlternativeRaises(s)
      PROVE  RecoveryInv'
  <2>1. /\ stepPhase[s] = "alternative" /\ NotRecovered(s)
        /\ UNCHANGED <<fallback, hung, breakerVars, attemptNo, stepAttempts, cached, tries>>
    BY <1>7 DEF AlternativeRaises
  <2> DEFINE phase == IF Skips THEN "returned" ELSE "raised"
             status == IF Skips THEN "SKIPPED" ELSE "FAILED"
  <2>2. Ends(s, phase, status, "none") /\ phase # "calls"
    BY <2>1 DEF NotRecovered
  <2>3. Fine(s, phase, status, "none", attemptNo[s], stepAttempts[s], tries[s])
    <3>1. Decide # "CACHED"
      BY <1>5, <2>1 DEF Decide
    <3>2. /\ attemptNo[s] \in 0 .. MaxRetries /\ stepAttempts[s] \in 0 .. MaxRetries + 1
          /\ tries[s] \in 0 .. MaxRetries + 1 /\ tries[s] <= attemptNo[s] + 1
      BY <1>a DEF FineStep, Fine
    <3>3. QED
      BY <1>5, <2>1, <3>1, <3>2, NotRecoveredIsFine DEF RecoveryInv
  <2> HIDE DEF phase, status
  <2>4. /\ attemptNo' = [attemptNo EXCEPT ![s] = attemptNo[s]]
        /\ stepAttempts' = [stepAttempts EXCEPT ![s] = stepAttempts[s]]
        /\ tries' = [tries EXCEPT ![s] = tries[s]]
    BY <1>a, <2>1
  <2>5. /\ UNCHANGED <<fallback, hung>> /\ UNCHANGED breakerVars /\ cached' = cached
    BY <2>1, Zenon
  <2>6. /\ Shared!IInv' /\ ~Calling(s)' /\ \A u \in RecoverySteps : u # s => (Calling(u)' <=> Calling(u))
        /\ stepStatus[s] # "SUCCESS"
    BY <1>5, <2>1, <2>5
  <2>7. QED
    BY <1>0, <2>2, <2>3, <2>4, <2>5, <2>6, OneStepMoves
<1>8. ASSUME NEW s \in RecoverySteps, StepCancelled(s)
      PROVE  RecoveryInv'
  <2>1. /\ stepPhase[s] \in {"calls", "sleeps", "alternative"}
        /\ IF stepPhase[s] = "calls" THEN Breaker!Cancel(s) ELSE UNCHANGED breakerVars
        /\ Ends(s, "cancelled", stepStatus[s], stepResult[s])
        /\ UNCHANGED <<fallback, hung, attemptNo, stepAttempts, cached, tries>>
    BY <1>8 DEF StepCancelled
  <2>2. Shared!IInv' /\ ~Calling(s)' /\ \A u \in RecoverySteps : u # s => (Calling(u)' <=> Calling(u))
    <3>1. CASE stepPhase[s] = "calls"
      <4>1. Breaker!Cancel(s) /\ BreakerMoves(s)
        BY <2>1, <3>1 DEF BreakerMoves
      <4>2. QED
        BY <4>1, SharedNext, CallingFollows DEF RecoveryInv
    <3>2. CASE stepPhase[s] # "calls"
      <4>1. UNCHANGED breakerVars /\ brCall' = brCall
        BY <2>1, <3>2 DEF breakerVars
      <4>2. Shared!IInv'
        BY <4>1, SharedNext DEF RecoveryInv
      <4>3. QED
        BY <1>a, <3>2, <4>1, <4>2 DEF Calling
    <3>3. QED
      BY <3>1, <3>2
  <2>3. stepStatus[s] = "RUNNING" /\ stepResult[s] = "none"
    BY <1>a, <2>1 DEF FineStep, Fine
  <2>4. Fine(s, "cancelled", "RUNNING", "none", attemptNo[s], stepAttempts[s], tries[s])
    BY <1>0, <1>a, <2>1 DEF FineStep, Fine, Over, Results
  <2>5. /\ attemptNo' = [attemptNo EXCEPT ![s] = attemptNo[s]]
        /\ stepAttempts' = [stepAttempts EXCEPT ![s] = stepAttempts[s]]
        /\ tries' = [tries EXCEPT ![s] = tries[s]]
    BY <1>a, <2>1
  <2>6. /\ Ends(s, "cancelled", "RUNNING", "none") /\ UNCHANGED <<fallback, hung>> /\ cached' = cached
        /\ stepStatus[s] # "SUCCESS"
    BY <2>1, <2>3
  <2>7. QED
    BY <1>0, <2>2, <2>4, <2>5, <2>6, OneStepMoves
<1>9. CASE BreakerTimeout \/ UNCHANGED recoveryVars
  <2>1. /\ Breaker!TimeoutPasses \/ UNCHANGED breakerVars
        /\ UNCHANGED <<fallback, hung, stepVars>> /\ brCall' = brCall
    BY <1>9 DEF BreakerTimeout, Breaker!TimeoutPasses, recoveryVars, breakerVars
  <2>2. Shared!IInv'
    BY <2>1, SharedNext DEF RecoveryInv
  <2>3. QED
    BY <2>1, <2>2 DEF RecoveryInv, StepFunctions, FineStep, Fine, Calling, Earned, stepVars,
       HasAlternative, IsDelegated, LacksTarget
<1>10. ASSUME NEW s \in RecoverySteps, StepHangs(s)
       PROVE  RecoveryInv'
  <2>1. /\ UNCHANGED breakerVars /\ UNCHANGED <<fallback, stepVars>> /\ brCall' = brCall
        /\ hung' = hung \cup {s}
    BY <1>10 DEF StepHangs, breakerVars
  <2>2. Shared!IInv'
    BY <2>1, SharedNext DEF RecoveryInv
  <2>3. QED
    BY <2>1, <2>2 DEF RecoveryInv, StepFunctions, FineStep, Fine, Calling, Earned, stepVars,
       HasAlternative, IsDelegated, LacksTarget
<1>11. QED
  BY <1>1, <1>2, <1>3, <1>4, <1>6, <1>7, <1>8, <1>9, <1>10 DEF RecoveryNext, StepMoves

LEMMA RecoveryInvInit ==
  ASSUME RecoveryInit
  PROVE  RecoveryInv
<1>1. Breaker!Init <=> Shared!Init
  BY DEF Breaker!Init, Shared!Init
<1>2. Shared!IInv
  <2>1. Shared!TypeOK
    BY <1>1, SharedAssumed, Shared!InitTyped DEF RecoveryInit
  <2>2. Shared!CountersBelowThresholds /\ Shared!SlotAccounting
    BY SharedAssumed DEF RecoveryInit, Breaker!Init, Shared!CountersBelowThresholds,
       Shared!SlotAccounting, Shared!Probes, Shared!BreakerAssumption
  <2>3. QED
    BY <2>1, <2>2 DEF Shared!IInv
<1>3. MaxRetries \in Nat /\ {"none", "alternative"} \cap RecoverySteps = {}
  BY RecoveryAssumption
<1>4. \A s \in RecoverySteps : ~Calling(s)
  BY DEF RecoveryInit, Calling, Breaker!Init
<1>5. StepFunctions
  BY DEF RecoveryInit, StepFunctions
<1>6. \A s \in RecoverySteps : FineStep(s) /\ stepPhase[s] = "registered"
  BY <1>3 DEF RecoveryInit, FineStep, Fine, Results, Over
<1>7. /\ Earned /\ fallback \in Fallbacks /\ cached \in RecoverySteps \cup {"none"}
      /\ hung \subseteq RecoverySteps
  BY <1>3 DEF RecoveryInit, Earned
<1>8. QED
  BY <1>2, <1>4, <1>5, <1>6, <1>7 DEF RecoveryInv

\* What the invariant says of the steps and of the breaker they share.
LEMMA RecoveryIsSafe ==
  ASSUME RecoveryInv
  PROVE  ResultIsEarned /\ TriesAreBounded /\ FailsOnlyUnprotected /\ BreakerFollowsSteps
<1>0. "none" \notin RecoverySteps
  BY RecoveryAssumption
<1>1. \A s \in RecoverySteps : FineStep(s) /\ (Calling(s) <=> stepPhase[s] = "calls")
  BY DEF RecoveryInv
<1>2. ResultIsEarned
  <2>1. ASSUME NEW s \in RecoverySteps
        PROVE  CASE stepStatus[s] = "SUCCESS" -> stepResult[s] = s /\ tries[s] > 0
                 [] stepStatus[s] = "RECOVERED" ->
                      \/ stepResult[s] = "alternative" /\ s \in WithFallbackFn
                      \/ stepResult[s] \in RecoverySteps /\ fallback.mode = "CACHED"
                 [] OTHER -> stepResult[s] = "none"
    BY <1>1 DEF FineStep, Fine
  <2>2. \A r \in {cached} \cup {stepResult[s] : s \in RecoverySteps} :
          r \in RecoverySteps => stepStatus[r] = "SUCCESS"
    BY DEF RecoveryInv, Earned
  <2>3. QED
    BY <2>1, <2>2 DEF ResultIsEarned
<1>3. TriesAreBounded
  BY <1>1 DEF TriesAreBounded, FineStep, Fine
<1>4. FailsOnlyUnprotected
  BY <1>1 DEF FailsOnlyUnprotected, FineStep, Fine
<1>5. BreakerFollowsSteps
  <2>1. Shared!SlotAccounting /\ Shared!CountersBelowThresholds
    BY SharedAssumed DEF RecoveryInv, Shared!IInv
  <2>2. Breaker!SlotAccounting
    <3>1. Breaker!Probes = Shared!Probes
      BY DEF Breaker!Probes, Shared!Probes
    <3>2. Breaker!Cardinality(Breaker!Probes) = Shared!Cardinality(Shared!Probes)
      BY <3>1, Zenon DEF Shared!Cardinality, Breaker!Cardinality
    <3>3. QED
      BY <2>1, <3>1, <3>2 DEF Shared!SlotAccounting, Breaker!SlotAccounting
  <2>3. Breaker!CountersBelowThresholds
    BY <2>1 DEF Shared!CountersBelowThresholds, Breaker!CountersBelowThresholds
  <2>4. QED
    BY <1>1, <2>2, <2>3 DEF BreakerFollowsSteps, Calling
<1>6. QED
  BY <1>2, <1>3, <1>4, <1>5

LEMMA RecoveryIsTyped == RecoveryInv => RecoveryTypeOK
<1> SUFFICES ASSUME RecoveryInv
             PROVE  RecoveryTypeOK
  OBVIOUS
<1>1. Breaker!TypeOK
  BY DEF RecoveryInv, Shared!IInv, Shared!TypeOK, Breaker!TypeOK, Shared!InFlight, Breaker!InFlight
<1>2. \A s \in RecoverySteps : FineStep(s)
  BY DEF RecoveryInv
<1>3. /\ stepPhase \in [RecoverySteps -> {"registered", "calls", "sleeps", "alternative"} \cup Over]
      /\ stepStatus \in [RecoverySteps -> {"PENDING", "RUNNING", "SUCCESS", "FAILED",
                                           "SKIPPED", "RECOVERED"}]
      /\ stepResult \in [RecoverySteps -> Results]
  BY <1>2 DEF RecoveryInv, StepFunctions, FineStep, Fine
<1>4. /\ attemptNo \in [RecoverySteps -> 0 .. MaxRetries]
      /\ stepAttempts \in [RecoverySteps -> 0 .. MaxRetries + 1]
      /\ tries \in [RecoverySteps -> 0 .. MaxRetries + 1]
  BY <1>2 DEF RecoveryInv, StepFunctions, FineStep, Fine
<1>5. QED
  BY <1>1, <1>3, <1>4 DEF RecoveryInv, RecoveryTypeOK

-----------------------------------------------------------------------------
(***************************************************************************)
(* The demo pipeline, and the votes of its models.                         *)
(***************************************************************************)
LEMMA DemoRanks ==
  /\ G!Decision = {"AUTO_PASS", "L1_REWORK", "L2_HUMAN", "L3_HALT", "L4_DEPLOY"}
  /\ G!Severity["AUTO_PASS"] = 0 /\ G!Severity["L1_REWORK"] = 1 /\ G!Severity["L2_HUMAN"] = 2
  /\ G!Severity["L3_HALT"] = 3 /\ G!Severity["L4_DEPLOY"] = 4
  /\ \A d \in G!Decision : G!Severity[d] \in 0 .. 4
  /\ IsFiniteSet(G!Decision)
<1>1. G!Decision = {"AUTO_PASS", "L1_REWORK", "L2_HUMAN", "L3_HALT", "L4_DEPLOY"}
  BY DEF G!Decision, G!Severity
<1>2. \A S, d : IsFiniteSet(S) => IsFiniteSet(S \cup {d})
  BY FS_AddElement
<1>3. G!Decision = ((({"AUTO_PASS"} \cup {"L1_REWORK"}) \cup {"L2_HUMAN"}) \cup {"L3_HALT"})
                     \cup {"L4_DEPLOY"}
  BY <1>1
<1>4. IsFiniteSet({"AUTO_PASS"})
  BY FS_Singleton
<1>5. IsFiniteSet(G!Decision)
  BY <1>2, <1>3, <1>4
<1>6. /\ G!Severity["AUTO_PASS"] = 0 /\ G!Severity["L1_REWORK"] = 1 /\ G!Severity["L2_HUMAN"] = 2
      /\ G!Severity["L3_HALT"] = 3 /\ G!Severity["L4_DEPLOY"] = 4
  BY DEF G!Severity
<1>7. QED
  BY <1>1, <1>5, <1>6

\* Who answered is one of finitely many, with a decision and a score.
LEMMA DemoVoters ==
  ASSUME NEW votes \in Seq(G!Vote)
  PROVE  /\ G!Successful(votes) \subseteq Nat /\ IsFiniteSet(G!Successful(votes))
         /\ \A i \in G!Successful(votes) :
              votes[i].decision \in G!Decision /\ votes[i].score \in 0 .. 100
<1>1. G!Successful(votes) \subseteq 1 .. Len(votes) /\ Len(votes) \in Nat
  BY DEF G!Successful
<1>2. IsFiniteSet(1 .. Len(votes))
  BY <1>1, FS_Interval
<1>3. \A i \in G!Successful(votes) : votes[i] \in G!Vote
  BY <1>1
<1>4. QED
  BY <1>1, <1>2, <1>3, FS_Subset DEF G!Vote

\* Every way to resolve a vote finds a decision.
LEMMA DemoResolves ==
  ASSUME NEW votes \in Seq(G!Vote), G!Successful(votes) # {}, NEW strategy
  PROVE  G!ConsensusDecision(strategy, votes) \in G!Decision
<1> DEFINE V == [d \in G!Decision |-> G!Voters(votes, d)]
<1>1. /\ \A d \in G!Decision : V[d] \subseteq Nat /\ IsFiniteSet(V[d])
      /\ \A d, e \in G!Decision : d # e => V[d] \cap V[e] = {}
      /\ \E d \in G!Decision : V[d] # {}
  BY DemoVoters, FS_Subset DEF G!Voters
<1>2. G!Favourite(votes) \in G!Decision
  <2> HIDE DEF V
  <2>0. IsFiniteSet(G!Decision)
    BY DemoRanks
  <2>1. \E d \in G!Decision :
          /\ V[d] # {}
          /\ \A e \in G!Decision \ {d} : V[e] # {} =>
               \/ Cardinality(V[d]) > Cardinality(V[e])
               \/ /\ Cardinality(V[d]) = Cardinality(V[e])
                  /\ \E i \in V[d] : \A j \in V[e] : i < j
    BY <1>1, <2>0, FavouriteExists
  <2>2. \A S : G!Cardinality(S) = Cardinality(S)
    BY Zenon DEF G!Cardinality, Cardinality
  <2>3. QED
    BY <2>1, <2>2 DEF G!Favourite, V
<1>3. G!Strictest(votes) \in G!Decision
  <2> DEFINE N == {d \in G!Decision : G!Voters(votes, d) # {}}
             low == [d \in N |-> -G!Severity[d]]
  <2>1. IsFiniteSet(N) /\ N # {}
    BY <1>1, DemoRanks, FS_Subset
  <2>2. \A d \in N : low[d] = -G!Severity[d] /\ G!Severity[d] \in Int
    BY DemoRanks
  <2>3. PICK d \in N : \A e \in N : low[d] <= low[e]
    <3> HIDE DEF N, low
    <3>1. \A e \in N : low[e] \in Int
      BY <2>2
    <3> QED BY <2>1, <3>1, LeastExists
  <2>4. ASSUME NEW i \in G!Successful(votes)
        PROVE  G!AtLeast(d, votes[i].decision)
    <3>1. votes[i].decision \in N
      BY DemoVoters DEF G!Voters
    <3> HIDE DEF N, low
    <3>2. QED
      BY <2>2, <2>3, <3>1 DEF G!AtLeast
  <2>5. QED
    BY <2>4 DEF G!Strictest
<1>4. G!Escalate(G!Strictest(votes)) \in G!Decision
  <2>1. \A d \in G!Decision : d # "L4_DEPLOY" =>
          \E e \in G!Decision : G!Severity[e] = G!Severity[d] + 1
    <3>1. /\ "L1_REWORK" \in G!Decision /\ "L2_HUMAN" \in G!Decision
          /\ "L3_HALT" \in G!Decision /\ "L4_DEPLOY" \in G!Decision
      BY DemoRanks
    <3>2. QED
      BY <3>1, DemoRanks
  <2>2. QED
    BY <1>3, <2>1 DEF G!Escalate
<1>5. G!Resolved(strategy, votes) \in G!Decision
  BY <1>2, <1>3, <1>4 DEF G!Resolved, G!Majority, G!Unanimous
<1>6. QED
  BY <1>5, DemoRanks DEF G!ConsensusDecision

\* The mean of scores, rounded twice, is a score.
LEMMA DemoMean ==
  ASSUME NEW votes \in Seq(G!Vote), G!Successful(votes) # {}
  PROVE  G!MeanScore(votes) \in 0 .. 100
<1> DEFINE S == G!Successful(votes)
           f == [i \in S |-> votes[i].score]
           n == Cardinality(S)
           Even(a, b) == IF 2 * (a % b) < b \/ (2 * (a % b) = b /\ (a \div b) % 2 = 0)
                         THEN a \div b ELSE a \div b + 1
<1>1. IsFiniteSet(S) /\ S # {} /\ DOMAIN f = S /\ \A i \in S : f[i] \in 0 .. 100
  BY DemoVoters
<1>2. /\ 10 * SumFunctionOnSet(f, S) \in Nat /\ n \in Nat \ {0}
      /\ 10 * SumFunctionOnSet(f, S) <= 1000 * n
  <2> HIDE DEF f, S
  <2> QED BY <1>1, MeanIsBounded DEF n
<1>3. G!Total(votes) = SumFunctionOnSet(f, S)
  <2>1. G!SumFunctionOnSet(f, S) = (CHOOSE g : Rec(f, S, g))[S]
    <3> HIDE DEF f, S
    <3> QED BY Zenon DEF G!SumFunctionOnSet, G!FoldFunctionOnSet, G!MapThenFoldSet, Rec, First
  <2>2. G!Total(votes) = G!SumFunctionOnSet(f, S)
    BY <1>1, Zenon DEF G!Total, G!SumFunction
  <2>3. QED
    BY <2>1, <2>2, Unfold, Zenon
<1>4. G!Cardinality(S) = n
  BY Zenon DEF G!Cardinality, Cardinality
<1>5. G!MeanScore(votes) = Even(Even(10 * G!Total(votes), n), 10)
  <2>1. G!MeanScore(votes) = Even(Even(10 * G!Total(votes), G!Cardinality(S)), 10)
    BY Zenon DEF G!MeanScore
  <2> HIDE DEF Even, S, n
  <2>2. QED
    BY <1>4, <2>1, Zenon
<1> HIDE DEF f, S, n
<1>6. PICK a, b, m : a = 10 * G!Total(votes) /\ b = n /\ m = Even(a, b)
  OBVIOUS
<1>7. m \in 0 .. 1000
  <2>1. a \in Nat /\ a <= 1000 * b /\ b \in Nat \ {0}
    BY <1>2, <1>3, <1>6
  <2>2. Even(a, b) \in 0 .. 1000
    BY <2>1, RoundedIsBounded
  <2> HIDE DEF Even
  <2> QED
    BY <1>6, <2>2
<1>8. G!MeanScore(votes) = Even(m, 10)
  <2>1. G!MeanScore(votes) = Even(Even(a, b), 10)
    <3> HIDE DEF Even
    <3> QED BY <1>5, <1>6, Zenon
  <2> HIDE DEF Even
  <2> QED
    BY <1>6, <2>1
<1>9. Even(m, 10) \in 0 .. 100
  BY <1>7, RoundedIsBounded
<1> HIDE DEF Even
<1>10. QED
  BY <1>8, <1>9

\* The gate's decision, on a record whose gate is a decision.
LEMMA DemoGate ==
  ASSUME NEW q \in G!Quality, NEW n \in Nat
  PROVE  /\ G!EvaluateGate(q, {}, FALSE, n) \in G!Decision
         /\ G!EvaluateGate(q, {}, FALSE, n) = "AUTO_PASS" =>
              /\ q.measures.build /\ q.measures.lint /\ q.measures.unit
              /\ q.measures.security = "clean" /\ q.measures.coverage = "enough"
              /\ q.score >= DemoThreshold /\ n < DemoRetries
              /\ (q.consensus # "none" => q.gate = "AUTO_PASS")
         /\ G!EvaluateGate(q, {}, FALSE, n) = "L1_REWORK" => n < DemoRetries
         /\ q.consensus # "none" /\ q.gate = "L2_HUMAN" =>
              G!AtLeast(G!EvaluateGate(q, {}, FALSE, n), "L2_HUMAN")
         /\ q.consensus = "none" =>
              G!EvaluateGate(q, {}, FALSE, n) = G!PolicyDecision(q, {}, FALSE, n)
<1> DEFINE p == G!PolicyDecision(q, {}, FALSE, n)
           g == G!EvaluateGate(q, {}, FALSE, n)
<1>1. /\ q.measures.build \in BOOLEAN /\ q.measures.lint \in BOOLEAN /\ q.measures.unit \in BOOLEAN
      /\ q.measures.security \in {"clean", "medium", "high"}
      /\ q.measures.coverage \in {"enough", "slightly_below", "below"}
      /\ q.score \in 0 .. 100 /\ q.gate \in G!Decision
      /\ q.consensus \in {"none", "reached", "failed"}
  BY Zenon DEF G!Quality, G!Measures
<1>2. DemoRetries \in Nat /\ DemoThreshold \in Int
  BY DemoAssumption
<1>3. /\ p \in {"AUTO_PASS", "L1_REWORK", "L2_HUMAN", "L3_HALT"}
      /\ p \in {"AUTO_PASS", "L1_REWORK"} =>
           ~G!L3Halt(q) /\ ~G!L2Human(q, {}, n)
      /\ p = "AUTO_PASS" => ~G!L1Rework(q)
  BY DEF G!PolicyDecision
<1>4. p \in {"AUTO_PASS", "L1_REWORK"} =>
        /\ q.measures.build /\ q.measures.security = "clean" /\ q.measures.coverage # "below"
        /\ q.score >= DemoThreshold /\ n < DemoRetries
  <2>1. ~G!L3Halt(q) => q.measures.build /\ q.measures.security # "high"
    BY DEF G!L3Halt
  <2>2. ~G!L2Human(q, {}, n) =>
          /\ ~(q.score < DemoThreshold) /\ q.measures.coverage # "below"
          /\ q.measures.security # "medium" /\ ~(n >= DemoRetries)
    BY DEF G!L2Human, G!RetriesExhausted
  <2> HIDE DEF p
  <2>3. QED
    BY <1>1, <1>2, <1>3, <2>1, <2>2
<1>5. p = "AUTO_PASS" =>
        q.measures.lint /\ q.measures.unit /\ q.measures.coverage = "enough"
  BY <1>1, <1>3, <1>4 DEF G!L1Rework
<1>6. /\ g = p \/ (g = q.gate /\ q.consensus # "none" /\ ~(G!Severity[p] >= G!Severity[q.gate]))
      /\ q.consensus # "none" => G!Severity[g] >= G!Severity[q.gate]
      /\ q.consensus = "none" => g = p
  <2> HIDE DEF p
  <2>1. g = G!Binding(q, p)
    BY DEF G!EvaluateGate, p
  <2>2. G!Severity[q.gate] \in Int
    BY <1>1, DemoRanks
  <2> HIDE DEF g
  <2>3. QED
    BY <2>1, <2>2 DEF G!Binding, G!AtLeast
<1> HIDE DEF p, g
<1>7. G!Severity[p] \in 0 .. 4 /\ G!Severity[q.gate] \in 0 .. 4
  BY <1>1, <1>3, DemoRanks
<1>8. g \in G!Decision
  BY <1>1, <1>3, <1>6, DemoRanks
<1>9. g = "AUTO_PASS" => p = "AUTO_PASS"
  BY <1>1, <1>3, <1>6, <1>7, DemoRanks
<1>10. g = "L1_REWORK" => p \in {"AUTO_PASS", "L1_REWORK"}
  BY <1>1, <1>3, <1>6, <1>7, DemoRanks
<1>11. g = "AUTO_PASS" /\ q.consensus # "none" => q.gate = "AUTO_PASS"
  BY <1>1, <1>6, <1>7, DemoRanks
<1>12. q.consensus # "none" /\ q.gate = "L2_HUMAN" => G!AtLeast(g, "L2_HUMAN")
  BY <1>6 DEF G!AtLeast
<1>13. QED
  BY <1>4, <1>5, <1>6, <1>8, <1>9, <1>10, <1>11, <1>12 DEF p, g

\* What an attempt brings to the models, or to the gate.
LEMMA DemoBrings ==
  ASSUME NEW n \in Nat, demoConfig \in DemoConfigs, NEW q \in DemoOutcomes(n)
  PROVE  q \in G!Quality /\ q.gate = "L2_HUMAN" /\ q.consensus = "none"
<1>1. \A m \in G!Measures, s \in 0 .. 100, g \in BOOLEAN :
        LET r == Reviewed(m, s, g) IN
        r \in G!Quality /\ r.gate = "L2_HUMAN" /\ r.consensus = "none"
  BY DemoRanks DEF Reviewed, G!Quality
<1>2. CASE demoConfig.scenario = "real"
  <2>1. \E m \in G!Measures, s \in 0 .. 100, g \in BOOLEAN : q = Reviewed(m, s, g)
    <3>1. \/ \E m \in DemoReports, s \in DemoScores, g \in BOOLEAN : q = Reviewed(m, s, g)
          \/ \E g \in BOOLEAN : q = Unreported(g)
      BY <1>2 DEF DemoOutcomes
    <3>2. DemoReports \subseteq G!Measures /\ DemoScores \subseteq 0 .. 100
      BY DemoAssumption
    <3>3. \A g \in BOOLEAN : \E m \in G!Measures : Unreported(g) = Reviewed(m, 0, g)
      <4> DEFINE m == [build |-> TRUE, lint |-> TRUE, unit |-> TRUE, security |-> "clean",
                       coverage |-> Coverage(0), sop |-> "unchecked"]
      <4>1. m \in G!Measures
        BY DEF G!Measures, Coverage
      <4>2. \A g : Unreported(g) = Reviewed(m, 0, g)
        BY Zenon DEF Unreported
      <4> HIDE DEF m
      <4>3. QED
        BY <4>1, <4>2
    <3>4. QED
      BY <3>1, <3>2, <3>3
  <2>2. QED
    BY <1>1, <2>1
<1>3. CASE demoConfig.scenario # "real"
  <2>1. demoConfig.scenario \in DOMAIN MockScenarios
    BY <1>3 DEF DemoConfigs
  <2>2. q = MockQuality(demoConfig.scenario, n)
    BY <1>3 DEF DemoOutcomes
  <2> DEFINE pool == MockScenarios[demoConfig.scenario]
             data == pool[IF n < Len(pool) THEN n + 1 ELSE Len(pool)]
  <2>3. data.lint \in BOOLEAN /\ data.score \in 0 .. 100
    <3> DEFINE R == [lint : BOOLEAN, percent : 0 .. 100, score : 0 .. 100]
    <3>1. pool \in Seq(R) /\ Len(pool) >= 1
      <4>2. demoConfig.scenario \in {"auto_pass", "l1", "l2", "l1_exhausted"}
        BY <2>1 DEF MockScenarios
      <4>3. CASE demoConfig.scenario = "auto_pass"
        <5> DEFINE x == [lint |-> TRUE, percent |-> 88, score |-> 92]
        <5>a. MockScenarios["auto_pass"] = <<Mock(TRUE, 88, 92)>>
          BY Zenon DEF MockScenarios
        <5>b. MockScenarios["auto_pass"] = <<x>>
          BY <5>a, Zenon DEF Mock
        <5>1. pool = <<x>>
          BY <4>3, <5>b, Zenon
        <5>2. x \in R
          OBVIOUS
        <5> HIDE DEF pool, R, x
        <5>3. QED
          BY <5>1, <5>2
      <4>4. CASE demoConfig.scenario = "l1"
        <5> DEFINE x == [lint |-> FALSE, percent |-> 82, score |-> 78]
                   y == [lint |-> TRUE, percent |-> 85, score |-> 89]
        <5>a. MockScenarios["l1"] = <<Mock(FALSE, 82, 78), Mock(TRUE, 85, 89)>>
          BY Zenon DEF MockScenarios
        <5>b. MockScenarios["l1"] = <<x, y>>
          BY <5>a, Zenon DEF Mock
        <5>1. pool = <<x, y>>
          BY <4>4, <5>b, Zenon
        <5>2. x \in R /\ y \in R
          OBVIOUS
        <5> HIDE DEF pool, R, x, y
        <5>3. QED
          BY <5>1, <5>2
      <4>5. CASE demoConfig.scenario = "l2"
        <5> DEFINE x == [lint |-> TRUE, percent |-> 76, score |-> 58]
        <5>a. MockScenarios["l2"] = <<Mock(TRUE, 76, 58)>>
          BY Zenon DEF MockScenarios
        <5>b. MockScenarios["l2"] = <<x>>
          BY <5>a, Zenon DEF Mock
        <5>1. pool = <<x>>
          BY <4>5, <5>b, Zenon
        <5>2. x \in R
          OBVIOUS
        <5> HIDE DEF pool, R, x
        <5>3. QED
          BY <5>1, <5>2
      <4>6. CASE demoConfig.scenario = "l1_exhausted"
        <5> DEFINE x == [lint |-> FALSE, percent |-> 82, score |-> 78]
        <5>1. pool = [i \in 1 .. 4 |-> x]
          BY <4>6 DEF MockScenarios, Mock
        <5>2. x \in R
          OBVIOUS
        <5> HIDE DEF pool, R, x
        <5>3. QED
          BY <5>1, <5>2
      <4>7. QED
        BY <4>2, <4>3, <4>4, <4>5, <4>6
    <3> HIDE DEF pool
    <3>2. data \in R
      <4> HIDE DEF R
      <4> QED BY <3>1
    <3> HIDE DEF data
    <3>3. QED
      BY <3>2
  <2>4. \A percent : Coverage(percent) \in {"enough", "slightly_below", "below"}
    BY DEF Coverage
  <2> HIDE DEF data
  <2>5. [build |-> TRUE, lint |-> data.lint, unit |-> TRUE, security |-> "clean",
         coverage |-> Coverage(data.percent), sop |-> "unchecked"] \in G!Measures
    BY <2>3, <2>4 DEF G!Measures
  <2>6. q = Reviewed([build |-> TRUE, lint |-> data.lint, unit |-> TRUE, security |-> "clean",
                      coverage |-> Coverage(data.percent), sop |-> "unchecked"],
                     data.score, FALSE)
    BY <2>2, Zenon DEF MockQuality, data
  <2>7. QED
    BY <1>1, <2>3, <2>5, <2>6
<1>4. QED
  BY <1>2, <1>3

\* What the models leave of it.
LEMMA DemoCrossed ==
  ASSUME demoConfig \in DemoConfigs, NEW q \in G!Quality, q.gate = "L2_HUMAN",
         q.consensus = "none", NEW votes \in DemoBallots
  PROVE  /\ Crossed(q, votes) \in G!Quality
         /\ demoConfig.mode = "single" => Crossed(q, votes) = q
         /\ Crossed(q, votes).consensus = "failed" => Crossed(q, votes).gate # "AUTO_PASS"
         /\ demoConfig.mode = "strict" /\ Crossed(q, votes).consensus = "failed" =>
              Crossed(q, votes).gate = "L2_HUMAN"
<1> DEFINE reached == G!Successful(votes) # {} /\ G!Reached(demoConfig.strategy, votes)
           merged == [q EXCEPT !.consensus = IF reached THEN "reached" ELSE "failed"]
           c == Crossed(q, votes)
<1>0. votes \in Seq(G!Vote) /\ "L2_HUMAN" \in G!Decision
  BY DemoAssumption, DemoRanks
<1>1. merged \in G!Quality /\ merged.gate = "L2_HUMAN"
      /\ merged.consensus = IF reached THEN "reached" ELSE "failed"
  <2> HIDE DEF reached
  <2> QED BY DEF G!Quality
<1>2. \A s \in 0 .. 100, d \in G!Decision :
        LET r == [merged EXCEPT !.gate = d, !.score = s] IN
        r \in G!Quality /\ r.gate = d /\ r.consensus = merged.consensus
  <2> HIDE DEF merged
  <2> QED BY <1>1 DEF G!Quality
<1>3. merged.score \in 0 .. 100
  <2> HIDE DEF merged
  <2> QED BY <1>1, Zenon DEF G!Quality
<1>4. G!Successful(votes) # {} =>
        /\ G!MeanScore(votes) \in 0 .. 100 /\ G!ConsensusDecision(demoConfig.strategy, votes) \in G!Decision
        /\ ~reached => G!ConsensusDecision(demoConfig.strategy, votes) # "AUTO_PASS"
  <2>1. ~G!Reached(demoConfig.strategy, votes) => G!ConsensusDecision(demoConfig.strategy, votes) # "AUTO_PASS"
    BY DEF G!ConsensusDecision
  <2>2. QED
    BY <1>0, <2>1, DemoMean, DemoResolves
<1>5. CASE demoConfig.mode = "single"
  <2>1. c = q
    BY <1>5 DEF Crossed
  <2> HIDE DEF c
  <2>2. QED
    BY <1>5, <2>1 DEF c
<1>6. CASE demoConfig.mode = "strict" /\ ~reached
  <2>1. c = [merged EXCEPT !.gate = "L2_HUMAN",
                           !.score = IF G!Successful(votes) = {} THEN @ ELSE G!MeanScore(votes)]
    BY <1>6, Zenon DEF Crossed
  <2>2. PICK s \in 0 .. 100 : c = [merged EXCEPT !.gate = "L2_HUMAN", !.score = s]
    <3> HIDE DEF merged, c, reached
    <3> QED BY <1>3, <1>4, <2>1
  <2> HIDE DEF merged, c
  <2>3. QED
    BY <1>0, <1>2, <1>6, <2>2 DEF c
<1>7. CASE demoConfig.mode # "single" /\ ~(demoConfig.mode = "strict" /\ ~reached)
           /\ G!Successful(votes) = {}
  <2>1. c = merged
    BY <1>7, Zenon DEF Crossed
  <2> HIDE DEF merged, c
  <2>2. QED
    BY <1>1, <1>7, <2>1 DEF c
<1>8. CASE demoConfig.mode # "single" /\ ~(demoConfig.mode = "strict" /\ ~reached)
           /\ G!Successful(votes) # {}
  <2>1. c = [merged EXCEPT !.score = G!MeanScore(votes),
                           !.gate = G!ConsensusDecision(demoConfig.strategy, votes)]
    BY <1>8, Zenon DEF Crossed
  <2>2. PICK s \in 0 .. 100, d \in G!Decision :
          /\ c = [merged EXCEPT !.gate = d, !.score = s]
          /\ ~reached => d # "AUTO_PASS"
    <3> HIDE DEF merged, c, reached
    <3> QED BY <1>4, <1>8, <2>1
  <2> HIDE DEF merged, c, reached
  <2>3. c \in G!Quality /\ c.gate = d /\ c.consensus = merged.consensus
    BY <1>2, <2>2
  <2>4. QED
    BY <1>1, <1>8, <2>2, <2>3 DEF c
<1>9. QED
  BY <1>5, <1>6, <1>7, <1>8

\* What the gate makes of an attempt of a scenario, under thresholds between what the
\* scenarios measure.
MockIs(scenario, n, lint, percent, score) ==
  LET q == MockQuality(scenario, n) IN
  /\ q.measures.build /\ (q.measures.lint <=> lint = "passed") /\ q.measures.unit
  /\ q.measures.security = "clean" /\ q.measures.sop = "unchecked"
  /\ q.measures.coverage = Coverage(percent)
  /\ q.score = score /\ ~q.pathGuard /\ q.consensus = "none"

LEMMA MockMeasures ==
  ASSUME NEW scenario \in DOMAIN MockScenarios, NEW n \in Nat, NEW lint \in {"passed", "failed"},
         NEW percent, NEW score, NEW data,
         data = MockScenarios[scenario][IF n < Len(MockScenarios[scenario]) THEN n + 1
                                        ELSE Len(MockScenarios[scenario])],
         data.lint <=> lint = "passed", data.percent = percent, data.score = score
  PROVE  MockIs(scenario, n, lint, percent, score)
<1>1. MockQuality(scenario, n) =
        Reviewed([build |-> TRUE, lint |-> data.lint, unit |-> TRUE, security |-> "clean",
                  coverage |-> Coverage(data.percent), sop |-> "unchecked"], data.score, FALSE)
  BY Zenon DEF MockQuality
<1>2. QED
  BY <1>1 DEF MockIs, Reviewed

LEMMA MockScenariosAre ==
  ASSUME NEW n \in Nat
  PROVE  /\ MockIs("auto_pass", n, "passed", 88, 92)
         /\ n = 0 => MockIs("l1", n, "failed", 82, 78)
         /\ n = 1 => MockIs("l1", n, "passed", 85, 89)
         /\ MockIs("l2", n, "passed", 76, 58)
         /\ MockIs("l1_exhausted", n, "failed", 82, 78)
<1> DEFINE clean == [lint |-> TRUE, percent |-> 88, score |-> 92]
           failing == [lint |-> FALSE, percent |-> 82, score |-> 78]
           fixed == [lint |-> TRUE, percent |-> 85, score |-> 89]
           poor == [lint |-> TRUE, percent |-> 76, score |-> 58]
<1>1. /\ MockScenarios["auto_pass"] = <<Mock(TRUE, 88, 92)>>
      /\ MockScenarios["l1"] = <<Mock(FALSE, 82, 78), Mock(TRUE, 85, 89)>>
      /\ MockScenarios["l2"] = <<Mock(TRUE, 76, 58)>>
  BY Zenon DEF MockScenarios
<1>2. MockScenarios["auto_pass"] = <<clean>> /\ MockScenarios["l1"] = <<failing, fixed>>
      /\ MockScenarios["l2"] = <<poor>>
  BY <1>1, Zenon DEF Mock
<1>3. MockScenarios["l1_exhausted"] = [i \in 1 .. 4 |-> failing]
  BY DEF MockScenarios, Mock
<1>4. /\ clean.lint /\ clean.percent = 88 /\ clean.score = 92
      /\ ~failing.lint /\ failing.percent = 82 /\ failing.score = 78
      /\ fixed.lint /\ fixed.percent = 85 /\ fixed.score = 89
      /\ poor.lint /\ poor.percent = 76 /\ poor.score = 58
  OBVIOUS
<1>5. {"auto_pass", "l1", "l2", "l1_exhausted"} \subseteq DOMAIN MockScenarios
  BY DEF MockScenarios
<1> HIDE DEF clean, failing, fixed, poor
<1> DEFINE At(pool) == pool[IF n < Len(pool) THEN n + 1 ELSE Len(pool)]
<1>6. At(<<clean>>) = clean /\ At(<<poor>>) = poor
  OBVIOUS
<1>7. n = 0 => At(<<failing, fixed>>) = failing
  OBVIOUS
<1>8. n = 1 => At(<<failing, fixed>>) = fixed
  OBVIOUS
<1>9. At([i \in 1 .. 4 |-> failing]) = failing
  <2> DEFINE pool == [i \in 1 .. 4 |-> failing]
  <2>1. Len(pool) = 4
    OBVIOUS
  <2>2. \A i \in 1 .. 4 : pool[i] = failing
    OBVIOUS
  <2> HIDE DEF pool
  <2>3. At(pool) = failing
    BY <2>1, <2>2
  <2>4. QED
    BY <2>3 DEF pool
<1>10. MockIs("auto_pass", n, "passed", 88, 92)
  <2>1. At(MockScenarios["auto_pass"]) = clean
    BY <1>2, <1>6, Zenon
  <2>2. QED
    BY <1>4, <1>5, <2>1, MockMeasures
<1>11. n = 0 => MockIs("l1", n, "failed", 82, 78)
  <2>1. n = 0 => At(MockScenarios["l1"]) = failing
    BY <1>2, <1>7, Zenon
  <2>2. QED
    BY <1>4, <1>5, <2>1, MockMeasures
<1>12. n = 1 => MockIs("l1", n, "passed", 85, 89)
  <2>1. n = 1 => At(MockScenarios["l1"]) = fixed
    BY <1>2, <1>8, Zenon
  <2>2. QED
    BY <1>4, <1>5, <2>1, MockMeasures
<1>13. MockIs("l2", n, "passed", 76, 58)
  <2>1. At(MockScenarios["l2"]) = poor
    BY <1>2, <1>6, Zenon
  <2>2. QED
    BY <1>4, <1>5, <2>1, MockMeasures
<1>14. MockIs("l1_exhausted", n, "failed", 82, 78)
  <2>1. At(MockScenarios["l1_exhausted"]) = failing
    BY <1>3, <1>9, Zenon
  <2>2. QED
    BY <1>4, <1>5, <2>1, MockMeasures
<1>15. QED
  BY <1>10, <1>11, <1>12, <1>13, <1>14

Gated(scenario, n) == G!PolicyDecision(MockQuality(scenario, n), {}, FALSE, n)

LEMMA MockGates ==
  ASSUME LabelsApply, NEW n \in Nat
  PROVE  /\ n = 0 => /\ Gated("auto_pass", n) = "AUTO_PASS" /\ Gated("l1", n) = "L1_REWORK"
                     /\ Gated("l2", n) = "L2_HUMAN"
         /\ n = 1 => Gated("l1", n) = "AUTO_PASS"
         /\ n < DemoRetries => Gated("l1_exhausted", n) = "L1_REWORK"
         /\ n >= DemoRetries => Gated("l1_exhausted", n) = "L2_HUMAN"
<1>1. /\ DemoRetries \in Nat /\ DemoRetries >= 2 /\ DemoThreshold \in 59 .. 78
      /\ CoverageThreshold \in Int /\ CoverageThreshold <= 85
  BY DemoAssumption DEF LabelsApply
<1>2. /\ Coverage(88) = "enough" /\ Coverage(85) = "enough"
      /\ Coverage(82) \in {"enough", "slightly_below"}
  BY <1>1 DEF Coverage
<1>3. ASSUME NEW scenario, NEW lint \in {"passed", "failed"}, NEW percent, NEW score \in 0 .. 100,
             MockIs(scenario, n, lint, percent, score)
      PROVE  LET g == Gated(scenario, n) IN
             /\ score < DemoThreshold \/ n >= DemoRetries => g = "L2_HUMAN"
             /\ score >= DemoThreshold /\ n < DemoRetries /\ Coverage(percent) # "below" =>
                  g = IF lint = "failed" \/ Coverage(percent) = "slightly_below" THEN "L1_REWORK"
                      ELSE "AUTO_PASS"
  <2> DEFINE q == MockQuality(scenario, n)
  <2>1. /\ ~G!L3Halt(q) /\ ~q.pathGuard /\ q.measures.sop # "missed"
        /\ ~G!DynamicGuardrails({}, FALSE)
    BY <1>3 DEF MockIs, G!L3Halt, G!DynamicGuardrails
  <2>2. G!L1Rework(q) <=> (lint = "failed" \/ Coverage(percent) = "slightly_below")
    BY <1>3 DEF MockIs, G!L1Rework
  <2>3. G!L2Human(q, {}, n) <=>
          (score < DemoThreshold \/ Coverage(percent) = "below" \/ n >= DemoRetries)
    BY <1>3 DEF MockIs, G!L2Human, G!RetriesExhausted
  <2> HIDE DEF q
  <2>4. /\ G!L2Human(q, {}, n) => G!PolicyDecision(q, {}, FALSE, n) = "L2_HUMAN"
        /\ ~G!L2Human(q, {}, n) /\ G!L1Rework(q) => G!PolicyDecision(q, {}, FALSE, n) = "L1_REWORK"
        /\ ~G!L2Human(q, {}, n) /\ ~G!L1Rework(q) => G!PolicyDecision(q, {}, FALSE, n) = "AUTO_PASS"
    BY <2>1, Zenon DEF G!PolicyDecision
  <2>5. score < DemoThreshold \/ n >= DemoRetries => G!PolicyDecision(q, {}, FALSE, n) = "L2_HUMAN"
    BY <2>3, <2>4
  <2>6. score >= DemoThreshold /\ n < DemoRetries => ~(score < DemoThreshold) /\ ~(n >= DemoRetries)
    BY <1>1
  <2>7. score >= DemoThreshold /\ n < DemoRetries /\ Coverage(percent) # "below" =>
          G!PolicyDecision(q, {}, FALSE, n) =
            IF lint = "failed" \/ Coverage(percent) = "slightly_below" THEN "L1_REWORK" ELSE "AUTO_PASS"
    BY <2>2, <2>3, <2>4, <2>6, Zenon
  <2>8. QED
    BY <2>5, <2>7, Zenon DEF q, Gated
<1>4. n = 0 => Gated("auto_pass", n) = "AUTO_PASS"
  BY <1>1, <1>2, <1>3, MockScenariosAre
<1>5. n = 0 => Gated("l1", n) = "L1_REWORK"
  BY <1>1, <1>2, <1>3, MockScenariosAre
<1>6. n = 0 => Gated("l2", n) = "L2_HUMAN"
  BY <1>1, <1>3, MockScenariosAre
<1>7. n = 1 => Gated("l1", n) = "AUTO_PASS"
  BY <1>1, <1>2, <1>3, MockScenariosAre
<1>8. /\ n < DemoRetries => Gated("l1_exhausted", n) = "L1_REWORK"
      /\ n >= DemoRetries => Gated("l1_exhausted", n) = "L2_HUMAN"
  BY <1>1, <1>2, <1>3, MockScenariosAre
<1>9. QED
  BY <1>4, <1>5, <1>6, <1>7, <1>8, Zenon

\* The attempts a mock run can be at while it runs, if the labels apply to it.
DemoInv ==
  /\ DemoTypeOK
  /\ demoPhase = "runs" => demoAttempts <= DemoRetries
  /\ DemoPassesClean /\ DemoAsksWithPackage /\ DemoEndsAsLabelled
  /\ demoPhase = "runs" /\ LabelsApply =>
       /\ demoConfig.scenario \in {"auto_pass", "l2"} => demoAttempts = 0
       /\ demoConfig.scenario = "l1" => demoAttempts \in {0, 1}

LEMMA DemoInvInit == DemoInit => DemoInv
<1> SUFFICES ASSUME DemoInit
             PROVE  DemoInv
  OBVIOUS
<1>1. demoConfig \in DemoConfigs /\ demoAttempts = 0 /\ demoPhase = "runs" /\ DemoRetries \in Nat
  BY DemoAssumption DEF DemoInit
<1>2. /\ demoResult.gate = "L2_HUMAN" /\ demoResult.package = "none"
      /\ demoResult.quality = Unreported(FALSE)
      /\ demoResult = [quality |-> demoResult.quality, gate |-> "L2_HUMAN",
                       package |-> "none", committed |-> FALSE]
  BY DEF DemoInit
<1>3. demoResult.quality \in G!Quality
  BY <1>2, DemoRanks DEF Unreported, Reviewed, Coverage, G!Quality, G!Measures
<1>4. demoResult \in [quality : G!Quality, gate : G!Decision,
                      package : {"none", "L2_HUMAN"}, committed : BOOLEAN]
  <2>1. \A x \in G!Quality, d \in G!Decision :
          [quality |-> x, gate |-> d, package |-> "none", committed |-> FALSE]
            \in [quality : G!Quality, gate : G!Decision,
                 package : {"none", "L2_HUMAN"}, committed : BOOLEAN]
    OBVIOUS
  <2>2. "L2_HUMAN" \in G!Decision
    BY DemoRanks
  <2>3. QED
    BY <1>2, <1>3, <2>1, <2>2, Zenon
<1>5. DemoTypeOK
  BY <1>1, <1>4 DEF DemoTypeOK
<1>6. DemoPassesClean /\ DemoAsksWithPackage /\ DemoEndsAsLabelled
  BY <1>1, <1>2 DEF DemoPassesClean, DemoAsksWithPackage, DemoEndsAsLabelled
<1>7. QED
  BY <1>1, <1>5, <1>6 DEF DemoInv

\* An attempt of the pipeline: its gate decides what the run does next, since a rework
\* always has an attempt left.
LEMMA DemoDispatched ==
  ASSUME DemoInv, NEW q \in G!Quality, Dispatch(q), demoAttempts' = demoAttempts + 1,
         demoPhase = "runs", UNCHANGED demoConfig,
         q.consensus = "failed" => q.gate # "AUTO_PASS",
         demoConfig.mode = "strict" /\ q.consensus = "failed" => q.gate = "L2_HUMAN"
  PROVE  /\ DemoTypeOK' /\ DemoPassesClean' /\ DemoAsksWithPackage'
         /\ demoPhase' = "runs" => demoAttempts' <= DemoRetries
         /\ demoResult'.gate = G!EvaluateGate(q, {}, FALSE, demoAttempts)
         /\ demoPhase' = "runs" <=> demoResult'.gate = "L1_REWORK"
<1> DEFINE g == G!EvaluateGate(q, {}, FALSE, demoAttempts)
           refused == demoConfig.mode = "strict" /\ q.consensus = "failed"
           package == IF g = "L2_HUMAN" \/ refused THEN "L2_HUMAN" ELSE "none"
<1>1. /\ demoAttempts \in Nat /\ demoAttempts <= DemoRetries /\ DemoRetries \in Nat
      /\ demoConfig \in DemoConfigs
  BY DemoAssumption DEF DemoInv, DemoTypeOK
<1>2. /\ g \in G!Decision
      /\ g = "AUTO_PASS" =>
           /\ q.measures.build /\ q.measures.lint /\ q.measures.unit
           /\ q.measures.security = "clean" /\ q.measures.coverage = "enough"
           /\ q.score >= DemoThreshold /\ demoAttempts < DemoRetries
           /\ (q.consensus # "none" => q.gate = "AUTO_PASS")
      /\ g = "L1_REWORK" => demoAttempts < DemoRetries
      /\ q.consensus # "none" /\ q.gate = "L2_HUMAN" => G!AtLeast(g, "L2_HUMAN")
  BY <1>1, DemoGate
<1>3. \E sha \in BOOLEAN :
        /\ demoResult' = [quality |-> [q EXCEPT !.gate = g], gate |-> g, committed |-> sha,
                          package |-> package]
        /\ demoPhase' \in {"runs", "ended", "raised"}
        /\ demoPhase' = "runs" <=> g = "L1_REWORK"
  BY <1>2 DEF Dispatch
<1> HIDE DEF g, refused, package
<1>4. /\ [q EXCEPT !.gate = g] \in G!Quality
      /\ [q EXCEPT !.gate = g].measures = q.measures
      /\ [q EXCEPT !.gate = g].score = q.score
      /\ [q EXCEPT !.gate = g].consensus = q.consensus
  BY <1>2 DEF G!Quality
<1>5. PICK r : r = [q EXCEPT !.gate = g]
  OBVIOUS
<1>6. /\ demoResult'.quality = r /\ demoResult'.gate = g /\ demoResult'.package = package
      /\ demoPhase' \in {"runs", "ended", "raised"}
      /\ demoPhase' = "runs" <=> g = "L1_REWORK"
      /\ \E sha \in BOOLEAN : demoResult' = [quality |-> r, gate |-> g, committed |-> sha,
                                             package |-> package]
  BY <1>3, <1>5
<1>7. package \in {"none", "L2_HUMAN"}
  BY DEF package
<1>8. demoResult' \in [quality : G!Quality, gate : G!Decision,
                       package : {"none", "L2_HUMAN"}, committed : BOOLEAN]
  BY <1>2, <1>4, <1>5, <1>6, <1>7
<1>9. demoAttempts' \in 0 .. DemoRetries + 1
  BY <1>1
<1>10. DemoTypeOK'
  BY <1>1, <1>6, <1>8, <1>9 DEF DemoTypeOK
<1>11. DemoPassesClean'
  <2>1. ASSUME g = "AUTO_PASS"
        PROVE  /\ r.measures.build /\ r.measures.lint /\ r.measures.unit
               /\ r.measures.security = "clean" /\ r.measures.coverage = "enough"
               /\ r.score >= DemoThreshold /\ r.consensus # "failed"
               /\ demoAttempts' <= DemoRetries
    BY <1>1, <1>2, <1>4, <1>5, <2>1
  <2>2. QED
    BY <1>6, <2>1 DEF DemoPassesClean
<1>12. DemoAsksWithPackage'
  <2>1. g = "L2_HUMAN" => package = "L2_HUMAN"
    BY DEF package
  <2>2. package = "L2_HUMAN" => G!AtLeast(g, "L2_HUMAN")
    <3>1. CASE g = "L2_HUMAN"
      BY <3>1, DemoRanks DEF G!AtLeast
    <3>2. CASE refused
      BY <1>2, <3>2 DEF refused
    <3>3. QED
      BY <3>1, <3>2 DEF package
  <2>3. QED
    BY <1>6, <2>1, <2>2 DEF DemoAsksWithPackage, G!AtLeast
<1>13. demoPhase' = "runs" => demoAttempts' <= DemoRetries
  BY <1>1, <1>2, <1>6
<1>14. QED
  BY <1>6, <1>10, <1>11, <1>12, <1>13 DEF g

LEMMA DemoInvNext == DemoInv /\ [DemoNext]_demoVars => DemoInv'
<1> SUFFICES ASSUME DemoInv, [DemoNext]_demoVars
             PROVE  DemoInv'
  OBVIOUS
<1>1. CASE DemoAttempt
  <2>1. PICK q0 \in DemoOutcomes(demoAttempts), votes \in DemoBallots : Dispatch(Crossed(q0, votes))
    BY <1>1 DEF DemoAttempt
  <2>2. /\ demoPhase = "runs" /\ demoAttempts' = demoAttempts + 1 /\ UNCHANGED demoConfig
        /\ demoConfig \in DemoConfigs /\ demoAttempts \in Nat /\ demoAttempts <= DemoRetries
        /\ DemoRetries \in Nat
    BY <1>1, DemoAssumption DEF DemoAttempt, DemoInv, DemoTypeOK
  <2>3. q0 \in G!Quality /\ q0.gate = "L2_HUMAN" /\ q0.consensus = "none"
    BY <2>1, <2>2, DemoBrings
  <2>4. PICK q : q = Crossed(q0, votes)
    OBVIOUS
  <2>5. /\ q \in G!Quality
        /\ demoConfig.mode = "single" => q = q0
        /\ q.consensus = "failed" => q.gate # "AUTO_PASS"
        /\ demoConfig.mode = "strict" /\ q.consensus = "failed" => q.gate = "L2_HUMAN"
    BY <2>1, <2>2, <2>3, <2>4, DemoCrossed
  <2>6. /\ DemoTypeOK' /\ DemoPassesClean' /\ DemoAsksWithPackage'
        /\ demoPhase' = "runs" => demoAttempts' <= DemoRetries
        /\ demoResult'.gate = G!EvaluateGate(q, {}, FALSE, demoAttempts)
        /\ demoPhase' = "runs" <=> demoResult'.gate = "L1_REWORK"
    BY <2>1, <2>2, <2>4, <2>5, DemoDispatched
  <2>7. ASSUME LabelsApply, demoConfig.scenario # "real"
        PROVE  demoResult'.gate = Gated(demoConfig.scenario, demoAttempts)
    <3>1. q = MockQuality(demoConfig.scenario, demoAttempts) /\ q.consensus = "none"
      BY <2>1, <2>3, <2>5, <2>7 DEF LabelsApply, DemoOutcomes
    <3>2. G!EvaluateGate(q, {}, FALSE, demoAttempts) = G!PolicyDecision(q, {}, FALSE, demoAttempts)
      BY <2>2, <2>5, <3>1, DemoGate
    <3>3. QED
      BY <2>6, <3>1, <3>2, Zenon DEF Gated
  <2>8. (LabelsApply)' => LabelsApply
    BY <2>2 DEF LabelsApply
  <2>9. /\ LabelsApply /\ demoConfig.scenario = "auto_pass" =>
             demoResult'.gate = "AUTO_PASS" /\ demoAttempts = 0
        /\ LabelsApply /\ demoConfig.scenario = "l2" =>
             demoResult'.gate = "L2_HUMAN" /\ demoAttempts = 0
        /\ LabelsApply /\ demoConfig.scenario = "l1" =>
             \/ demoAttempts = 0 /\ demoResult'.gate = "L1_REWORK"
             \/ demoAttempts = 1 /\ demoResult'.gate = "AUTO_PASS"
        /\ LabelsApply /\ demoConfig.scenario = "l1_exhausted" =>
             \/ demoAttempts < DemoRetries /\ demoResult'.gate = "L1_REWORK"
             \/ demoAttempts = DemoRetries /\ demoResult'.gate = "L2_HUMAN"
    BY <2>2, <2>7, MockGates DEF DemoInv
  <2>10. DemoEndsAsLabelled'
    <3> SUFFICES ASSUME demoPhase' = "ended", LabelsApply
                 PROVE  CASE demoConfig.scenario = "auto_pass" ->
                               demoResult'.gate = "AUTO_PASS" /\ demoAttempts' = 1
                          [] demoConfig.scenario = "l1" ->
                               demoResult'.gate = "AUTO_PASS" /\ demoAttempts' = 2
                          [] demoConfig.scenario = "l2" ->
                               demoResult'.gate = "L2_HUMAN" /\ demoAttempts' = 1
                          [] demoConfig.scenario = "l1_exhausted" ->
                               demoResult'.gate = "L2_HUMAN" /\ demoAttempts' = DemoRetries + 1
                          [] OTHER -> TRUE
      BY <2>2, <2>8, Zenon DEF DemoEndsAsLabelled
    <3>1. demoResult'.gate # "L1_REWORK"
      BY <2>6
    <3>2. QED
      BY <2>2, <2>9, <3>1
  <2>11. demoPhase' = "runs" /\ (LabelsApply)' =>
           /\ demoConfig'.scenario \in {"auto_pass", "l2"} => demoAttempts' = 0
           /\ demoConfig'.scenario = "l1" => demoAttempts' \in {0, 1}
    <3> SUFFICES ASSUME demoPhase' = "runs", LabelsApply
                 PROVE  /\ demoConfig.scenario \in {"auto_pass", "l2"} => demoAttempts' = 0
                        /\ demoConfig.scenario = "l1" => demoAttempts' \in {0, 1}
      BY <2>2, <2>8, Zenon
    <3>1. demoResult'.gate = "L1_REWORK"
      BY <2>6
    <3>2. QED
      BY <2>2, <2>9, <3>1
  <2>12. QED
    BY <2>6, <2>10, <2>11 DEF DemoInv
<1>2. CASE DemoRaises
  BY <1>2 DEF DemoRaises, DemoInv, DemoTypeOK, DemoPassesClean, DemoAsksWithPackage,
     DemoEndsAsLabelled, LabelsApply
<1>3. CASE UNCHANGED demoVars
  BY <1>3 DEF demoVars, DemoInv, DemoTypeOK, DemoPassesClean, DemoAsksWithPackage,
     DemoEndsAsLabelled, LabelsApply
<1>4. QED
  BY <1>1, <1>2, <1>3 DEF DemoNext

\* Steps that are retried, and fall back, answer with what was earned, within their bounds,
\* and the demo's attempts end as they are labelled.
THEOREM StepsStayRecovered == ServicesSpec => []StepsAreRecovered
<1>1. ServicesInit => RecoveryInv /\ DemoInv
  BY RecoveryInvInit, DemoInvInit DEF ServicesInit
<1>2. RecoveryInv /\ DemoInv /\ [ServicesNext]_servicesVars => (RecoveryInv /\ DemoInv)'
  BY OnePartMoves, RecoveryInvNext, DemoInvNext
<1>3. RecoveryInv /\ DemoInv => StepsAreRecovered
  BY RecoveryIsSafe DEF StepsAreRecovered, DemoInv
<1>4. QED
  BY <1>1, <1>2, <1>3, PTL DEF ServicesSpec

(***************************************************************************)
(* Commits of concurrent pipelines.                                        *)
(***************************************************************************)
Committed == UNION {commits[i].tree : i \in DOMAIN commits}
Held == {s[2] : s \in index}
Working == {"branches", "switches", "stages", "reads", "pushes", "done"}

\* What is to be kept, whoever commits it, and nothing of it is protected.
Accounted ==
  /\ \A p \in Pipelines :
       /\ toStage[p] \subseteq ChangedFiles[p]
       /\ ChangedFiles[p] \subseteq toStage[p] \cup Held \cup Committed
       /\ gitPhase[p] \in {"idle", "branches", "switches"} => toStage[p] = ChangedFiles[p]
       /\ gitPhase[p] \in Working => ChangedFiles[p] \cap ProtectedPaths = {}
       /\ gitPhase[p] \in {"reads", "pushes", "done"} => ChangedFiles[p] \subseteq Committed
  /\ \A s \in index : s[2] \notin ProtectedPaths
  /\ \A i \in DOMAIN commits : \A s \in commits[i].files : s[2] \notin ProtectedPaths

\* What was staged and not committed is of a pipeline that is still at it, or of one that
\* failed.
StagedBySomebody == \A s \in index : s \in leftBehind \/ gitPhase[s[1]] = "stages"

\* A commit a pipeline that met no other is told of.
OwnCommit(p, c) ==
  /\ c.by = p /\ c.branch = TaskBranch[p] /\ ChangedFiles[p] \subseteq c.tree
  /\ \A s \in c.files : s[1] = p \/ s \in leftBehind

\* Who works alone has the repository to itself.
Alone(p) ==
  /\ gitPhase[p] \notin Quiescent => Others(p) = {}
  /\ gitPhase[p] \in {"stages", "reads"} => checkedOut = TaskBranch[p]
  /\ gitPhase[p] = "stages" => ChangedFiles[p] \subseteq toStage[p] \cup Held \cup Tree(checkedOut)
  /\ gitPhase[p] = "reads" =>
       /\ commits # <<>> /\ tip[checkedOut] = Len(commits)
       /\ OwnCommit(p, commits[Len(commits)])
  /\ gitPhase[p] \in {"pushes", "done"} =>
       returned[p] \in DOMAIN commits /\ OwnCommit(p, commits[returned[p]])

GitInv ==
  /\ GitTypeOK /\ Accounted /\ StagedBySomebody
  /\ \A p \in Pipelines \ together : Alone(p)

LEMMA GitInvInit == GitInit => GitInv
<1> SUFFICES ASSUME GitInit
             PROVE  GitInv
  OBVIOUS
<1>1. /\ commits = <<>> /\ index = {} /\ DOMAIN tip = {MainBranch} /\ tip[MainBranch] = 0
      /\ \A p \in Pipelines : gitPhase[p] = "idle" /\ toStage[p] = ChangedFiles[p]
  BY DEF GitInit
<1>2. GitTypeOK
  BY <1>1, GitAssumption DEF GitInit, GitTypeOK, Quiescent, Staged, Branches
<1>3. Accounted
  BY <1>1 DEF Accounted, Working
<1>4. StagedBySomebody /\ \A p \in Pipelines \ together : Alone(p)
  BY <1>1 DEF StagedBySomebody, Alone, Quiescent
<1>5. QED
  BY <1>2, <1>3, <1>4 DEF GitInv

LEMMA GitIsSafe == GitInv => ProtectedStayOut /\ ToldAndKept /\ AloneOnItsBranch
<1> SUFFICES ASSUME GitInv
             PROVE  ProtectedStayOut /\ ToldAndKept /\ AloneOnItsBranch
  OBVIOUS
<1>1. Range(commits) = {commits[i] : i \in DOMAIN commits}
  BY DEF Range
<1>2. ProtectedStayOut
  BY <1>1 DEF GitInv, Accounted, ProtectedStayOut
<1>3. UNION {c.tree : c \in Range(commits)} = Committed
  BY <1>1 DEF Committed
<1>4. ToldAndKept
  BY <1>3 DEF GitInv, Accounted, ToldAndKept
<1>5. AloneOnItsBranch
  <2>1. Len(commits) \in Nat /\ DOMAIN commits = 1 .. Len(commits)
    BY DEF GitInv, GitTypeOK
  <2>2. QED
    BY <2>1 DEF GitInv, AloneOnItsBranch, Alone, OwnCommit
<1>6. QED
  BY <1>2, <1>4, <1>5

\* What the actions have in common.
LEMMA GitTypes ==
  ASSUME GitInv
  PROVE  /\ Len(commits) \in Nat /\ DOMAIN commits = 1 .. Len(commits)
         /\ \A i \in 1 .. Len(commits) :
              /\ commits[i] \in [by : Pipelines, branch : Branches, files : SUBSET Staged,
                                 tree : SUBSET Paths]
              /\ commits[i].tree \subseteq Committed
         /\ \A b \in DOMAIN tip : Tree(b) \subseteq Paths /\ Tree(b) \subseteq Committed
         /\ Held \subseteq Paths
<1>1. Len(commits) \in Nat /\ DOMAIN commits = 1 .. Len(commits)
  BY DEF GitInv, GitTypeOK
<1>2. ASSUME NEW i \in 1 .. Len(commits)
      PROVE  /\ commits[i] \in [by : Pipelines, branch : Branches, files : SUBSET Staged,
                                tree : SUBSET Paths]
             /\ commits[i].tree \subseteq Committed
  <2>1. commits[i] \in [by : Pipelines, branch : Branches, files : SUBSET Staged,
                        tree : SUBSET Paths]
    <3> DEFINE C == [by : Pipelines, branch : Branches, files : SUBSET Staged,
                     tree : SUBSET Paths]
    <3>1. commits \in Seq(C)
      BY DEF GitInv, GitTypeOK
    <3> HIDE DEF C
    <3>3. commits[i] \in C
      BY <3>1, <1>1
    <3>2. QED
      BY <3>3 DEF C
  <2>2. i \in DOMAIN commits
    BY <1>1
  <2>3. commits[i].tree \subseteq Committed
    BY <2>2, Zenon DEF Committed
  <2>4. QED
    BY <2>1, <2>3
<1>3. ASSUME NEW b \in DOMAIN tip
      PROVE  Tree(b) \subseteq Paths /\ Tree(b) \subseteq Committed
  <2>1. tip[b] \in 0 .. Len(commits)
    BY DEF GitInv, GitTypeOK
  <2>2. CASE tip[b] = 0
    BY <2>2 DEF Tree
  <2>3. CASE tip[b] # 0
    BY <1>1, <1>2, <2>1, <2>3 DEF Tree
  <2>4. QED
    BY <2>2, <2>3
<1>4. Held \subseteq Paths
  BY DEF GitInv, GitTypeOK, Held, Staged
<1>5. QED
  BY <1>1, <1>2, <1>3, <1>4

\* A pipeline that met no other has nobody beside it while it is under way, and whoever
\* takes a step but the first is under way.
LEMMA NobodyBeside ==
  ASSUME GitInv, NEW p \in Pipelines, gitPhase[p] \notin Quiescent
  PROVE  \A q \in Pipelines \ together : q # p => gitPhase[q] \in Quiescent
BY DEF GitInv, Alone, Others

LEMMA StartCommitKeeps ==
  ASSUME GitInv, NEW p \in Pipelines, StartCommit(p)
  PROVE  GitInv'
<1> USE DEF StartCommit, GitGoes
<1>1. /\ gitPhase[p] = "idle" /\ gitPhase' = [gitPhase EXCEPT ![p] = gitPhase'[p]]
      /\ gitPhase'[p] \in {"refused", "nothing", "branches"}
      /\ gitPhase'[p] = "branches" => ChangedFiles[p] \cap ProtectedPaths = {}
      /\ UNCHANGED <<toStage, checkedOut, index, tip, commits, returned, leftBehind>>
  BY DEF GitInv, GitTypeOK
<1>2. /\ together' \subseteq Pipelines /\ together \subseteq together'
      /\ p \notin together' /\ gitPhase'[p] \notin Quiescent => Others(p) = {}
      /\ \A q \in Pipelines \ together' : q # p /\ gitPhase[q] \notin Quiescent =>
           gitPhase'[p] \in Quiescent
  <2>1. CASE ChangedFiles[p] \cap ProtectedPaths # {}
    BY <2>1 DEF GitInv, GitTypeOK, Quiescent
  <2>2. CASE ChangedFiles[p] \cap ProtectedPaths = {}
    BY <2>2 DEF GitInv, GitTypeOK, Others
  <2>3. QED
    BY <2>1, <2>2
<1>3. GitTypeOK'
  <2>1. gitPhase' \in [Pipelines -> Quiescent \cup {"branches", "switches", "stages",
                                                    "reads", "pushes"}]
    BY <1>1 DEF GitInv, GitTypeOK, Quiescent
  <2>2. QED
    BY <1>1, <1>2, <2>1 DEF GitInv, GitTypeOK
<1>4. \A q \in Pipelines : q # p => gitPhase'[q] = gitPhase[q]
  BY <1>1 DEF GitInv, GitTypeOK
<1>5. Accounted'
  BY <1>1, <1>4 DEF GitInv, Accounted, Working, Held, Committed
<1>6. StagedBySomebody'
  <2>1. \A s \in index : s[1] \in Pipelines
    BY DEF GitInv, GitTypeOK, Staged
  <2>2. QED
    BY <1>1, <1>4, <2>1 DEF GitInv, StagedBySomebody
<1>7. ASSUME NEW q \in Pipelines \ together'
      PROVE  Alone(q)'
  <2>1. CASE q = p
    <3>1. gitPhase'[q] \notin Quiescent => Others(q)' = {}
      BY <1>2, <1>4, <2>1 DEF Others
    <3>2. QED
      BY <1>1, <2>1, <3>1 DEF Alone
  <2>2. CASE q # p
    <3>1. q \in Pipelines \ together /\ gitPhase'[q] = gitPhase[q]
      BY <1>2, <1>4, <2>2
    <3>2. gitPhase'[q] \notin Quiescent => Others(q)' = {}
      <4>1. SUFFICES ASSUME gitPhase[q] \notin Quiescent
                     PROVE  Others(q)' = {}
        BY <3>1
      <4>2. Others(q) = {} /\ gitPhase'[p] \in Quiescent
        BY <1>2, <2>2, <3>1, <4>1 DEF GitInv, Alone
      <4>3. QED
        BY <1>4, <4>2 DEF Others
    <3>3. Alone(q)
      BY <3>1 DEF GitInv
    <3>4. QED
      BY <1>1, <3>1, <3>2, <3>3 DEF Alone, OwnCommit, Tree, Held
  <2>3. QED
    BY <2>1, <2>2
<1>8. QED
  BY <1>3, <1>5, <1>6, <1>7 DEF GitInv

\* A step of a pipeline under way leaves together alone, so whoever met no other and is
\* not the one that moves is quiescent.
LEMMA OthersRest ==
  ASSUME GitInv, NEW p \in Pipelines, gitPhase[p] \notin Quiescent,
         together' = together,
         gitPhase' = [gitPhase EXCEPT ![p] = gitPhase'[p]],
         \A i \in DOMAIN commits : i \in DOMAIN commits' /\ commits'[i] = commits[i],
         returned' = [returned EXCEPT ![p] = returned'[p]],
         leftBehind \subseteq leftBehind'
  PROVE  /\ \A q \in Pipelines : q # p => gitPhase'[q] = gitPhase[q]
         /\ \A q \in Pipelines \ together : q # p => Alone(q)'
         /\ p \notin together => Others(p)' = {}
<1>1. /\ gitPhase \in [Pipelines -> Quiescent \cup {"branches", "switches", "stages",
                                                    "reads", "pushes"}]
      /\ returned \in [Pipelines -> 0 .. Len(commits)]
  BY DEF GitInv, GitTypeOK
<1>2. \A q \in Pipelines : q # p => gitPhase'[q] = gitPhase[q] /\ returned'[q] = returned[q]
  BY <1>1
<1>3. ASSUME NEW q \in Pipelines \ together, q # p
      PROVE  Alone(q)'
  <2>1. gitPhase'[q] = gitPhase[q] /\ gitPhase[q] \in Quiescent /\ returned'[q] = returned[q]
    BY <1>2, <1>3, NobodyBeside
  <2>2. CASE gitPhase[q] = "done"
    <3>1. returned[q] \in DOMAIN commits /\ OwnCommit(q, commits[returned[q]])
      BY <1>3, <2>2 DEF GitInv, Alone
    <3>2. returned'[q] \in DOMAIN commits' /\ OwnCommit(q, commits[returned[q]])'
      BY <2>1, <3>1 DEF OwnCommit
    <3>3. QED
      BY <2>1, <2>2, <3>2 DEF Alone, Quiescent, OwnCommit
  <2>3. CASE gitPhase[q] # "done"
    BY <2>1, <2>3 DEF Alone, Quiescent
  <2>4. QED
    BY <2>2, <2>3
<1>4. ASSUME p \notin together
      PROVE  Others(p)' = {}
  <2>1. Others(p) = {}
    BY <1>4 DEF GitInv, Alone
  <2>2. QED
    BY <1>2, <2>1 DEF Others
<1>5. QED
  BY <1>2, <1>3, <1>4

\* Going to the task's branch, and then, alone, to the tree it was at.
LEMMA CheckoutNewKeeps ==
  ASSUME GitInv, NEW p \in Pipelines, CheckoutNew(p)
  PROVE  GitInv'
<1> USE DEF CheckoutNew, GitGoes
<1>1. /\ gitPhase[p] = "branches" /\ gitPhase' = [gitPhase EXCEPT ![p] = "stages"]
      /\ gitPhase'[p] = "stages"
      /\ checkedOut' = TaskBranch[p]
      /\ UNCHANGED <<toStage, index, commits, returned, together, leftBehind>>
  BY DEF GitInv, GitTypeOK
<1>2. /\ DOMAIN tip' = DOMAIN tip \cup {TaskBranch[p]} /\ checkedOut' \in DOMAIN tip'
      /\ \A b \in DOMAIN tip' : tip'[b] \in 0 .. Len(commits)
      /\ TaskBranch[p] \in Branches
  BY DEF GitInv, GitTypeOK, Branches
<1>3. GitTypeOK'
  <2>1. gitPhase' \in [Pipelines -> Quiescent \cup {"branches", "switches", "stages",
                                                    "reads", "pushes"}]
    BY <1>1 DEF GitInv, GitTypeOK
  <2>2. QED
    BY <1>1, <1>2, <2>1 DEF GitInv, GitTypeOK
<1>4. /\ \A q \in Pipelines : q # p => gitPhase'[q] = gitPhase[q]
      /\ \A q \in Pipelines \ together : q # p => Alone(q)'
      /\ p \notin together => Others(p)' = {}
  <2>1. gitPhase[p] \notin Quiescent
    BY <1>1 DEF Quiescent
  <2>2. gitPhase' = [gitPhase EXCEPT ![p] = gitPhase'[p]]
    BY <1>1
  <2>3. returned' = [returned EXCEPT ![p] = returned'[p]]
    BY <1>1 DEF GitInv, GitTypeOK
  <2>4. QED
    BY <1>1, <2>1, <2>2, <2>3, OthersRest
<1>5. Accounted'
  BY <1>1, <1>4 DEF GitInv, Accounted, Working, Held, Committed
<1>6. StagedBySomebody'
  BY <1>1 DEF GitInv, GitTypeOK, Staged, StagedBySomebody
<1>7. p \notin together => Alone(p)'
  <2>1. ASSUME p \notin together
        PROVE  ChangedFiles[p] \subseteq toStage[p] \cup Held \cup Tree(checkedOut)'
    <3>1. toStage[p] = ChangedFiles[p]
      BY <1>1 DEF GitInv, Accounted
    <3>2. QED
      BY <3>1
  <2>2. QED
    BY <1>1, <1>4, <2>1 DEF Alone, Held
<1>8. QED
  BY <1>1, <1>3, <1>4, <1>5, <1>6, <1>7 DEF GitInv

LEMMA CheckoutExistingKeeps ==
  ASSUME GitInv, NEW p \in Pipelines, CheckoutExisting(p)
  PROVE  GitInv'
<1> USE DEF CheckoutExisting, GitGoes
<1>1. /\ gitPhase[p] = "switches" /\ gitPhase' = [gitPhase EXCEPT ![p] = "stages"]
      /\ gitPhase'[p] = "stages"
      /\ checkedOut' = TaskBranch[p]
      /\ UNCHANGED <<toStage, index, tip, commits, returned, together, leftBehind>>
  BY DEF GitInv, GitTypeOK
<1>2. GitTypeOK'
  <2>1. gitPhase' \in [Pipelines -> Quiescent \cup {"branches", "switches", "stages",
                                                    "reads", "pushes"}]
    BY <1>1 DEF GitInv, GitTypeOK
  <2>2. QED
    BY <1>1, <2>1 DEF GitInv, GitTypeOK
<1>3. /\ \A q \in Pipelines : q # p => gitPhase'[q] = gitPhase[q]
      /\ \A q \in Pipelines \ together : q # p => Alone(q)'
      /\ p \notin together => Others(p)' = {}
  <2>1. gitPhase[p] \notin Quiescent
    BY <1>1 DEF Quiescent
  <2>2. gitPhase' = [gitPhase EXCEPT ![p] = gitPhase'[p]]
    BY <1>1
  <2>3. returned' = [returned EXCEPT ![p] = returned'[p]]
    BY <1>1 DEF GitInv, GitTypeOK
  <2>4. QED
    BY <1>1, <2>1, <2>2, <2>3, OthersRest
<1>4. Accounted'
  BY <1>1, <1>3 DEF GitInv, Accounted, Working, Held, Committed
<1>5. StagedBySomebody'
  BY <1>1 DEF GitInv, GitTypeOK, Staged, StagedBySomebody
<1>6. p \notin together => Alone(p)'
  <2>1. toStage[p] = ChangedFiles[p]
    BY <1>1 DEF GitInv, Accounted
  <2>2. QED
    BY <1>1, <1>3, <2>1 DEF Alone, Held
<1>7. QED
  BY <1>1, <1>2, <1>3, <1>4, <1>5, <1>6 DEF GitInv

LEMMA StageKeeps ==
  ASSUME GitInv, NEW p \in Pipelines, NEW f \in Paths, Stage(p, f)
  PROVE  GitInv'
<1> USE DEF Stage
<1>1. /\ gitPhase[p] = "stages" /\ f \in toStage[p]
      /\ toStage' = [toStage EXCEPT ![p] = toStage[p] \ {f}]
      /\ \A q \in Pipelines : toStage'[q] = IF q = p THEN toStage[p] \ {f} ELSE toStage[q]
      /\ index \subseteq index' /\ index' \subseteq index \cup {<<p, f>>}
      /\ f \in Tree(checkedOut) \/ <<p, f>> \in index'
      /\ UNCHANGED <<gitPhase, checkedOut, tip, commits, returned, together, leftBehind>>
  BY DEF GitInv, GitTypeOK
<1>2. /\ f \in ChangedFiles[p] /\ f \notin ProtectedPaths
      /\ checkedOut \in DOMAIN tip
  BY <1>1 DEF GitInv, GitTypeOK, Accounted, Working
<1>3. /\ Held \subseteq Held' /\ Committed' = Committed /\ Tree(checkedOut)' = Tree(checkedOut)
      /\ f \in Held' \cup Tree(checkedOut)
      /\ Tree(checkedOut) \subseteq Committed
  BY <1>1, <1>2, GitTypes DEF Held, Committed, Tree
<1>4. GitTypeOK'
  <2>1. toStage' \in [Pipelines -> SUBSET Paths]
    BY <1>1 DEF GitInv, GitTypeOK
  <2>2. index' \subseteq Staged
    BY <1>1 DEF GitInv, GitTypeOK, Staged
  <2>3. QED
    BY <1>1, <2>1, <2>2 DEF GitInv, GitTypeOK
<1>5. /\ \A q \in Pipelines \ together : q # p => Alone(q)'
      /\ p \notin together => Others(p)' = {}
  <2>1. gitPhase[p] \notin Quiescent
    BY <1>1 DEF Quiescent
  <2>2. gitPhase' = [gitPhase EXCEPT ![p] = gitPhase'[p]]
    BY <1>1 DEF GitInv, GitTypeOK
  <2>3. returned' = [returned EXCEPT ![p] = returned'[p]]
    BY <1>1 DEF GitInv, GitTypeOK
  <2>4. QED
    BY <1>1, <2>1, <2>2, <2>3, OthersRest
<1>6. Accounted'
  <2>1. ASSUME NEW q \in Pipelines
        PROVE  ChangedFiles[q] \subseteq (toStage[q] \cup Held \cup Committed)'
    <3>1. ChangedFiles[q] \subseteq toStage[q] \cup Held \cup Committed
      BY DEF GitInv, Accounted
    <3>2. QED
      BY <1>1, <1>3, <3>1
  <2>2. \A s \in index' : s[2] \notin ProtectedPaths
    BY <1>1, <1>2 DEF GitInv, Accounted
  <2>3. ASSUME NEW q \in Pipelines
        PROVE  /\ toStage'[q] \subseteq ChangedFiles[q]
               /\ gitPhase'[q] \in {"idle", "branches", "switches"} => toStage'[q] = ChangedFiles[q]
    BY <1>1 DEF GitInv, Accounted
  <2>4. QED
    BY <1>1, <1>3, <2>1, <2>2, <2>3 DEF GitInv, Accounted
<1>7. StagedBySomebody'
  BY <1>1 DEF GitInv, StagedBySomebody
<1>8. p \notin together => Alone(p)'
  <2>1. ASSUME p \notin together
        PROVE  (ChangedFiles[p] \subseteq toStage[p] \cup Held \cup Tree(checkedOut))'
    <3>1. ChangedFiles[p] \subseteq toStage[p] \cup Held \cup Tree(checkedOut)
      BY <1>1, <2>1 DEF GitInv, Alone
    <3>2. QED
      BY <1>1, <1>3, <3>1
  <2>2. p \notin together => (gitPhase[p] \in {"stages", "reads"} => checkedOut = TaskBranch[p])
    BY DEF GitInv, Alone
  <2>3. QED
    BY <1>1, <1>5, <2>1, <2>2 DEF Alone
<1>9. QED
  BY <1>1, <1>4, <1>5, <1>6, <1>7, <1>8 DEF GitInv

LEMMA CommitKeeps ==
  ASSUME GitInv, NEW p \in Pipelines, Commit(p)
  PROVE  GitInv'
<1> USE DEF Commit, GitGoes
<1> DEFINE n == Len(commits) + 1
           c == [by |-> p, branch |-> checkedOut, files |-> index,
                 tree |-> Tree(checkedOut) \cup Held]
           C == [by : Pipelines, branch : Branches, files : SUBSET Staged, tree : SUBSET Paths]
<1>1. /\ gitPhase[p] = "stages" /\ toStage[p] = {} /\ index # {} /\ index' = {}
      /\ gitPhase' = [gitPhase EXCEPT ![p] = "reads"] /\ gitPhase'[p] = "reads"
      /\ commits' = Append(commits, c)
      /\ tip' = [tip EXCEPT ![checkedOut] = n]
      /\ UNCHANGED <<toStage, checkedOut, returned, together, leftBehind>>
  BY DEF GitInv, GitTypeOK, Held
<1>2. c \in C
  BY GitTypes DEF GitInv, GitTypeOK
<1>3. /\ commits \in Seq(C) /\ commits' \in Seq(C) /\ Len(commits') = n /\ n \in Nat
      /\ commits'[n] = c /\ n \in DOMAIN commits' /\ DOMAIN commits' = 1 .. n
      /\ \A i \in DOMAIN commits : i \in DOMAIN commits' /\ commits'[i] = commits[i]
      /\ \A i \in DOMAIN commits' : i \in DOMAIN commits \/ i = n
  <2> HIDE DEF c, C
  <2>1. commits \in Seq(C)
    BY DEF GitInv, GitTypeOK, C
  <2>2. QED
    BY <1>1, <1>2, <2>1
<1>4. /\ checkedOut \in DOMAIN tip /\ DOMAIN tip' = DOMAIN tip /\ tip'[checkedOut] = n
      /\ \A b \in DOMAIN tip : tip'[b] \in 0 .. n
  <2>1. /\ checkedOut \in DOMAIN tip /\ \A b \in DOMAIN tip : tip[b] \in 0 .. Len(commits)
        /\ Len(commits) \in Nat
    BY GitTypes DEF GitInv, GitTypeOK
  <2>2. QED
    BY <1>1, <2>1
<1>5. Committed' = Committed \cup Tree(checkedOut) \cup Held
  <2>1. c.tree = Tree(checkedOut) \cup Held
    OBVIOUS
  <2> HIDE DEF c, C, n
  <2>2. ASSUME NEW x \in Committed'
        PROVE  x \in Committed \cup c.tree
    <3>1. PICK i \in DOMAIN commits' : x \in commits'[i].tree
      BY <2>2 DEF Committed
    <3>2. CASE i = n
      BY <1>3, <3>1, <3>2
    <3>3. CASE i \in DOMAIN commits
      BY <1>3, <3>1, <3>3 DEF Committed
    <3>4. QED
      BY <1>3, <3>1, <3>2, <3>3
  <2>3. ASSUME NEW x \in Committed
        PROVE  x \in Committed'
    <3>1. PICK i \in DOMAIN commits : x \in commits[i].tree
      BY <2>3 DEF Committed
    <3>2. i \in DOMAIN commits' /\ x \in commits'[i].tree
      BY <1>3, <3>1
    <3>3. QED
      BY <3>2 DEF Committed
  <2>4. c.tree \subseteq Committed'
    BY <1>3, Zenon DEF Committed
  <2>5. QED
    BY <2>1, <2>2, <2>3, <2>4
<1>6. GitTypeOK'
  <2>1. gitPhase' \in [Pipelines -> Quiescent \cup {"branches", "switches", "stages",
                                                    "reads", "pushes"}]
    BY <1>1 DEF GitInv, GitTypeOK
  <2>2. returned' \in [Pipelines -> 0 .. Len(commits')]
    <3>1. returned \in [Pipelines -> 0 .. Len(commits)] /\ Len(commits) \in Nat
      BY GitTypes DEF GitInv, GitTypeOK
    <3>2. \A q \in Pipelines : returned'[q] \in 0 .. n
      BY <1>1, <3>1
    <3> HIDE DEF n, c
    <3>3. QED
      BY <1>1, <1>3, <3>1, <3>2
  <2>3. /\ toStage' \in [Pipelines -> SUBSET Paths]
        /\ checkedOut' \in DOMAIN tip' /\ index' \subseteq Staged
        /\ MainBranch \in DOMAIN tip' /\ DOMAIN tip' \subseteq Branches
        /\ together' \subseteq Pipelines /\ leftBehind' \subseteq Staged
    BY <1>1, <1>4 DEF GitInv, GitTypeOK
  <2>4. \A b \in DOMAIN tip' : tip'[b] \in 0 .. Len(commits')
    BY <1>3, <1>4
  <2>5. QED
    BY <1>3, <2>1, <2>2, <2>3, <2>4 DEF GitTypeOK
<1>7. /\ \A q \in Pipelines : q # p => gitPhase'[q] = gitPhase[q]
      /\ \A q \in Pipelines \ together : q # p => Alone(q)'
      /\ p \notin together => Others(p)' = {}
  <2>1. gitPhase[p] \notin Quiescent
    BY <1>1 DEF Quiescent
  <2>2. gitPhase' = [gitPhase EXCEPT ![p] = gitPhase'[p]]
    BY <1>1
  <2>3. returned' = [returned EXCEPT ![p] = returned'[p]]
    BY <1>1 DEF GitInv, GitTypeOK
  <2> HIDE DEF n, c, C
  <2>4. QED
    BY <1>1, <1>3, <2>1, <2>2, <2>3, OthersRest
<1>8. Accounted'
  <2> HIDE DEF n, C
  <2>1. ASSUME NEW q \in Pipelines
        PROVE  /\ toStage'[q] \subseteq ChangedFiles[q]
               /\ ChangedFiles[q] \subseteq (toStage[q] \cup Held \cup Committed)'
               /\ gitPhase'[q] \in {"idle", "branches", "switches"} => toStage'[q] = ChangedFiles[q]
               /\ gitPhase'[q] \in Working => ChangedFiles[q] \cap ProtectedPaths = {}
               /\ gitPhase'[q] \in {"reads", "pushes", "done"} => ChangedFiles[q] \subseteq Committed'
    <3>1. ChangedFiles[q] \subseteq toStage[q] \cup Held \cup Committed
      BY DEF GitInv, Accounted
    <3>2. ChangedFiles[q] \subseteq toStage[q] \cup Committed'
      BY <1>5, <3>1
    <3>3. q = p => ChangedFiles[q] \subseteq Committed' /\ ChangedFiles[q] \cap ProtectedPaths = {}
      BY <1>1, <3>2 DEF GitInv, Accounted, Working
    <3>4. QED
      BY <1>1, <1>5, <1>7, <3>2, <3>3 DEF GitInv, Accounted
  <2>2. ASSUME NEW i \in DOMAIN commits'
        PROVE  \A s \in commits'[i].files : s[2] \notin ProtectedPaths
    <3>1. c.files = index
      OBVIOUS
    <3> HIDE DEF c
    <3>2. QED
      BY <1>3, <3>1 DEF GitInv, Accounted
  <2>3. QED
    BY <1>1, <2>1, <2>2 DEF Accounted
<1>9. StagedBySomebody'
  BY <1>1 DEF StagedBySomebody
<1>10. ASSUME p \notin together
       PROVE  Alone(p)'
  <2>1. checkedOut = TaskBranch[p] /\ ChangedFiles[p] \subseteq Held \cup Tree(checkedOut)
    BY <1>1, <1>10 DEF GitInv, Alone
  <2>2. \A s \in index : s[1] = p \/ s \in leftBehind
    <3>1. \A s \in index : s[1] \in Pipelines
      BY DEF GitInv, GitTypeOK, Staged
    <3>2. Others(p) = {}
      BY <1>1, <1>10 DEF GitInv, Alone, Quiescent
    <3>3. QED
      BY <3>1, <3>2 DEF GitInv, StagedBySomebody, Others, Quiescent
  <2>3. /\ c.by = p /\ c.branch = TaskBranch[p] /\ ChangedFiles[p] \subseteq c.tree
        /\ \A s \in c.files : s[1] = p \/ s \in leftBehind
    BY <2>1, <2>2
  <2> HIDE DEF c, C, n
  <2>4. OwnCommit(p, commits[Len(commits)])'
    BY <1>1, <1>3, <2>3 DEF OwnCommit
  <2>5. commits' # <<>>
    BY <1>3
  <2>6. QED
    BY <1>1, <1>3, <1>4, <1>7, <1>10, <2>1, <2>4, <2>5 DEF Alone
<1>11. QED
  BY <1>1, <1>6, <1>7, <1>8, <1>9, <1>10 DEF GitInv

LEMMA ReadHeadKeeps ==
  ASSUME GitInv, NEW p \in Pipelines, ReadHead(p)
  PROVE  GitInv'
<1> USE DEF ReadHead, GitGoes
<1>1. /\ gitPhase[p] = "reads"
      /\ gitPhase' = [gitPhase EXCEPT ![p] = "pushes"] /\ gitPhase'[p] = "pushes"
      /\ returned' = [returned EXCEPT ![p] = tip[checkedOut]]
      /\ returned'[p] = tip[checkedOut] /\ tip[checkedOut] \in 0 .. Len(commits)
      /\ UNCHANGED <<toStage, checkedOut, index, tip, commits, together, leftBehind>>
  BY DEF GitInv, GitTypeOK
<1>2. GitTypeOK'
  <2>1. /\ gitPhase' \in [Pipelines -> Quiescent \cup {"branches", "switches", "stages",
                                                       "reads", "pushes"}]
        /\ returned' \in [Pipelines -> 0 .. Len(commits)]
    BY <1>1 DEF GitInv, GitTypeOK
  <2>2. QED
    BY <1>1, <2>1 DEF GitInv, GitTypeOK
<1>3. /\ \A q \in Pipelines : q # p => gitPhase'[q] = gitPhase[q]
      /\ \A q \in Pipelines \ together : q # p => Alone(q)'
      /\ p \notin together => Others(p)' = {}
  <2>1. gitPhase[p] \notin Quiescent
    BY <1>1 DEF Quiescent
  <2>2. gitPhase' = [gitPhase EXCEPT ![p] = gitPhase'[p]]
    BY <1>1
  <2>3. returned' = [returned EXCEPT ![p] = returned'[p]]
    BY <1>1
  <2>4. QED
    BY <1>1, <2>1, <2>2, <2>3, OthersRest
<1>4. Accounted'
  BY <1>1, <1>3 DEF GitInv, Accounted, Working, Held, Committed
<1>5. StagedBySomebody'
  BY <1>1 DEF GitInv, GitTypeOK, Staged, StagedBySomebody
<1>6. ASSUME p \notin together
      PROVE  Alone(p)'
  <2>1. /\ commits # <<>> /\ tip[checkedOut] = Len(commits)
        /\ OwnCommit(p, commits[Len(commits)])
    BY <1>1, <1>6 DEF GitInv, Alone
  <2>2. Len(commits) \in DOMAIN commits
    BY <2>1 DEF GitInv, GitTypeOK
  <2>3. OwnCommit(p, commits[returned[p]])'
    BY <1>1, <2>1 DEF OwnCommit
  <2>4. QED
    BY <1>1, <1>3, <1>6, <2>1, <2>2, <2>3 DEF Alone
<1>7. QED
  BY <1>1, <1>2, <1>3, <1>4, <1>5, <1>6 DEF GitInv

LEMMA PushKeeps ==
  ASSUME GitInv, NEW p \in Pipelines, Push(p)
  PROVE  GitInv'
<1> USE DEF Push, GitGoes
<1>1. /\ gitPhase[p] = "pushes"
      /\ gitPhase' = [gitPhase EXCEPT ![p] = "done"] /\ gitPhase'[p] = "done"
      /\ UNCHANGED <<toStage, checkedOut, index, tip, commits, returned, together, leftBehind>>
  BY DEF GitInv, GitTypeOK
<1>2. GitTypeOK'
  <2>1. gitPhase' \in [Pipelines -> Quiescent \cup {"branches", "switches", "stages",
                                                    "reads", "pushes"}]
    BY <1>1 DEF GitInv, GitTypeOK, Quiescent
  <2>2. QED
    BY <1>1, <2>1 DEF GitInv, GitTypeOK
<1>3. /\ \A q \in Pipelines : q # p => gitPhase'[q] = gitPhase[q]
      /\ \A q \in Pipelines \ together : q # p => Alone(q)'
      /\ p \notin together => Others(p)' = {}
  <2>1. gitPhase[p] \notin Quiescent
    BY <1>1 DEF Quiescent
  <2>2. gitPhase' = [gitPhase EXCEPT ![p] = gitPhase'[p]]
    BY <1>1
  <2>3. returned' = [returned EXCEPT ![p] = returned'[p]]
    BY <1>1 DEF GitInv, GitTypeOK
  <2>4. QED
    BY <1>1, <2>1, <2>2, <2>3, OthersRest
<1>4. Accounted'
  BY <1>1, <1>3 DEF GitInv, Accounted, Working, Held, Committed
<1>5. StagedBySomebody'
  BY <1>1 DEF GitInv, GitTypeOK, Staged, StagedBySomebody
<1>6. ASSUME p \notin together
      PROVE  Alone(p)'
  <2>1. returned[p] \in DOMAIN commits /\ OwnCommit(p, commits[returned[p]])
    BY <1>1, <1>6 DEF GitInv, Alone
  <2>2. OwnCommit(p, commits[returned[p]])'
    BY <1>1, <2>1 DEF OwnCommit
  <2>3. QED
    BY <1>1, <1>3, <1>6, <2>1, <2>2 DEF Alone
<1>7. QED
  BY <1>1, <1>2, <1>3, <1>4, <1>5, <1>6 DEF GitInv

LEMMA GitFailsKeeps ==
  ASSUME GitInv, NEW p \in Pipelines, GitFails(p)
  PROVE  GitInv'
<1> USE DEF GitFails, GitGoes
<1>1. /\ gitPhase[p] \in {"branches", "switches", "stages", "reads"}
      /\ gitPhase' = [gitPhase EXCEPT ![p] = gitPhase'[p]]
      /\ gitPhase'[p] = (IF gitPhase[p] = "branches" THEN "switches" ELSE "raised")
      /\ leftBehind \subseteq leftBehind' /\ leftBehind' \subseteq leftBehind \cup index
      /\ gitPhase[p] = "stages" => \A s \in index : s[1] = p => s \in leftBehind'
      /\ UNCHANGED <<toStage, checkedOut, index, tip, commits, returned, together>>
  BY DEF GitInv, GitTypeOK
<1>2. GitTypeOK'
  <2>1. gitPhase' \in [Pipelines -> Quiescent \cup {"branches", "switches", "stages",
                                                    "reads", "pushes"}]
    BY <1>1 DEF GitInv, GitTypeOK, Quiescent
  <2>2. QED
    BY <1>1, <2>1 DEF GitInv, GitTypeOK
<1>3. /\ \A q \in Pipelines : q # p => gitPhase'[q] = gitPhase[q]
      /\ \A q \in Pipelines \ together : q # p => Alone(q)'
      /\ p \notin together => Others(p)' = {}
  <2>1. gitPhase[p] \notin Quiescent
    BY <1>1 DEF Quiescent
  <2>2. returned' = [returned EXCEPT ![p] = returned'[p]]
    BY <1>1 DEF GitInv, GitTypeOK
  <2>3. QED
    BY <1>1, <2>1, <2>2, OthersRest
<1>4. Accounted'
  BY <1>1, <1>3 DEF GitInv, Accounted, Working, Held, Committed
<1>5. StagedBySomebody'
  BY <1>1, <1>3 DEF GitInv, GitTypeOK, Staged, StagedBySomebody
<1>6. p \notin together => Alone(p)'
  BY <1>1, <1>3 DEF Alone, Quiescent
<1>7. QED
  BY <1>1, <1>2, <1>3, <1>4, <1>5, <1>6 DEF GitInv

LEMMA GitInvNext == GitInv /\ [GitNext]_gitVars => GitInv'
<1> SUFFICES ASSUME GitInv, [GitNext]_gitVars
             PROVE  GitInv'
  OBVIOUS
<1>1. CASE GitNext
  BY <1>1, StartCommitKeeps, CheckoutNewKeeps, CheckoutExistingKeeps, StageKeeps, CommitKeeps,
     ReadHeadKeeps, PushKeeps, GitFailsKeeps DEF GitNext
<1>2. CASE UNCHANGED gitVars
  <2>1. UNCHANGED <<gitPhase, toStage, checkedOut, index, tip, commits, returned, together,
                    leftBehind>>
    BY <1>2, Zenon DEF gitVars
  <2>2. QED
    BY <2>1 DEF GitInv, GitTypeOK, Accounted, StagedBySomebody, Alone, OwnCommit, Others, Tree,
                Held, Committed
<1>3. QED
  BY <1>1, <1>2

(***************************************************************************)
(* Snapshots of the working tree.                                          *)
(***************************************************************************)
\* Nothing is newer than the last edit, and in the stash nothing is newer than its head:
\* a working tree that is not clean holds an edit made after the head was saved, or what
\* a rollback took from there.
NewestFirst ==
  /\ work <= edits
  /\ \A i \in DOMAIN stash : stash[i] <= edits /\ stash[i] <= stash[1]
  /\ work # 0 /\ stash # <<>> => work >= stash[1]

\* The last snapshot in the list that saved something is the one stash@{0} holds.
LastIsHead ==
  \A i \in DOMAIN snapshots :
    snapshots[i].ref /\ ~Overtaken(i) => stash # <<>> /\ stash[1] = snapshots[i].content

SnapshotInv ==
  SnapshotsTypeOK /\ NewestFirst /\ SavedStays /\ LastIsHead /\ RollbackBringsItsOwn

Snap == [ref : BOOLEAN, content : 0 .. MaxEdits]

LEMMA SnapshotInvInit == SnapshotsInit => SnapshotInv
<1> SUFFICES ASSUME SnapshotsInit
             PROVE  SnapshotInv
  OBVIOUS
<1>1. /\ work = 0 /\ stash = <<>> /\ snapshots = <<>> /\ edits = 0 /\ saves = 0
      /\ MaxSnapshots \in Nat \ {0} /\ MaxEdits \in Nat /\ MaxSaves \in Nat
  BY SnapshotsAssumption DEF SnapshotsInit
<1>2. restored.ref = FALSE /\ restored.got = restored.before /\ restored \in Rollbacks
  BY <1>1 DEF SnapshotsInit, NoRollback, Rollbacks
<1>3. stash \in Seq(1 .. MaxEdits) /\ snapshots \in Seq(Snap) /\ Len(snapshots) = 0
  BY <1>1
<1>4. SnapshotsTypeOK
  BY <1>1, <1>2, <1>3 DEF SnapshotsTypeOK, Snap
<1>5. NewestFirst /\ SavedStays /\ LastIsHead /\ RollbackBringsItsOwn
  BY <1>1, <1>2 DEF NewestFirst, SavedStays, LastIsHead, RollbackBringsItsOwn
<1>6. QED
  BY <1>4, <1>5 DEF SnapshotInv

\* No rollback to speak of since the last other step.
LEMMA NothingRolledBack ==
  ASSUME SnapshotsAssumption, restored' = NoRollback
  PROVE  RollbackBringsItsOwn' /\ restored' \in Rollbacks
<1>1. MaxEdits \in Nat
  BY SnapshotsAssumption
<1>2. restored'.ref = FALSE /\ restored'.got = restored'.before
  BY DEF NoRollback
<1>3. QED
  BY <1>1, <1>2 DEF NoRollback, Rollbacks, RollbackBringsItsOwn

LEMMA AgentEditsKeeps ==
  ASSUME SnapshotInv, AgentEdits
  PROVE  SnapshotInv'
<1>1. /\ edits < MaxEdits /\ edits' = edits + 1 /\ work' = edits + 1
      /\ restored' = NoRollback /\ UNCHANGED <<stash, snapshots, saves>>
      /\ edits \in 0 .. MaxEdits /\ MaxEdits \in Nat
  BY SnapshotsAssumption DEF AgentEdits, SnapshotInv, SnapshotsTypeOK
<1>2. SnapshotsTypeOK'
  BY <1>1, NothingRolledBack, SnapshotsAssumption DEF SnapshotInv, SnapshotsTypeOK
<1>3. NewestFirst'
  <2>0. stash \in Seq(1 .. MaxEdits)
    BY DEF SnapshotInv, SnapshotsTypeOK
  <2>1. \A i \in DOMAIN stash : stash[i] \in 1 .. MaxEdits
    BY <1>1, <2>0
  <2>2. stash # <<>> => 1 \in DOMAIN stash
    BY <2>0
  <2>3. QED
    BY <1>1, <2>1, <2>2 DEF SnapshotInv, NewestFirst
<1>4. QED
  BY <1>1, <1>2, <1>3, NothingRolledBack, SnapshotsAssumption
     DEF SnapshotInv, SavedStays, LastIsHead, Overtaken

\* A snapshot that is remembered is in the list, and nothing that was not.
LEMMA Remembered ==
  ASSUME SnapshotsTypeOK, NEW snap \in Snap, Remember(snap)
  PROVE  /\ snapshots' \in Seq(Snap) /\ Len(snapshots') <= MaxSnapshots
         /\ \A i \in DOMAIN snapshots' :
              snapshots'[i] = snap \/ \E j \in DOMAIN snapshots : snapshots'[i] = snapshots[j]
         /\ snapshots'[Len(snapshots')] = snap /\ Len(snapshots') \in Nat \ {0}
         /\ \E d \in {0, 1} :
              /\ Len(snapshots') = Len(snapshots) + 1 - d
              /\ \A i \in 1 .. Len(snapshots) - d : snapshots'[i] = snapshots[i + d]
<1>1. snapshots \in Seq(Snap) /\ Len(snapshots) <= MaxSnapshots /\ MaxSnapshots \in Nat \ {0}
  BY SnapshotsAssumption DEF SnapshotsTypeOK, Snap
<1> HIDE DEF Snap
<1>2. CASE Len(snapshots) < MaxSnapshots
  <2>1. snapshots' = Append(snapshots, snap)
    BY <1>2 DEF Remember
  <2>2. /\ snapshots' \in Seq(Snap) /\ Len(snapshots') = Len(snapshots) + 1
        /\ snapshots'[Len(snapshots')] = snap /\ Len(snapshots) \in Nat
        /\ \A i \in 1 .. Len(snapshots) : snapshots'[i] = snapshots[i]
    BY <1>1, <2>1
  <2>3. \A i \in 1 .. Len(snapshots) - 0 : snapshots'[i] = snapshots[i + 0]
    BY <2>2
  <2>4. QED
    BY <1>1, <1>2, <2>2, <2>3
<1>3. CASE ~(Len(snapshots) < MaxSnapshots)
  <2> DEFINE rest == Tail(snapshots)
  <2>1. snapshots' = Append(rest, snap)
    BY <1>3 DEF Remember
  <2>2. /\ rest \in Seq(Snap) /\ Len(rest) = Len(snapshots) - 1 /\ Len(snapshots) \in Nat \ {0}
        /\ \A i \in 1 .. Len(rest) : rest[i] = snapshots[i + 1] /\ i + 1 \in DOMAIN snapshots
    BY <1>1, <1>3
  <2> HIDE DEF rest
  <2>3. /\ snapshots' \in Seq(Snap) /\ Len(snapshots') = Len(snapshots)
        /\ snapshots'[Len(snapshots)] = snap
        /\ \A i \in 1 .. Len(rest) : snapshots'[i] = rest[i]
    BY <2>1, <2>2
  <2>4. \A i \in DOMAIN snapshots' : i \in 1 .. Len(rest) \/ i = Len(snapshots)
    BY <2>2, <2>3
  <2>5. \A i \in 1 .. Len(snapshots) - 1 : snapshots'[i] = snapshots[i + 1]
    BY <2>2, <2>3
  <2>6. \A i \in DOMAIN snapshots' :
          snapshots'[i] = snap \/ \E j \in DOMAIN snapshots : snapshots'[i] = snapshots[j]
    BY <2>2, <2>3, <2>4
  <2>7. Len(snapshots') = Len(snapshots) + 1 - 1
    BY <2>2, <2>3
  <2>8. \E d \in {0, 1} :
          /\ Len(snapshots') = Len(snapshots) + 1 - d
          /\ \A i \in 1 .. Len(snapshots) - d : snapshots'[i] = snapshots[i + d]
    BY <2>5, <2>7
  <2>9. QED
    BY <1>1, <2>2, <2>3, <2>6, <2>8
<1>4. QED
  BY <1>2, <1>3

LEMMA SaveSnapshotKeeps ==
  ASSUME SnapshotInv, SaveSnapshot
  PROVE  SnapshotInv'
<1> DEFINE snap == [ref |-> work # 0, content |-> work]
<1>1. /\ saves < MaxSaves /\ saves' = saves + 1 /\ work' = 0
      /\ restored' = NoRollback /\ UNCHANGED edits
      /\ MaxEdits \in Nat /\ MaxSaves \in Nat
      /\ work \in 0 .. MaxEdits /\ saves \in 0 .. MaxSaves /\ edits \in 0 .. MaxEdits
      /\ stash \in Seq(1 .. MaxEdits)
  BY SnapshotsAssumption DEF SaveSnapshot, SnapshotInv, SnapshotsTypeOK
<1>2. snap \in Snap
  <2>1. (work # 0) \in BOOLEAN
    OBVIOUS
  <2>2. QED
    BY <1>1, <2>1, Zenon DEF Snap
<1>3. /\ snapshots' \in Seq(Snap) /\ Len(snapshots') <= MaxSnapshots
      /\ \A i \in DOMAIN snapshots' :
           snapshots'[i] = snap \/ \E j \in DOMAIN snapshots : snapshots'[i] = snapshots[j]
      /\ snapshots'[Len(snapshots')] = snap /\ Len(snapshots') \in Nat \ {0}
      /\ \E d \in {0, 1} :
           /\ Len(snapshots') = Len(snapshots) + 1 - d
           /\ \A i \in 1 .. Len(snapshots) - d : snapshots'[i] = snapshots[i + d]
  <2>1. Remember(snap)
    BY Zenon DEF SaveSnapshot
  <2> HIDE DEF snap
  <2>2. QED
    BY <1>2, <2>1, Remembered DEF SnapshotInv
\* The stash has the content, and still has what it had.
<1>4. /\ stash' \in Seq(1 .. MaxEdits)
      /\ \A i \in DOMAIN stash' : stash'[i] <= edits /\ stash'[i] <= stash'[1]
      /\ \A j \in DOMAIN stash : \E i \in DOMAIN stash' : stash'[i] = stash[j]
      /\ work # 0 => \E i \in DOMAIN stash' : stash'[i] = work
  <2>1. CASE work = 0
    BY <1>1, <2>1 DEF SaveSnapshot, SnapshotInv, NewestFirst
  <2>2. CASE work # 0
    <3>1. /\ stash' = <<work>> \o stash
          /\ \A i \in DOMAIN stash : stash[i] \in 1 .. MaxEdits /\ stash[i] <= edits
                                     /\ stash[i] <= stash[1]
          /\ work <= edits
          /\ stash # <<>> => work >= stash[1]
      BY <1>1, <2>2 DEF SaveSnapshot, SnapshotInv, NewestFirst
    <3>2. work \in 1 .. MaxEdits
      BY <1>1, <2>2
    <3>3. /\ stash' \in Seq(1 .. MaxEdits) /\ Len(stash') = Len(stash) + 1
          /\ stash'[1] = work /\ \A j \in 1 .. Len(stash) : stash'[j + 1] = stash[j]
          /\ Len(stash) \in Nat /\ DOMAIN stash = 1 .. Len(stash)
          /\ DOMAIN stash' = 1 .. Len(stash')
      BY <1>1, <3>1, <3>2
    <3>4. \A i \in DOMAIN stash' : i = 1 \/ (i - 1 \in DOMAIN stash /\ stash'[i] = stash[i - 1])
      BY <3>3
    <3>5. \A i \in DOMAIN stash : stash[i] <= work
      BY <1>1, <3>1, <3>3
    <3>6. \A j \in DOMAIN stash : \E i \in DOMAIN stash' : stash'[i] = stash[j]
      <4>1. \A j \in DOMAIN stash : j + 1 \in DOMAIN stash' /\ stash'[j + 1] = stash[j]
        BY <3>3
      <4>2. QED
        BY <4>1
    <3>7. 1 \in DOMAIN stash'
      BY <3>3
    <3>8. \A i \in DOMAIN stash' : stash'[i] <= edits /\ stash'[i] <= stash'[1]
      <4>1. ASSUME NEW i \in DOMAIN stash'
            PROVE  stash'[i] <= edits /\ stash'[i] <= work
        <5>1. CASE i = 1
          BY <1>1, <3>1, <3>3, <5>1
        <5>2. CASE i - 1 \in DOMAIN stash /\ stash'[i] = stash[i - 1]
          BY <3>1, <3>5, <5>2
        <5>3. QED
          BY <3>4, <4>1, <5>1, <5>2
      <4>2. QED
        BY <3>3, <4>1
    <3>9. QED
      BY <3>3, <3>6, <3>7, <3>8
  <2>3. QED
    BY <2>1, <2>2
<1>5. SnapshotsTypeOK'
  <2>1. snapshots' \in Seq([ref : BOOLEAN, content : 0 .. MaxEdits])
    BY <1>3 DEF Snap
  <2>2. QED
    BY <1>1, <1>3, <1>4, <2>1, NothingRolledBack, SnapshotsAssumption DEF SnapshotsTypeOK
<1>6. NewestFirst'
  BY <1>1, <1>4 DEF NewestFirst
<1>7. SavedStays'
  <2>1. ASSUME NEW i \in DOMAIN snapshots', snapshots'[i].ref
        PROVE  \E k \in DOMAIN stash' : stash'[k] = snapshots'[i].content
    <3>1. CASE snapshots'[i] = snap
      <4>1. work # 0 /\ snapshots'[i].content = work
        <5>1. snap.ref <=> work # 0
          BY Zenon
        <5>2. snap.content = work
          OBVIOUS
        <5> HIDE DEF snap
        <5>3. QED
          BY <2>1, <3>1, <5>1, <5>2
      <4>2. QED
        BY <1>4, <4>1
    <3>2. CASE \E j \in DOMAIN snapshots : snapshots'[i] = snapshots[j]
      <4>1. PICK j \in DOMAIN snapshots : snapshots'[i] = snapshots[j]
        BY <3>2
      <4>2. snapshots[j].content \in Range(stash)
        BY <2>1, <4>1 DEF SnapshotInv, SavedStays
      <4>3. PICK l \in DOMAIN stash : stash[l] = snapshots[j].content
        BY <4>2 DEF Range
      <4>4. QED
        BY <1>4, <4>1, <4>3
    <3>3. QED
      BY <1>3, <3>1, <3>2
  <2>2. QED
    BY <2>1 DEF SavedStays, Range
<1>8. LastIsHead'
  <2> HIDE DEF snap
  <2>0. snap.ref = (work # 0) /\ snap.content = work
    BY Zenon DEF snap
  <2>1. PICK d \in {0, 1} :
          /\ Len(snapshots') = Len(snapshots) + 1 - d
          /\ \A i \in 1 .. Len(snapshots) - d : snapshots'[i] = snapshots[i + d]
    BY <1>3
  <2>2. /\ DOMAIN snapshots' = 1 .. Len(snapshots') /\ DOMAIN snapshots = 1 .. Len(snapshots)
        /\ Len(snapshots) \in Nat /\ Len(snapshots') \in Nat \ {0}
    <3>1. snapshots \in Seq(Snap)
      BY DEF SnapshotInv, SnapshotsTypeOK, Snap
    <3> HIDE DEF Snap
    <3>2. QED
      BY <1>3, <3>1
  <2>3. SUFFICES ASSUME NEW i \in DOMAIN snapshots', snapshots'[i].ref,
                        \A j \in DOMAIN snapshots' : j > i => ~snapshots'[j].ref
                 PROVE  stash' # <<>> /\ stash'[1] = snapshots'[i].content
    BY Zenon DEF LastIsHead, Overtaken
  <2>4. CASE work # 0
    <3>1. snapshots'[Len(snapshots')].ref
      BY <1>3, <2>0, <2>4, Zenon
    <3>2. i = Len(snapshots')
      BY <2>2, <2>3, <3>1
    <3>3. stash' = <<work>> \o stash
      BY <2>4 DEF SaveSnapshot
    <3>4. stash' # <<>> /\ stash'[1] = work
      BY <1>1, <3>3
    <3>5. QED
      BY <1>3, <2>0, <3>2, <3>4, Zenon
  <2>5. CASE work = 0
    <3>1. ~snapshots'[Len(snapshots')].ref /\ stash' = stash
      <4>1. stash' = stash
        BY <2>5 DEF SaveSnapshot
      <4>2. QED
        BY <1>3, <2>0, <2>5, <4>1, Zenon
    <3>2. i # Len(snapshots')
      BY <2>3, <3>1, Zenon
    <3>3. /\ i + d \in DOMAIN snapshots /\ snapshots'[i] = snapshots[i + d]
      BY <2>1, <2>2, <3>2
    <3>4. ASSUME NEW j \in DOMAIN snapshots, j > i + d
          PROVE  ~snapshots[j].ref
      <4>1. /\ j - d \in DOMAIN snapshots' /\ j - d > i /\ j - d \in 1 .. Len(snapshots) - d
            /\ (j - d) + d = j
        BY <2>1, <2>2, <3>4
      <4>2. snapshots'[j - d] = snapshots[j]
        BY <2>1, <4>1
      <4>3. QED
        BY <2>3, <4>1, <4>2, Zenon
    <3>5. ~Overtaken(i + d)
      BY <3>4, Zenon DEF Overtaken
    <3>6. QED
      BY <2>3, <3>1, <3>3, <3>5, Zenon DEF SnapshotInv, LastIsHead
  <2>6. QED
    BY <2>4, <2>5
<1>9. QED
  BY <1>1, <1>5, <1>6, <1>7, <1>8, NothingRolledBack, SnapshotsAssumption DEF SnapshotInv

\* What a rollback of a snapshot that saved something finds at the head of the stash.
LEMMA HeadOfStash ==
  ASSUME SnapshotInv, NEW i \in DOMAIN snapshots, snapshots[i].ref
  PROVE  /\ 1 \in DOMAIN stash /\ Head(stash) = stash[1] /\ stash[1] \in 1 .. MaxEdits
         /\ stash[1] <= edits /\ snapshots[i].content <= stash[1]
         /\ ~Overtaken(i) => stash[1] = snapshots[i].content
<1>1. PICK k \in DOMAIN stash : stash[k] = snapshots[i].content
  BY DEF SnapshotInv, SavedStays, Range
<1>2. stash[k] <= stash[1] /\ stash \in Seq(1 .. MaxEdits) /\ MaxEdits \in Nat
  BY <1>1, SnapshotsAssumption DEF SnapshotInv, NewestFirst, SnapshotsTypeOK
<1>3. 1 \in DOMAIN stash /\ Head(stash) = stash[1] /\ stash[1] \in 1 .. MaxEdits
  <2>1. 1 \in DOMAIN stash /\ stash # <<>>
    BY <1>1, <1>2
  <2>2. Head(stash) = stash[1]
    BY <1>2, <2>1
  <2>3. QED
    BY <1>2, <2>1, <2>2
<1>4. ~Overtaken(i) => stash[1] = snapshots[i].content
  BY DEF SnapshotInv, LastIsHead
<1>5. QED
  BY <1>1, <1>2, <1>3, <1>4 DEF SnapshotInv, NewestFirst

\* Both ways a rollback ends leave a working tree of its own time, and say what it is.
LEMMA RollsBackKeeps ==
  ASSUME SnapshotInv, NEW i \in DOMAIN snapshots, NEW failed \in BOOLEAN,
         RollsBack(i, failed),
         \/ ~snapshots[i].ref /\ work' = work
         \/ snapshots[i].ref /\ failed /\ work' \in {0, work, Head(stash)}
         \/ snapshots[i].ref /\ ~failed /\ work' = Head(stash)
  PROVE  SnapshotInv'
<1> DEFINE ref == snapshots[i].ref
           saved == snapshots[i].content
           late == Overtaken(i)
<1>1. /\ restored' = [ref |-> ref, overtaken |-> late, failed |-> failed,
                      wanted |-> saved, before |-> work, got |-> work']
      /\ UNCHANGED <<stash, snapshots, edits, saves>>
      /\ MaxEdits \in Nat /\ work \in 0 .. MaxEdits /\ edits \in 0 .. MaxEdits
      /\ stash \in Seq(1 .. MaxEdits)
  BY SnapshotsAssumption DEF RollsBack, SnapshotInv, SnapshotsTypeOK
<1>2. ref \in BOOLEAN /\ saved \in 0 .. MaxEdits /\ late \in BOOLEAN
  <2>1. snapshots \in Seq(Snap)
    BY DEF SnapshotInv, SnapshotsTypeOK, Snap
  <2>2. snapshots[i] \in Snap
    <3> HIDE DEF Snap
    <3>1. QED
      BY <2>1
  <2>3. late \in BOOLEAN
    BY DEF Overtaken
  <2>4. QED
    BY <2>2, <2>3, Zenon DEF Snap
<1>3. ref => /\ 1 \in DOMAIN stash /\ Head(stash) = stash[1] /\ stash[1] \in 1 .. MaxEdits
             /\ stash[1] <= edits /\ saved <= stash[1] /\ (~late => stash[1] = saved)
  BY HeadOfStash
<1>4. \/ ~ref /\ work' = work
      \/ ref /\ failed /\ work' \in {0, work, Head(stash)}
      \/ ref /\ ~failed /\ work' = Head(stash)
  OBVIOUS
<1> HIDE DEF ref, saved, late
<1>5. /\ work' \in 0 .. MaxEdits /\ work' <= edits
      /\ work' # 0 /\ stash # <<>> => work' >= stash[1]
  <2>1. CASE work' = work
    BY <1>1, <2>1 DEF SnapshotInv, NewestFirst
  <2>2. CASE work' = 0
    BY <1>1, <2>2
  <2>3. CASE ref /\ work' = Head(stash)
    BY <1>1, <1>3, <2>3
  <2>4. QED
    BY <1>4, <2>1, <2>2, <2>3
<1>6. /\ restored'.ref = ref /\ restored'.overtaken = late /\ restored'.failed = failed
      /\ restored'.wanted = saved /\ restored'.before = work /\ restored'.got = work'
  BY <1>1, Zenon
<1>7. restored' \in Rollbacks
  BY <1>1, <1>2, <1>5, Zenon DEF Rollbacks
<1>8. RollbackBringsItsOwn'
  <2>1. CASE ~ref
    BY <1>4, <1>6, <2>1, Zenon DEF RollbackBringsItsOwn
  <2>2. CASE ref /\ failed
    <3>1. work' \in {0, work, Head(stash')}
      BY <1>1, <1>4, <2>2, Zenon
    <3>2. QED
      BY <1>6, <2>2, <3>1, Zenon DEF RollbackBringsItsOwn
  <2>3. CASE ref /\ ~failed
    <3>1. work' = Head(stash') /\ work' >= saved /\ (~late => work' = saved)
      BY <1>1, <1>2, <1>3, <1>4, <2>3
    <3>2. QED
      BY <1>6, <2>3, <3>1, Zenon DEF RollbackBringsItsOwn
  <2>4. QED
    BY <2>1, <2>2, <2>3, Zenon
<1>9. SnapshotsTypeOK' /\ NewestFirst' /\ SavedStays' /\ LastIsHead'
  BY <1>1, <1>5, <1>7
     DEF SnapshotInv, SnapshotsTypeOK, NewestFirst, SavedStays, LastIsHead, Overtaken
<1>10. QED
  BY <1>8, <1>9 DEF SnapshotInv

LEMMA RollbackKeeps ==
  ASSUME SnapshotInv, NEW i \in DOMAIN snapshots, Rollback(i) \/ RollbackFails(i)
  PROVE  SnapshotInv'
<1>1. CASE Rollback(i)
  <2>1. RollsBack(i, FALSE) /\ work' = IF snapshots[i].ref THEN Head(stash) ELSE work
    BY <1>1, Zenon DEF Rollback
  <2>2. QED
    BY <2>1, RollsBackKeeps, Zenon
<1>2. CASE RollbackFails(i)
  <2>1. RollsBack(i, TRUE) /\ snapshots[i].ref /\ work' \in {0, work, Head(stash)}
    BY <1>2, Zenon DEF RollbackFails
  <2>2. QED
    BY <2>1, RollsBackKeeps, Zenon
<1>3. QED
  BY <1>1, <1>2

LEMMA ClearSnapshotsKeeps ==
  ASSUME SnapshotInv, ClearSnapshots
  PROVE  SnapshotInv'
<1>1. /\ snapshots' = <<>> /\ restored' = NoRollback /\ UNCHANGED <<work, stash, edits, saves>>
      /\ MaxSnapshots \in Nat
  BY SnapshotsAssumption DEF ClearSnapshots
<1>2. snapshots' \in Seq(Snap) /\ Len(snapshots') = 0
  BY <1>1
<1>3. SnapshotsTypeOK'
  BY <1>1, <1>2, NothingRolledBack, SnapshotsAssumption DEF SnapshotInv, SnapshotsTypeOK, Snap
<1>4. QED
  BY <1>1, <1>3, NothingRolledBack, SnapshotsAssumption
     DEF SnapshotInv, NewestFirst, SavedStays, LastIsHead

LEMMA SnapshotInvNext == SnapshotInv /\ [SnapshotsNext]_snapshotVars => SnapshotInv'
<1> SUFFICES ASSUME SnapshotInv, [SnapshotsNext]_snapshotVars
             PROVE  SnapshotInv'
  OBVIOUS
<1>1. CASE SnapshotsNext
  BY <1>1, AgentEditsKeeps, SaveSnapshotKeeps, RollbackKeeps, ClearSnapshotsKeeps
     DEF SnapshotsNext
<1>2. CASE UNCHANGED snapshotVars
  BY <1>2 DEF snapshotVars, SnapshotInv, SnapshotsTypeOK, NewestFirst, SavedStays,
              LastIsHead, Overtaken, RollbackBringsItsOwn
<1>3. QED
  BY <1>1, <1>2

(***************************************************************************)
(* The mail between agents.                                                *)
(***************************************************************************)
Later(a) == (readUpTo[a] + 1) .. Len(mailHistory)
Direct(a) == {n \in Later(a) : mailHistory[n].to = a}

\* An agent has a mailbox as long as there is something it was sent directly and has not
\* read.
MailInv ==
  /\ MailTypeOK /\ MailboxIsUnread
  /\ \A a \in Roles : a \in DOMAIN mailboxes <=> Direct(a) # {}

LEMMA MailInvInit == MailInit => MailInv
<1> SUFFICES ASSUME MailInit
             PROVE  MailInv
  OBVIOUS
<1>1. /\ mailHistory = <<>> /\ readUpTo = [a \in Roles |-> 0] /\ DOMAIN mailboxes = {}
      /\ MaxMessages \in Nat
  BY AgentMailAssumption DEF MailInit, NoMail
<1>2. mailHistory \in Seq(Mail) /\ Len(mailHistory) = 0
  BY <1>1
<1>3. MailTypeOK
  BY <1>1, <1>2 DEF MailTypeOK
<1>4. \A a \in Roles : Later(a) = {}
  BY <1>1, <1>2 DEF Later
<1>5. \A a \in Roles : Direct(a) = {} /\ Unread(a) = {}
  BY <1>4 DEF Direct, Unread, Later
<1>6. MailboxIsUnread
  BY <1>1, <1>5 DEF MailboxIsUnread, Range
<1>7. QED
  BY <1>1, <1>3, <1>5, <1>6 DEF MailInv

LEMMA UnreadIs ==
  \A a \in Roles :
    Unread(a) = {n \in Later(a) :
                   \/ n \in Direct(a)
                   \/ /\ mailHistory[n].to = "all" /\ mailHistory[n].from # a
                      /\ \E d \in Direct(a) : d < n}
BY DEF Unread, Later, Direct

\* A mailbox as a sequence, in a form without cases.
BoxesHoldUnread ==
  \A a \in Roles :
    /\ a \in DOMAIN mailboxes =>
         /\ {mailboxes[a][i] : i \in DOMAIN mailboxes[a]} = Unread(a)
         /\ \A i, j \in DOMAIN mailboxes[a] : i < j => mailboxes[a][i] < mailboxes[a][j]
    /\ a \notin DOMAIN mailboxes => Unread(a) = {}

LEMMA BoxesAre == MailboxIsUnread <=> BoxesHoldUnread
<1> USE DEF BoxesHoldUnread
<1>1. Range(<<>>) = {} /\ DOMAIN <<>> = {}
  BY DEF Range
<1>2. \A a : Range(mailboxes[a]) = {mailboxes[a][i] : i \in DOMAIN mailboxes[a]}
  BY DEF Range
<1>3. QED
  BY <1>1, <1>2 DEF MailboxIsUnread

LEMMA SendMailKeeps ==
  ASSUME MailInv, NEW from \in Roles, NEW to \in Roles \cup {"all"}, SendMail(from, to)
  PROVE  MailInv'
<1> DEFINE n == Len(mailHistory) + 1
           m == [from |-> from, to |-> to]
           receivers == IF to = "all" THEN DOMAIN mailboxes \ {from} ELSE {to}
<1>1. /\ Len(mailHistory) < MaxMessages /\ mailHistory' = Append(mailHistory, m)
      /\ mailboxes' = [a \in DOMAIN mailboxes \cup receivers |->
                         IF a \notin receivers THEN mailboxes[a]
                         ELSE IF a \in DOMAIN mailboxes THEN Append(mailboxes[a], n)
                         ELSE <<n>>]
      /\ readUpTo' = readUpTo
  BY DEF SendMail, Put
<1>2. m \in Mail /\ m.to = to /\ m.from = from
  BY DEF Mail
<1>3. /\ mailHistory \in Seq(Mail) /\ Len(mailHistory) \in Nat /\ MaxMessages \in Nat
      /\ DOMAIN mailHistory = 1 .. Len(mailHistory)
      /\ DOMAIN mailboxes \subseteq Roles
      /\ \A a \in DOMAIN mailboxes : mailboxes[a] \in Seq(DOMAIN mailHistory)
      /\ readUpTo \in [Roles -> 0 .. Len(mailHistory)]
      /\ \A a \in Roles : readUpTo[a] \in 0 .. Len(mailHistory)
  BY AgentMailAssumption DEF MailInv, MailTypeOK
<1> HIDE DEF m
<1>4. /\ mailHistory' \in Seq(Mail) /\ Len(mailHistory') = n /\ DOMAIN mailHistory' = 1 .. n
      /\ n \in Nat /\ mailHistory'[n] = m
      /\ \A k \in 1 .. Len(mailHistory) : mailHistory'[k] = mailHistory[k]
  BY <1>1, <1>2, <1>3
<1>5. \A a \in Roles : Later(a)' = Later(a) \cup {n} /\ \A k \in Later(a) : k < n /\ k \in DOMAIN mailHistory
  BY <1>1, <1>3, <1>4 DEF Later
<1> HIDE DEF n
<1>6. ASSUME NEW a \in Roles
      PROVE  /\ Direct(a)' = Direct(a) \cup (IF to = a THEN {n} ELSE {})
             /\ Unread(a)' = Unread(a) \cup (IF a \in receivers THEN {n} ELSE {})
  <2>1. \A k \in Later(a) : mailHistory'[k] = mailHistory[k]
    BY <1>3, <1>4, <1>5
  <2>2. Direct(a)' = Direct(a) \cup (IF to = a THEN {n} ELSE {})
    BY <1>2, <1>4, <1>5, <2>1 DEF Direct
  <2>3. n \notin Later(a) /\ ~(n < n) /\ \A k \in Later(a) : k < n /\ ~(n < k)
    BY <1>4, <1>5 DEF n, Later
  <2>4. \A k \in Later(a) : (\E d \in Direct(a)' : d < k) <=> (\E d \in Direct(a) : d < k)
    BY <2>2, <2>3
  <2>5. (\E d \in Direct(a)' : d < n) <=> Direct(a) # {}
    <3>1. \A d \in Direct(a) : d < n
      BY <2>3 DEF Direct
    <3>2. QED
      BY <2>2, <2>3, <3>1
  <2>6. a \in DOMAIN mailboxes <=> Direct(a) # {}
    BY DEF MailInv
  <2>7. \A k \in Later(a) : k \in Unread(a)' <=> k \in Unread(a)
    <3>1. \A k \in Later(a) : k \in Direct(a)' <=> k \in Direct(a)
      BY <2>2, <2>3
    <3>2. ASSUME NEW k \in Later(a)
          PROVE  k \in Unread(a)' <=> k \in Unread(a)
      <4>1. k \in Unread(a) <=>
              \/ k \in Direct(a)
              \/ /\ mailHistory[k].to = "all" /\ mailHistory[k].from # a
                 /\ \E d \in Direct(a) : d < k
        BY <3>2, UnreadIs
      <4>2. k \in Unread(a)' <=>
              \/ k \in Direct(a)'
              \/ /\ mailHistory'[k].to = "all" /\ mailHistory'[k].from # a
                 /\ \E d \in Direct(a)' : d < k
        <5>1. k \in Later(a)'
          BY <1>5, <3>2
        <5>2. QED
          BY <5>1 DEF Unread, Later, Direct
      <4>3. QED
        BY <2>1, <2>4, <3>1, <3>2, <4>1, <4>2
    <3>3. QED
      BY <3>2
  <2>8. n \in Unread(a)' <=> a \in receivers
    <3>1. n \in Unread(a)' <=> (to = a \/ (to = "all" /\ from # a /\ Direct(a) # {}))
      <4>1. n \in Later(a)' =>
              (n \in Unread(a)' <=>
                 \/ n \in Direct(a)'
                 \/ /\ mailHistory'[n].to = "all" /\ mailHistory'[n].from # a
                    /\ \E d \in Direct(a)' : d < n)
        BY DEF Unread, Later, Direct
      <4>2. n \in Later(a)' /\ (n \in Direct(a)' <=> to = a)
        BY <1>5, <2>2, <2>3 DEF Direct
      <4>3. QED
        BY <1>2, <1>4, <2>5, <4>1, <4>2
    <3>2. a # "all"
      BY AgentMailAssumption
    <3>3. QED
      BY <2>6, <3>1, <3>2
  <2>9. Unread(a) \subseteq Later(a) /\ Unread(a)' \subseteq Later(a)'
    BY DEF Unread, Later
  <2>10. QED
    BY <1>5, <2>2, <2>7, <2>8, <2>9
<1>7. DOMAIN mailboxes' = DOMAIN mailboxes \cup receivers /\ receivers \subseteq Roles
  BY <1>1, <1>3
<1>8. ASSUME NEW a \in DOMAIN mailboxes'
      PROVE  /\ mailboxes'[a] \in Seq(DOMAIN mailHistory')
             /\ {mailboxes'[a][i] : i \in DOMAIN mailboxes'[a]} = Unread(a)'
             /\ \A i, j \in DOMAIN mailboxes'[a] : i < j => mailboxes'[a][i] < mailboxes'[a][j]
  <2> DEFINE box == IF a \in DOMAIN mailboxes THEN mailboxes[a] ELSE <<>>
  <2>1. a \in Roles /\ n \in DOMAIN mailHistory' /\ DOMAIN mailHistory \subseteq DOMAIN mailHistory'
    BY <1>3, <1>4, <1>7 DEF n
  <2>2. /\ box \in Seq(DOMAIN mailHistory)
        /\ {box[i] : i \in DOMAIN box} = Unread(a)
        /\ \A i, j \in DOMAIN box : i < j => box[i] < box[j]
    <3>1. CASE a \in DOMAIN mailboxes
      BY <1>3, <2>1, <3>1, BoxesAre DEF MailInv, BoxesHoldUnread
    <3>2. CASE a \notin DOMAIN mailboxes
      <4>1. Unread(a) = {} /\ box = <<>>
        BY <2>1, <3>2, BoxesAre DEF MailInv, BoxesHoldUnread
      <4> HIDE DEF box
      <4>2. box \in Seq(DOMAIN mailHistory) /\ DOMAIN box = {}
        BY <4>1
      <4>3. QED
        BY <4>1, <4>2
    <3>3. QED
      BY <3>1, <3>2
  <2>3. \A i \in DOMAIN box : box[i] \in DOMAIN mailHistory /\ box[i] < n
    <3> HIDE DEF box
    <3>1. QED
      BY <1>3, <2>2 DEF n
  <2>4. CASE a \notin receivers
    <3>1. mailboxes'[a] = box
      BY <1>1, <1>7, <2>4
    <3> HIDE DEF box
    <3>2. mailboxes'[a] \in Seq(DOMAIN mailHistory')
      BY <2>1, <2>2, <3>1
    <3>3. QED
      BY <1>6, <2>1, <2>2, <2>4, <3>1, <3>2
  <2>5. CASE a \in receivers
    <3>1. mailboxes'[a] = Append(box, n)
      <4>1. Append(<<>>, n) = <<n>>
        OBVIOUS
      <4>2. QED
        BY <1>1, <1>7, <2>5, <4>1
    <3>2. Unread(a)' = Unread(a) \cup {n}
      BY <1>6, <2>1, <2>5
    <3> HIDE DEF box, receivers
    <3>3. /\ Append(box, n) \in Seq(DOMAIN mailHistory')
          /\ DOMAIN Append(box, n) = 1 .. (Len(box) + 1) /\ Append(box, n)[Len(box) + 1] = n
          /\ DOMAIN box = 1 .. Len(box) /\ Len(box) \in Nat
          /\ \A i \in DOMAIN box : Append(box, n)[i] = box[i]
      BY <2>1, <2>2
    <3>4. {Append(box, n)[i] : i \in DOMAIN Append(box, n)} = {box[i] : i \in DOMAIN box} \cup {n}
      BY <3>3
    <3>5. \A i, j \in DOMAIN Append(box, n) : i < j => Append(box, n)[i] < Append(box, n)[j]
      BY <2>2, <2>3, <3>3
    <3>6. QED
      BY <2>2, <3>1, <3>2, <3>3, <3>4, <3>5
  <2>6. QED
    BY <2>4, <2>5
<1>9. ASSUME NEW a \in Roles
      PROVE  a \in DOMAIN mailboxes' <=> Direct(a)' # {}
  <2>1. Direct(a)' # {} <=> Direct(a) # {} \/ to = a
    BY <1>6
  <2>2. a \in DOMAIN mailboxes <=> Direct(a) # {}
    BY DEF MailInv
  <2>3. a \in DOMAIN mailboxes' <=> a \in DOMAIN mailboxes \/ to = a
    BY <1>7, AgentMailAssumption
  <2>4. QED
    BY <2>1, <2>2, <2>3
<1>10. MailTypeOK'
  <2>1. Len(mailHistory') <= MaxMessages
    BY <1>1, <1>3, <1>4 DEF n
  <2>2. readUpTo' \in [Roles -> 0 .. Len(mailHistory')]
    <3>1. \A a \in Roles : readUpTo[a] \in 0 .. n
      BY <1>3 DEF n
    <3>2. QED
      BY <1>1, <1>3, <1>4, <3>1
  <2>3. QED
    BY <1>3, <1>4, <1>7, <1>8, <2>1, <2>2 DEF MailTypeOK
<1>11. MailboxIsUnread'
  <2>1. (MailboxIsUnread <=> BoxesHoldUnread)'
    BY BoxesAre, PTL
  <2>2. ASSUME NEW a \in Roles, a \notin DOMAIN mailboxes'
        PROVE  Unread(a)' = {}
    <3>1. a \notin DOMAIN mailboxes /\ a \notin receivers
      BY <1>7, <2>2
    <3>2. Unread(a) = {}
      BY <3>1, BoxesAre DEF MailInv, BoxesHoldUnread
    <3>3. QED
      BY <1>6, <3>1, <3>2
  <2>3. QED
    BY <1>8, <2>1, <2>2 DEF BoxesHoldUnread
<1>12. QED
  BY <1>9, <1>10, <1>11 DEF MailInv

LEMMA ReceiveMailKeeps ==
  ASSUME MailInv, NEW a \in Roles, ReceiveMail(a)
  PROVE  MailInv'
<1>1. /\ mailboxes' = [b \in DOMAIN mailboxes \ {a} |-> mailboxes[b]]
      /\ readUpTo' = [readUpTo EXCEPT ![a] = Len(mailHistory)]
      /\ UNCHANGED mailHistory /\ Len(mailHistory) \in Nat
      /\ readUpTo \in [Roles -> 0 .. Len(mailHistory)]
  BY DEF ReceiveMail, Without, ReadNow, MailInv, MailTypeOK
<1>2. /\ DOMAIN mailboxes' = DOMAIN mailboxes \ {a}
      /\ \A b \in DOMAIN mailboxes' : mailboxes'[b] = mailboxes[b]
      /\ readUpTo' \in [Roles -> 0 .. Len(mailHistory)]
      /\ \A b \in Roles : readUpTo'[b] = IF b = a THEN Len(mailHistory) ELSE readUpTo[b]
  BY <1>1
<1>3. MailTypeOK'
  BY <1>1, <1>2 DEF MailInv, MailTypeOK
<1>4. \A b \in Roles : b # a => /\ Later(b)' = Later(b) /\ Direct(b)' = Direct(b)
                               /\ Unread(b)' = Unread(b)
  BY <1>1, <1>2 DEF Later, Direct, Unread
<1>5. Later(a)' = {} /\ Direct(a)' = {} /\ Unread(a)' = {}
  <2>1. Later(a)' = {}
    BY <1>1, <1>2 DEF Later
  <2>2. QED
    BY <2>1 DEF Direct, Unread, Later
<1>6. MailboxIsUnread'
  <2>1. (MailboxIsUnread <=> BoxesHoldUnread)'
    BY BoxesAre, PTL
  <2>2. ASSUME NEW b \in Roles
        PROVE  /\ b \in DOMAIN mailboxes' =>
                    /\ {mailboxes'[b][i] : i \in DOMAIN mailboxes'[b]} = Unread(b)'
                    /\ \A i, j \in DOMAIN mailboxes'[b] : i < j => mailboxes'[b][i] < mailboxes'[b][j]
               /\ b \notin DOMAIN mailboxes' => Unread(b)' = {}
    <3>1. CASE b = a
      BY <1>2, <1>5, <3>1
    <3>2. CASE b # a
      BY <1>2, <1>4, <3>2, BoxesAre DEF MailInv, BoxesHoldUnread
    <3>3. QED
      BY <3>1, <3>2
  <2>3. QED
    BY <2>1, <2>2 DEF BoxesHoldUnread
<1>7. QED
  BY <1>2, <1>3, <1>4, <1>5, <1>6 DEF MailInv

LEMMA MailInvNext == MailInv /\ [MailNext]_mailVars => MailInv'
<1> SUFFICES ASSUME MailInv, [MailNext]_mailVars
             PROVE  MailInv'
  OBVIOUS
<1>1. CASE MailNext
  <2>1. CASE ClearMail
    <3>1. MailInit'
      BY <2>1 DEF ClearMail, MailInit
    <3>2. (MailInit => MailInv)'
      BY MailInvInit, PTL
    <3>3. QED
      BY <3>1, <3>2
  <2>2. QED
    BY <1>1, <2>1, SendMailKeeps, ReceiveMailKeeps DEF MailNext
<1>2. CASE UNCHANGED mailVars
  BY <1>2 DEF mailVars, MailInv, MailTypeOK, MailboxIsUnread, Unread, Direct, Later
<1>3. QED
  BY <1>1, <1>2

(***************************************************************************)
(* The file of the registry.                                               *)
(***************************************************************************)
Pending == {q \in Processes : writer[q].phase # "idle" /\ writer[q].op = "metrics"}

\* Each update under way still has its one to add.
Counted ==
  /\ IsFiniteSet(Pending) /\ added + Cardinality(Pending) <= updates
  /\ registryFile.content.metrics <= updates
  /\ \A p \in Processes : writer[p].copy.metrics <= updates

\* What a process will have written, alone.
Prepared(p) ==
  CASE writer[p].op = "metrics" -> [metrics |-> added + 1, queue |-> lastQueue]
    [] writer[p].op = "queue" -> [metrics |-> added, queue |-> p]
    [] OTHER -> NewRegistry

\* As long as nobody overlapped there is one at most who is at it, and its copy is the
\* registry with its update made.
TakingTurns ==
  ~overlapped =>
    /\ \A p \in Processes : writer[p].phase # "idle" =>
         /\ Busy(p) = {} /\ writer[p].phase # "unlinked"
         /\ writer[p].copy = Prepared(p)
         /\ writer[p].phase = "writes" => registryFile.state = "partial"

FileInv == RegistryFileTypeOK /\ Counted /\ TakingTurns /\ UpdatesAddUp /\ UnreadableOnlyTorn

Writer == [phase : {"idle", "loaded", "writes", "unlinked"}, op : Updates, copy : Registry]

\* The records, a component at a time.
FileTyped ==
  /\ registryFile \in [state : {"absent", "partial", "whole"}, content : Registry]
  /\ writer \in [Processes -> Writer]
  /\ updates \in 0 .. MaxUpdates /\ added \in 0 .. MaxUpdates
  /\ lastQueue \in Processes \cup {"none"}
  /\ overlapped \in BOOLEAN /\ torn \in BOOLEAN

LEMMA FileTypes == RegistryFileTypeOK <=> FileTyped
BY Zenon DEF FileTyped, RegistryFileTypeOK, Writer

LEMMA RegistriesAre ==
  /\ \A r \in Registry : /\ r.metrics \in 0 .. MaxUpdates /\ r.queue \in Processes \cup {"none"}
                         /\ r = [metrics |-> r.metrics, queue |-> r.queue]
  /\ NewRegistry \in Registry /\ NewRegistry.metrics = 0 /\ NewRegistry.queue = "none"
  /\ Saving \in Writer /\ Saving.op = "save" /\ Saving.copy = NewRegistry
  /\ Saving.phase = "loaded"
  /\ Idle \in Writer /\ Idle.op = "save" /\ Idle.copy = NewRegistry /\ Idle.phase = "idle"
<1>1. MaxUpdates \in Nat
  BY RegistryFileAssumption
<1>2. NewRegistry \in Registry /\ NewRegistry.metrics = 0 /\ NewRegistry.queue = "none"
  BY <1>1 DEF Registry, NewRegistry
<1>3. /\ Saving \in Writer /\ Saving.op = "save" /\ Saving.copy = NewRegistry
      /\ Saving.phase = "loaded"
  BY <1>2 DEF Saving, Writer, Updates
<1>4. Idle \in Writer /\ Idle.op = "save" /\ Idle.copy = NewRegistry /\ Idle.phase = "idle"
  BY <1>2, <1>3 DEF Idle, Writer
<1>5. QED
  BY <1>2, <1>3, <1>4 DEF Registry

LEMMA FileInvInit == RegistryFileInit => FileInv
<1> SUFFICES ASSUME RegistryFileInit
             PROVE  FileInv
  OBVIOUS
<1>1. /\ registryFile = [state |-> "absent", content |-> NewRegistry]
      /\ writer = [p \in Processes |-> Idle]
      /\ updates = 0 /\ added = 0 /\ lastQueue = "none" /\ MaxUpdates \in Nat
      /\ overlapped \in BOOLEAN /\ torn \in BOOLEAN
  BY RegistryFileAssumption DEF RegistryFileInit
<1>2. /\ registryFile \in [state : {"absent", "partial", "whole"}, content : Registry]
      /\ registryFile.state = "absent" /\ registryFile.content.metrics = 0
      /\ writer \in [Processes -> Writer]
      /\ \A p \in Processes : writer[p].phase = "idle" /\ writer[p].copy.metrics = 0
  BY <1>1, RegistriesAre
<1>3. RegistryFileTypeOK
  BY <1>1, <1>2, FileTypes DEF FileTyped
<1>4. Pending = {}
  BY <1>2 DEF Pending
<1>5. Counted
  BY <1>1, <1>2, <1>4, FS_EmptySet DEF Counted
<1>6. TakingTurns /\ UpdatesAddUp /\ UnreadableOnlyTorn
  BY <1>2 DEF TakingTurns, UpdatesAddUp, UnreadableOnlyTorn
<1>7. QED
  BY <1>3, <1>5, <1>6 DEF FileInv

\* The types, and what they say of a process that updates the metrics.
LEMMA FileFacts ==
  ASSUME FileInv
  PROVE  /\ registryFile \in [state : {"absent", "partial", "whole"}, content : Registry]
         /\ writer \in [Processes -> Writer]
         /\ \A p \in Processes : writer[p] \in Writer
         /\ updates \in 0 .. MaxUpdates /\ added \in 0 .. MaxUpdates
         /\ lastQueue \in Processes \cup {"none"}
         /\ overlapped \in BOOLEAN /\ torn \in BOOLEAN /\ MaxUpdates \in Nat
         /\ IsFiniteSet(Pending) /\ Cardinality(Pending) \in Nat
         /\ added + Cardinality(Pending) <= updates
BY FileTypes, RegistryFileAssumption, FS_CardinalityType
   DEF FileInv, Counted, FileTyped

LEMMA LoadAndChangeKeeps ==
  ASSUME FileInv, NEW p \in Processes, NEW op \in Updates, LoadAndChange(p, op)
  PROVE  FileInv'
<1> DEFINE copy == registryFile.content
           changed == IF op = "metrics" THEN [copy EXCEPT !.metrics = @ + 1]
                      ELSE [copy EXCEPT !.queue = p]
           w == [phase |-> "loaded", op |-> op, copy |-> changed]
<1>1. /\ writer[p].phase = "idle" /\ op \in {"metrics", "queue"}
      /\ updates < MaxUpdates /\ updates' = updates + 1 /\ registryFile.state = "whole"
      /\ writer' = [writer EXCEPT ![p] = w]
      /\ UNCHANGED <<registryFile, added, lastQueue, torn>>
  BY Zenon DEF LoadAndChange
<1>2. overlapped' <=> (overlapped \/ Busy(p) # {})
  BY Zenon DEF LoadAndChange
<1>3. /\ copy \in Registry /\ copy.metrics \in 0 .. updates
      /\ updates \in Nat /\ MaxUpdates \in Nat /\ updates \in 0 .. MaxUpdates
      /\ writer \in [Processes -> Writer]
  BY FileFacts, RegistriesAre DEF FileInv, Counted
<1>4. /\ changed \in Registry /\ changed.metrics \in 0 .. updates'
      /\ changed = IF op = "metrics" THEN [metrics |-> copy.metrics + 1, queue |-> copy.queue]
                   ELSE [metrics |-> copy.metrics, queue |-> p]
  <2> HIDE DEF copy
  <2>1. copy = [metrics |-> copy.metrics, queue |-> copy.queue] /\ copy.queue \in Processes \cup {"none"}
    BY <1>3, RegistriesAre
  <2>2. CASE op = "metrics"
    <3>1. changed = [metrics |-> copy.metrics + 1, queue |-> copy.queue]
      BY <2>1, <2>2
    <3>2. changed.metrics = copy.metrics + 1 /\ copy.metrics + 1 \in 0 .. MaxUpdates
          /\ copy.metrics + 1 \in 0 .. updates'
      BY <1>1, <1>3, <3>1
    <3>3. QED
      BY <2>1, <2>2, <3>1, <3>2 DEF Registry
  <2>3. CASE op # "metrics"
    <3>1. changed = [metrics |-> copy.metrics, queue |-> p]
      BY <2>1, <2>3
    <3>2. changed.metrics = copy.metrics /\ copy.metrics \in 0 .. MaxUpdates
          /\ copy.metrics \in 0 .. updates'
      BY <1>1, <1>3, <3>1
    <3>3. QED
      BY <2>1, <2>3, <3>1, <3>2 DEF Registry
  <2>4. QED
    BY <2>2, <2>3
<1> HIDE DEF changed
<1>5. /\ w \in Writer /\ w.phase = "loaded" /\ w.op = op /\ w.copy = changed
  BY <1>4 DEF Writer
<1> HIDE DEF w
<1>6. /\ writer' \in [Processes -> Writer] /\ writer'[p] = w
      /\ \A q \in Processes : q # p => writer'[q] = writer[q]
  BY <1>1, <1>3, <1>5
<1>7. RegistryFileTypeOK'
  <2>1. updates' \in 0 .. MaxUpdates
    BY <1>1, <1>3
  <2>2. overlapped' \in BOOLEAN
    BY FileFacts, Zenon DEF LoadAndChange
  <2>3. (RegistryFileTypeOK <=> FileTyped)'
    BY FileTypes, PTL
  <2>4. QED
    BY <1>1, <1>6, <2>1, <2>2, <2>3, FileFacts DEF FileTyped
<1>8. Counted'
  <2>1. Pending' = IF op = "metrics" THEN Pending \cup {p} ELSE Pending
    BY <1>1, <1>5, <1>6 DEF Pending
  <2>2. IsFiniteSet(Pending') /\ Cardinality(Pending') \in Nat
        /\ Cardinality(Pending') <= Cardinality(Pending) + 1
    <3>1. /\ IsFiniteSet(Pending \cup {p})
          /\ Cardinality(Pending \cup {p}) \in {Cardinality(Pending), Cardinality(Pending) + 1}
      BY FileFacts, FS_AddElement
    <3>2. QED
      BY <2>1, <3>1, FileFacts
  <2>3. added + Cardinality(Pending') <= updates'
    <3>1. added \in Nat
      BY FileFacts
    <3>2. QED
      BY <1>1, <1>3, <2>2, <3>1, FileFacts
  <2>4. ASSUME NEW q \in Processes
        PROVE  writer'[q].copy.metrics <= updates'
    <3>1. CASE q = p
      BY <1>4, <1>5, <1>6, <3>1
    <3>2. CASE q # p
      <4>1. writer[q].copy.metrics <= updates /\ writer[q].copy.metrics \in 0 .. MaxUpdates
        BY FileFacts, RegistriesAre DEF FileInv, Counted, Writer
      <4>2. QED
        BY <1>1, <1>3, <1>6, <3>2, <4>1
    <3>3. QED
      BY <3>1, <3>2
  <2>5. registryFile.content.metrics <= updates'
    BY <1>1, <1>3
  <2>6. QED
    BY <1>1, <2>2, <2>3, <2>4, <2>5 DEF Counted
<1>9. TakingTurns'
  <2>1. SUFFICES ASSUME ~overlapped', NEW q \in Processes, writer'[q].phase # "idle"
                 PROVE  /\ Busy(q)' = {} /\ writer'[q].phase # "unlinked"
                        /\ writer'[q].copy = Prepared(q)'
                        /\ writer'[q].phase = "writes" => registryFile'.state = "partial"
    BY DEF TakingTurns
  <2>2. Busy(p) = {} /\ ~overlapped
    BY <1>2, <2>1
  <2>3. q = p
    BY <1>6, <2>1, <2>2 DEF Busy
  <2>4. Busy(p)' = {}
    BY <1>6, <2>2 DEF Busy
  <2>5. copy = [metrics |-> added, queue |-> lastQueue]
    BY <1>1, <2>2 DEF FileInv, UpdatesAddUp
  <2>6. Prepared(p)' = changed
    <3>1. Prepared(p)' = IF op = "metrics" THEN [metrics |-> added + 1, queue |-> lastQueue]
                         ELSE [metrics |-> added, queue |-> p]
      BY <1>1, <1>5, <1>6 DEF Prepared
    <3>2. copy.metrics = added /\ copy.queue = lastQueue
      BY <2>5
    <3>3. QED
      BY <1>4, <3>1, <3>2
  <2>7. QED
    BY <1>5, <1>6, <2>3, <2>4, <2>6
<1>10. UpdatesAddUp' /\ UnreadableOnlyTorn'
  BY <1>1, <1>2 DEF FileInv, UpdatesAddUp, UnreadableOnlyTorn
<1>11. QED
  BY <1>7, <1>8, <1>9, <1>10 DEF FileInv

LEMMA SaveNewKeeps ==
  ASSUME FileInv, NEW p \in Processes, SaveNew(p)
  PROVE  FileInv'
<1>1. /\ writer[p].phase = "idle" /\ updates < MaxUpdates /\ updates' = updates + 1
      /\ writer' = [writer EXCEPT ![p] = Saving]
      /\ UNCHANGED <<registryFile, added, lastQueue, torn>>
  BY Zenon DEF SaveNew
<1>2. overlapped' <=> (overlapped \/ Busy(p) # {})
  BY Zenon DEF SaveNew
<1>3. /\ updates \in 0 .. MaxUpdates /\ MaxUpdates \in Nat /\ updates' \in 0 .. MaxUpdates
      /\ updates <= updates'
      /\ writer' \in [Processes -> Writer] /\ writer'[p] = Saving
      /\ \A q \in Processes : q # p => writer'[q] = writer[q]
  BY <1>1, FileFacts, RegistriesAre
<1>4. RegistryFileTypeOK'
  <2>1. overlapped' \in BOOLEAN
    BY FileFacts, Zenon DEF SaveNew
  <2>2. (RegistryFileTypeOK <=> FileTyped)'
    BY FileTypes, PTL
  <2>3. QED
    BY <1>1, <1>3, <2>1, <2>2, FileFacts DEF FileTyped
<1>5. Counted'
  <2>1. Pending' = Pending
    BY <1>1, <1>3, RegistriesAre DEF Pending
  <2>2. /\ registryFile.content.metrics \in 0 .. MaxUpdates
        /\ \A q \in Processes : writer[q].copy.metrics \in 0 .. MaxUpdates
    BY FileFacts, RegistriesAre DEF Writer
  <2>3. added + Cardinality(Pending) <= updates'
    <3>1. added \in Nat /\ Cardinality(Pending) \in Nat /\ added + Cardinality(Pending) <= updates
      BY FileFacts
    <3>2. QED
      BY <1>3, <3>1
  <2>4. ASSUME NEW q \in Processes
        PROVE  writer'[q].copy.metrics <= updates'
    <3>1. CASE q = p
      BY <1>3, <3>1, RegistriesAre
    <3>2. CASE q # p
      BY <1>3, <2>2, <3>2 DEF FileInv, Counted
    <3>3. QED
      BY <3>1, <3>2
  <2>5. registryFile.content.metrics <= updates'
    BY <1>3, <2>2 DEF FileInv, Counted
  <2>6. QED
    BY <1>1, <2>1, <2>3, <2>4, <2>5, FileFacts DEF Counted
<1>6. TakingTurns'
  <2>1. SUFFICES ASSUME ~overlapped', NEW q \in Processes, writer'[q].phase # "idle"
                 PROVE  /\ Busy(q)' = {} /\ writer'[q].phase # "unlinked"
                        /\ writer'[q].copy = Prepared(q)'
                        /\ writer'[q].phase = "writes" => registryFile'.state = "partial"
    BY DEF TakingTurns
  <2>2. Busy(p) = {}
    BY <1>2, <2>1
  <2>3. q = p
    BY <1>3, <2>1, <2>2 DEF Busy
  <2>4. Busy(p)' = {}
    BY <1>3, <2>2 DEF Busy
  <2>5. Prepared(p)' = NewRegistry
    BY <1>3, RegistriesAre DEF Prepared
  <2>6. QED
    BY <1>3, <2>3, <2>4, <2>5, RegistriesAre
<1>7. UpdatesAddUp' /\ UnreadableOnlyTorn'
  <2>1. ASSUME NEW q \in Processes, writer[q].phase = "writes"
        PROVE  writer'[q].phase = "writes"
    BY <1>1, <1>3, <2>1
  <2>2. QED
    BY <1>1, <1>2, <2>1 DEF FileInv, UpdatesAddUp, UnreadableOnlyTorn
<1>8. QED
  BY <1>4, <1>5, <1>6, <1>7 DEF FileInv

LEMMA OpenToWriteKeeps ==
  ASSUME FileInv, NEW p \in Processes, OpenToWrite(p)
  PROVE  FileInv'
<1>1. /\ writer[p].phase = "loaded"
      /\ writer' = [writer EXCEPT ![p].phase = "writes"]
      /\ registryFile' = [registryFile EXCEPT !.state = "partial"]
      /\ UNCHANGED <<updates, added, lastQueue, overlapped, torn>>
  BY DEF OpenToWrite, WriterGoes
<1>2. /\ registryFile' \in [state : {"absent", "partial", "whole"}, content : Registry]
      /\ registryFile'.state = "partial" /\ registryFile'.content = registryFile.content
      /\ writer' \in [Processes -> Writer] /\ writer'[p].phase = "writes"
      /\ writer'[p].op = writer[p].op /\ writer'[p].copy = writer[p].copy
      /\ \A q \in Processes : q # p => writer'[q] = writer[q]
  BY <1>1, FileFacts DEF Writer
<1>3. RegistryFileTypeOK'
  <2>1. (RegistryFileTypeOK <=> FileTyped)'
    BY FileTypes, PTL
  <2>2. QED
    BY <1>1, <1>2, <2>1, FileFacts DEF FileTyped
<1>4. Counted'
  <2>1. Pending' = Pending
    BY <1>1, <1>2 DEF Pending
  <2>2. \A q \in Processes : writer'[q].copy = writer[q].copy
    BY <1>2
  <2>3. QED
    BY <1>1, <1>2, <2>1, <2>2 DEF FileInv, Counted
<1>5. TakingTurns'
  <2>1. SUFFICES ASSUME ~overlapped', NEW q \in Processes, writer'[q].phase # "idle"
                 PROVE  /\ Busy(q)' = {} /\ writer'[q].phase # "unlinked"
                        /\ writer'[q].copy = Prepared(q)'
                        /\ writer'[q].phase = "writes" => registryFile'.state = "partial"
    BY DEF TakingTurns
  <2>2. ~overlapped
    BY <1>1, <2>1
  <2>3. Busy(p) = {} /\ writer[p].copy = Prepared(p)
    BY <1>1, <2>2 DEF FileInv, TakingTurns
  <2>4. q = p /\ Busy(p)' = {}
    BY <1>2, <2>1, <2>3 DEF Busy
  <2>5. Prepared(p)' = Prepared(p)
    BY <1>1, <1>2 DEF Prepared
  <2>6. QED
    BY <1>2, <2>3, <2>4, <2>5
<1>6. UpdatesAddUp' /\ UnreadableOnlyTorn'
  BY <1>2 DEF UpdatesAddUp, UnreadableOnlyTorn
<1>7. QED
  BY <1>3, <1>4, <1>5, <1>6 DEF FileInv

LEMMA WriteKeeps ==
  ASSUME FileInv, NEW p \in Processes, Write(p)
  PROVE  FileInv'
<1> DEFINE w == writer[p]
           New == [Saving EXCEPT !.phase = "writes"]
<1>1. /\ w.phase \in {"writes", "unlinked"}
      /\ writer' = [writer EXCEPT ![p].phase = "idle"]
      /\ added' = (CASE w.op = "metrics" -> added + 1 [] w.op = "save" -> 0 [] OTHER -> added)
      /\ lastQueue' = (CASE w.op = "queue" -> p [] w.op = "save" -> "none" [] OTHER -> lastQueue)
      /\ UNCHANGED updates
  BY DEF Write, WriterGoes
<1>2. \/ w.phase = "unlinked" /\ registryFile' = registryFile
      \/ /\ w.phase = "writes" /\ registryFile'.state \in {"whole", "partial"}
         /\ registryFile'.content = w.copy
         /\ registryFile.state # "whole" => registryFile'.state = "whole"
         /\ registryFile' = [state |-> registryFile'.state, content |-> w.copy]
  <2>1. CASE w.phase = "unlinked"
    BY <2>1, Zenon DEF Write
  <2>2. CASE w.phase # "unlinked"
    <3>1. PICK state \in {"whole"} \cup (IF registryFile.state = "whole" THEN {"partial"} ELSE {}) :
            registryFile' = [state |-> state, content |-> w.copy]
      BY <2>2, Zenon DEF Write
    <3>2. registryFile'.state = state /\ registryFile'.content = w.copy
      BY <3>1
    <3>3. QED
      BY <1>1, <2>2, <3>1, <3>2
  <2>3. QED
    BY <2>1, <2>2
<1>3. /\ overlapped' <=> (overlapped /\ ~(w = New /\ Busy(p) = {} /\ registryFile'.state = "whole"))
      /\ torn' <=> (torn /\ w.phase = "unlinked")
      /\ overlapped' \in BOOLEAN /\ torn' \in BOOLEAN
  <2>1. overlapped' = (overlapped /\ ~(w = New /\ Busy(p) = {} /\ registryFile'.state = "whole"))
    BY Zenon DEF Write
  <2>2. torn' = (torn /\ w.phase = "unlinked")
    BY Zenon DEF Write
  <2>3. QED
    BY <2>1, <2>2, Zenon
<1>4. w \in Writer
  BY FileFacts
<1>5. /\ writer' \in [Processes -> Writer]
      /\ writer'[p].phase = "idle" /\ writer'[p].copy = w.copy
      /\ \A q \in Processes : q # p => writer'[q] = writer[q]
  BY <1>1, FileFacts DEF Writer
<1>6. /\ w.op \in Updates /\ w.copy \in Registry /\ w.copy.metrics \in 0 .. MaxUpdates
      /\ w.copy.metrics <= updates
  BY <1>4, RegistriesAre DEF FileInv, Counted, Writer
<1> HIDE DEF w, New
\* What the one update adds was accounted for.
<1>7. /\ added' \in 0 .. MaxUpdates /\ lastQueue' \in Processes \cup {"none"}
      /\ IsFiniteSet(Pending') /\ added' + Cardinality(Pending') <= updates
  <2>1. Pending' = Pending \ {p} /\ (p \in Pending <=> w.op = "metrics")
    BY <1>1, <1>5 DEF Pending, w
  <2>2. /\ IsFiniteSet(Pending \ {p})
        /\ Cardinality(Pending \ {p}) = IF p \in Pending THEN Cardinality(Pending) - 1
                                        ELSE Cardinality(Pending)
        /\ Cardinality(Pending \ {p}) \in Nat
    BY FileFacts, FS_RemoveElement, FS_CardinalityType
  <2>3. /\ added \in Nat /\ updates \in Nat /\ MaxUpdates \in Nat /\ updates <= MaxUpdates
        /\ Cardinality(Pending) \in Nat /\ added + Cardinality(Pending) <= updates
        /\ lastQueue \in Processes \cup {"none"}
    BY FileFacts
  <2>4. CASE w.op = "metrics"
    BY <1>1, <2>1, <2>2, <2>3, <2>4
  <2>5. CASE w.op = "save"
    BY <1>1, <2>1, <2>2, <2>3, <2>5
  <2>6. CASE w.op = "queue"
    BY <1>1, <2>1, <2>2, <2>3, <2>6
  <2>7. QED
    BY <1>6, <2>4, <2>5, <2>6 DEF Updates
<1>8. RegistryFileTypeOK'
  <2>1. (RegistryFileTypeOK <=> FileTyped)'
    BY FileTypes, PTL
  <2>2. registryFile' \in [state : {"absent", "partial", "whole"}, content : Registry]
    BY <1>2, <1>6, FileFacts
  <2>3. QED
    BY <1>1, <1>3, <1>5, <1>7, <2>1, <2>2, FileFacts DEF FileTyped
<1>9. Counted'
  <2>1. \A q \in Processes : writer'[q].copy = writer[q].copy
    BY <1>5 DEF w
  <2>2. registryFile'.content.metrics <= updates
    BY <1>2, <1>6 DEF FileInv, Counted
  <2>3. QED
    BY <1>1, <1>7, <2>1, <2>2 DEF FileInv, Counted
\* Who still takes turns has written the whole file alone.
<1>10. ASSUME ~overlapped'
       PROVE  /\ \A q \in Processes : writer'[q].phase = "idle"
              /\ registryFile'.state = "whole"
              /\ registryFile'.content = [metrics |-> added', queue |-> lastQueue']
  <2>1. CASE overlapped
    <3>1. w = New /\ Busy(p) = {} /\ registryFile'.state = "whole"
      BY <1>3, <1>10, <2>1
    <3>2. w.phase = "writes" /\ w.op = "save" /\ w.copy = NewRegistry
      BY <3>1, RegistriesAre DEF New, Writer
    <3>3. added' = 0 /\ lastQueue' = "none" /\ registryFile'.content = NewRegistry
      BY <1>1, <1>2, <3>2
    <3>4. QED
      BY <1>5, <3>1, <3>3 DEF Busy, NewRegistry
  <2>2. CASE ~overlapped
    <3>1. /\ Busy(p) = {} /\ w.phase = "writes" /\ w.copy = Prepared(p)
          /\ registryFile.state = "partial"
      BY <1>1, <2>2 DEF FileInv, TakingTurns, w
    <3>2. registryFile'.state = "whole" /\ registryFile'.content = Prepared(p)
      BY <1>2, <3>1
    <3>3. Prepared(p) = [metrics |-> added', queue |-> lastQueue']
      <4>1. CASE w.op = "metrics"
        BY <1>1, <4>1 DEF Prepared, w
      <4>2. CASE w.op = "save"
        BY <1>1, <4>2 DEF Prepared, w, NewRegistry
      <4>3. CASE w.op = "queue"
        BY <1>1, <4>3 DEF Prepared, w
      <4>4. QED
        BY <1>6, <4>1, <4>2, <4>3 DEF Updates
    <3>4. QED
      BY <1>5, <3>1, <3>2, <3>3 DEF Busy
  <2>3. QED
    BY <2>1, <2>2
<1>11. TakingTurns' /\ UpdatesAddUp' /\ UnreadableOnlyTorn'
  BY <1>10 DEF TakingTurns, UpdatesAddUp, UnreadableOnlyTorn
<1>12. QED
  BY <1>8, <1>9, <1>11 DEF FileInv

LEMMA DeleteRegistryKeeps ==
  ASSUME FileInv, NEW p \in Processes, DeleteRegistry(p)
  PROVE  FileInv'
<1>1. /\ writer[p].phase = "idle"
      /\ registryFile' = [registryFile EXCEPT !.state = "absent"]
      /\ writer' = [q \in Processes |-> IF writer[q].phase = "writes"
                                        THEN [writer[q] EXCEPT !.phase = "unlinked"]
                                        ELSE writer[q]]
      /\ torn' = FALSE
      /\ UNCHANGED <<updates, added, lastQueue>>
  BY Zenon DEF DeleteRegistry
<1>2. overlapped' <=> (overlapped \/ Busy(p) # {})
  BY Zenon DEF DeleteRegistry
<1>3. /\ registryFile' \in [state : {"absent", "partial", "whole"}, content : Registry]
      /\ registryFile'.state = "absent" /\ registryFile'.content = registryFile.content
  BY <1>1, FileFacts
<1>4. ASSUME NEW q \in Processes
      PROVE  /\ writer'[q] \in Writer /\ writer'[q].op = writer[q].op
             /\ writer'[q].copy = writer[q].copy
             /\ writer'[q].phase = "idle" <=> writer[q].phase = "idle"
  BY <1>1, FileFacts DEF Writer
<1>5. RegistryFileTypeOK'
  <2>1. (RegistryFileTypeOK <=> FileTyped)'
    BY FileTypes, PTL
  <2>2. overlapped' \in BOOLEAN
    BY FileFacts, Zenon DEF DeleteRegistry
  <2>3. writer' \in [Processes -> Writer]
    BY <1>1, <1>4
  <2>4. QED
    BY <1>1, <1>3, <2>1, <2>2, <2>3, FileFacts DEF FileTyped
<1>6. Counted'
  <2>1. Pending' = Pending
    BY <1>4 DEF Pending
  <2>2. QED
    BY <1>1, <1>3, <1>4, <2>1 DEF FileInv, Counted
<1>7. TakingTurns'
  <2>1. ASSUME ~overlapped', NEW q \in Processes
        PROVE  writer'[q].phase = "idle"
    <3>1. Busy(p) = {}
      BY <1>2, <2>1
    <3>2. QED
      BY <1>1, <1>4, <3>1 DEF Busy
  <2>2. QED
    BY <2>1 DEF TakingTurns
<1>8. UpdatesAddUp' /\ UnreadableOnlyTorn'
  BY <1>3 DEF UpdatesAddUp, UnreadableOnlyTorn
<1>9. QED
  BY <1>5, <1>6, <1>7, <1>8 DEF FileInv

LEMMA DiesKeeps ==
  ASSUME FileInv, NEW p \in Processes, Dies(p)
  PROVE  FileInv'
<1>1. /\ writer[p].phase # "idle" /\ writer' = [writer EXCEPT ![p] = Idle]
      /\ UNCHANGED <<registryFile, updates, added, lastQueue, overlapped>>
  BY Zenon DEF Dies
<1>2. /\ torn' <=> (torn \/ (writer[p].phase = "writes" /\ registryFile.state = "partial"))
      /\ torn' \in BOOLEAN
  <2>1. torn' = (torn \/ (writer[p].phase = "writes" /\ registryFile.state = "partial"))
    BY Zenon DEF Dies
  <2>2. torn \in BOOLEAN
    BY FileFacts
  <2>3. QED
    BY <2>1, <2>2, Zenon
<1>3. /\ writer' \in [Processes -> Writer] /\ writer'[p] = Idle
      /\ \A q \in Processes : q # p => writer'[q] = writer[q]
  BY <1>1, FileFacts, RegistriesAre
<1>4. RegistryFileTypeOK'
  <2>1. (RegistryFileTypeOK <=> FileTyped)'
    BY FileTypes, PTL
  <2>2. QED
    BY <1>1, <1>2, <1>3, <2>1, FileFacts DEF FileTyped
<1>5. Counted'
  <2>1. Pending' = Pending \ {p}
    BY <1>3, RegistriesAre DEF Pending
  <2>2. /\ IsFiniteSet(Pending \ {p}) /\ Cardinality(Pending \ {p}) \in Nat
        /\ Cardinality(Pending \ {p}) <= Cardinality(Pending)
    <3>1. /\ IsFiniteSet(Pending \ {p}) /\ Cardinality(Pending \ {p}) \in Nat
          /\ Cardinality(Pending \ {p}) = IF p \in Pending THEN Cardinality(Pending) - 1
                                          ELSE Cardinality(Pending)
      BY FileFacts, FS_RemoveElement, FS_CardinalityType
    <3>2. QED
      BY <3>1, FileFacts
  <2>3. added + Cardinality(Pending \ {p}) <= updates
    <3>1. /\ added \in Nat /\ updates \in Nat /\ Cardinality(Pending) \in Nat
          /\ added + Cardinality(Pending) <= updates
      BY FileFacts
    <3>2. QED
      BY <2>2, <3>1
  <2>4. updates \in Nat
    BY FileFacts
  <2>5. QED
    BY <1>1, <1>3, <2>1, <2>2, <2>3, <2>4, RegistriesAre DEF FileInv, Counted
<1>6. TakingTurns'
  <2>1. ASSUME ~overlapped, NEW q \in Processes
        PROVE  writer'[q].phase = "idle"
    <3>1. Busy(p) = {}
      BY <1>1, <2>1 DEF FileInv, TakingTurns
    <3>2. QED
      BY <1>3, <3>1, RegistriesAre DEF Busy
  <2>2. QED
    BY <1>1, <2>1 DEF TakingTurns
<1>7. UpdatesAddUp' /\ UnreadableOnlyTorn'
  <2>1. ASSUME NEW q \in Processes, writer[q].phase = "writes", registryFile.state = "partial"
        PROVE  torn' \/ writer'[q].phase = "writes"
    BY <1>2, <1>3, <2>1
  <2>2. QED
    BY <1>1, <1>2, <2>1 DEF FileInv, UpdatesAddUp, UnreadableOnlyTorn
<1>8. QED
  BY <1>4, <1>5, <1>6, <1>7 DEF FileInv

LEMMA FileInvNext == FileInv /\ [RegistryFileNext]_registryVars => FileInv'
<1> SUFFICES ASSUME FileInv, [RegistryFileNext]_registryVars
             PROVE  FileInv'
  OBVIOUS
<1>1. CASE RegistryFileNext
  BY <1>1, LoadAndChangeKeeps, SaveNewKeeps, OpenToWriteKeeps, WriteKeeps, DeleteRegistryKeeps,
     DiesKeeps DEF RegistryFileNext
<1>2. CASE UNCHANGED registryVars
  <2>1. UNCHANGED <<registryFile, writer, updates, added, lastQueue, overlapped, torn>>
    BY <1>2, Zenon DEF registryVars
  <2>2. (RegistryFileTypeOK <=> FileTyped)'
    BY FileTypes, PTL
  <2>3. RegistryFileTypeOK'
    BY <2>1, <2>2, FileFacts DEF FileTyped
  <2>4. QED
    BY <2>1, <2>3 DEF FileInv, Counted, Pending, TakingTurns, Busy, Prepared, UpdatesAddUp,
                      UnreadableOnlyTorn
<1>3. QED
  BY <1>1, <1>2

(***************************************************************************)
(* Spans and traces.                                                       *)
(***************************************************************************)
\* A span is started once and ended once.
SpansInOrder ==
  /\ \A p \in Traced :
       /\ pipeline[p] = "idle" <=> p \notin Range(begun)
       /\ pipeline[p] \in {"idle", "runs", "calls", "caught"} => Root(p) \notin ended
       /\ pipeline[p] = "calls" => agentSpans[p] # 0 /\ AgentSpan(p) \notin ended
       /\ pipeline[p] # "idle" => traceOf[Root(p)] # "none"
       /\ \A i \in 1 .. MaxAgentSpans :
            IF i > agentSpans[p] THEN <<p, i>> \notin ended /\ traceOf[<<p, i>>] = "none"
            ELSE traceOf[<<p, i>>] # "none"
  /\ \A s \in Spans : traceOf[s] # "none" => traceOf[s] \in Range(begun)

\* What is sampled stays sampled until a shutdown.
SampledStays ==
  /\ wholly \subseteq Range(begun)
  /\ wrapped.samples => wholly \subseteq sampled
  /\ \A o \in openSpans :
       /\ traceOf[o[1]] # "none" /\ (~wrapped.composite => o[2] = "own")
       /\ ~wrapped.composite /\ ~wrapped.broken /\ wrapped.samples /\ o[1][2] # 0 =>
            traceOf[o[1]] \in sampled

TraceInv ==
  /\ TracesTypeOK /\ SpansInOrder /\ SampledStays
  /\ EachSpanOnce /\ SampledTracesAreWhole /\ SpansFollowTheCurrent
  /\ OpenSpansAreAccountedFor

Kept == Range(spanBuffer) \cup delivered \cup dropped

LEMMA TraceInvInit == TracesInit => TraceInv
<1> SUFFICES ASSUME TracesInit
             PROVE  TraceInv
  OBVIOUS
<1>1. /\ pipeline = [p \in Traced |-> "idle"] /\ agentSpans = [p \in Traced |-> 0]
      /\ begun = <<>> /\ traceOf = [s \in Spans |-> "none"]
      /\ sampled = {} /\ openSpans = {} /\ spanBuffer = <<>>
      /\ delivered = {} /\ dropped = {} /\ ended = {} /\ unended = {} /\ wholly = {}
      /\ MaxAgentSpans \in Nat /\ BatchSize \in Nat \ {0}
  BY TracesAssumption DEF TracesInit
<1>2. /\ begun \in Seq(Traced) /\ spanBuffer \in Seq(Spans) /\ Len(spanBuffer) = 0
      /\ DOMAIN begun = {} /\ DOMAIN spanBuffer = {}
  BY <1>1
<1>3. Range(begun) = {} /\ Range(spanBuffer) = {} /\ IsInjective(begun) /\ IsInjective(spanBuffer)
  BY <1>2 DEF Range, IsInjective
<1>4. wrapped \in Wrappings /\ metricsWait \in BOOLEAN
  BY DEF TracesInit, TracerFromConfig
<1>5. agentSpans \in [Traced -> 0 .. MaxAgentSpans]
  BY <1>1
<1>6. TracesTypeOK
  BY <1>1, <1>2, <1>3, <1>4, <1>5 DEF TracesTypeOK
<1>7. SpansInOrder
  <2>1. \A p \in Traced, i \in 1 .. MaxAgentSpans : <<p, i>> \in Spans
    BY <1>1 DEF Spans
  <2>2. QED
    BY <1>1, <1>3, <2>1 DEF SpansInOrder
<1>8. SampledStays /\ SampledTracesAreWhole /\ OpenSpansAreAccountedFor
  BY <1>1 DEF SampledStays, SampledTracesAreWhole, OpenSpansAreAccountedFor
<1>9. EachSpanOnce
  BY <1>1, <1>2, <1>3 DEF EachSpanOnce
<1>10. SpansFollowTheCurrent
  <2>1. \A p \in Traced, i \in 1 .. MaxAgentSpans : <<p, i>> \in Spans
    BY <1>1 DEF Spans
  <2>2. QED
    BY <1>1, <2>1 DEF SpansFollowTheCurrent
<1>11. QED
  BY <1>6, <1>7, <1>8, <1>9, <1>10 DEF TraceInv

\* What the two helpers of the tracer may do.
LEMMA SampleIs ==
  ASSUME NEW t, NEW yes \in BOOLEAN, Sample(t, yes)
  PROVE  /\ sampled \subseteq sampled' /\ sampled' \subseteq sampled \cup {t}
         /\ ~wrapped.samples => yes
         /\ t \in sampled => yes
         /\ wrapped.samples /\ yes => t \in sampled'
BY DEF Sample

LEMMA FlushIs ==
  ASSUME NEW spans \in Seq(Spans), NEW metrics \in BOOLEAN, NEW ok \in BOOLEAN,
         Flush(spans, metrics, ok),
         IsInjective(spans), Range(spans) \cap (delivered \cup dropped) = {},
         delivered \cap dropped = {}, delivered \subseteq Spans, dropped \subseteq Spans,
         wrapped.broken => delivered \cup dropped = {}
  PROVE  /\ spanBuffer' \in Seq(Spans) /\ IsInjective(spanBuffer')
         /\ Range(spanBuffer') \cap (delivered' \cup dropped') = {}
         /\ delivered' \cap dropped' = {} /\ delivered' \subseteq Spans /\ dropped' \subseteq Spans
         /\ Kept' = Range(spans) \cup delivered \cup dropped
         /\ IF wrapped.broken THEN delivered' \cup dropped' = {} ELSE Len(spanBuffer') = 0
         /\ metricsWait' \in BOOLEAN
<1>1. Range(spans) \subseteq Spans
  BY DEF Range
<1>2. /\ <<>> \in Seq(Spans) /\ Len(<<>>) = 0 /\ Range(<<>>) = {} /\ IsInjective(<<>>)
  BY DEF Range, IsInjective
<1>3. CASE wrapped.broken /\ (spans # <<>> \/ metrics)
  <2>1. spanBuffer' = spans /\ metricsWait' = metrics /\ delivered' = delivered /\ dropped' = dropped
    BY <1>3, Zenon DEF Flush
  <2>2. QED
    BY <1>3, <2>1 DEF Kept
<1>4. CASE ~(wrapped.broken /\ (spans # <<>> \/ metrics))
  <2>1. /\ spanBuffer' = <<>> /\ metricsWait' = FALSE
        /\ \/ delivered' = delivered \cup Range(spans) /\ dropped' = dropped
           \/ delivered' = delivered /\ dropped' = dropped \cup Range(spans)
    BY <1>4, Zenon DEF Flush
  <2>2. wrapped.broken => Range(spans) = {}
    BY <1>2, <1>4
  <2>3. Kept' = Range(spans) \cup delivered \cup dropped
    BY <1>2, <2>1 DEF Kept
  <2>4. QED
    BY <1>1, <1>2, <2>1, <2>2, <2>3
<1>5. QED
  BY <1>3, <1>4

\* A span that ends enters the buffer, or what the batch it completes becomes, if it is
\* sampled.
LEMMA EndSpanIs ==
  ASSUME TraceInv, NEW s \in Spans \ ended, NEW metrics \in BOOLEAN, NEW yes \in BOOLEAN,
         NEW ok \in BOOLEAN, EndSpan(s, metrics, yes, ok), wrapped' = wrapped
  PROVE  /\ ended' = ended \cup {s}
         /\ spanBuffer' \in Seq(Spans) /\ EachSpanOnce'
         /\ delivered' \subseteq Spans /\ dropped' \subseteq Spans /\ metricsWait' \in BOOLEAN
         /\ IF yes THEN Kept' = Kept \cup {s} /\ openSpans' = openSpans \ {<<s, "own">>}
            ELSE Kept' = Kept /\ openSpans' = openSpans
<1> DEFINE spans == Append(spanBuffer, s)
<1>1. /\ spanBuffer \in Seq(Spans) /\ metricsWait \in BOOLEAN
      /\ delivered \subseteq Spans /\ dropped \subseteq Spans
      /\ IsInjective(spanBuffer) /\ Range(spanBuffer) \cap (delivered \cup dropped) = {}
      /\ delivered \cap dropped = {} /\ Kept \subseteq ended
      /\ wrapped.broken => delivered \cup dropped = {}
      /\ ~wrapped.broken => Len(spanBuffer) < BatchSize
      /\ BatchSize \in Nat \ {0}
  BY TracesAssumption DEF TraceInv, TracesTypeOK, EachSpanOnce, Kept
<1>2. ended' = ended \cup {s}
  BY DEF EndSpan
<1>3. CASE ~yes
  <2>1. UNCHANGED <<openSpans, spanBuffer, metricsWait, delivered, dropped>>
    BY <1>3, Zenon DEF EndSpan, bufferVars
  <2>2. QED
    BY <1>1, <1>2, <1>3, <2>1 DEF EachSpanOnce, Kept
<1>4. CASE yes
  <2>1. s \notin Range(spanBuffer)
    BY <1>1 DEF Kept
  <2>2. /\ spans \in Seq(Spans) /\ Len(spans) = Len(spanBuffer) + 1
        /\ DOMAIN spanBuffer = 1 .. Len(spanBuffer) /\ Len(spanBuffer) \in Nat
        /\ DOMAIN spans = 1 .. (Len(spanBuffer) + 1) /\ spans[Len(spanBuffer) + 1] = s
        /\ \A i \in 1 .. Len(spanBuffer) : spans[i] = spanBuffer[i]
    BY <1>1
  <2> HIDE DEF spans
  <2>3. Range(spans) = Range(spanBuffer) \cup {s}
    BY <2>2 DEF Range
  <2>4. IsInjective(spans)
    <3>1. \A i \in 1 .. Len(spanBuffer) : spanBuffer[i] # s
      BY <2>1, <2>2 DEF Range
    <3>2. QED
      BY <1>1, <2>2, <3>1 DEF IsInjective
  <2>5. Range(spans) \cap (delivered \cup dropped) = {}
    BY <1>1, <2>3 DEF Kept
  <2>6. openSpans' = openSpans \ {<<s, "own">>}
    BY <1>4, Zenon DEF EndSpan
  <2>7. CASE Len(spans) >= BatchSize
    <3> DEFINE more == metricsWait \/ metrics
    <3>1. Flush(spans, more, ok)
      BY <1>4, <2>7, Zenon DEF EndSpan, spans
    <3>2. more \in BOOLEAN
      BY Zenon
    <3> HIDE DEF more
    <3>3. /\ spanBuffer' \in Seq(Spans) /\ IsInjective(spanBuffer')
          /\ Range(spanBuffer') \cap (delivered' \cup dropped') = {}
          /\ delivered' \cap dropped' = {} /\ delivered' \subseteq Spans /\ dropped' \subseteq Spans
          /\ Kept' = Range(spans) \cup delivered \cup dropped
          /\ IF wrapped.broken THEN delivered' \cup dropped' = {} ELSE Len(spanBuffer') = 0
          /\ metricsWait' \in BOOLEAN
      BY <1>1, <2>2, <2>4, <2>5, <3>1, <3>2, FlushIs
    <3>4. Kept' = Kept \cup {s}
      BY <2>3, <3>3 DEF Kept
    <3>5. Kept' \subseteq ended'
      BY <1>1, <1>2, <3>4
    <3>6. EachSpanOnce'
      BY <1>1, <3>3, <3>5 DEF EachSpanOnce, Kept
    <3>7. QED
      BY <1>2, <1>4, <2>6, <3>3, <3>4, <3>6
  <2>8. CASE ~(Len(spans) >= BatchSize)
    <3>1. /\ spanBuffer' = spans /\ metricsWait' = (metricsWait \/ metrics)
          /\ delivered' = delivered /\ dropped' = dropped
      BY <1>4, <2>8, Zenon DEF EndSpan, spans
    <3>2. metricsWait' \in BOOLEAN
      BY <3>1, Zenon
    <3>3. Kept' = Kept \cup {s}
      BY <2>3, <3>1 DEF Kept
    <3>4. Kept' \subseteq ended'
      BY <1>1, <1>2, <3>3
    <3>5. EachSpanOnce'
      BY <1>1, <2>2, <2>4, <2>5, <2>8, <3>1, <3>4 DEF EachSpanOnce, Kept
    <3>6. QED
      BY <1>1, <1>2, <1>4, <2>2, <2>6, <3>1, <3>2, <3>3, <3>5
  <2>9. QED
    BY <2>7, <2>8
<1>5. QED
  BY <1>3, <1>4

LEMMA SpansAre ==
  ASSUME TraceInv
  PROVE  /\ MaxAgentSpans \in Nat /\ "none" \notin Traced
         /\ pipeline \in [Traced -> {"idle", "runs", "calls", "caught", "returned", "raised"}]
         /\ agentSpans \in [Traced -> 0 .. MaxAgentSpans]
         /\ begun \in Seq(Traced) /\ Range(begun) \subseteq Traced
         /\ DOMAIN begun = 1 .. Len(begun) /\ Len(begun) \in Nat
         /\ traceOf \in [Spans -> Traced \cup {"none"}]
         /\ \A p \in Traced : Root(p) \in Spans /\ AgentSpan(p) \in Spans
         /\ \A p \in Traced, i \in 0 .. MaxAgentSpans : <<p, i>> \in Spans
         /\ \A s \in Spans : s[1] \in Traced /\ s[2] \in 0 .. MaxAgentSpans /\ s = <<s[1], s[2]>>
         /\ Kept \subseteq ended /\ ended \subseteq Spans
<1>1. /\ MaxAgentSpans \in Nat /\ "none" \notin Traced
      /\ pipeline \in [Traced -> {"idle", "runs", "calls", "caught", "returned", "raised"}]
      /\ agentSpans \in [Traced -> 0 .. MaxAgentSpans]
      /\ begun \in Seq(Traced)
      /\ traceOf \in [Spans -> Traced \cup {"none"}] /\ ended \subseteq Spans
  BY TracesAssumption DEF TraceInv, TracesTypeOK
<1>2. Range(begun) \subseteq Traced /\ DOMAIN begun = 1 .. Len(begun) /\ Len(begun) \in Nat
  BY <1>1 DEF Range
<1>3. /\ \A p \in Traced, i \in 0 .. MaxAgentSpans : <<p, i>> \in Spans
      /\ \A s \in Spans : s[1] \in Traced /\ s[2] \in 0 .. MaxAgentSpans /\ s = <<s[1], s[2]>>
  BY DEF Spans
<1>4. \A p \in Traced : Root(p) \in Spans /\ AgentSpan(p) \in Spans
  BY <1>1, <1>3 DEF Root, AgentSpan
<1>5. Kept \subseteq ended
  BY DEF TraceInv, EachSpanOnce, Kept
<1>6. QED
  BY <1>1, <1>2, <1>3, <1>4, <1>5

\* The three ways in which a span ends.
LEMMA EndKeeps ==
  ASSUME TraceInv, NEW p \in Traced, NEW s \in Spans, NEW to \in {"runs", "caught", "returned", "raised"},
         NEW metrics \in BOOLEAN, NEW yes \in BOOLEAN, NEW ok \in BOOLEAN,
         \/ pipeline[p] = "calls" /\ s = AgentSpan(p) /\ to \in {"runs", "caught"}
         \/ pipeline[p] \in {"runs", "caught"} /\ s = Root(p) /\ to \in {"returned", "raised"},
         EndSpan(s, metrics, yes, ok), PipelineGoes(p, to),
         UNCHANGED <<wrapped, agentSpans, begun, traceOf, unended, wholly>>
  PROVE  TraceInv'
<1>1. /\ pipeline' = [pipeline EXCEPT ![p] = to] /\ pipeline'[p] = to
      /\ \A q \in Traced : q # p => pipeline'[q] = pipeline[q]
  BY SpansAre DEF PipelineGoes
<1>2. /\ s \notin ended /\ s[1] = p /\ s[2] \in {0, agentSpans[p]}
      /\ pipeline[p] \in {"runs", "calls", "caught"}
      /\ IF to \in {"runs", "caught"} THEN s # Root(p) ELSE s = Root(p)
  <2>1. CASE pipeline[p] = "calls" /\ s = AgentSpan(p) /\ to \in {"runs", "caught"}
    <3>1. agentSpans[p] # 0 /\ AgentSpan(p) \notin ended
      BY <2>1 DEF TraceInv, SpansInOrder
    <3>2. QED
      BY <2>1, <3>1 DEF Root, AgentSpan
  <2>2. CASE pipeline[p] \in {"runs", "caught"} /\ s = Root(p) /\ to \in {"returned", "raised"}
    <3>1. Root(p) \notin ended
      BY <2>2 DEF TraceInv, SpansInOrder
    <3>2. QED
      BY <2>2, <3>1 DEF Root
  <2>3. QED
    BY <2>1, <2>2
<1>3. /\ ended' = ended \cup {s}
      /\ spanBuffer' \in Seq(Spans) /\ EachSpanOnce'
      /\ delivered' \subseteq Spans /\ dropped' \subseteq Spans /\ metricsWait' \in BOOLEAN
      /\ IF yes THEN Kept' = Kept \cup {s} /\ openSpans' = openSpans \ {<<s, "own">>}
         ELSE Kept' = Kept /\ openSpans' = openSpans
  BY <1>2, EndSpanIs
<1>4. /\ sampled \subseteq sampled' /\ sampled' \subseteq sampled \cup {traceOf[s]}
      /\ ~wrapped.samples => yes
      /\ traceOf[s] \in sampled => yes
      /\ wrapped.samples /\ yes => traceOf[s] \in sampled'
  <2>1. Sample(traceOf[s], yes)
    BY Zenon DEF EndSpan
  <2>2. QED
    BY <2>1, SampleIs
<1>5. traceOf[s] # "none"
  <2>1. CASE s = Root(p)
    BY <1>2, <2>1 DEF TraceInv, SpansInOrder
  <2>2. CASE s # Root(p)
    <3>1. s = <<p, agentSpans[p]>> /\ agentSpans[p] # 0
      BY <2>2 DEF Root, AgentSpan
    <3>2. agentSpans[p] \in 1 .. MaxAgentSpans /\ ~(agentSpans[p] > agentSpans[p])
      <4>1. agentSpans[p] \in 0 .. MaxAgentSpans /\ MaxAgentSpans \in Nat
        BY SpansAre
      <4>2. QED
        BY <3>1, <4>1
    <3>3. QED
      BY <3>1, <3>2 DEF TraceInv, SpansInOrder
  <2>3. QED
    BY <2>1, <2>2
<1>6. TracesTypeOK'
  <2>1. Root(p) \in Spans /\ traceOf[s] \in Traced
    BY <1>5, SpansAre
  <2>2. /\ wrapped' \in Wrappings /\ begun' \in Seq(Traced) /\ IsInjective(begun')
        /\ agentSpans' \in [Traced -> 0 .. MaxAgentSpans]
        /\ traceOf' \in [Spans -> Traced \cup {"none"}] /\ wholly' \subseteq Traced
    BY DEF TraceInv, TracesTypeOK
  <2>3. sampled' \subseteq Traced /\ openSpans' \subseteq Spans \X {"own", "other"}
    BY <1>3, <1>4, <2>1 DEF TraceInv, TracesTypeOK
  <2>4. ended' \subseteq Spans /\ unended' \subseteq Spans
    BY <1>3, <2>1 DEF TraceInv, TracesTypeOK
  <2>5. pipeline' \in [Traced -> {"idle", "runs", "calls", "caught", "returned", "raised"}]
    BY <1>1, SpansAre
  <2>6. QED
    BY <1>3, <2>2, <2>3, <2>4, <2>5 DEF TracesTypeOK
<1>7. SpansInOrder'
  <2>1. ASSUME NEW q \in Traced
        PROVE  /\ pipeline'[q] = "idle" <=> q \notin Range(begun)
               /\ pipeline'[q] \in {"idle", "runs", "calls", "caught"} => Root(q) \notin ended'
               /\ pipeline'[q] = "calls" => agentSpans[q] # 0 /\ AgentSpan(q) \notin ended'
               /\ pipeline'[q] # "idle" => traceOf[Root(q)] # "none"
    <3>1. CASE q = p
      BY <1>1, <1>2, <1>3, <3>1 DEF TraceInv, SpansInOrder
    <3>2. CASE q # p
      <4>1. Root(q) # s /\ AgentSpan(q) # s
        BY <1>2, <3>2 DEF Root, AgentSpan
      <4>2. QED
        BY <1>1, <1>3, <3>2, <4>1 DEF TraceInv, SpansInOrder
    <3>3. QED
      BY <3>1, <3>2
  <2>2. ASSUME NEW q \in Traced, NEW i \in 1 .. MaxAgentSpans
        PROVE  IF i > agentSpans[q] THEN <<q, i>> \notin ended' /\ traceOf[<<q, i>>] = "none"
               ELSE traceOf[<<q, i>>] # "none"
    <3>1. CASE i > agentSpans[q]
      <4>1. <<q, i>> # s
        <5>1. agentSpans[q] \in 0 .. MaxAgentSpans /\ MaxAgentSpans \in Nat
          BY SpansAre
        <5>2. i # 0 /\ i # agentSpans[q]
          BY <3>1, <5>1
        <5>3. QED
          BY <1>2, <5>2
      <4>2. QED
        BY <1>3, <3>1, <4>1 DEF TraceInv, SpansInOrder
    <3>2. CASE ~(i > agentSpans[q])
      BY <3>2 DEF TraceInv, SpansInOrder
    <3>3. QED
      BY <3>1, <3>2
  <2>3. AgentSpan(p)' = AgentSpan(p) /\ \A q \in Traced : Root(q)' = Root(q) /\ AgentSpan(q)' = AgentSpan(q)
    BY DEF AgentSpan, Root
  <2>4. \A t \in Spans : traceOf[t] # "none" => traceOf[t] \in Range(begun)
    BY DEF TraceInv, SpansInOrder
  <2>5. QED
    BY <2>1, <2>2, <2>3, <2>4 DEF SpansInOrder
<1>8. SampledStays'
  <2>1. openSpans' \subseteq openSpans
    BY <1>3
  <2>2. QED
    BY <1>4, <2>1 DEF TraceInv, SampledStays
<1>9. SampledTracesAreWhole'
  <2>1. ASSUME NEW r \in ended', traceOf[r] \in wholly
        PROVE  r \in Kept'
    <3>1. CASE r = s
      <4>1. yes
        BY <1>4, <2>1, <3>1 DEF TraceInv, SampledStays
      <4>2. QED
        BY <1>3, <3>1, <4>1
    <3>2. CASE r \in ended
      <4>1. r \in Kept
        BY <2>1, <3>2 DEF TraceInv, SampledTracesAreWhole, Kept
      <4>2. QED
        BY <1>3, <4>1
    <3>3. QED
      BY <1>3, <2>1, <3>1, <3>2
  <2>2. QED
    BY <2>1 DEF SampledTracesAreWhole, Kept
<1>10. SpansFollowTheCurrent'
  BY DEF TraceInv, SpansFollowTheCurrent
<1>11. OpenSpansAreAccountedFor'
  <2>1. ASSUME NEW o \in openSpans', ~wrapped.composite, o[1] \in ended'
        PROVE  (o[1][2] = 0 \/ wrapped.broken) /\ o[1] \notin Kept'
    <3>0. o \in openSpans /\ o[1] \in Spans /\ o = <<o[1], o[2]>> /\ o[2] = "own"
      BY <1>3, <2>1 DEF TraceInv, TracesTypeOK, SampledStays
    <3>1. CASE o[1] = s
      <4>1. ~yes
        BY <1>3, <2>1, <3>0, <3>1
      <4>2. wrapped.samples /\ traceOf[s] \notin sampled
        BY <1>4, <4>1
      <4>3. s[2] = 0 \/ wrapped.broken
        BY <2>1, <3>0, <3>1, <4>2 DEF TraceInv, SampledStays
      <4>4. s \notin Kept
        BY <1>2, SpansAre
      <4>5. QED
        BY <1>3, <3>1, <4>1, <4>3, <4>4
    <3>2. CASE o[1] # s
      <4>1. o[1] \in ended
        BY <1>3, <2>1, <3>2
      <4>2. (o[1][2] = 0 \/ wrapped.broken) /\ o[1] \notin Kept
        BY <2>1, <3>0, <4>1 DEF TraceInv, OpenSpansAreAccountedFor, Kept
      <4>3. QED
        BY <1>3, <3>2, <4>2
    <3>3. QED
      BY <3>1, <3>2
  <2>2. \A o \in openSpans' : wrapped.composite => o[2] = "other"
    BY <1>3 DEF TraceInv, OpenSpansAreAccountedFor
  <2>3. ASSUME NEW q \in Traced
        PROVE  /\ pipeline'[q] = "returned" => Root(q) \in ended'
               /\ pipeline'[q] = "raised" => Root(q) \in ended' \cup unended'
    <3>1. CASE q = p
      BY <1>1, <1>2, <1>3, <3>1
    <3>2. CASE q # p
      BY <1>1, <1>3, <3>2 DEF TraceInv, OpenSpansAreAccountedFor
    <3>3. QED
      BY <3>1, <3>2
  <2>4. wrapped' = wrapped /\ \A q \in Traced : Root(q)' = Root(q)
    BY DEF Root
  <2>5. \A o \in openSpans' :
           IF wrapped.composite THEN o[2] = "other"
           ELSE o[1] \in ended' => (o[1][2] = 0 \/ wrapped.broken) /\ o[1] \notin Kept'
    BY <2>1, <2>2
  <2>6. QED
    BY <2>3, <2>4, <2>5 DEF OpenSpansAreAccountedFor, Kept
<1>12. QED
  BY <1>3, <1>6, <1>7, <1>8, <1>9, <1>10, <1>11 DEF TraceInv

LEMMA StartPipelineKeeps ==
  ASSUME TraceInv, NEW p \in Traced, NEW yes \in BOOLEAN, StartPipelineTrace(p, yes)
  PROVE  TraceInv'
<1> DEFINE r == Root(p)
<1>1. /\ pipeline[p] = "idle" /\ pipeline' = [pipeline EXCEPT ![p] = "runs"]
      /\ begun' = Append(begun, p) /\ traceOf' = [traceOf EXCEPT ![r] = p]
      /\ openSpans' = openSpans \cup {<<r, OpensAs>>}
      /\ UNCHANGED <<wrapped, agentSpans, spanBuffer, metricsWait, delivered, dropped, ended,
                     unended>>
  BY DEF StartPipelineTrace, PipelineGoes, TraceStarted, bufferVars
<1>2. /\ wholly' = IF yes THEN wholly \cup {p} ELSE wholly
      /\ sampled \subseteq sampled' /\ sampled' \subseteq sampled \cup {p}
      /\ wrapped.samples /\ yes => p \in sampled'
  <2>1. Sample(p, yes) /\ wholly' = IF yes THEN wholly \cup {p} ELSE wholly
    BY Zenon DEF StartPipelineTrace
  <2>2. QED
    BY <2>1, SampleIs
<1>3. /\ pipeline'[p] = "runs" /\ \A q \in Traced : q # p => pipeline'[q] = pipeline[q]
      /\ r \in Spans /\ traceOf'[r] = p /\ \A s \in Spans : s # r => traceOf'[s] = traceOf[s]
      /\ p \notin Range(begun) /\ r \notin ended /\ p # "none"
      /\ \A q \in Traced, i \in 1 .. MaxAgentSpans : <<q, i>> # r
  <2>1. p \notin Range(begun) /\ r \notin ended
    BY <1>1 DEF TraceInv, SpansInOrder
  <2>2. QED
    BY <1>1, <2>1, SpansAre DEF Root
<1>4. /\ begun' \in Seq(Traced) /\ DOMAIN begun' = 1 .. (Len(begun) + 1)
      /\ DOMAIN begun = 1 .. Len(begun) /\ Len(begun) \in Nat
      /\ begun'[Len(begun) + 1] = p /\ \A j \in 1 .. Len(begun) : begun'[j] = begun[j]
  BY <1>1, SpansAre
<1>5. Range(begun') = Range(begun) \cup {p} /\ IsInjective(begun')
  <2>1. Range(begun') = Range(begun) \cup {p}
    BY <1>4 DEF Range
  <2>2. \A j \in 1 .. Len(begun) : begun[j] # p
    BY <1>3, <1>4 DEF Range
  <2>3. IsInjective(begun)
    BY DEF TraceInv, TracesTypeOK
  <2>4. QED
    BY <1>4, <2>1, <2>2, <2>3 DEF IsInjective
<1>6. OpensAs \in {"own", "other"} /\ (wrapped.composite <=> OpensAs = "other")
  BY DEF OpensAs
<1>7. TracesTypeOK'
  <2>1. pipeline' \in [Traced -> {"idle", "runs", "calls", "caught", "returned", "raised"}]
    BY <1>1, SpansAre
  <2>2. traceOf' \in [Spans -> Traced \cup {"none"}]
    BY <1>1, SpansAre
  <2>3. /\ openSpans' \subseteq Spans \X {"own", "other"} /\ sampled' \subseteq Traced
        /\ wholly' \subseteq Traced
    BY <1>1, <1>2, <1>3, <1>6 DEF TraceInv, TracesTypeOK
  <2>4. QED
    BY <1>1, <1>4, <1>5, <2>1, <2>2, <2>3 DEF TraceInv, TracesTypeOK
<1>8. SpansInOrder'
  <2>1. ASSUME NEW q \in Traced
        PROVE  /\ pipeline'[q] = "idle" <=> q \notin Range(begun')
               /\ pipeline'[q] \in {"idle", "runs", "calls", "caught"} => Root(q) \notin ended
               /\ pipeline'[q] = "calls" => agentSpans[q] # 0 /\ AgentSpan(q) \notin ended
               /\ pipeline'[q] # "idle" => traceOf'[Root(q)] # "none"
    <3>1. CASE q = p
      BY <1>3, <1>5, <3>1
    <3>2. CASE q # p
      <4>1. Root(q) \in Spans /\ Root(q) # r
        BY <3>2, SpansAre DEF Root
      <4>2. QED
        BY <1>3, <1>5, <3>2, <4>1 DEF TraceInv, SpansInOrder
    <3>3. QED
      BY <3>1, <3>2
  <2>2. ASSUME NEW q \in Traced, NEW i \in 1 .. MaxAgentSpans
        PROVE  IF i > agentSpans[q] THEN <<q, i>> \notin ended /\ traceOf'[<<q, i>>] = "none"
               ELSE traceOf'[<<q, i>>] # "none"
    <3>1. <<q, i>> \in Spans
      BY SpansAre
    <3>2. traceOf'[<<q, i>>] = traceOf[<<q, i>>]
      BY <1>3, <3>1
    <3>3. QED
      BY <3>2 DEF TraceInv, SpansInOrder
  <2>3. \A q \in Traced : Root(q)' = Root(q) /\ AgentSpan(q)' = AgentSpan(q)
    BY <1>1 DEF AgentSpan, Root
  <2>4. \A t \in Spans : traceOf'[t] # "none" => traceOf'[t] \in Range(begun')
    BY <1>3, <1>5 DEF TraceInv, SpansInOrder
  <2>5. ended' = ended /\ agentSpans' = agentSpans
    BY <1>1
  <2>6. QED
    BY <2>1, <2>2, <2>3, <2>4, <2>5 DEF SpansInOrder
<1>9. SampledStays'
  <2>1. wholly' \subseteq Range(begun') /\ (wrapped.samples => wholly' \subseteq sampled')
    BY <1>2, <1>5 DEF TraceInv, SampledStays
  <2>2. ASSUME NEW o \in openSpans'
        PROVE  /\ traceOf'[o[1]] # "none" /\ (~wrapped.composite => o[2] = "own")
               /\ ~wrapped.composite /\ ~wrapped.broken /\ wrapped.samples /\ o[1][2] # 0 =>
                    traceOf'[o[1]] \in sampled'
    <3>1. CASE o = <<r, OpensAs>>
      BY <1>3, <1>6, <3>1 DEF Root
    <3>2. CASE o \in openSpans /\ o[1] = r
      BY <1>3, <3>2 DEF Root, TraceInv, SampledStays
    <3>3. CASE o \in openSpans /\ o[1] # r
      <4>1. traceOf'[o[1]] = traceOf[o[1]]
        BY <1>3, <3>3 DEF TraceInv, TracesTypeOK
      <4>2. QED
        BY <1>2, <3>3, <4>1 DEF TraceInv, SampledStays
    <3>4. QED
      BY <1>1, <2>2, <3>1, <3>2, <3>3
  <2>3. wrapped' = wrapped
    BY <1>1
  <2>4. QED
    BY <2>1, <2>2, <2>3 DEF SampledStays
<1>10. EachSpanOnce'
  BY <1>1 DEF TraceInv, EachSpanOnce
<1>11. SampledTracesAreWhole'
  <2>1. ASSUME NEW s \in ended, traceOf'[s] \in wholly'
        PROVE  s \in Range(spanBuffer) \cup delivered \cup dropped
    <3>1. s \in Spans /\ s # r
      BY <1>3, SpansAre
    <3>2. traceOf'[s] = traceOf[s]
      BY <1>3, <3>1
    <3>3. traceOf[s] # p
      BY <1>3, <3>1 DEF TraceInv, SpansInOrder
    <3>4. traceOf[s] \in wholly
      BY <1>2, <2>1, <3>2, <3>3
    <3>5. QED
      BY <3>4 DEF TraceInv, SampledTracesAreWhole
  <2>2. QED
    BY <1>1, <2>1 DEF SampledTracesAreWhole
<1>12. SpansFollowTheCurrent'
  <2>1. ASSUME NEW q \in Traced, NEW i \in 1 .. MaxAgentSpans, traceOf'[<<q, i>>] # "none"
        PROVE  \E j, k \in DOMAIN begun' : begun'[j] = q /\ begun'[k] = traceOf'[<<q, i>>] /\ j <= k
    <3>1. traceOf'[<<q, i>>] = traceOf[<<q, i>>]
      <4>1. <<q, i>> \in Spans
        BY SpansAre
      <4>2. QED
        BY <1>3, <4>1
    <3>2. PICK j \in DOMAIN begun, k \in DOMAIN begun :
            begun[j] = q /\ begun[k] = traceOf[<<q, i>>] /\ j <= k
      BY <2>1, <3>1 DEF TraceInv, SpansFollowTheCurrent
    <3>3. j \in DOMAIN begun' /\ k \in DOMAIN begun' /\ begun'[j] = begun[j] /\ begun'[k] = begun[k]
      BY <1>4
    <3>4. QED
      BY <3>1, <3>2, <3>3
  <2>2. QED
    BY <2>1 DEF SpansFollowTheCurrent
<1>13. OpenSpansAreAccountedFor'
  <2>1. ASSUME NEW o \in openSpans'
        PROVE  IF wrapped.composite THEN o[2] = "other"
               ELSE o[1] \in ended =>
                      /\ o[1][2] = 0 \/ wrapped.broken
                      /\ o[1] \notin Range(spanBuffer) \cup delivered \cup dropped
    <3>1. CASE o = <<r, OpensAs>>
      BY <1>3, <1>6, <3>1
    <3>2. CASE o \in openSpans
      BY <3>2 DEF TraceInv, OpenSpansAreAccountedFor
    <3>3. QED
      BY <1>1, <2>1, <3>1, <3>2
  <2>2. ASSUME NEW q \in Traced
        PROVE  /\ pipeline'[q] = "returned" => Root(q) \in ended
               /\ pipeline'[q] = "raised" => Root(q) \in ended \cup unended
    BY <1>3 DEF TraceInv, OpenSpansAreAccountedFor
  <2>3. \A q \in Traced : Root(q)' = Root(q)
    BY DEF Root
  <2>4. UNCHANGED <<wrapped, ended, unended, spanBuffer, delivered, dropped>>
    BY <1>1
  <2>5. QED
    BY <2>1, <2>2, <2>3, <2>4 DEF OpenSpansAreAccountedFor
<1>14. QED
  BY <1>7, <1>8, <1>9, <1>10, <1>11, <1>12, <1>13 DEF TraceInv

LEMMA StartAgentSpanKeeps ==
  ASSUME TraceInv, NEW p \in Traced, NEW yes \in BOOLEAN, StartAgentSpan(p, yes)
  PROVE  TraceInv'
<1> DEFINE n == agentSpans[p] + 1
           s == <<p, n>>
           t == Last(begun)
<1>1. /\ pipeline[p] = "runs" /\ agentSpans[p] < MaxAgentSpans
      /\ pipeline' = [pipeline EXCEPT ![p] = "calls"]
      /\ agentSpans' = [agentSpans EXCEPT ![p] = n]
      /\ traceOf' = [traceOf EXCEPT ![s] = t]
      /\ openSpans' = IF yes THEN openSpans \cup {<<s, OpensAs>>} ELSE openSpans
      /\ UNCHANGED <<wrapped, begun, spanBuffer, metricsWait, delivered, dropped, ended, unended,
                     wholly>>
  BY DEF StartAgentSpan, PipelineGoes, TraceStarted, bufferVars
<1>2. /\ sampled \subseteq sampled' /\ sampled' \subseteq sampled \cup {t}
      /\ wrapped.samples /\ yes => t \in sampled'
  <2>1. Sample(t, yes)
    BY Zenon DEF StartAgentSpan
  <2>2. QED
    BY <2>1, SampleIs
<1>3. /\ agentSpans[p] \in 0 .. MaxAgentSpans /\ MaxAgentSpans \in Nat /\ n \in 1 .. MaxAgentSpans
      /\ s \in Spans /\ n > agentSpans[p]
  <2>1. agentSpans[p] \in 0 .. MaxAgentSpans /\ MaxAgentSpans \in Nat
    BY SpansAre
  <2>2. n \in 1 .. MaxAgentSpans /\ n \in 0 .. MaxAgentSpans /\ n > agentSpans[p]
    BY <1>1, <2>1
  <2> HIDE DEF n
  <2>3. s \in Spans
    BY <2>2, SpansAre
  <2>4. QED
    BY <2>1, <2>2, <2>3
\* The pipeline has begun, so there is a current one.
<1>4. \E j \in DOMAIN begun : begun[j] = p
  <2>1. p \in Range(begun)
    BY <1>1 DEF TraceInv, SpansInOrder
  <2>2. QED
    BY <2>1 DEF Range
<1>5. /\ Len(begun) \in DOMAIN begun /\ t = begun[Len(begun)] /\ t \in Traced
      /\ t \in Range(begun) /\ t # "none" /\ \A j \in DOMAIN begun : j <= Len(begun)
  <2>1. Len(begun) \in DOMAIN begun /\ \A j \in DOMAIN begun : j <= Len(begun)
    BY <1>4, SpansAre
  <2>2. t = begun[Len(begun)]
    BY DEF Last
  <2>3. t \in Range(begun)
    BY <2>1, <2>2 DEF Range
  <2>4. QED
    BY <2>1, <2>2, <2>3, SpansAre
<1> HIDE DEF t, n
<1>6. s \notin ended /\ traceOf[s] = "none"
  BY <1>3 DEF TraceInv, SpansInOrder
<1>7. /\ pipeline'[p] = "calls" /\ \A q \in Traced : q # p => pipeline'[q] = pipeline[q]
      /\ traceOf'[s] = t /\ \A r \in Spans : r # s => traceOf'[r] = traceOf[r]
      /\ agentSpans' \in [Traced -> 0 .. MaxAgentSpans]
      /\ agentSpans'[p] = n /\ \A q \in Traced : q # p => agentSpans'[q] = agentSpans[q]
      /\ \A q \in Traced : Root(q) # s /\ Root(q) \in Spans
  <2>1. \A q \in Traced : Root(q) # s
    BY <1>3 DEF Root
  <2>2. agentSpans' \in [Traced -> 0 .. MaxAgentSpans]
    <3>1. n \in 0 .. MaxAgentSpans
      BY <1>3
    <3>2. QED
      BY <1>1, <3>1, SpansAre
  <2>3. QED
    BY <1>1, <1>3, <2>1, <2>2, SpansAre
<1>8. OpensAs \in {"own", "other"} /\ (wrapped.composite <=> OpensAs = "other")
  BY DEF OpensAs
<1>9. TracesTypeOK'
  <2>1. pipeline' \in [Traced -> {"idle", "runs", "calls", "caught", "returned", "raised"}]
    BY <1>1, SpansAre
  <2>2. traceOf' \in [Spans -> Traced \cup {"none"}]
    BY <1>1, <1>5, SpansAre
  <2>3. sampled' \subseteq Traced
    BY <1>2, <1>5 DEF TraceInv, TracesTypeOK
  <2>4. openSpans' \subseteq Spans \X {"own", "other"}
    <3>1. openSpans \subseteq Spans \X {"own", "other"}
      BY DEF TraceInv, TracesTypeOK
    <3>2. <<s, OpensAs>> \in Spans \X {"own", "other"}
      BY <1>3, <1>8
    <3> HIDE DEF s
    <3>3. QED
      BY <1>1, <3>1, <3>2
  <2>5. QED
    BY <1>1, <1>7, <2>1, <2>2, <2>3, <2>4 DEF TraceInv, TracesTypeOK
<1>10. SpansInOrder'
  <2>1. ASSUME NEW q \in Traced
        PROVE  /\ pipeline'[q] = "idle" <=> q \notin Range(begun)
               /\ pipeline'[q] \in {"idle", "runs", "calls", "caught"} => Root(q) \notin ended
               /\ pipeline'[q] = "calls" => agentSpans'[q] # 0 /\ <<q, agentSpans'[q]>> \notin ended
               /\ pipeline'[q] # "idle" => traceOf'[Root(q)] # "none"
    <3>1. CASE q = p
      BY <1>1, <1>3, <1>6, <1>7, <3>1 DEF TraceInv, SpansInOrder
    <3>2. CASE q # p
      BY <1>7, <3>2 DEF TraceInv, SpansInOrder, AgentSpan
    <3>3. QED
      BY <3>1, <3>2
  <2>2. ASSUME NEW q \in Traced, NEW i \in 1 .. MaxAgentSpans
        PROVE  IF i > agentSpans'[q] THEN <<q, i>> \notin ended /\ traceOf'[<<q, i>>] = "none"
               ELSE traceOf'[<<q, i>>] # "none"
    <3>1. <<q, i>> \in Spans
      BY SpansAre
    <3>2. CASE <<q, i>> = s
      BY <1>5, <1>7, <3>2
    <3>3. CASE <<q, i>> # s
      <4>1. i > agentSpans'[q] <=> i > agentSpans[q]
        BY <1>3, <1>7, <3>3 DEF n
      <4>2. QED
        BY <1>7, <3>1, <3>3, <4>1 DEF TraceInv, SpansInOrder
    <3>4. QED
      BY <3>2, <3>3
  <2>3. \A q \in Traced : Root(q)' = Root(q) /\ AgentSpan(q)' = <<q, agentSpans'[q]>>
    BY DEF AgentSpan, Root
  <2>4. \A r \in Spans : traceOf'[r] # "none" => traceOf'[r] \in Range(begun)
    BY <1>5, <1>7 DEF TraceInv, SpansInOrder
  <2>5. ended' = ended /\ begun' = begun
    BY <1>1
  <2>6. QED
    BY <2>1, <2>2, <2>3, <2>4, <2>5 DEF SpansInOrder
<1>11. SampledStays'
  <2>1. ASSUME NEW o \in openSpans'
        PROVE  /\ traceOf'[o[1]] # "none" /\ (~wrapped.composite => o[2] = "own")
               /\ ~wrapped.composite /\ ~wrapped.broken /\ wrapped.samples /\ o[1][2] # 0 =>
                    traceOf'[o[1]] \in sampled'
    <3>1. CASE o = <<s, OpensAs>> /\ yes
      BY <1>2, <1>5, <1>7, <1>8, <3>1
    <3>2. CASE o \in openSpans
      <4>1. o[1] \in Spans /\ o[1] # s
        BY <1>6, <3>2 DEF TraceInv, TracesTypeOK, SampledStays
      <4>2. traceOf'[o[1]] = traceOf[o[1]]
        BY <1>7, <4>1
      <4>3. QED
        BY <1>2, <3>2, <4>2 DEF TraceInv, SampledStays
    <3>3. QED
      BY <1>1, <2>1, <3>1, <3>2
  <2>2. QED
    BY <1>1, <1>2, <2>1 DEF TraceInv, SampledStays
<1>12. EachSpanOnce'
  BY <1>1 DEF TraceInv, EachSpanOnce
<1>13. SampledTracesAreWhole'
  <2>1. \A r \in ended : traceOf'[r] = traceOf[r]
    BY <1>6, <1>7, SpansAre
  <2>2. QED
    BY <1>1, <2>1 DEF TraceInv, SampledTracesAreWhole
<1>14. SpansFollowTheCurrent'
  <2>1. ASSUME NEW q \in Traced, NEW i \in 1 .. MaxAgentSpans, traceOf'[<<q, i>>] # "none"
        PROVE  \E j, k \in DOMAIN begun : begun[j] = q /\ begun[k] = traceOf'[<<q, i>>] /\ j <= k
    <3>1. CASE <<q, i>> = s
      BY <1>4, <1>5, <1>7, <3>1
    <3>2. CASE <<q, i>> # s
      <4>1. <<q, i>> \in Spans
        BY SpansAre
      <4>2. QED
        BY <1>7, <2>1, <3>2, <4>1 DEF TraceInv, SpansFollowTheCurrent
    <3>3. QED
      BY <3>1, <3>2
  <2>2. QED
    BY <1>1, <2>1 DEF SpansFollowTheCurrent
<1>15. OpenSpansAreAccountedFor'
  <2>1. ASSUME NEW o \in openSpans'
        PROVE  IF wrapped.composite THEN o[2] = "other"
               ELSE o[1] \in ended =>
                      /\ o[1][2] = 0 \/ wrapped.broken
                      /\ o[1] \notin Range(spanBuffer) \cup delivered \cup dropped
    <3>1. CASE o = <<s, OpensAs>>
      BY <1>6, <1>8, <3>1
    <3>2. CASE o \in openSpans
      BY <3>2 DEF TraceInv, OpenSpansAreAccountedFor
    <3>3. QED
      BY <1>1, <2>1, <3>1, <3>2
  <2>2. ASSUME NEW q \in Traced
        PROVE  /\ pipeline'[q] = "returned" => Root(q) \in ended
               /\ pipeline'[q] = "raised" => Root(q) \in ended \cup unended
    BY <1>7 DEF TraceInv, OpenSpansAreAccountedFor
  <2>3. \A q \in Traced : Root(q)' = Root(q)
    BY DEF Root
  <2>4. UNCHANGED <<wrapped, ended, unended, spanBuffer, delivered, dropped>>
    BY <1>1
  <2>5. QED
    BY <2>1, <2>2, <2>3, <2>4 DEF OpenSpansAreAccountedFor
<1>16. QED
  BY <1>9, <1>10, <1>11, <1>12, <1>13, <1>14, <1>15 DEF TraceInv

\* The ways in which a pipeline goes on or ends without ending a span.
LEMMA AbandonedKeeps ==
  ASSUME TraceInv, NEW p \in Traced, NEW to \in {"caught", "raised"},
         NEW spans \in SUBSET {Root(p), AgentSpan(p)},
         \/ pipeline[p] = "calls"
         \/ pipeline[p] = "runs" /\ to = "raised",
         to = "raised" => Root(p) \in spans,
         PipelineGoes(p, to), LeavesOpen(spans)
  PROVE  TraceInv'
<1>1. /\ pipeline' = [pipeline EXCEPT ![p] = to] /\ unended' = unended \cup spans
      /\ UNCHANGED <<wrapped, agentSpans, begun, traceOf, sampled, openSpans, spanBuffer,
                     metricsWait, delivered, dropped, ended, wholly>>
  BY Zenon DEF LeavesOpen, PipelineGoes, bufferVars
<1>2. pipeline'[p] = to /\ \A q \in Traced : q # p => pipeline'[q] = pipeline[q]
  BY <1>1, SpansAre
<1>3. TracesTypeOK'
  <2>1. pipeline' \in [Traced -> {"idle", "runs", "calls", "caught", "returned", "raised"}]
    BY <1>1, SpansAre
  <2>2. unended' \subseteq Spans
    <3>1. unended \subseteq Spans /\ Root(p) \in Spans /\ AgentSpan(p) \in Spans
      BY SpansAre DEF TraceInv, TracesTypeOK
    <3>2. spans \subseteq Spans
      BY <3>1, Zenon
    <3>3. QED
      BY <1>1, <3>1, <3>2, Zenon
  <2>3. QED
    BY <1>1, <2>1, <2>2 DEF TraceInv, TracesTypeOK
<1>4. SpansInOrder'
  BY <1>1, <1>2 DEF TraceInv, SpansInOrder, Root, AgentSpan
<1>5. OpenSpansAreAccountedFor'
  BY <1>1, <1>2 DEF TraceInv, OpenSpansAreAccountedFor, Root
<1>6. QED
  BY <1>1, <1>3, <1>4, <1>5
     DEF TraceInv, SampledStays, EachSpanOnce, SampledTracesAreWhole, SpansFollowTheCurrent

\* flush() and shutdown() keep what the buffer held.
LEMMA SendingKeeps ==
  ASSUME TraceInv, NEW ok \in BOOLEAN, Flush(spanBuffer, metricsWait, ok),
         UNCHANGED <<wrapped, pipeline, agentSpans, begun, traceOf, ended, unended>>,
         openSpans' \subseteq openSpans,
         \/ sampled' = sampled /\ wholly' = wholly
         \/ /\ sampled' = {} /\ wholly' = {}
            /\ ~wrapped.broken => openSpans' = {}
  PROVE  TraceInv'
<1>1. /\ spanBuffer \in Seq(Spans) /\ metricsWait \in BOOLEAN
      /\ delivered \subseteq Spans /\ dropped \subseteq Spans
      /\ IsInjective(spanBuffer) /\ Range(spanBuffer) \cap (delivered \cup dropped) = {}
      /\ delivered \cap dropped = {} /\ Kept \subseteq ended
      /\ wrapped.broken => delivered \cup dropped = {}
      /\ BatchSize \in Nat \ {0}
  BY TracesAssumption DEF TraceInv, TracesTypeOK, EachSpanOnce, Kept
<1>2. /\ spanBuffer' \in Seq(Spans) /\ IsInjective(spanBuffer')
      /\ Range(spanBuffer') \cap (delivered' \cup dropped') = {}
      /\ delivered' \cap dropped' = {} /\ delivered' \subseteq Spans /\ dropped' \subseteq Spans
      /\ Kept' = Range(spanBuffer) \cup delivered \cup dropped
      /\ IF wrapped.broken THEN delivered' \cup dropped' = {} ELSE Len(spanBuffer') = 0
      /\ metricsWait' \in BOOLEAN
  BY <1>1, FlushIs
<1>3. Kept' = Kept
  BY <1>2 DEF Kept
<1>4. EachSpanOnce'
  BY <1>1, <1>2, <1>3 DEF EachSpanOnce, Kept
<1>5. TracesTypeOK'
  BY <1>2 DEF TraceInv, TracesTypeOK
<1>6. SpansInOrder' /\ SpansFollowTheCurrent'
  BY DEF TraceInv, SpansInOrder, SpansFollowTheCurrent, Root, AgentSpan
<1>7. SampledStays'
  BY DEF TraceInv, SampledStays
<1>8. SampledTracesAreWhole'
  BY <1>3 DEF TraceInv, SampledTracesAreWhole, Kept
<1>9. OpenSpansAreAccountedFor'
  BY <1>3 DEF TraceInv, OpenSpansAreAccountedFor, Kept, Root
<1>10. QED
  BY <1>4, <1>5, <1>6, <1>7, <1>8, <1>9 DEF TraceInv

LEMMA TraceInvNext == TraceInv /\ [TracesNext]_traceVars => TraceInv'
<1> SUFFICES ASSUME TraceInv, [TracesNext]_traceVars
             PROVE  TraceInv'
  OBVIOUS
<1>1. ASSUME NEW p \in Traced, NEW yes \in BOOLEAN, NEW ok \in BOOLEAN,
             NEW recorded \in BOOLEAN, AgentReturns(p, recorded, yes, ok)
      PROVE  TraceInv'
  <2> DEFINE to == IF EndRaises(yes) THEN "caught" ELSE "runs"
  <2>1. /\ pipeline[p] = "calls" /\ EndSpan(AgentSpan(p), recorded, yes, ok)
        /\ PipelineGoes(p, to)
        /\ UNCHANGED <<wrapped, agentSpans, begun, traceOf, unended, wholly>>
    BY <1>1, Zenon DEF AgentReturns
  <2>2. to \in {"runs", "caught", "returned", "raised"} /\ to \in {"runs", "caught"}
    OBVIOUS
  <2> HIDE DEF to
  <2>3. AgentSpan(p) \in Spans
    BY SpansAre
  <2>4. QED
    BY <2>1, <2>2, <2>3, EndKeeps
<1>2. ASSUME NEW p \in Traced, NEW yes \in BOOLEAN, NEW ok \in BOOLEAN, AgentRaises(p, yes, ok)
      PROVE  TraceInv'
  <2>1. /\ pipeline[p] = "calls" /\ EndSpan(AgentSpan(p), FALSE, yes, ok)
        /\ PipelineGoes(p, "caught")
        /\ UNCHANGED <<wrapped, agentSpans, begun, traceOf, unended, wholly>>
    BY <1>2, Zenon DEF AgentRaises
  <2>2. AgentSpan(p) \in Spans
    BY SpansAre
  <2>3. /\ FALSE \in BOOLEAN /\ "caught" \in {"runs", "caught"}
        /\ "caught" \in {"runs", "caught", "returned", "raised"}
    OBVIOUS
  <2>4. QED
    BY <2>1, <2>2, <2>3, EndKeeps, Zenon
<1>3. ASSUME NEW p \in Traced, NEW yes \in BOOLEAN, NEW ok \in BOOLEAN,
             EndPipelineTrace(p, yes, ok)
      PROVE  TraceInv'
  <2> DEFINE to == IF EndRaises(yes) THEN "raised" ELSE "returned"
  <2>1. /\ pipeline[p] \in {"runs", "caught"} /\ EndSpan(Root(p), FALSE, yes, ok)
        /\ PipelineGoes(p, to)
        /\ UNCHANGED <<wrapped, agentSpans, begun, traceOf, unended, wholly>>
    BY <1>3, Zenon DEF EndPipelineTrace
  <2>2. /\ to \in {"runs", "caught", "returned", "raised"} /\ to \in {"returned", "raised"}
        /\ FALSE \in BOOLEAN
    OBVIOUS
  <2>3. Root(p) \in Spans
    BY SpansAre
  <2> HIDE DEF to
  <2>4. QED
    BY <2>1, <2>2, <2>3, EndKeeps, Zenon
<1>4. ASSUME NEW ok \in BOOLEAN, FlushAll(ok)
      PROVE  TraceInv'
  <2>1. /\ Flush(spanBuffer, metricsWait, ok)
        /\ UNCHANGED <<wrapped, pipeline, agentSpans, begun, traceOf, sampled, openSpans, ended,
                       unended, wholly>>
    BY <1>4, Zenon DEF FlushAll
  <2>2. QED
    BY <2>1, SendingKeeps
<1>5. ASSUME NEW ok \in BOOLEAN, Shutdown(ok)
      PROVE  TraceInv'
  <2>1. /\ Flush(spanBuffer, metricsWait, ok) /\ sampled' = {} /\ wholly' = {}
        /\ openSpans' = IF wrapped.broken /\ (spanBuffer # <<>> \/ metricsWait)
                        THEN openSpans ELSE {}
        /\ UNCHANGED <<wrapped, pipeline, agentSpans, begun, traceOf, ended, unended>>
    BY <1>5, Zenon DEF Shutdown
  <2>2. openSpans' \subseteq openSpans /\ (~wrapped.broken => openSpans' = {})
    BY <2>1
  <2>3. QED
    BY <2>1, <2>2, SendingKeeps
<1>6. ASSUME NEW p \in Traced, AgentRejected(p) \/ AgentAbandoned(p) \/ PipelineAbandoned(p)
      PROVE  TraceInv'
  <2>1. CASE AgentRejected(p)
    BY <2>1, AbandonedKeeps DEF AgentRejected
  <2>2. CASE AgentAbandoned(p)
    BY <2>2, AbandonedKeeps DEF AgentAbandoned
  <2>3. CASE PipelineAbandoned(p)
    BY <2>3, AbandonedKeeps DEF PipelineAbandoned
  <2>4. QED
    BY <1>6, <2>1, <2>2, <2>3
<1>7. CASE TracesNext
  BY <1>1, <1>2, <1>3, <1>4, <1>5, <1>6, <1>7, StartPipelineKeeps, StartAgentSpanKeeps,
     Zenon DEF TracesNext
<1>8. CASE UNCHANGED traceVars
  <2>1. UNCHANGED <<wrapped, pipeline, agentSpans, begun, traceOf, sampled, openSpans,
                    spanBuffer, metricsWait, delivered, dropped, ended, unended, wholly>>
    BY <1>8, Zenon DEF traceVars, bufferVars
  <2>2. QED
    BY <2>1 DEF TraceInv, TracesTypeOK, SpansInOrder, SampledStays, EachSpanOnce,
                SampledTracesAreWhole, SpansFollowTheCurrent, OpenSpansAreAccountedFor, Root,
                AgentSpan
<1>9. QED
  BY <1>7, <1>8

\* What is committed, saved, sent, traced and registered is neither lost nor told wrongly.
THEOREM RecordsStayKept == ServicesSpec => []RecordsAreKept
<1> DEFINE Inv == GitInv /\ SnapshotInv /\ MailInv /\ TraceInv /\ FileInv
<1>1. ServicesInit => Inv
  BY GitInvInit, SnapshotInvInit, MailInvInit, TraceInvInit, FileInvInit DEF ServicesInit
<1>2. Inv /\ [ServicesNext]_servicesVars => Inv'
  BY OnePartMoves, GitInvNext, SnapshotInvNext, MailInvNext, TraceInvNext, FileInvNext
<1>3. Inv => RecordsAreKept
  BY GitIsSafe DEF SnapshotInv, MailInv, TraceInv, FileInv, RecordsAreKept
<1>4. QED
  BY <1>1, <1>2, <1>3, PTL DEF ServicesSpec

-----------------------------------------------------------------------------
(***************************************************************************)
(* Types of the services no invariant above has typed yet.                 *)
(***************************************************************************)
\* A registration's number is one that was given out, and a sweep's size that of a set of
\* names.
ServersTypedInv == ServersTypeOK /\ ServersInv /\ SweepInv

LEMMA ServersTypedInit == ServersInit => ServersTypedInv
<1> SUFFICES ASSUME ServersInit PROVE ServersTypedInv
  OBVIOUS
<1>1. Cardinality(Names) \in Nat
  BY ModelServersAssumption, FS_CardinalityType
<1>2. ServersTypeOK
  BY <1>1, ModelServersAssumption DEF ServersInit, ServersTypeOK, NoCheck, NoSweep
<1>3. QED
  BY <1>2, ServersInvInit, SweepInvInit DEF ServersTypedInv

LEMMA ServersTypedNext ==
  ASSUME ServersTypedInv, [ServersNext]_serverVars
  PROVE  ServersTypedInv'
<1> DEFINE Size == Cardinality(Registered)
<1>1. Size \in 0 .. Cardinality(Names) /\ Cardinality(Names) \in Nat
  BY ModelServersAssumption, FS_Subset, FS_CardinalityType DEF Registered
<1>2. ServersInv' /\ SweepInv'
  BY ServersInvNext, SweepInvNext DEF ServersTypedInv
<1>3. registrations \in Nat /\ registrations <= MaxRegistrations
  BY ModelServersAssumption DEF ServersTypedInv, ServersTypeOK
<1>4. ASSUME NEW n \in Names, Register(n)
      PROVE  ServersTypeOK'
  <2>1. registrations' = registrations + 1 /\ registrations' <= MaxRegistrations
        /\ registrations \in 0 .. registrations'
    BY <1>3, <1>4, ModelServersAssumption DEF Register
  <2>2. 0 .. registrations \subseteq 0 .. registrations' /\ registrations' \in 0 .. registrations'
        /\ registrations' \in 0 .. MaxRegistrations
    BY <1>3, <2>1, ModelServersAssumption
  <2>3. endpoint' \in [Names -> 0 .. registrations'] /\ inserted' \in [Names -> 0 .. registrations']
    BY <1>4, <2>1, <2>2 DEF ServersTypedInv, ServersTypeOK, Register
  <2>4. check' = check /\ sweep' = sweep /\ vouched' = vouched /\ healthy' = healthy
        /\ raced' \subseteq Names
    BY <1>4 DEF ServersTypedInv, ServersTypeOK, Register
  <2>5. check' \in [Checkers -> [phase : {"idle", "health", "tags"},
                             name : Names \cup {"none"}, as : 0 .. registrations']]
    BY <2>2, <2>4 DEF ServersTypedInv, ServersTypeOK
  <2>6. sweep' \in [phase : {"idle", "next", "checks", "raised"}, at : 0 .. registrations',
                size : 0 .. Cardinality(Names), missed : SUBSET Names]
    BY <2>2, <2>4 DEF ServersTypedInv, ServersTypeOK
  <2>7. vouched' \in [Names -> 0 .. registrations']
    BY <2>2, <2>4 DEF ServersTypedInv, ServersTypeOK
  <2>8. QED
    BY <2>2, <2>3, <2>4, <2>5, <2>6, <2>7 DEF ServersTypedInv, ServersTypeOK
<1>5. ASSUME NEW n \in Names, Unregister(n)
      PROVE  ServersTypeOK'
  BY <1>3, <1>5 DEF ServersTypedInv, ServersTypeOK, Unregister
<1>6. ASSUME NEW n \in Names, NEW c \in Checks, StartCheck(c, n)
      PROVE  ServersTypeOK'
  BY <1>6 DEF ServersTypedInv, ServersTypeOK, StartCheck, Checking, Checkers
<1>7. ASSUME NEW n \in Names, SweepNext(n)
      PROVE  ServersTypeOK'
  BY <1>7 DEF ServersTypedInv, ServersTypeOK, SweepNext, Checking, Checkers
<1>8. ASSUME NEW c \in Checkers, AsksForTags(c)
      PROVE  ServersTypeOK'
  BY <1>8 DEF ServersTypedInv, ServersTypeOK, AsksForTags
<1>9. ASSUME NEW c \in Checkers, NEW ok \in BOOLEAN, CheckEnds(c, ok)
      PROVE  ServersTypeOK'
  <2>1. check[c].name \in Names
    BY <1>9 DEF ServersTypedInv, ServersInv, CheckEnds
  <2>2. 0 \in 0 .. registrations /\ check[c].as \in 0 .. registrations
    BY <1>3 DEF ServersTypedInv, ServersTypeOK
  <2>3. check' \in [Checkers -> [phase : {"idle", "health", "tags"},
                             name : Names \cup {"none"}, as : 0 .. registrations]]
    BY <1>9, <2>2 DEF ServersTypedInv, ServersTypeOK, CheckEnds, NoCheck
  <2>4. healthy' \subseteq Names /\ raced' \subseteq Names
    BY <1>9, <2>1 DEF ServersTypedInv, ServersTypeOK, CheckEnds
  <2>5. vouched' \in [Names -> 0 .. registrations]
    BY <1>9, <2>1, <2>2 DEF ServersTypedInv, ServersTypeOK, CheckEnds
  <2>6. sweep' \in [phase : {"idle", "next", "checks", "raised"}, at : 0 .. registrations,
                size : 0 .. Cardinality(Names), missed : SUBSET Names]
    <3>1. CASE c = "sweep"
      BY <1>9, <3>1 DEF ServersTypedInv, ServersTypeOK, CheckEnds
    <3>2. CASE c # "sweep"
      BY <1>9, <3>2 DEF ServersTypedInv, ServersTypeOK, CheckEnds
    <3>3. QED
      BY <3>1, <3>2
  <2>7. UNCHANGED <<endpoint, inserted, registrations>>
    BY <1>9 DEF CheckEnds
  <2>8. QED
    BY <2>3, <2>4, <2>5, <2>6, <2>7 DEF ServersTypedInv, ServersTypeOK
<1>10. ASSUME NEW c \in Checkers, CheckRaises(c)
       PROVE  ServersTypeOK'
  <2>1. /\ check' = [check EXCEPT ![c] = NoCheck]
        /\ sweep' \in {sweep, [NoSweep EXCEPT !.phase = "raised"]}
        /\ UNCHANGED <<endpoint, inserted, registrations, healthy, vouched, raced>>
    BY <1>10 DEF CheckRaises
  <2>2. 0 \in 0 .. registrations /\ 0 \in 0 .. Cardinality(Names)
    BY <1>1, <1>3
  <2>3. sweep' \in [phase : {"idle", "next", "checks", "raised"}, at : 0 .. registrations,
                size : 0 .. Cardinality(Names), missed : SUBSET Names]
    BY <2>1, <2>2 DEF NoSweep, ServersTypedInv, ServersTypeOK
  <2>4. check' \in [Checkers -> [phase : {"idle", "health", "tags"},
                             name : Names \cup {"none"}, as : 0 .. registrations]]
    BY <2>1, <2>2 DEF NoCheck, ServersTypedInv, ServersTypeOK
  <2>5. QED
    BY <2>1, <2>3, <2>4, Zenon DEF ServersTypedInv, ServersTypeOK
<1>11. ASSUME StartSweep PROVE ServersTypeOK'
  <2>1. /\ sweep' = [phase |-> "next", at |-> 0, size |-> Size, missed |-> Registered]
        /\ UNCHANGED <<endpoint, inserted, registrations, healthy, check, vouched, raced>>
    BY <1>11 DEF StartSweep
  <2>2. Registered \subseteq Names
    BY DEF Registered
  <2> HIDE DEF Size
  <2>3. sweep' \in [phase : {"idle", "next", "checks", "raised"}, at : 0 .. registrations,
                    size : 0 .. Cardinality(Names), missed : SUBSET Names]
    BY <1>1, <1>3, <2>1, <2>2
  <2>4. QED
    BY <2>1, <2>3, Zenon DEF ServersTypedInv, ServersTypeOK, Checkers
<1>12. ASSUME SweepEnds PROVE ServersTypeOK'
  <2>1. sweep' \in {[NoSweep EXCEPT !.phase = "raised"], [NoSweep EXCEPT !.missed = sweep.missed]}
        /\ UNCHANGED <<endpoint, inserted, registrations, healthy, check, vouched, raced>>
    BY <1>12 DEF SweepEnds
  <2>2. sweep' \in [phase : {"idle", "next", "checks", "raised"}, at : 0 .. registrations,
                    size : 0 .. Cardinality(Names), missed : SUBSET Names]
    <3>1. sweep.missed \subseteq Names /\ 0 \in 0 .. Cardinality(Names) /\ 0 \in 0 .. registrations
      BY <1>1, <1>3 DEF ServersTypedInv, ServersTypeOK
    <3>2. QED
      BY <2>1, <3>1 DEF NoSweep
  <2>3. QED
    BY <2>1, <2>2, Zenon DEF ServersTypedInv, ServersTypeOK, Checkers
<1>13. ASSUME UNCHANGED serverVars PROVE ServersTypeOK'
  <2>1. UNCHANGED <<endpoint, inserted, registrations, healthy, check, sweep, vouched, raced>>
    BY <1>13 DEF serverVars
  <2>2. QED
    BY <2>1, Zenon DEF ServersTypedInv, ServersTypeOK, Checkers
<1>14. ServersTypeOK'
  <2>1. ASSUME \E n \in Names : \/ Register(n) \/ Unregister(n) \/ SweepNext(n)
                             \/ \E c \in Checks : StartCheck(c, n)
        PROVE  ServersTypeOK'
    BY <1>4, <1>5, <1>6, <1>7, <2>1, Zenon
  <2>2. ASSUME \E c \in Checkers :
                 AsksForTags(c) \/ CheckRaises(c) \/ \E ok \in BOOLEAN : CheckEnds(c, ok)
        PROVE  ServersTypeOK'
    BY <1>8, <1>9, <1>10, <2>2, Zenon
  <2>3. QED
    BY <1>11, <1>12, <1>13, <2>1, <2>2, Zenon DEF ServersNext
<1>15. QED
  BY <1>2, <1>14 DEF ServersTypedInv

\* A node that was given up was drained.
LEMMA NodesTypedNext ==
  ASSUME RayTypeOK, [NodesNext]_nodeVars
  PROVE  /\ node' \in [Nodes -> {"absent"} \cup WorkerStatuses]
         /\ drained' \subseteq Nodes /\ givenUp' \subseteq drained'
<1> DEFINE Typed == /\ node \in [Nodes -> {"absent"} \cup WorkerStatuses]
                    /\ drained \subseteq Nodes /\ givenUp \subseteq drained
<1> SUFFICES Typed'
  OBVIOUS
<1> USE DEF RayTypeOK, SetNode, WorkerStatuses
<1>1. ASSUME NEW n \in Nodes, RegisterNode(n) \/ UnregisterNode(n)
      PROVE  Typed'
  BY <1>1 DEF RegisterNode, UnregisterNode
<1>2. ASSUME NEW n \in Nodes, Heartbeat(n)
      PROVE  Typed'
  BY <1>2 DEF Heartbeat
<1>3. ASSUME NEW n \in Nodes, MarkOffline(n) \/ DrainNode(n)
      PROVE  Typed'
  BY <1>3 DEF MarkOffline, DrainNode
<1>4. CASE UNCHANGED nodeVars
  BY <1>4 DEF nodeVars
<1>5. QED
  BY <1>1, <1>2, <1>3, <1>4 DEF NodesNext

LEMMA KubeTypedNext ==
  ASSUME RayTypeOK, KubeInv, [KubeNext]_kubeVars
  PROVE  /\ hasClient' \in BOOLEAN /\ rayStatus' \in ClusterStatuses /\ wanted' \in Replicas
         /\ cluster' \in Replicas \cup {Absent}
         /\ excuses' \subseteq {"overlap", "ignored", "lost"}
<1>0. hasClient' = hasClient /\ hasClient \in BOOLEAN
  BY DEF RayTypeOK, KubeNext, Send, ServerHandles, Answered, Lost, SucceedAlone, kubeVars
<1> DEFINE Typed == /\ rayStatus \in ClusterStatuses /\ wanted \in Replicas
                    /\ cluster \in Replicas \cup {Absent}
                    /\ excuses \subseteq {"overlap", "ignored", "lost"}
<1> SUFFICES Typed'
  BY <1>0 DEF Absent
<1> USE DEF RayTypeOK, ClusterStatuses, Absent
<1>1. ASSUME NEW o \in Operations, NEW kind \in Kinds, NEW r \in Replicas, Send(o, kind, r)
      PROVE  Typed'
  BY <1>1 DEF Send, Overlap, Kinds
<1>2. ASSUME NEW o \in Operations, ServerHandles(o)
      PROVE  Typed'
  <2>1. operation[o].kind \in Kinds /\ operation[o].replicas \in Replicas \cup {Absent}
    BY <1>2 DEF KubeInv, ServerHandles, InFlight
  <2>2. QED
    BY <1>2, <2>1 DEF ServerHandles
<1>3. ASSUME NEW o \in Operations, Answered(o)
      PROVE  Typed'
  BY <1>3 DEF Answered
<1>4. ASSUME NEW o \in Operations, Lost(o)
      PROVE  Typed'
  BY <1>4 DEF Lost
<1>5. ASSUME NEW kind \in Kinds, NEW r \in Replicas, SucceedAlone(kind, r)
      PROVE  Typed'
  BY <1>5 DEF SucceedAlone
<1>6. CASE UNCHANGED kubeVars
  BY <1>6 DEF kubeVars
<1>7. QED
  BY <1>1, <1>2, <1>3, <1>4, <1>5, <1>6 DEF KubeNext

RayInv == RayTypeOK /\ KubeInv

LEMMA RayInvInit == RayInit => RayInv
BY RayAssumption, KubeInvInit DEF RayInit, RayInv, RayTypeOK, Absent, ClusterStatuses

LEMMA RayInvNext ==
  ASSUME RayInv, [NodesNext]_nodeVars, [KubeNext]_kubeVars
  PROVE  RayInv'
<1>1. KubeInv'
  BY KubeInvNext DEF RayInv
<1>2. RayTypeOK /\ KubeInv
  BY DEF RayInv
<1>3. operation' \in [Operations -> [kind : Kinds \cup {"none"}, replicas : Replicas \cup {Absent},
                                     phase : {"new", "sent", "done", "refused", "over"}]]
  BY <1>1 DEF KubeInv, Operations, Kinds
<1>4. QED
  BY <1>1, <1>2, <1>3, NodesTypedNext, KubeTypedNext
     DEF RayInv, RayTypeOK, Operations, Kinds, WorkerStatuses, ClusterStatuses, Absent

\* An insert in flight has an id within the bound.
RulesTyped == RuleStoreTypeOK /\ (ruleCall.op = "insert" => newRule <= MaxRules)

LEMMA RulesTypedInit == RuleStoreInit => RulesTyped
BY RuleStoreAssumption DEF RuleStoreInit, RulesTyped, RuleStoreTypeOK, NoCall

LEMMA RulesTypedNext ==
  ASSUME RulesTyped, [RuleStoreNext]_ruleVars
  PROVE  RulesTyped'
<1> USE RuleStoreAssumption DEF RulesTyped, RuleStoreTypeOK, NoCall
<1>1. ASSUME NEW c \in RuleContents, BeginInsert(c)
      PROVE  RulesTyped'
  <2>1. newRule \in 1 .. MaxRules
    BY <1>1 DEF BeginInsert
  <2>2. QED
    BY <1>1, <2>1 DEF BeginInsert, Rule
<1>2. ASSUME NEW c \in RuleContents, NEW id \in 1 .. MaxRules, BeginUpdate(id, c)
      PROVE  RulesTyped'
  BY <1>2 DEF BeginUpdate, Row, Rule
<1>3. ASSUME NEW id \in 1 .. MaxRules, BeginDelete(id)
      PROVE  RulesTyped'
  BY <1>3 DEF BeginDelete, Row
<1>4. CASE ReadsCreatedAt
  BY <1>4 DEF ReadsCreatedAt
<1>5. CASE CommitRules
  <2>1. ruleCall'.op = "none" /\ rules' \subseteq Rule /\ rowsInTx' \subseteq Rule
        /\ restarts' = restarts /\ newRule' \in 1 .. MaxRules + 1
    BY <1>5 DEF CommitRules
  <2>2. QED
    BY <1>5, <2>1 DEF CommitRules
<1>6. CASE RestartRules
  BY <1>6 DEF RestartRules
<1>7. CASE UNCHANGED ruleVars
  BY <1>7 DEF ruleVars
<1>8. QED
  BY <1>1, <1>2, <1>3, <1>4, <1>5, <1>6, <1>7 DEF RuleStoreNext

\* The threshold only falls, and no more is collected than is kept.
LEMMA EvolutionTypedInit == EvolutionInit => EvolutionTypeOK
<1> SUFFICES ASSUME EvolutionInit PROVE EvolutionTypeOK
  OBVIOUS
<1>1. EvolutionInv /\ EvidenceInv
  BY EvolutionInvInit, EvidenceInvInit
<1>2. threshold \in 0 .. InitialThreshold /\ Len(collected) <= MaxCollected
  BY EvolutionAssumption DEF EvolutionInit
<1>3. QED
  BY <1>1, <1>2 DEF EvolutionTypeOK, EvolutionInv, EvidenceInv

LEMMA EvolutionTypedNext ==
  ASSUME EvolutionTypeOK, EvolutionInv, EvidenceInv, [EvolutionNext]_evolutionVars
  PROVE  EvolutionTypeOK'
<1>1. EvolutionInv' /\ EvidenceInv' /\ Evident
  BY EvolutionInvNext, EvidenceInvNext
<1>2. threshold' \in 0 .. InitialThreshold
  <2>1. threshold' \in Nat /\ threshold' <= threshold
    <3>1. CASE threshold' = threshold
      BY <1>1, <3>1 DEF EvidenceInv
    <3>2. CASE threshold' # threshold
      BY <1>1, <3>2 DEF EvidenceInv, Evident
    <3>3. QED
      BY <3>1, <3>2
  <2>2. QED
    BY <2>1, EvolutionAssumption DEF EvolutionTypeOK
<1>3. Len(collected') <= MaxCollected
  <2>1. ASSUME NEW e \in Execution, RecordExecution(e)
        PROVE  Len(collected') <= MaxCollected
    <3>1. CASE Len(collected) < MaxCollected
      <4>1. collected' = Append(collected, e)
        BY <2>1, <3>1 DEF RecordExecution
      <4>2. QED
        BY <3>1, <4>1, EvolutionAssumption DEF EvidenceInv
    <3>2. CASE ~(Len(collected) < MaxCollected)
      <4>1. collected' = Append(Tail(collected), e)
        BY <2>1, <3>2 DEF RecordExecution
      <4>2. Len(collected) >= 1 /\ collected # <<>> /\ Len(collected) = MaxCollected
        BY <3>2, EvolutionAssumption DEF EvidenceInv, EvolutionTypeOK
      <4>3. Tail(collected) \in Seq(Execution) /\ Len(Tail(collected)) = Len(collected) - 1
        BY <4>2 DEF EvidenceInv
      <4>4. QED
        BY <4>1, <4>2, <4>3, EvolutionAssumption
    <3>3. QED
      BY <3>1, <3>2
  <2>2. CASE ClearCollected
    BY <2>2, EvolutionAssumption DEF ClearCollected
  <2>3. CASE \/ LeavesWindow \/ RunCycle \/ StartBackground \/ UNCHANGED evolutionVars
             \/ \E s \in Stoppers : Stop(s) \/ StopReturns(s)
             \/ \E l \in EvoLoops : LoopWakes(l) \/ LoopCancelled(l)
    <3>1. collected' = collected
      BY <2>3 DEF LeavesWindow, RunCycle, StartBackground, evolutionVars, Stop, StopReturns,
         LoopWakes, LoopCancelled, Cycle, evidence
    <3>2. QED
      BY <3>1 DEF EvolutionTypeOK
  <2>4. QED
    BY <2>1, <2>2, <2>3 DEF EvolutionNext
<1>4. QED
  BY <1>1, <1>2, <1>3 DEF EvolutionTypeOK, EvolutionInv, EvidenceInv

\* The route, the token and the status, and the sockets within their bound.
Routes == [mounted : BOOLEAN, probe : {"loading", "open", "required"}, probing : BOOLEAN]

WebTyped ==
  /\ route \in Routes /\ hasToken \in BOOLEAN /\ overtaken \in BOOLEAN
  /\ Len(sockets) <= MaxSockets

LEMMA WebIsTyped == WebInv /\ WebTyped => WebTypeOK
<1> SUFFICES ASSUME WebInv, WebTyped PROVE WebTypeOK
  OBVIOUS
<1>1. client \in [socket : 0 .. Len(sockets), intentionallyClosed : BOOLEAN,
                  status : {"closed", "connecting", "open"}, timer : BOOLEAN]
  <2>1. client \in WebClients /\ sockets \in Seq(ReadyStates) /\ client.socket <= Len(sockets)
    BY DEF WebInv, HasSockets
  <2>2. client.socket \in 0 .. Len(sockets)
    BY <2>1 DEF WebClients
  <2>3. QED
    BY <2>1, <2>2 DEF WebClients
<1>2. QED
  BY <1>1 DEF WebInv, HasSockets, WebTyped, WebTypeOK, Routes, ReadyStates

LEMMA WebTypedInit == WebInit => WebTyped
<1> SUFFICES ASSUME WebInit PROVE WebTyped
  OBVIOUS
<1>1. /\ route = [mounted |-> FALSE, probe |-> "loading", probing |-> FALSE]
      /\ hasToken = FALSE /\ sockets = <<>> /\ overtaken = FALSE
  BY DEF WebInit, LoginPage
<1>2. Len(sockets) <= MaxSockets
  BY <1>1, WebClientAssumption
<1>3. QED
  BY <1>1, <1>2 DEF WebTyped, Routes

LEMMA ConnectsTyped ==
  ASSUME NEW c, NEW ss \in Seq(ReadyStates), Len(ss) <= MaxSockets, overtaken \in BOOLEAN,
         Connects(c, ss)
  PROVE  overtaken' \in BOOLEAN /\ Len(sockets') <= MaxSockets
<1>1. CASE c.socket # 0 /\ ss[c.socket] # "CLOSED"
  BY <1>1, Zenon DEF Connects
<1>2. CASE ~(c.socket # 0 /\ ss[c.socket] # "CLOSED")
  <2>1. /\ Len(ss) < MaxSockets /\ overtaken' = FALSE
        /\ sockets' = Append(ss, "CONNECTING") \/ sockets' = ss
    BY <1>2, Zenon DEF Connects
  <2>2. Len(Append(ss, "CONNECTING")) = Len(ss) + 1 /\ Len(ss) \in Nat
    BY DEF ReadyStates
  <2>3. Len(sockets') <= MaxSockets
    BY <2>1, <2>2, WebClientAssumption
  <2>4. QED
    BY <2>1, <2>3, Zenon
<1>3. QED
  BY <1>1, <1>2

LEMMA RendersTyped ==
  ASSUME WebInv, WebTyped, NEW r \in Routes, NEW token \in BOOLEAN, Renders(r, token)
  PROVE  WebTyped'
<1> DEFINE had == Wants(route, hasToken)
           c == IF had THEN ClosedBy(client) ELSE client
           ss == IF had THEN Closing(sockets, client.socket) ELSE sockets
<1>1. route' = r /\ hasToken' = token
  BY DEF Renders
<1>2. overtaken' \in BOOLEAN /\ Len(sockets') <= MaxSockets
  <2>1. CASE r.mounted = route.mounted /\ r.probe = route.probe /\ token = hasToken
    BY <2>1, Zenon DEF Renders, WebTyped
  <2>2. CASE ~(r.mounted = route.mounted /\ r.probe = route.probe /\ token = hasToken)
    <3>1. ss \in Seq(ReadyStates) /\ Len(ss) = Len(sockets)
      BY DEF WebInv, HasSockets, Closing, ReadyStates
    <3>2. CASE Wants(r, token)
      <4>1. Connects(c, ss)
        BY <2>2, <3>2, Zenon DEF Renders
      <4>2. QED
        BY <3>1, <4>1, ConnectsTyped DEF WebTyped
    <3>3. CASE ~Wants(r, token)
      <4>1. sockets' = ss /\ overtaken' = (overtaken /\ c.socket # 0)
        BY <2>2, <3>3, Zenon DEF Renders
      <4>2. overtaken' \in BOOLEAN
        BY <4>1, Zenon
      <4>3. QED
        BY <3>1, <4>1, <4>2 DEF WebTyped
    <3>4. QED
      BY <3>2, <3>3
  <2>3. QED
    BY <2>1, <2>2
<1>3. QED
  BY <1>1, <1>2 DEF WebTyped

LEMMA WebTypedNext ==
  ASSUME WebInv, WebTyped, [WebNext]_webVars
  PROVE  WebTyped'
<1>1. /\ [mounted |-> TRUE, probe |-> "loading", probing |-> TRUE] \in Routes
      /\ LoginPage \in Routes
      /\ [route EXCEPT !.probe = "open", !.probing = FALSE] \in Routes
      /\ [route EXCEPT !.probe = "required", !.probing = hasToken] \in Routes
      /\ [route EXCEPT !.probing = TRUE] \in Routes
  BY DEF WebTyped, Routes, LoginPage
<1>2. CASE Enter
  <2>1. PICK token \in {hasToken, TRUE} :
          Renders([mounted |-> TRUE, probe |-> "loading", probing |-> TRUE], token)
    BY <1>2, Zenon DEF Enter
  <2>2. token \in BOOLEAN
    BY Zenon DEF WebTyped
  <2>3. QED
    BY <1>1, <2>1, <2>2, RendersTyped, Zenon
<1>3. CASE ProbePasses
  BY <1>1, <1>3, RendersTyped, Zenon DEF ProbePasses, WebTyped
<1>4. CASE ProbeUnauthorized
  BY <1>1, <1>4, RendersTyped, Zenon DEF ProbeUnauthorized, WebTyped
<1>5. CASE TokenCleared
  BY <1>1, <1>5, RendersTyped, Zenon DEF TokenCleared
<1>6. CASE LeaveForLogin
  BY <1>1, <1>6, RendersTyped, Zenon DEF LeaveForLogin
<1>7. CASE RetryTimerFires
  <2>1. UNCHANGED <<route, hasToken>> /\ Connects([client EXCEPT !.timer = FALSE], sockets)
    BY <1>7 DEF RetryTimerFires
  <2>2. QED
    BY <2>1, ConnectsTyped DEF WebInv, HasSockets, WebTyped
<1>8. ASSUME NEW i \in DOMAIN sockets,
             SocketOpens(i) \/ ServerStartsClosing(i) \/ SocketCloses(i)
      PROVE  WebTyped'
  <2>1. PICK to \in {"OPEN", "CLOSING", "CLOSED"} : sockets' = [sockets EXCEPT ![i] = to]
    BY <1>8 DEF SocketOpens, ServerStartsClosing, SocketCloses
  <2>2. Len(sockets') = Len(sockets)
    BY <2>1 DEF WebInv, HasSockets
  <2>3. UNCHANGED <<route, hasToken>>
    BY <1>8, Zenon DEF SocketOpens, ServerStartsClosing, SocketCloses
  <2>4. overtaken' \in BOOLEAN
    BY <1>8, Zenon DEF SocketOpens, ServerStartsClosing, SocketCloses, WebTyped
  <2>5. QED
    BY <2>2, <2>3, <2>4 DEF WebTyped
<1>9. CASE UNCHANGED webVars
  BY <1>9 DEF webVars, WebTyped
<1>10. QED
  BY <1>2, <1>3, <1>4, <1>5, <1>6, <1>7, <1>8, <1>9 DEF WebNext

\* Every variable of every service keeps to its type.
THEOREM ServicesStayTyped == ServicesSpec => []ServicesTypeOK
<1> DEFINE Kept1 == /\ GitInv /\ SnapshotInv /\ RecoveryInv /\ AgentBudgetInv /\ AlertsInv
                    /\ HybridInv /\ MailInv /\ TraceInv /\ FileInv /\ DemoInv
           Kept2 == /\ ServersTypedInv /\ RayInv /\ RulesTyped /\ WebInv /\ WebTyped
                    /\ EvolutionTypeOK /\ EvolutionInv /\ EvidenceInv
                    /\ part \in Parts
<1>1. ServicesInit => Kept1
  BY GitInvInit, SnapshotInvInit, RecoveryInvInit, AgentBudgetInvInit, AlertsInvInit,
     HybridInvInit, MailInvInit, TraceInvInit, FileInvInit, DemoInvInit DEF ServicesInit
<1>2. ServicesInit => Kept2
  BY ServersTypedInit, RayInvInit, RulesTypedInit, WebInvInit, WebTypedInit, EvolutionTypedInit,
     EvolutionInvInit, EvidenceInvInit DEF ServicesInit
<1>3. Kept1 /\ [ServicesNext]_servicesVars => Kept1'
  BY OnePartMoves, GitInvNext, SnapshotInvNext, RecoveryInvNext, AgentBudgetInvNext,
     AlertsInvNext, HybridInvNext, MailInvNext, TraceInvNext, FileInvNext, DemoInvNext
<1>4. Kept2 /\ [ServicesNext]_servicesVars => Kept2'
  <2>1. ASSUME [ServicesNext]_servicesVars PROVE part' = part
    BY <2>1 DEF ServicesNext, OnlyMoves, servicesVars
  <2>2. QED
    BY <2>1, OnePartMoves, ServersTypedNext, RayInvNext, RulesTypedNext, WebInvNext,
       WebTypedNext, EvolutionTypedNext, EvolutionInvNext, EvidenceInvNext DEF Parts
<1>5. Kept1 /\ Kept2 => ServicesTypeOK
  BY RecoveryIsTyped, WebIsTyped
     DEF GitInv, SnapshotInv, AgentBudgetInv, AlertsInv, HybridInv, MailInv, TraceInv, FileInv,
         DemoInv, ServersTypedInv, RayInv, RulesTyped, ServicesTypeOK
<1>6. QED
  BY <1>1, <1>2, <1>3, <1>4, <1>5, PTL DEF ServicesSpec
=============================================================================
