------------------------------ MODULE Evolution ------------------------------
(***************************************************************************)
(* The evolution loop (src/evolution/): executions are collected, and a    *)
(* cycle that finds too much rework, or too low reviews, among the recent  *)
(* ones lowers the review threshold of the policy.  Cycles are run by      *)
(* callers and by a background loop that callers start and stop.  A cycle  *)
(* awaits nothing, so it is one step.                                      *)
(***************************************************************************)
EXTENDS Integers, Sequences, SequencesExt, FiniteSetsExt

CONSTANTS
  EvolutionEnabled, \* enabled
  InitialThreshold, \* review_score_threshold before the first cycle
  MaxDelta,         \* max_threshold_delta
  MinExecutions,    \* min_executions_for_analysis
  AutoApply,        \* auto_apply_threshold, in percent
  MaxCollected,     \* max_history
  ReviewScores,     \* the review scores of executions
  Stoppers,         \* the calls of stop() that can be in flight
  MaxEvolutionLoops \* bound on the loops started

ASSUME EvolutionAssumption ==
  /\ EvolutionEnabled \in BOOLEAN
  /\ {InitialThreshold, MaxDelta, MaxEvolutionLoops} \subseteq Nat
  /\ {MinExecutions, MaxCollected} \subseteq Nat \ {0}
  /\ AutoApply \in 0 .. 100 /\ ReviewScores \subseteq 0 .. 100

VARIABLES
  threshold,
  collected,   \* _history of the collector
  outside,     \* how many of them, the oldest, lie before the window
  evolving,    \* _running
  loopTask,    \* _task: the number of a loop; 0 is None
  evoLoops,    \* what each loop is at
  stopAwaits,  \* the loop each stop() waits for; 0 if it is not in flight
  restarted    \* history: a loop was started while a stop() waited, and may still live

evolutionVars == <<threshold, collected, outside, evolving, loopTask, evoLoops, stopAwaits,
                   restarted>>
evidence == <<collected, outside>>
loopVars == <<evolving, loopTask, evoLoops, stopAwaits, restarted>>

EvoLoops == 1 .. MaxEvolutionLoops
Execution == [rework : BOOLEAN, score : ReviewScores]

EvolutionTypeOK ==
  /\ threshold \in 0 .. InitialThreshold
  /\ collected \in Seq(Execution) /\ Len(collected) <= MaxCollected
  /\ outside \in 0 .. Len(collected)
  /\ evolving \in BOOLEAN /\ restarted \in BOOLEAN
  /\ loopTask \in 0 .. MaxEvolutionLoops
  /\ evoLoops \in [EvoLoops -> {"none", "lives", "cancelled", "over"}]
  /\ stopAwaits \in [Stoppers -> 0 .. MaxEvolutionLoops]

EvolutionInit ==
  /\ threshold = InitialThreshold
  /\ collected = <<>> /\ outside = 0
  /\ evolving = FALSE /\ loopTask = 0
  /\ evoLoops = [l \in EvoLoops |-> "none"]
  /\ stopAwaits = [s \in Stoppers |-> 0]
  /\ restarted = FALSE
-----------------------------------------------------------------------------
(***************************************************************************)
(* MetricsCollector.                                                       *)
(***************************************************************************)
RecordExecution(e) ==
  /\ IF Len(collected) < MaxCollected
     THEN collected' = Append(collected, e) /\ UNCHANGED outside
     ELSE /\ collected' = Append(Tail(collected), e)
          /\ outside' = IF outside = 0 THEN 0 ELSE outside - 1
  /\ UNCHANGED <<threshold, loopVars>>

LeavesWindow ==
  /\ outside < Len(collected) /\ outside' = outside + 1
  /\ UNCHANGED <<threshold, collected, loopVars>>

ClearCollected ==
  /\ collected # <<>> /\ collected' = <<>> /\ outside' = 0
  /\ UNCHANGED <<threshold, loopVars>>

Recent == (outside + 1) .. Len(collected)
Reworked == Cardinality({i \in Recent : collected[i].rework})
ScoreSum == SumFunction([i \in Recent |-> collected[i].score])
-----------------------------------------------------------------------------
(***************************************************************************)
(* A cycle: PatternAnalyzer, ThresholdTuner.                               *)
(***************************************************************************)
\* n / m to the nearest number, a tie to the even neighbour.
Rounded(n, m) ==
  LET whole == n \div m
      rest == 2 * (n % m) IN
  IF rest > m \/ (rest = m /\ whole % 2 = 1) THEN whole + 1 ELSE whole

\* The rework rate is above 0.4; the confidence in lowering is 1.25 times the rate.
LowersForRework ==
  /\ 10 * Reworked > 4 * Cardinality(Recent)
  /\ Min({100, Rounded(125 * Reworked, Cardinality(Recent))}) >= AutoApply

\* The mean review score, of executions without a review too, is below 60.
LowersForScore ==
  ScoreSum < 60 * Cardinality(Recent) /\ 70 >= AutoApply

\* Both reasons apply one after the other.
Lowered ==
  LET steps == (IF LowersForRework THEN 1 ELSE 0) + (IF LowersForScore THEN 1 ELSE 0)
  IN  Max({0, threshold - steps * MaxDelta})

\* Mutant of Cycle: however few executions are enough.
Cycle_early == threshold' = Lowered /\ UNCHANGED evidence

Cycle ==
  /\ threshold' = IF EvolutionEnabled /\ Cardinality(Recent) >= MinExecutions
                  THEN Lowered ELSE threshold
  /\ UNCHANGED evidence

RunCycle == Cycle /\ UNCHANGED loopVars
-----------------------------------------------------------------------------
(***************************************************************************)
(* start_background(), stop(), and the loop between them.                  *)
(***************************************************************************)
LoopGoes(l, to) == evoLoops' = [evoLoops EXCEPT ![l] = to]
Living == {l \in EvoLoops : evoLoops[l] = "lives"}

StartBackground ==
  /\ ~evolving
  /\ \E l \in EvoLoops :
       /\ evoLoops[l] = "none" /\ \A k \in EvoLoops : k < l => evoLoops[k] # "none"
       /\ LoopGoes(l, "lives") /\ loopTask' = l
  /\ evolving' = TRUE
  /\ restarted' = (restarted \/ \E s \in Stoppers : stopAwaits[s] # 0)
  /\ UNCHANGED <<threshold, evidence, stopAwaits>>

\* Without a task that still runs there is nothing to wait for.
Stop(s) ==
  LET waits == loopTask # 0 /\ evoLoops[loopTask] # "over" IN
  /\ stopAwaits[s] = 0
  /\ evolving' = FALSE
  /\ IF waits THEN /\ LoopGoes(loopTask, "cancelled")
                   /\ stopAwaits' = [stopAwaits EXCEPT ![s] = loopTask]
                   /\ UNCHANGED loopTask
     ELSE loopTask' = 0 /\ UNCHANGED <<evoLoops, stopAwaits>>
  /\ UNCHANGED <<threshold, evidence, restarted>>

\* The loop is over: stop() forgets the task, whichever it is by now.
StopReturns(s) ==
  /\ stopAwaits[s] # 0 /\ evoLoops[stopAwaits[s]] = "over"
  /\ stopAwaits' = [stopAwaits EXCEPT ![s] = 0]
  /\ loopTask' = 0
  /\ UNCHANGED <<threshold, evidence, evolving, evoLoops, restarted>>

\* The loop's first step, or its sleep ends.
LoopWakes(l) ==
  /\ evoLoops[l] = "lives"
  /\ IF evolving THEN Cycle /\ UNCHANGED <<evoLoops, restarted>>
     ELSE /\ LoopGoes(l, "over") /\ UNCHANGED <<threshold, evidence>>
          /\ restarted' = (restarted /\ Living # {l})
  /\ UNCHANGED <<evolving, loopTask, stopAwaits>>

LoopCancelled(l) ==
  /\ evoLoops[l] = "cancelled" /\ LoopGoes(l, "over")
  /\ UNCHANGED <<threshold, evidence, evolving, loopTask, stopAwaits, restarted>>

EvolutionNext ==
  \/ \E e \in Execution : RecordExecution(e)
  \/ LeavesWindow \/ ClearCollected \/ RunCycle \/ StartBackground
  \/ \E s \in Stoppers : Stop(s) \/ StopReturns(s)
  \/ \E l \in EvoLoops : LoopWakes(l) \/ LoopCancelled(l)

EvolutionSpec == EvolutionInit /\ [][EvolutionNext]_evolutionVars
-----------------------------------------------------------------------------
\* One loop at most is alive, the one stop() would cancel, and none when the loop is
\* stopped; unless it was started while a stop() waited: that stop() then forgets the
\* new loop, which lives on as long as somebody restarts the evolution before it wakes
\* (loop.py:128).
OneEvolutionLoop ==
  ~restarted => Living \subseteq (IF evolving THEN {loopTask} ELSE {})

\* The threshold only falls, by no more than both reasons together, and only where one
\* of enough recent executions was rework or had a low score.  The same executions may
\* lower it again and again (tuner.py:48).
ThresholdFollowsEvidence ==
  [][threshold' # threshold =>
       /\ threshold' < threshold /\ threshold - threshold' <= 2 * MaxDelta
       /\ Cardinality(Recent) >= MinExecutions
       /\ \E i \in Recent : collected[i].rework \/ collected[i].score < 60]_evolutionVars
=============================================================================
