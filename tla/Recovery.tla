------------------------------ MODULE Recovery ------------------------------
(***************************************************************************)
(* RecoveryManager.run_step (src/resilience/recovery.py) with retry_async  *)
(* (retry.py), FallbackStrategy (fallback.py) and the CircuitBreaker that  *)
(* the steps of one agent role share.  Breakers and cached results are     *)
(* kept per role, so one role is the whole story.                          *)
(*                                                                         *)
(* A step runs from one await of run_step() to the next: the call of fn()  *)
(* inside the breaker, the sleep before a retry, the alternative model.    *)
(***************************************************************************)
EXTENDS Naturals, FiniteSets

CONSTANTS
  RecoverySteps,    \* the steps of the role
  WithFallbackFn,   \* those that are run with a fallback_fn
  Fallbacks,        \* the configurations to check
  MaxRetries,
  BreakerOpensAt, BreakerClosesAt, BreakerProbes,
  MaxBreakerFailures

Modes == {"NONE", "CACHED", "ALTERNATIVE_MODEL", "ALTERNATIVE_AGENT", "DEGRADED"}

ASSUME RecoveryAssumption ==
  /\ IsFiniteSet(RecoverySteps) /\ WithFallbackFn \subseteq RecoverySteps
  /\ Fallbacks \subseteq [mode : Modes, target : BOOLEAN, continues : BOOLEAN]
  /\ {MaxRetries, MaxBreakerFailures} \subseteq Nat
  /\ {BreakerOpensAt, BreakerClosesAt, BreakerProbes} \subseteq Nat \ {0}
  /\ {"none", "alternative"} \cap RecoverySteps = {}

VARIABLES
  fallback,      \* mode, whether its model or role is set, and continue_on_failure
  brState, brFailures, brSuccesses, brProbes, brElapsed, brCall, brLeaked,
  stepPhase,     \* what each step awaits
  stepStatus,    \* step.status
  attemptNo,     \* `attempt` of retry_async
  stepResult,    \* step.result: the step, or the alternative model, that produced it
  stepAttempts,  \* step.attempts
  cached,        \* _cache of the role: the step whose result it is
  hung,          \* the steps whose fn() or fallback_fn never ends
  tries          \* history: how often fn() was called for the step

Breaker == INSTANCE CircuitBreaker WITH
  Callers <- RecoverySteps, Cancellable <- RecoverySteps,
  failure_threshold <- BreakerOpensAt, success_threshold <- BreakerClosesAt,
  half_open_max_calls <- BreakerProbes, MaxFailures <- MaxBreakerFailures,
  state <- brState, failureCount <- brFailures, successCount <- brSuccesses,
  halfOpenCalls <- brProbes, elapsed <- brElapsed, call <- brCall, leaked <- brLeaked

breakerVars == <<brState, brFailures, brSuccesses, brProbes, brElapsed, brCall, brLeaked>>
stepVars == <<stepPhase, stepStatus, attemptNo, stepResult, stepAttempts, cached, tries>>
recoveryVars == <<fallback, hung, breakerVars, stepVars>>

Results == RecoverySteps \cup {"none", "alternative"}
Over == {"returned", "raised", "cancelled"}

RecoveryTypeOK ==
  /\ fallback \in Fallbacks
  /\ Breaker!TypeOK
  /\ stepPhase \in [RecoverySteps -> {"registered", "calls", "sleeps", "alternative"}
                                       \cup Over]
  /\ stepStatus \in [RecoverySteps -> {"PENDING", "RUNNING", "SUCCESS", "FAILED",
                                       "SKIPPED", "RECOVERED"}]
  /\ attemptNo \in [RecoverySteps -> 0 .. MaxRetries]
  /\ stepResult \in [RecoverySteps -> Results]
  /\ stepAttempts \in [RecoverySteps -> 0 .. MaxRetries + 1]
  /\ cached \in RecoverySteps \cup {"none"}
  /\ hung \subseteq RecoverySteps
  /\ tries \in [RecoverySteps -> 0 .. MaxRetries + 1]

RecoveryInit ==
  /\ fallback \in Fallbacks
  /\ Breaker!Init
  /\ stepPhase = [s \in RecoverySteps |-> "registered"]
  /\ stepStatus = [s \in RecoverySteps |-> "PENDING"]
  /\ attemptNo = [s \in RecoverySteps |-> 0]
  /\ stepResult = [s \in RecoverySteps |-> "none"]
  /\ stepAttempts = [s \in RecoverySteps |-> 0]
  /\ cached = "none"
  /\ hung = {}
  /\ tries = [s \in RecoverySteps |-> 0]
-----------------------------------------------------------------------------
(***************************************************************************)
(* FallbackStrategy.decide(), and what run_step() makes of it.             *)
(***************************************************************************)
\* Mutant of Decide: the mode decides, whether it can be applied or not.
Decide_mode == fallback.mode

Decide ==
  IF \/ fallback.mode = "CACHED" /\ cached = "none"
     \/ fallback.mode \in {"ALTERNATIVE_MODEL", "ALTERNATIVE_AGENT"} /\ ~fallback.target
  THEN "DEGRADED" ELSE fallback.mode

\* cache_result(), of the role.
CacheResult(s) == cached' = s

Ends(s, phase, status, result) ==
  /\ stepPhase' = [stepPhase EXCEPT ![s] = phase]
  /\ stepStatus' = [stepStatus EXCEPT ![s] = status]
  /\ stepResult' = [stepResult EXCEPT ![s] = result]

\* Nothing recovers the step: it is skipped and returns None, or the last error is
\* raised.  Nobody runs another agent for ALTERNATIVE_AGENT.
Skips == Decide = "DEGRADED" \/ fallback.continues
NotRecovered(s) ==
  Ends(s, IF Skips THEN "returned" ELSE "raised", IF Skips THEN "SKIPPED" ELSE "FAILED",
       "none")

\* The retries are over, after however many attempts.
FallsBack(s) ==
  /\ stepAttempts' = [stepAttempts EXCEPT ![s] = MaxRetries + 1]
  /\ CASE Decide = "CACHED" -> Ends(s, "returned", "RECOVERED", cached)
       [] Decide = "ALTERNATIVE_MODEL" /\ s \in WithFallbackFn ->
            Ends(s, "alternative", "RUNNING", "none")
       [] OTHER -> NotRecovered(s)
  /\ UNCHANGED attemptNo

\* An attempt has failed, with an error the policy retries or another one.
AttemptFailed(s, retryable) ==
  IF retryable /\ attemptNo[s] < MaxRetries
  THEN /\ Ends(s, "sleeps", "RUNNING", "none")
       /\ attemptNo' = [attemptNo EXCEPT ![s] = @ + 1]
       /\ UNCHANGED stepAttempts
  ELSE FallsBack(s)
-----------------------------------------------------------------------------
(***************************************************************************)
(* run_step().                                                             *)
(***************************************************************************)
\* Mutant of Ready: nobody goes on after a sleep.
Ready_once(s) == stepPhase[s] = "registered"

Ready(s) == stepPhase[s] \in {"registered", "sleeps"}

\* The breaker lets fn() be called, for the first time or after a sleep.
Attempt(s) ==
  /\ Ready(s)
  /\ Breaker!CallNormally(s) \/ Breaker!CallAsProbe(s)
  /\ Ends(s, "calls", "RUNNING", "none")
  /\ tries' = [tries EXCEPT ![s] = @ + 1]
  /\ UNCHANGED <<fallback, hung, attemptNo, stepAttempts, cached>>

\* CircuitOpenError counts as an attempt.
AttemptRefused(s, retryable) ==
  /\ Ready(s)
  /\ Breaker!CallRefused(s)
  /\ AttemptFailed(s, retryable)
  /\ UNCHANGED <<fallback, hung, cached, tries>>

CallReturns(s) ==
  /\ Breaker!Succeed(s)
  /\ Ends(s, "returned", "SUCCESS", s)
  /\ stepAttempts' = [stepAttempts EXCEPT ![s] = attemptNo[s] + 1]
  /\ CacheResult(s)
  /\ UNCHANGED <<fallback, hung, attemptNo, tries>>

CallRaises(s, retryable) ==
  /\ Breaker!Fail(s)
  /\ AttemptFailed(s, retryable)
  /\ UNCHANGED <<fallback, hung, cached, tries>>

AlternativeReturns(s) ==
  /\ stepPhase[s] = "alternative"
  /\ Ends(s, "returned", "RECOVERED", "alternative")
  /\ UNCHANGED <<fallback, hung, breakerVars, attemptNo, stepAttempts, cached, tries>>

AlternativeRaises(s) ==
  /\ stepPhase[s] = "alternative"
  /\ NotRecovered(s)
  /\ UNCHANGED <<fallback, hung, breakerVars, attemptNo, stepAttempts, cached, tries>>

\* CancelledError is no Exception: it passes every handler, and the step stays RUNNING.
StepCancelled(s) ==
  /\ stepPhase[s] \in {"calls", "sleeps", "alternative"}
  /\ IF stepPhase[s] = "calls" THEN Breaker!Cancel(s) ELSE UNCHANGED breakerVars
  /\ Ends(s, "cancelled", stepStatus[s], stepResult[s])
  /\ UNCHANGED <<fallback, hung, attemptNo, stepAttempts, cached, tries>>

BreakerTimeout ==
  Breaker!TimeoutPasses /\ UNCHANGED <<fallback, hung, stepVars>>

\* Nothing in run_step(), retry_async() or the breaker bounds what it awaits.
StepHangs(s) ==
  /\ stepPhase[s] \in {"calls", "alternative"} /\ s \notin hung
  /\ hung' = hung \cup {s}
  /\ UNCHANGED <<fallback, breakerVars, stepVars>>

StepMoves(s) ==
  /\ s \notin hung
  /\ \/ Attempt(s) \/ CallReturns(s) \/ AlternativeReturns(s) \/ AlternativeRaises(s)
     \/ \E retryable \in BOOLEAN : AttemptRefused(s, retryable) \/ CallRaises(s, retryable)

RecoveryNext ==
  \/ \E s \in RecoverySteps : StepMoves(s) \/ StepCancelled(s) \/ StepHangs(s)
  \/ BreakerTimeout

\* The loop runs what is ready, and sleeps end; a call ends unless it hangs, which it
\* may at any moment: nothing here times out.
RecoveryFairness ==
  \A s \in RecoverySteps : WF_recoveryVars(stepPhase[s] # "registered" /\ StepMoves(s))

RecoverySpec == RecoveryInit /\ [][RecoveryNext]_recoveryVars
-----------------------------------------------------------------------------
\* What a step returns is its own result, the alternative model's, or the result of a
\* step of the role that did succeed; only who is shown as recovered or successful has
\* one (recovery.py:112).
ResultIsEarned ==
  /\ \A s \in RecoverySteps :
       CASE stepStatus[s] = "SUCCESS" -> stepResult[s] = s /\ tries[s] > 0
         [] stepStatus[s] = "RECOVERED" ->
              \/ stepResult[s] = "alternative" /\ s \in WithFallbackFn
              \/ stepResult[s] \in RecoverySteps /\ fallback.mode = "CACHED"
         [] OTHER -> stepResult[s] = "none"
  /\ \A r \in {cached} \cup {stepResult[s] : s \in RecoverySteps} :
       r \in RecoverySteps => stepStatus[r] = "SUCCESS"

\* fn() is called at most max_retries + 1 times, and never more often than is reported,
\* though errors that are not retried and refusals make it fewer (retry.py:77).
TriesAreBounded ==
  \A s \in RecoverySteps :
    /\ tries[s] <= attemptNo[s] + 1
    /\ stepPhase[s] \in {"alternative", "returned", "raised"} =>
         tries[s] <= stepAttempts[s]

\* How a failed step may be set up: an alternative model, another agent, or neither for
\* want of its name.
HasAlternative == fallback.mode = "ALTERNATIVE_MODEL" /\ fallback.target
IsDelegated == fallback.mode = "ALTERNATIVE_AGENT" /\ fallback.target
LacksTarget ==
  fallback.mode \in {"ALTERNATIVE_MODEL", "ALTERNATIVE_AGENT"} /\ ~fallback.target

\* A status says how run_step() ended, except for a cancelled one.  A step fails the
\* pipeline only without continue_on_failure, and only where the mode is NONE or its
\* alternative model failed or had no fallback_fn, or where it was delegated to another
\* agent: fallback.py:17 and 35 leave running that agent to RecoveryManager, which has
\* no branch for it (recovery.py:132).
FailsOnlyUnprotected ==
  \A s \in RecoverySteps :
    /\ stepStatus[s] = "FAILED" <=> stepPhase[s] = "raised"
    /\ stepStatus[s] = "RUNNING" <=>
         stepPhase[s] \in {"calls", "sleeps", "alternative", "cancelled"}
    /\ stepStatus[s] = "FAILED" =>
         /\ ~fallback.continues
         /\ fallback.mode = "NONE" \/ HasAlternative \/ IsDelegated
    /\ stepStatus[s] = "SKIPPED" =>
         fallback.continues \/ fallback.mode \in {"DEGRADED", "CACHED"} \/ LacksTarget

\* Retries and cancellations together never make the shared breaker lose count: its
\* calls in flight are those of the steps that wait for fn(), and its slots add up.
BreakerFollowsSteps ==
  /\ \A s \in RecoverySteps : brCall[s] # "idle" <=> stepPhase[s] = "calls"
  /\ Breaker!SlotAccounting /\ Breaker!CountersBelowThresholds

\* A step that was started ends, also while the breaker refuses its retries, unless
\* what it awaits never does: no call here has a timeout (recovery.py:92).
StepsEnd ==
  \A s \in RecoverySteps :
    stepPhase[s] # "registered" ~> stepPhase[s] \in Over \/ s \in hung
=============================================================================
