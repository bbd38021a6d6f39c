--------------------------- MODULE CircuitBreaker ---------------------------
(***************************************************************************)
(* CircuitBreaker of src/resilience/circuit_breaker.py, shared by          *)
(* concurrent callers of one event loop.  The bodies under its lock never  *)
(* suspend, so entering call(), and ending it, are one step each: what     *)
(* interleaves is everything between them, while fn() runs.                *)
(*                                                                         *)
(* A call belongs to the half-open period that admitted it as a probe; one *)
(* that outlives that period is "late" (history: the code does not know).  *)
(***************************************************************************)
EXTENDS Integers, FiniteSets

CONSTANTS
  Callers,              \* the coroutines that call through the breaker
  Cancellable,          \* those of them that may be cancelled inside fn()
  failure_threshold,
  success_threshold,
  half_open_max_calls,
  MaxFailures           \* bound on _failure_count: the service stops failing there

ASSUME BreakerAssumption ==
  /\ IsFiniteSet(Callers)
  /\ Cancellable \subseteq Callers
  /\ failure_threshold \in Nat \ {0}
  /\ success_threshold \in Nat \ {0}
  /\ half_open_max_calls \in Nat \ {0}
  /\ MaxFailures \in Nat

VARIABLES
  state,          \* _state
  failureCount,   \* _failure_count
  successCount,   \* _success_count
  halfOpenCalls,  \* _half_open_calls
  elapsed,        \* whether `timeout` has passed since _opened_at
  call,           \* what each caller has in flight
  leaked          \* history: probes of this half-open period that were cancelled

counters == <<failureCount, successCount, halfOpenCalls>>
vars == <<state, counters, elapsed, call, leaked>>

InFlight == {"normal", "probe", "late"}

TypeOK ==
  /\ state \in {"CLOSED", "OPEN", "HALF_OPEN"}
  /\ failureCount \in Nat
  /\ successCount \in Nat
  /\ halfOpenCalls \in 0 .. half_open_max_calls
  /\ elapsed \in BOOLEAN
  /\ call \in [Callers -> InFlight \cup {"idle"}]
  /\ leaked \in Nat

Probes == {c \in Callers : call[c] = "probe"}

Init ==
  /\ state = "CLOSED"
  /\ failureCount = 0
  /\ successCount = 0
  /\ halfOpenCalls = 0
  /\ elapsed = FALSE
  /\ call = [c \in Callers |-> "idle"]
  /\ leaked = 0

\* The calls once c's is what and, if the period is over, its probes are late.
Calls(c, what, over) ==
  [b \in Callers |-> IF b = c THEN what
                     ELSE IF over /\ call[b] = "probe" THEN "late" ELSE call[b]]
-----------------------------------------------------------------------------
(***************************************************************************)
(* call(), up to the await of fn().  _evaluate_state moves an OPEN breaker *)
(* whose timeout has passed to HALF_OPEN; the other states stay.           *)
(***************************************************************************)

\* The timeout of an OPEN breaker passes.
TimeoutPasses ==
  /\ state = "OPEN"
  /\ ~elapsed
  /\ elapsed' = TRUE
  /\ UNCHANGED <<state, counters, call, leaked>>

PeriodStarts == state = "OPEN" /\ elapsed

\* Mutant of Evaluated: the timeout is never looked at.
Evaluated_never == state

Evaluated == IF PeriodStarts THEN "HALF_OPEN" ELSE state

\* The counters of a half-open period after evaluation and `admitted` probes more.
CountsOnEvaluation(admitted) ==
  IF PeriodStarts
  THEN /\ halfOpenCalls' = admitted
       /\ successCount' = 0
       /\ leaked' = 0
  ELSE /\ halfOpenCalls' = halfOpenCalls + admitted
       /\ UNCHANGED <<successCount, leaked>>

\* Mutant of HasSlot: a breaker that has half_open_max_calls probes takes one more.
HasSlot_off_by_one ==
  PeriodStarts \/ halfOpenCalls <= half_open_max_calls

HasSlot == PeriodStarts \/ halfOpenCalls < half_open_max_calls

CallNormally(c) ==
  /\ call[c] = "idle"
  /\ Evaluated = "CLOSED"
  /\ call' = [call EXCEPT ![c] = "normal"]
  /\ UNCHANGED <<state, counters, elapsed, leaked>>

CallAsProbe(c) ==
  /\ call[c] = "idle"
  /\ Evaluated = "HALF_OPEN"
  /\ HasSlot
  /\ state' = "HALF_OPEN"
  /\ CountsOnEvaluation(1)
  /\ call' = [call EXCEPT ![c] = "probe"]
  /\ UNCHANGED <<failureCount, elapsed>>

\* CircuitOpenError, or the fallback if the breaker is OPEN and there is one.
\* Neither changes the breaker: the call that makes it HALF_OPEN gets a slot.
CallRefused(c) ==
  /\ call[c] = "idle"
  /\ \/ Evaluated = "OPEN"
     \/ Evaluated = "HALF_OPEN" /\ ~HasSlot
  /\ UNCHANGED vars
-----------------------------------------------------------------------------
(***************************************************************************)
(* The end of call(): whatever state the breaker is in by now, not the     *)
(* state that admitted the call.                                           *)
(***************************************************************************)

\* Mutant of Closes: one success more than success_threshold is needed.
Closes_off_by_one == state = "HALF_OPEN" /\ successCount + 1 > success_threshold

\* Mutant of Closes: a success closes an OPEN breaker as well.
Closes_when_open == state # "CLOSED" /\ successCount + 1 >= success_threshold

\* A success now closes the breaker.
Closes == state = "HALF_OPEN" /\ successCount + 1 >= success_threshold

\* Mutant of FailuresAfterSuccess: closing keeps the failures that opened the breaker.
FailuresAfterSuccess_kept == IF state = "CLOSED" THEN 0 ELSE failureCount

FailuresAfterSuccess == IF Closes \/ state = "CLOSED" THEN 0 ELSE failureCount

\* Mutant of SlotsAfterSuccess: every success in HALF_OPEN gives a slot back.
SlotsAfterSuccess_returned ==
  IF Closes THEN 0 ELSE IF state = "HALF_OPEN" THEN halfOpenCalls - 1 ELSE halfOpenCalls

SlotsAfterSuccess == IF Closes THEN 0 ELSE halfOpenCalls

\* fn() returned: _on_success.
Succeed(c) ==
  /\ call[c] \in InFlight
  /\ state' = IF Closes THEN "CLOSED" ELSE state
  /\ failureCount' = FailuresAfterSuccess
  /\ successCount' = IF state = "HALF_OPEN" THEN successCount + 1 ELSE successCount
  /\ halfOpenCalls' = SlotsAfterSuccess
  /\ call' = Calls(c, "idle", Closes)
  /\ UNCHANGED <<elapsed, leaked>>

\* fn() raised an Exception: _on_failure.
Fail(c) ==
  LET trips == state = "CLOSED" /\ failureCount + 1 >= failure_threshold
      reopens == state = "HALF_OPEN" IN
  /\ call[c] \in InFlight
  /\ failureCount < MaxFailures
  /\ failureCount' = failureCount + 1
  /\ IF trips \/ reopens THEN state' = "OPEN" /\ elapsed' = FALSE
                         ELSE UNCHANGED <<state, elapsed>>
  /\ halfOpenCalls' = IF reopens THEN 0 ELSE halfOpenCalls
  /\ call' = Calls(c, "idle", reopens)
  /\ UNCHANGED <<successCount, leaked>>

\* fn() raised CancelledError, which `except Exception` lets through: neither
\* _on_success nor _on_failure runs, and a probe keeps its slot.
Cancel(c) ==
  /\ c \in Cancellable
  /\ call[c] \in InFlight
  /\ leaked' = IF call[c] = "probe" THEN leaked + 1 ELSE leaked
  /\ call' = [call EXCEPT ![c] = "idle"]
  /\ UNCHANGED <<state, counters, elapsed>>

\* reset(), by an operator, whatever the state.
Reset ==
  /\ state' = "CLOSED"
  /\ failureCount' = 0
  /\ successCount' = 0
  /\ halfOpenCalls' = 0
  /\ elapsed' = FALSE
  /\ call' = [c \in Callers |-> IF call[c] = "probe" THEN "late" ELSE call[c]]
  /\ UNCHANGED leaked

Next ==
  \/ TimeoutPasses
  \/ \E c \in Callers :
       \/ CallNormally(c) \/ CallAsProbe(c) \/ CallRefused(c)
       \/ Succeed(c) \/ Fail(c) \/ Cancel(c)
  \/ Reset

Spec == Init /\ [][Next]_vars

\* Time passes, callers keep coming, and every fn() ends.
Fairness ==
  /\ WF_vars(TimeoutPasses)
  /\ \A c \in Callers : WF_vars(CallAsProbe(c)) /\ WF_vars(Succeed(c) \/ Fail(c))

FairSpec == Spec /\ Fairness
-----------------------------------------------------------------------------
\* Results may come late, twice from one outage, or after a reset, and still no
\* counter rests on a value that should have moved the breaker: a CLOSED one has
\* not reached failure_threshold, a HALF_OPEN one not success_threshold.
CountersBelowThresholds ==
  /\ state = "CLOSED" => failureCount < failure_threshold
  /\ state = "HALF_OPEN" => successCount < success_threshold

\* _half_open_calls is never decremented, and is reset while probes are in flight;
\* still it covers the period's probes in flight (so these stay within
\* half_open_max_calls), and what it counts beyond them has succeeded or was
\* cancelled.  Outside HALF_OPEN no call counts as a probe.
SlotAccounting ==
  IF state = "HALF_OPEN"
  THEN /\ Cardinality(Probes) <= halfOpenCalls
       /\ halfOpenCalls <= Cardinality(Probes) + successCount + leaked
  ELSE Probes = {}

\* An OPEN breaker opens its doors only after the timeout or by reset(): no
\* result of a call that began before, success or failure, closes it or sets
\* its clock back to elapsed.
OpenHolds ==
  [][state = "OPEN" /\ ~elapsed => Reset \/ state' = "OPEN"]_vars

\* A HALF_OPEN breaker that refuses every call and has no probe in flight.
Exhausted ==
  /\ state = "HALF_OPEN"
  /\ halfOpenCalls >= half_open_max_calls
  /\ Probes = {}

\* With at least success_threshold slots, only cancelled probes can exhaust a
\* half-open period.
ExhaustedOnlyByLeak ==
  Exhausted => half_open_max_calls < success_threshold \/ leaked > 0

\* A breaker that has opened closes again once the service has recovered, unless
\* the half-open period runs out of slots.
RecoversOrExhausted ==
  state # "CLOSED" ~> state = "CLOSED" \/ Exhausted

\* HALF_OPEN is left: by success_threshold successes or by a failure
\* (circuit_breaker.py:43-44).
HalfOpenIsLeft == state = "HALF_OPEN" ~> state # "HALF_OPEN"
=============================================================================
