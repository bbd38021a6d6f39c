------------------------ MODULE CircuitBreaker_proofs ------------------------
(***************************************************************************)
(* What CircuitBreaker's runs check on small instances, proved for every   *)
(* set of callers and every configuration.                                 *)
(***************************************************************************)
EXTENDS CircuitBreaker, FiniteSetTheorems, TLAPS

\* The counters are within their thresholds and account for the probes: what a
\* step may assume of the state it starts from.
IInv == TypeOK /\ CountersBelowThresholds /\ SlotAccounting

\* The probes are a finite set, so that they can be counted.
LEMMA ProbesFinite ==
  /\ IsFiniteSet(Probes) /\ IsFiniteSet(Probes')
  /\ Cardinality(Probes) \in Nat /\ Cardinality(Probes') \in Nat
<1>1. IsFiniteSet(Probes) /\ IsFiniteSet(Probes')
  <2>1. Probes \subseteq Callers /\ Probes' \subseteq Callers
    BY DEF Probes
  <2>2. QED
    BY <2>1, BreakerAssumption, FS_Subset
<1>2. QED
  BY <1>1, FS_CardinalityType

\* A caller that starts a probe is one probe more.
LEMMA ProbeAdded ==
  ASSUME NEW c \in Callers, TypeOK, call[c] # "probe",
         call' = [call EXCEPT ![c] = "probe"]
  PROVE  Cardinality(Probes') = Cardinality(Probes) + 1
<1>1. Probes' = Probes \cup {c}
  BY DEF Probes, TypeOK
<1>2. c \notin Probes
  BY DEF Probes
<1>3. QED
  BY <1>1, <1>2, ProbesFinite, FS_AddElement

\* A caller whose call ends within its period is one probe fewer, if it was one.
LEMMA ProbeEnded ==
  ASSUME NEW c \in Callers, TypeOK,
         call' = [call EXCEPT ![c] = "idle"]
  PROVE  Cardinality(Probes') =
           IF call[c] = "probe" THEN Cardinality(Probes) - 1 ELSE Cardinality(Probes)
<1>1. CASE call[c] = "probe"
  <2>1. Probes' = Probes \ {c} /\ c \in Probes
    BY <1>1 DEF Probes, TypeOK
  <2>2. QED
    BY <1>1, <2>1, ProbesFinite, FS_RemoveElement
<1>2. CASE call[c] # "probe"
  <2>1. Probes' = Probes
    BY <1>2 DEF Probes, TypeOK
  <2>2. QED
    BY <1>2, <2>1
<1>3. QED
  BY <1>1, <1>2

\* A period that is over has no probe left.
LEMMA PeriodOver ==
  ASSUME NEW c \in Callers, NEW what \in {"idle", "normal"},
         call' = Calls(c, what, TRUE)
  PROVE  Probes' = {}
BY DEF Probes, Calls
-----------------------------------------------------------------------------
\* A new breaker is well typed.
LEMMA InitTyped == Init => TypeOK
<1> SUFFICES ASSUME Init PROVE TypeOK
  OBVIOUS
<1>1. elapsed \in BOOLEAN
  BY ONLY Init, Zenon DEF Init
<1>2. QED
  BY <1>1, BreakerAssumption DEF Init, TypeOK

\* Every step keeps the state within its types.
LEMMA TypeStep == TypeOK /\ [Next]_vars => TypeOK'
<1> SUFFICES ASSUME TypeOK, [Next]_vars PROVE TypeOK'
  OBVIOUS
<1> USE BreakerAssumption DEF TypeOK, InFlight
<1>1. CASE TimeoutPasses
  BY <1>1 DEF TimeoutPasses, counters
<1>2. ASSUME NEW c \in Callers, CallNormally(c) PROVE TypeOK'
  BY <1>2 DEF CallNormally, counters
<1>3. ASSUME NEW c \in Callers, CallAsProbe(c) PROVE TypeOK'
  BY <1>3 DEF CallAsProbe, CountsOnEvaluation, HasSlot
<1>4. ASSUME NEW c \in Callers, Succeed(c) PROVE TypeOK'
  BY <1>4 DEF Succeed, FailuresAfterSuccess, SlotsAfterSuccess, Calls
<1>5. ASSUME NEW c \in Callers, Fail(c) PROVE TypeOK'
  <2>1. elapsed' \in BOOLEAN
    BY ONLY TypeOK, <1>5, Zenon DEF TypeOK, Fail
  <2>2. call' \in [Callers -> InFlight \cup {"idle"}]
    BY <1>5 DEF Fail, Calls
  <2>3. QED
    BY <1>5, <2>1, <2>2 DEF Fail
<1>6. ASSUME NEW c \in Callers, Cancel(c) PROVE TypeOK'
  BY <1>6 DEF Cancel, counters
<1>7. CASE Reset
  <2>1. elapsed' \in BOOLEAN
    BY ONLY <1>7, Zenon DEF Reset
  <2>2. QED
    BY <1>7, <2>1 DEF Reset
<1>8. CASE UNCHANGED vars
  BY <1>8 DEF vars, counters
<1>9. QED
  BY <1>1, <1>2, <1>3, <1>4, <1>5, <1>6, <1>7, <1>8 DEF Next, CallRefused

\* Every step keeps the breaker's counters below their thresholds and the
\* accounting of its probes.
LEMMA CountersStep == IInv /\ [Next]_vars => CountersBelowThresholds' /\ SlotAccounting'
<1> SUFFICES ASSUME IInv, [Next]_vars
             PROVE  CountersBelowThresholds' /\ SlotAccounting'
  OBVIOUS
<1> TypeOK'
  BY TypeStep DEF IInv
<1> USE BreakerAssumption, ProbesFinite DEF IInv, CountersBelowThresholds, SlotAccounting
<1>1. CASE TimeoutPasses
  <2>1. Probes' = Probes
    BY <1>1 DEF TimeoutPasses, Probes
  <2>2. QED
    BY <1>1, <2>1 DEF TimeoutPasses, counters
<1>2. ASSUME NEW c \in Callers, CallNormally(c)
      PROVE  CountersBelowThresholds' /\ SlotAccounting'
  <2>1. state = "CLOSED"
    BY <1>2 DEF CallNormally, Evaluated, PeriodStarts, TypeOK
  <2>2. Probes' = {}
    BY <1>2, <2>1 DEF CallNormally, Probes, TypeOK
  <2>3. QED
    BY <1>2, <2>1, <2>2 DEF CallNormally, counters
<1>3. ASSUME NEW c \in Callers, CallAsProbe(c)
      PROVE  CountersBelowThresholds' /\ SlotAccounting'
  <2>1. Cardinality(Probes') = Cardinality(Probes) + 1
    BY <1>3, ProbeAdded DEF CallAsProbe
  <2>2. CASE PeriodStarts
    <3>1. Cardinality(Probes) = 0
      BY <2>2, FS_EmptySet DEF PeriodStarts
    <3>2. QED
      BY <1>3, <2>1, <2>2, <3>1 DEF CallAsProbe, CountsOnEvaluation, TypeOK
  <2>3. CASE ~PeriodStarts
    BY <1>3, <2>1, <2>3 DEF CallAsProbe, CountsOnEvaluation, Evaluated, TypeOK
  <2>4. QED
    BY <2>2, <2>3
<1>4. ASSUME NEW c \in Callers, Succeed(c)
      PROVE  CountersBelowThresholds' /\ SlotAccounting'
  <2>1. CASE Closes
    <3>1. Probes' = {}
      BY <1>4, <2>1, PeriodOver DEF Succeed
    <3>2. QED
      BY <1>4, <2>1, <3>1 DEF Succeed, FailuresAfterSuccess
  <2>2. CASE ~Closes
    <3>1. call' = [call EXCEPT ![c] = "idle"]
      BY <1>4, <2>2 DEF Succeed, Calls, TypeOK
    <3>2. CASE state = "HALF_OPEN"
      <4>1. Cardinality(Probes') \in {Cardinality(Probes), Cardinality(Probes) - 1}
        BY <3>1, ProbeEnded
      <4>2. QED
        BY <1>4, <2>2, <3>2, <4>1
           DEF Succeed, Closes, SlotsAfterSuccess, FailuresAfterSuccess, TypeOK
    <3>3. CASE state # "HALF_OPEN"
      <4>1. Probes' = {}
        BY <3>1, <3>3 DEF Probes, TypeOK
      <4>2. QED
        BY <1>4, <2>2, <3>3, <4>1 DEF Succeed, FailuresAfterSuccess, TypeOK
    <3>4. QED
      BY <3>2, <3>3
  <2>3. QED
    BY <2>1, <2>2
<1>5. ASSUME NEW c \in Callers, Fail(c)
      PROVE  CountersBelowThresholds' /\ SlotAccounting'
  <2>1. Probes' = {} /\ state' # "HALF_OPEN"
    <3>1. CASE state = "HALF_OPEN"
      BY <1>5, <3>1, PeriodOver DEF Fail
    <3>2. CASE state # "HALF_OPEN"
      <4>1. call' = [call EXCEPT ![c] = "idle"] /\ state' # "HALF_OPEN"
        BY <1>5, <3>2 DEF Fail, Calls, TypeOK
      <4>2. QED
        BY <3>2, <4>1 DEF Probes, TypeOK
    <3>3. QED
      BY <3>1, <3>2
  <2>2. state' = "CLOSED" => failureCount' < failure_threshold
    BY <1>5 DEF Fail, TypeOK
  <2>3. QED
    BY <2>1, <2>2
<1>6. ASSUME NEW c \in Callers, Cancel(c)
      PROVE  CountersBelowThresholds' /\ SlotAccounting'
  <2>1. CASE state = "HALF_OPEN"
    <3>1. Cardinality(Probes') = IF call[c] = "probe" THEN Cardinality(Probes) - 1
                                 ELSE Cardinality(Probes)
      BY <1>6, ProbeEnded DEF Cancel
    <3>2. QED
      BY <1>6, <2>1, <3>1 DEF Cancel, counters, TypeOK
  <2>2. CASE state # "HALF_OPEN"
    <3>1. Probes' = {}
      BY <1>6, <2>2 DEF Cancel, Probes, TypeOK
    <3>2. QED
      BY <1>6, <2>2, <3>1 DEF Cancel, counters
  <2>3. QED
    BY <2>1, <2>2
<1>7. CASE Reset
  <2>1. Probes' = {}
    BY <1>7 DEF Reset, Probes
  <2>2. QED
    BY <1>7, <2>1 DEF Reset
<1>8. CASE UNCHANGED vars
  <2>1. Probes' = Probes
    BY <1>8 DEF vars, Probes
  <2>2. QED
    BY <1>8, <2>1 DEF vars, counters
<1>9. QED
  BY <1>1, <1>2, <1>3, <1>4, <1>5, <1>6, <1>7, <1>8 DEF Next, CallRefused
-----------------------------------------------------------------------------
\* The breaker's state stays within its types: _half_open_calls never exceeds
\* half_open_max_calls.
THEOREM TypeCorrect == Spec => []TypeOK
<1>1. QED
  BY InitTyped, TypeStep, PTL DEF Spec

\* The invariant the other theorems rest on: types, counters and accounting.
THEOREM Inductive == Spec => []IInv
<1>1. Init => IInv
  <2> SUFFICES ASSUME Init PROVE IInv
    OBVIOUS
  <2>1. Probes = {}
    BY DEF Init, Probes
  <2>2. QED
    BY <2>1, InitTyped, BreakerAssumption
       DEF Init, IInv, CountersBelowThresholds, SlotAccounting
<1>2. IInv /\ [Next]_vars => IInv'
  BY TypeStep, CountersStep DEF IInv
<1>3. QED
  BY <1>1, <1>2, PTL DEF Spec

\* Whatever results come late, a CLOSED breaker has fewer failures than
\* failure_threshold and a HALF_OPEN one fewer successes than success_threshold.
THEOREM CountersStayBelow == Spec => []CountersBelowThresholds
<1>1. IInv => CountersBelowThresholds
  BY DEF IInv
<1>2. QED
  BY <1>1, Inductive, PTL

\* _half_open_calls covers the period's probes in flight, and what it counts
\* beyond them has succeeded or was cancelled.
THEOREM SlotsAccounted == Spec => []SlotAccounting
<1>1. IInv => SlotAccounting
  BY DEF IInv
<1>2. QED
  BY <1>1, Inductive, PTL

\* A configuration with at least success_threshold slots is exhausted only by
\* cancelled probes.
THEOREM ExhaustionNeedsLeak == Spec => []ExhaustedOnlyByLeak
<1>1. IInv => ExhaustedOnlyByLeak
  <2> SUFFICES ASSUME IInv, Exhausted,
                      half_open_max_calls >= success_threshold
               PROVE  leaked > 0
    BY BreakerAssumption DEF ExhaustedOnlyByLeak
  <2>1. Cardinality(Probes) = 0
    BY FS_EmptySet DEF Exhausted
  <2>2. half_open_max_calls <= successCount + leaked
    BY <2>1, BreakerAssumption DEF IInv, SlotAccounting, Exhausted, TypeOK
  <2>3. successCount < success_threshold
    BY DEF IInv, CountersBelowThresholds, Exhausted
  <2>4. QED
    BY <2>2, <2>3, BreakerAssumption DEF IInv, TypeOK
<1>2. QED
  BY <1>1, Inductive, PTL

\* An OPEN breaker whose timeout has not passed is left only by reset().
THEOREM OpenUntilTimeout == Spec => OpenHolds
<1>1. [Next]_vars => [state = "OPEN" /\ ~elapsed => Reset \/ state' = "OPEN"]_vars
  <2> SUFFICES ASSUME Next, state = "OPEN", ~elapsed, ~Reset
               PROVE  state' = "OPEN"
    OBVIOUS
  <2>1. ASSUME NEW c \in Callers, CallNormally(c) \/ CallAsProbe(c) \/ CallRefused(c)
        PROVE  state' = "OPEN"
    BY <2>1 DEF CallNormally, CallAsProbe, CallRefused, Evaluated, PeriodStarts, vars
  <2>2. ASSUME NEW c \in Callers, Succeed(c) \/ Fail(c) \/ Cancel(c)
        PROVE  state' = "OPEN"
    BY <2>2 DEF Succeed, Closes, Fail, Cancel
  <2>3. CASE TimeoutPasses
    BY <2>3 DEF TimeoutPasses
  <2>4. QED
    BY <2>1, <2>2, <2>3 DEF Next
<1>2. QED
  BY <1>1, PTL DEF Spec, OpenHolds
=============================================================================
