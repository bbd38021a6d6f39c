---------------------------- MODULE Healing_proofs ----------------------------
(***************************************************************************)
(* What Healing's runs check on small instances, proved for every number   *)
(* of roles, loops and reports and for every configuration.                *)
(***************************************************************************)
EXTENDS Healing, FiniteSetTheorems, TLAPS

\* A run of failures is no longer than the reports there have been.
FailuresReported == \A r \in Roles : failures[r] <= reports

\* Unless a start() overlapped a stop(): a loop that lives is the one in _task; once
\* stop() has begun its cancellation is under way; and once stop() has returned
\* there is none.
Lifecycle ==
  ~overlapped =>
    /\ Live \subseteq {task}
    /\ ~running => Live \subseteq cancelled
    /\ ~running /\ stopping = 0 => Live = {}
    /\ stopping # 0 => stopping = task /\ ~running

IInv == TypeOK /\ FailuresReported /\ Lifecycle

LEMMA EvaluateType ==
  ASSUME NEW h, NEW n
  PROVE  Evaluate(h, n) \in Health
BY DEF Evaluate, Health

LEMMA RememberType ==
  ASSUME NEW h \in Seq(Outcomes), Len(h) <= Window, NEW o \in Outcomes
  PROVE  Remember(h, o) \in Seq(Outcomes) /\ Len(Remember(h, o)) <= Window
<1>1. CASE Len(h) < Window
  BY <1>1, HealingAssumption DEF Remember
<1>2. CASE ~(Len(h) < Window)
  <2>1. h # <<>> /\ Len(h) = Window
    BY <1>2, HealingAssumption
  <2>2. Tail(h) \in Seq(Outcomes) /\ Len(Tail(h)) = Window - 1
    BY <2>1, HealingAssumption
  <2>3. Remember(h, o) = Append(Tail(h), o)
    BY <1>2 DEF Remember
  <2>4. QED
    BY <2>2, <2>3, HealingAssumption
<1>3. QED
  BY <1>1, <1>2

\* A monitor's new status is typed, and so is what became of the last one.
LEMMA BecomesTyped ==
  ASSUME NEW r \in Roles, NEW st \in Health, Becomes(r, st),
         status \in [Roles -> Health], handled \in [Roles -> BOOLEAN]
  PROVE  status' \in [Roles -> Health] /\ handled' \in [Roles -> BOOLEAN]
<1>1. status' \in [Roles -> Health]
  BY DEF Becomes
<1>2. handled' \in [Roles -> BOOLEAN]
  BY Zenon DEF Becomes
<1>3. QED
  BY <1>1, <1>2

\* Healing uses an attempt only while one is left.
LEMMA HealTyped ==
  ASSUME NEW r \in Roles, NEW st \in Health, HealersTyped, Heal(r, st)
  PROVE  HealersTyped'
<1>1. CASE MayRecover(r)
  <2>1. attempts' \in [Roles -> 0 .. MaxAttempts]
    BY <1>1, HealingAssumption DEF Heal, MayRecover, HealersTyped
  <2>2. cooled' \in [Roles -> BOOLEAN]
    BY <1>1, Zenon DEF Heal, HealersTyped
  <2>3. handled' \in [Roles -> BOOLEAN]
    BY <1>1, Zenon DEF Heal, HealersTyped
  <2>4. QED
    BY <2>1, <2>2, <2>3 DEF HealersTyped
<1>2. CASE ~MayRecover(r)
  BY <1>2 DEF Heal, HealersTyped, healer
<1>3. QED
  BY <1>1, <1>2

\* Going through the summaries takes an alert only where one is left.
LEMMA GoesThroughTyped ==
  ASSUME NEW l \in Loops, NEW snap \in [Roles -> Health], NEW from \in Nat \ {0},
         GoesThrough(l, snap, from), ChecksTyped, WatchdogTyped
  PROVE  /\ ChecksTyped'
         /\ loop' \in [Loops -> {"unborn", "created", "alerting", "sleeping", "ended"}]
<1>1. PICK next \in {0} \cup from .. NumRoles :
        LET passed == {r \in from .. NumRoles : next = 0 \/ r < next}
            seen == IF next = 0 THEN passed ELSE passed \cup {next}
        IN  /\ next # 0 => MustAlert(next, snap[next])
            /\ alerting' = [alerting EXCEPT ![l] = next]
            /\ alerts' = [r \in Roles |-> IF r \in seen THEN CountsAfter(passed, snap, r)
                                          ELSE alerts[r]]
            /\ loop' = [loop EXCEPT ![l] = IF next = 0 THEN "sleeping" ELSE "alerting"]
            /\ summaries' = [summaries EXCEPT ![l] =
                 [r \in Roles |-> IF next = 0 \/ r < next THEN "HEALTHY" ELSE snap[r]]]
  BY DEF GoesThrough
<1> DEFINE passed == {r \in from .. NumRoles : next = 0 \/ r < next}
           seen == IF next = 0 THEN passed ELSE passed \cup {next}
<1>2. next \in 0 .. NumRoles
  BY HealingAssumption
<1>3. alerting' \in [Loops -> 0 .. NumRoles]
  BY <1>1, <1>2 DEF ChecksTyped
<1>4. loop' \in [Loops -> {"unborn", "created", "alerting", "sleeping", "ended"}]
  BY <1>1 DEF WatchdogTyped
<1>5. \A k \in Loops : loop'[k] = "alerting" <=> alerting'[k] # 0
  BY <1>1, <1>2 DEF ChecksTyped, WatchdogTyped
<1>6. summaries' \in [Loops -> [Roles -> Health]]
  <2>1. [r \in Roles |-> IF next = 0 \/ r < next THEN "HEALTHY" ELSE snap[r]]
          \in [Roles -> Health]
    BY DEF Health
  <2>2. QED
    BY <1>1, <2>1 DEF ChecksTyped
<1>7. ASSUME NEW r \in Roles
      PROVE  (IF r \in seen THEN CountsAfter(passed, snap, r) ELSE alerts[r]) \in 0 .. MaxAlerts
  <2>1. alerts[r] \in 0 .. MaxAlerts
    BY DEF ChecksTyped
  <2>2. CASE r \in passed
    BY <2>1, <2>2, HealingAssumption DEF CountsAfter
  <2>3. CASE r \notin passed /\ next # 0 /\ r = next
    <3>1. alerts[r] < MaxAlerts
      BY <1>1, <2>3 DEF MustAlert
    <3>2. QED
      BY <2>1, <2>3, <3>1, HealingAssumption DEF CountsAfter
  <2>4. CASE r \notin seen
    BY <2>1, <2>4
  <2>5. QED
    BY <2>2, <2>3, <2>4
<1>8. alerts' \in [Roles -> 0 .. MaxAlerts]
  BY <1>1, <1>7
<1>9. QED
  BY <1>3, <1>4, <1>5, <1>6, <1>8 DEF ChecksTyped
-----------------------------------------------------------------------------
\* What each action keeps typed.  An action that leaves a group of variables alone
\* keeps its type without saying so.

LEMMA ReportTyped ==
  ASSUME IInv, NEW r \in Roles, NEW o \in Outcomes, Report(r, o)
  PROVE  TypeOK' /\ FailuresReported'
<1>1. MonitorsTyped /\ HealersTyped /\ WatchdogTyped /\ ChecksTyped /\ FailuresReported
  BY DEF IInv, TypeOK
<1>2. history' \in [Roles -> Seq(Outcomes)] /\ \A k \in Roles : Len(history'[k]) <= Window
  <2>1. /\ Remember(history[r], o) \in Seq(Outcomes)
        /\ Len(Remember(history[r], o)) <= Window
    BY <1>1, RememberType DEF MonitorsTyped
  <2>2. QED
    BY <1>1, <2>1 DEF Report, MonitorsTyped
<1>3. reports' \in 0 .. MaxReports /\ reports' = reports + 1
  BY <1>1, HealingAssumption DEF Report, MonitorsTyped
<1>4. FailuresAfter(r, o) \in 0 .. reports'
  BY <1>1, <1>3, HealingAssumption DEF FailuresAfter, MonitorsTyped, FailuresReported
<1>5. failures' \in [Roles -> 0 .. MaxReports]
  <2>1. FailuresAfter(r, o) \in 0 .. MaxReports
    BY <1>3, <1>4, HealingAssumption
  <2>2. QED
    BY <1>1, <2>1 DEF Report, MonitorsTyped
<1>6. FailuresReported'
  BY <1>1, <1>3, <1>4 DEF Report, MonitorsTyped, FailuresReported
<1>7. status' \in [Roles -> Health] /\ handled' \in [Roles -> BOOLEAN]
  BY <1>1, BecomesTyped, EvaluateType DEF Report, MonitorsTyped, HealersTyped
<1>8. tripped' \in [Roles -> BOOLEAN]
  BY <1>1 DEF Report, MonitorsTyped
<1>9. MonitorsTyped'
  BY <1>2, <1>3, <1>5, <1>7, <1>8 DEF MonitorsTyped
<1>10. HealersTyped' /\ WatchdogTyped' /\ ChecksTyped'
  BY <1>1, <1>7 DEF Report, HealersTyped, WatchdogTyped, ChecksTyped, lifecycle
<1>11. QED
  BY <1>6, <1>9, <1>10 DEF TypeOK

LEMMA CircuitOpensTyped ==
  ASSUME IInv, NEW r \in Roles, CircuitOpens(r)
  PROVE  TypeOK' /\ FailuresReported'
<1>1. MonitorsTyped /\ HealersTyped /\ WatchdogTyped /\ ChecksTyped /\ FailuresReported
  BY DEF IInv, TypeOK
<1>2. status' \in [Roles -> Health] /\ handled' \in [Roles -> BOOLEAN]
  <2>1. "UNHEALTHY" \in Health
    BY DEF Health
  <2>2. QED
    BY <1>1, <2>1, BecomesTyped DEF CircuitOpens, MonitorsTyped, HealersTyped
<1>3. MonitorsTyped' /\ FailuresReported'
  BY <1>1, <1>2 DEF CircuitOpens, MonitorsTyped, FailuresReported
<1>4. HealersTyped' /\ WatchdogTyped' /\ ChecksTyped'
  BY <1>1, <1>2 DEF CircuitOpens, HealersTyped, WatchdogTyped, ChecksTyped, lifecycle
<1>5. QED
  BY <1>3, <1>4 DEF TypeOK

LEMMA CoolsDownTyped ==
  ASSUME IInv, NEW r \in Roles, CoolsDown(r)
  PROVE  TypeOK' /\ FailuresReported'
<1>1. MonitorsTyped /\ HealersTyped /\ WatchdogTyped /\ ChecksTyped /\ FailuresReported
  BY DEF IInv, TypeOK
<1>2. HealersTyped'
  BY <1>1 DEF CoolsDown, HealersTyped
<1>3. MonitorsTyped' /\ FailuresReported' /\ WatchdogTyped' /\ ChecksTyped'
  BY <1>1 DEF CoolsDown, MonitorsTyped, FailuresReported, WatchdogTyped, ChecksTyped,
              monitor, lifecycle
<1>4. QED
  BY <1>2, <1>3 DEF TypeOK

LEMMA ResetRecoveryTyped ==
  ASSUME IInv, NEW r \in Roles, ResetRecovery(r)
  PROVE  TypeOK' /\ FailuresReported'
<1>1. MonitorsTyped /\ HealersTyped /\ WatchdogTyped /\ ChecksTyped /\ FailuresReported
  BY DEF IInv, TypeOK
<1>2. status' \in [Roles -> Health] /\ handled' \in [Roles -> BOOLEAN]
  <2>1. "HEALTHY" \in Health
    BY DEF Health
  <2>2. QED
    BY <1>1, <2>1, BecomesTyped DEF ResetRecovery, MonitorsTyped, HealersTyped
<1>3. MonitorsTyped' /\ FailuresReported'
  <2>1. history' \in [Roles -> Seq(Outcomes)] /\ \A k \in Roles : Len(history'[k]) <= Window
    BY <1>1, HealingAssumption DEF ResetRecovery, MonitorsTyped, HistoryAfterReset
  <2>2. failures' \in [Roles -> 0 .. MaxReports] /\ FailuresReported'
    BY <1>1, HealingAssumption DEF ResetRecovery, MonitorsTyped, FailuresReported
  <2>3. QED
    BY <1>1, <1>2, <2>1, <2>2 DEF ResetRecovery, MonitorsTyped
<1>4. HealersTyped' /\ WatchdogTyped' /\ ChecksTyped'
  <2>1. attempts' \in [Roles -> 0 .. MaxAttempts]
    BY <1>1, HealingAssumption DEF ResetRecovery, HealersTyped
  <2>2. QED
    BY <1>1, <1>2, <2>1
       DEF ResetRecovery, HealersTyped, WatchdogTyped, ChecksTyped, lifecycle
<1>5. QED
  BY <1>3, <1>4 DEF TypeOK

LEMMA LoopStepTyped ==
  ASSUME IInv, NEW l \in Loops, LoopStep(l)
  PROVE  TypeOK' /\ FailuresReported'
<1>1. MonitorsTyped /\ HealersTyped /\ WatchdogTyped /\ ChecksTyped /\ FailuresReported
  BY DEF IInv, TypeOK
<1>2. MonitorsTyped' /\ FailuresReported'
  BY <1>1 DEF LoopStep, LoopChecks, LoopEnds, AlertSent, CancelDelivered, MonitorsTyped,
              FailuresReported, monitor
<1>3. CASE LoopChecks(l)
  <2>1. ChecksTyped'
        /\ loop' \in [Loops -> {"unborn", "created", "alerting", "sleeping", "ended"}]
    BY <1>1, <1>3, GoesThroughTyped, HealingAssumption DEF LoopChecks, MonitorsTyped
  <2>2. HealersTyped' /\ WatchdogTyped'
    BY <1>1, <1>3, <2>1 DEF LoopChecks, HealersTyped, WatchdogTyped, healer, lifecycle
  <2>3. QED
    BY <1>2, <2>1, <2>2 DEF TypeOK
<1>4. CASE LoopEnds(l)
  <2>1. WatchdogTyped' /\ HealersTyped'
    BY <1>1, <1>4 DEF LoopEnds, HealersTyped, WatchdogTyped, healer, lifecycle
  <2>2. ChecksTyped'
    BY <1>1, <1>4 DEF LoopEnds, ChecksTyped, WatchdogTyped
  <2>3. QED
    BY <1>2, <2>1, <2>2 DEF TypeOK
<1>5. CASE AlertSent(l)
  <2>1. alerting[l] \in Roles /\ alerting[l] + 1 \in Nat \ {0}
    BY <1>1, <1>5, HealingAssumption DEF AlertSent, ChecksTyped, Roles
  <2>2. summaries[l] \in [Roles -> Health] /\ summaries[l][alerting[l]] \in Health
    BY <1>1, <2>1 DEF ChecksTyped
  <2>3. HealersTyped'
    <3>1. CASE AutoHeal
      BY <1>1, <1>5, <2>1, <2>2, <3>1, HealTyped DEF AlertSent
    <3>2. CASE ~AutoHeal
      BY <1>1, <1>5, <3>2 DEF AlertSent, HealersTyped, healer
    <3>3. QED
      BY <3>1, <3>2
  <2>4. ChecksTyped'
        /\ loop' \in [Loops -> {"unborn", "created", "alerting", "sleeping", "ended"}]
    BY <1>1, <1>5, <2>1, <2>2, GoesThroughTyped DEF AlertSent
  <2>5. WatchdogTyped'
    BY <1>1, <1>5, <2>4 DEF AlertSent, WatchdogTyped, lifecycle
  <2>6. QED
    BY <1>2, <2>3, <2>4, <2>5 DEF TypeOK
<1>6. CASE CancelDelivered(l)
  <2>1. WatchdogTyped' /\ HealersTyped'
    BY <1>1, <1>6 DEF CancelDelivered, HealersTyped, WatchdogTyped, healer
  <2>2. ChecksTyped'
    <3>1. AllHealthy \in [Roles -> Health]
      BY DEF AllHealthy, Health
    <3>2. QED
      BY <1>1, <1>6, <3>1, HealingAssumption DEF CancelDelivered, ChecksTyped, WatchdogTyped
  <2>3. QED
    BY <1>2, <2>1, <2>2 DEF TypeOK
<1>7. QED
  BY <1>3, <1>4, <1>5, <1>6 DEF LoopStep

LEMMA ClientTyped ==
  ASSUME IInv, (\E l \in Loops : Start(l)) \/ Stop \/ StopReturns
  PROVE  TypeOK' /\ FailuresReported'
<1>1. MonitorsTyped /\ HealersTyped /\ WatchdogTyped /\ ChecksTyped /\ FailuresReported
  BY DEF IInv, TypeOK
<1>2. MonitorsTyped' /\ FailuresReported' /\ HealersTyped'
  BY <1>1 DEF Start, Stop, StopReturns, MonitorsTyped, FailuresReported, HealersTyped,
              monitor, healer
<1>3. SUFFICES WatchdogTyped' /\ ChecksTyped'
  BY <1>2 DEF TypeOK
<1>4. ASSUME NEW l \in Loops, Start(l)
      PROVE  WatchdogTyped' /\ ChecksTyped'
  <2>1. l \in 0 .. MaxLoops
    BY HealingAssumption DEF Loops
  <2>2. overlapped' \in BOOLEAN
    BY <1>4, Zenon DEF Start
  <2>3. WatchdogTyped'
    BY <1>1, <1>4, <2>1, <2>2 DEF Start, WatchdogTyped
  <2>4. ChecksTyped'
    BY <1>1, <1>4 DEF Start, ChecksTyped, WatchdogTyped
  <2>5. QED
    BY <2>3, <2>4
<1>5. CASE Stop
  <2>1. ToCancel \subseteq Loops /\ (ToCancel # {} => task \in Loops)
    BY <1>1, HealingAssumption DEF ToCancel, WatchdogTyped, Loops
  <2>2. QED
    BY <1>1, <1>5, <2>1, HealingAssumption DEF Stop, WatchdogTyped, ChecksTyped
<1>6. CASE StopReturns
  BY <1>1, <1>6, HealingAssumption DEF StopReturns, WatchdogTyped, ChecksTyped
<1>7. QED
  BY <1>4, <1>5, <1>6
-----------------------------------------------------------------------------
LEMMA InitIInv == Init => IInv
<1> SUFFICES ASSUME Init PROVE IInv
  OBVIOUS
<1>1. AllHealthy \in [Roles -> Health]
  BY DEF AllHealthy, Health
<1>2. MonitorsTyped /\ FailuresReported
  BY <1>1, HealingAssumption DEF Init, MonitorsTyped, FailuresReported
<1>3. HealersTyped /\ WatchdogTyped
  <2>1. attempts \in [Roles -> 0 .. MaxAttempts] /\ cooled \in [Roles -> BOOLEAN]
    BY HealingAssumption DEF Init
  <2>2. handled \in [Roles -> BOOLEAN] /\ overlapped \in BOOLEAN /\ running \in BOOLEAN
    BY DEF Init
  <2>3. /\ loop \in [Loops -> {"unborn", "created", "alerting", "sleeping", "ended"}]
        /\ task \in 0 .. MaxLoops /\ stopping \in 0 .. MaxLoops /\ cancelled \subseteq Loops
    BY HealingAssumption DEF Init
  <2>4. QED
    BY <2>1, <2>2, <2>3 DEF HealersTyped, WatchdogTyped
<1>4. ChecksTyped
  BY <1>1, HealingAssumption DEF Init, ChecksTyped
<1>5. Lifecycle
  BY DEF Init, Lifecycle, Live
<1>6. QED
  BY <1>2, <1>3, <1>4, <1>5 DEF IInv, TypeOK

\* A loop that takes a step has not been cancelled; it lives before, and it is the
\* only one whose place changes.
LEMMA LoopStepLifecycle ==
  ASSUME IInv, NEW l \in Loops, LoopStep(l)
  PROVE  Lifecycle'
<1>1. WatchdogTyped /\ Lifecycle
  BY DEF IInv, TypeOK
<1>2. UNCHANGED <<running, task, stopping, overlapped>>
  BY DEF LoopStep, LoopChecks, LoopEnds, AlertSent, CancelDelivered, lifecycle
<1>3. CASE l \notin cancelled
  <2>1. l \in Live /\ UNCHANGED cancelled
    BY <1>3 DEF LoopStep, LoopChecks, LoopEnds, AlertSent, CancelDelivered, lifecycle, Live
  <2>2. Live' \subseteq Live
    <3>1. \A k \in Loops \ {l} : loop'[k] = loop[k]
      BY <1>1, <1>3 DEF LoopStep, LoopChecks, LoopEnds, AlertSent, CancelDelivered,
                        GoesThrough, WatchdogTyped
    <3>2. QED
      BY <2>1, <3>1 DEF Live
  <2>3. QED
    BY <1>1, <1>2, <1>3, <2>1, <2>2 DEF Lifecycle
<1>4. CASE l \in cancelled
  <2>1. CancelDelivered(l)
    BY <1>4 DEF LoopStep, LoopChecks, LoopEnds, AlertSent
  <2>2. Live' \subseteq Live \ {l} /\ cancelled' = cancelled \ {l}
    BY <1>1, <2>1 DEF CancelDelivered, Live, WatchdogTyped
  <2>3. QED
    BY <1>1, <1>2, <2>2 DEF Lifecycle
<1>5. QED
  BY <1>3, <1>4

\* A start() that does not overlap a stop() finds no loop alive.
LEMMA StartLifecycle ==
  ASSUME IInv, NEW l \in Loops, Start(l)
  PROVE  Lifecycle'
<1> SUFFICES ASSUME ~overlapped'
             PROVE  /\ Live' \subseteq {task'} /\ running'
                    /\ stopping' = 0
  BY DEF Lifecycle
<1>1. ~overlapped /\ stopping = 0
  BY Zenon DEF Start
<1>2. Live = {}
  BY <1>1 DEF IInv, Lifecycle, Start, MayStart
<1>3. Live' \subseteq {l}
  BY <1>2 DEF Start, Live, IInv, TypeOK, WatchdogTyped
<1>4. QED
  BY <1>1, <1>3 DEF Start

LEMMA StopLifecycle ==
  ASSUME IInv, Stop
  PROVE  Lifecycle'
<1> SUFFICES ASSUME ~overlapped'
             PROVE  /\ Live' \subseteq {task'}
                    /\ Live' \subseteq cancelled'
                    /\ stopping' = 0 => Live' = {}
                    /\ stopping' # 0 => stopping' = task' /\ ~running'
  BY DEF Lifecycle
<1>1. Live \subseteq {task} /\ Live' = Live /\ stopping = 0 /\ ~running'
  BY DEF Stop, IInv, Lifecycle, Live
<1>2. Live \subseteq ToCancel
  <2>1. ASSUME NEW l \in Live
        PROVE  l = task /\ l # 0 /\ loop[l] # "ended"
    BY <1>1, <2>1, HealingAssumption DEF Live, Loops
  <2>2. QED
    BY <2>1 DEF ToCancel
<1>3. CASE ToCancel = {}
  <2>1. Live = {}
    BY <1>2, <1>3
  <2>2. QED
    BY <1>1, <1>3, <2>1 DEF Stop
<1>4. CASE ToCancel # {}
  <2>1. task # 0 /\ stopping' = task /\ task' = task
    BY <1>4 DEF ToCancel, Stop
  <2>2. Live' \subseteq cancelled'
    BY <1>1, <1>2 DEF Stop
  <2>3. QED
    BY <1>1, <2>1, <2>2
<1>5. QED
  BY <1>3, <1>4

\* stop() returns when the loop it awaited, the only one, has ended.
LEMMA StopReturnsLifecycle ==
  ASSUME IInv, StopReturns
  PROVE  Lifecycle'
<1> SUFFICES ASSUME ~overlapped
             PROVE  Live' = {} /\ stopping' = 0
  BY DEF Lifecycle, StopReturns
<1>1. Live \subseteq {stopping} /\ loop[stopping] = "ended"
  BY DEF StopReturns, IInv, Lifecycle
<1>2. QED
  BY <1>1 DEF StopReturns, Live

\* The inductive invariant: types, and what the lifecycle allows.
THEOREM Inductive == Spec => []IInv
<1>1. ASSUME IInv, [Next]_vars
      PROVE  IInv'
  <2>1. ASSUME NEW r \in Roles, NEW o \in Outcomes, Report(r, o)
        PROVE  IInv'
    <3>1. Lifecycle'
      BY <1>1, <2>1 DEF IInv, Report, Lifecycle, lifecycle, Live
    <3>2. QED
      BY <1>1, <2>1, <3>1, ReportTyped DEF IInv
  <2>2. ASSUME NEW r \in Roles, CircuitOpens(r) \/ CoolsDown(r) \/ ResetRecovery(r)
        PROVE  IInv'
    <3>1. Lifecycle'
      BY <1>1, <2>2
         DEF IInv, CircuitOpens, CoolsDown, ResetRecovery, Lifecycle, lifecycle, Live
    <3>2. QED
      BY <1>1, <2>2, <3>1, CircuitOpensTyped, CoolsDownTyped, ResetRecoveryTyped DEF IInv
  <2>3. ASSUME NEW l \in Loops, LoopStep(l)
        PROVE  IInv'
    BY <1>1, <2>3, LoopStepTyped, LoopStepLifecycle DEF IInv
  <2>4. ASSUME NEW l \in Loops, Start(l)
        PROVE  IInv'
    BY <1>1, <2>4, ClientTyped, StartLifecycle DEF IInv
  <2>5. CASE Stop
    BY <1>1, <2>5, ClientTyped, StopLifecycle DEF IInv
  <2>6. CASE StopReturns
    BY <1>1, <2>6, ClientTyped, StopReturnsLifecycle DEF IInv
  <2>7. CASE UNCHANGED vars
    <3>1. UNCHANGED <<history, failures, status, tripped, reports, attempts, cooled, handled>>
      BY <2>7 DEF vars, monitor, healer
    <3>2. UNCHANGED <<running, task, cancelled, stopping, overlapped,
                      loop, summaries, alerting, alerts>>
      BY <2>7 DEF vars, lifecycle
    <3>3. MonitorsTyped' /\ HealersTyped' /\ FailuresReported'
      BY <1>1, <3>1 DEF IInv, TypeOK, MonitorsTyped, HealersTyped, FailuresReported
    <3>4. WatchdogTyped' /\ ChecksTyped' /\ Lifecycle'
      BY <1>1, <3>2 DEF IInv, TypeOK, WatchdogTyped, ChecksTyped, Lifecycle, Live
    <3>5. QED
      BY <3>3, <3>4 DEF IInv, TypeOK
  <2>8. QED
    BY <1>1, <2>1, <2>2, <2>3, <2>4, <2>5, <2>6, <2>7 DEF Next
<1>2. QED
  BY <1>1, InitIInv, PTL DEF Spec

\* Every variable keeps to its values, attempts and alerts to their limits.
THEOREM TypeCorrect == Spec => []TypeOK
<1>1. IInv => TypeOK
  BY DEF IInv
<1>2. QED
  BY <1>1, Inductive, PTL

\* Unless a start() overlaps a stop(), at most one loop lives, the one in _task.
THEOREM AtMostOneLoop == Spec => []OneLoop
<1>1. IInv => OneLoop
  BY DEF IInv, Lifecycle, OneLoop
<1>2. QED
  BY <1>1, Inductive, PTL

\* From the beginning of stop() to the next start(), nothing is alerted or healed.
THEOREM StoppedIsSilent == Spec => SilentWhenStopped
<1>1. ASSUME IInv, [Next]_vars
      PROVE  ~overlapped /\ ~running =>
               /\ UNCHANGED alerts
               /\ \A r \in Roles : attempts'[r] <= attempts[r]
  <2> SUFFICES ASSUME ~overlapped, ~running
               PROVE  /\ UNCHANGED alerts
                      /\ \A r \in Roles : attempts'[r] <= attempts[r]
    OBVIOUS
  <2>1. /\ attempts \in [Roles -> 0 .. MaxAttempts]
        /\ Live \subseteq cancelled
    BY <1>1 DEF IInv, TypeOK, HealersTyped, Lifecycle
  <2>2. \A r \in Roles : attempts[r] <= attempts[r]
    BY <2>1, HealingAssumption
  <2>3. ASSUME NEW r \in Roles, ResetRecovery(r)
        PROVE  UNCHANGED alerts /\ \A k \in Roles : attempts'[k] <= attempts[k]
    BY <2>1, <2>2, <2>3, HealingAssumption DEF ResetRecovery
  <2>4. ASSUME NEW l \in Loops, LoopStep(l)
        PROVE  UNCHANGED <<alerts, attempts>>
    <3>1. CASE l \in cancelled
      BY <2>4, <3>1
         DEF LoopStep, LoopChecks, LoopEnds, AlertSent, CancelDelivered, healer
    <3>2. CASE l \notin cancelled
      <4>1. l \notin Live
        BY <2>1, <3>2
      <4>2. QED
        BY <2>4, <3>2, <4>1
           DEF LoopStep, LoopChecks, LoopEnds, AlertSent, CancelDelivered, Live
    <3>3. QED
      BY <3>1, <3>2
  <2>5. CASE UNCHANGED <<alerts, attempts>>
    BY <2>2, <2>5
  <2>6. ASSUME NEW r \in Roles, NEW o \in Outcomes, Report(r, o)
        PROVE  UNCHANGED <<alerts, attempts>>
    BY <2>6 DEF Report
  <2>7. ASSUME NEW r \in Roles, CircuitOpens(r) \/ CoolsDown(r)
        PROVE  UNCHANGED <<alerts, attempts>>
    BY <2>7 DEF CircuitOpens, CoolsDown
  <2>8. ASSUME NEW l \in Loops, Start(l)
        PROVE  UNCHANGED <<alerts, attempts>>
    BY <2>8 DEF Start, healer
  <2>9. Stop \/ StopReturns => UNCHANGED <<alerts, attempts>>
    BY DEF Stop, StopReturns, healer
  <2>10. UNCHANGED vars => UNCHANGED <<alerts, attempts>>
    BY DEF vars, healer
  <2>11. QED
    BY <1>1, <2>3, <2>4, <2>5, <2>6, <2>7, <2>8, <2>9, <2>10 DEF Next
<1>2. IInv /\ [Next]_vars =>
        [~overlapped /\ ~running =>
           /\ UNCHANGED alerts
           /\ \A r \in Roles : attempts'[r] <= attempts[r]]_vars
  BY <1>1
<1>3. QED
  BY <1>2, Inductive, PTL DEF Spec, SilentWhenStopped
-----------------------------------------------------------------------------
(***************************************************************************)
(* The counter of failures and the deque.                                  *)
(***************************************************************************)
\* As many of the failures in a row as the deque has room for.
Remembered(f) == IF f < Window THEN f ELSE Window

\* They are at the deque's end, and what is before them, if anything is, was a success.
EndsWith(h, f) ==
  /\ Remembered(f) <= Len(h)
  /\ \A i \in DOMAIN h : i > Len(h) - Remembered(f) => ~h[i].success
  /\ Remembered(f) < Len(h) => h[Len(h) - Remembered(f)].success

\* The status is what they evaluate to, but for a breaker that has opened since.
StatusOf(r) ==
  IF tripped[r]
  THEN status[r] = "UNHEALTHY" /\ Evaluate(history[r], failures[r]) \in {"HEALTHY", "DEGRADED"}
  ELSE status[r] = Evaluate(history[r], failures[r])

Coherent == \A r \in Roles : EndsWith(history[r], failures[r]) /\ StatusOf(r)

LEMMA RememberIs ==
  ASSUME NEW h \in Seq(Outcomes), Len(h) <= Window, NEW o \in Outcomes
  PROVE  LET g == Remember(h, o) IN
         /\ Len(h) < Window => /\ Len(g) = Len(h) + 1 /\ g[Len(h) + 1] = o
                               /\ \A i \in 1 .. Len(h) : g[i] = h[i]
         /\ Len(h) = Window => /\ Len(g) = Window /\ g[Window] = o
                               /\ \A i \in 1 .. Window - 1 : g[i] = h[i + 1]
<1>1. CASE Len(h) < Window
  BY <1>1, HealingAssumption DEF Remember
<1>2. CASE Len(h) = Window
  <2>1. /\ h # <<>> /\ Tail(h) \in Seq(Outcomes) /\ Len(Tail(h)) = Window - 1
        /\ \A i \in 1 .. Window - 1 : Tail(h)[i] = h[i + 1]
    BY <1>2, HealingAssumption
  <2>2. Remember(h, o) = Append(Tail(h), o)
    BY <1>2, HealingAssumption DEF Remember
  <2>3. QED
    BY <1>2, <2>1, <2>2, HealingAssumption
<1>3. QED
  BY <1>1, <1>2

LEMMA RememberKeepsTheEnd ==
  ASSUME NEW h \in Seq(Outcomes), Len(h) <= Window, NEW f \in Nat, EndsWith(h, f),
         NEW o \in Outcomes
  PROVE  EndsWith(Remember(h, o), IF o.success THEN 0 ELSE f + 1)
<1> DEFINE g == Remember(h, o)
           n == Len(h)
           m == Len(g)
           k == Remembered(f)
<1>1. /\ g \in Seq(Outcomes) /\ m <= Window /\ n \in Nat /\ m \in Nat /\ Window \in Nat \ {0}
      /\ DOMAIN g = 1 .. m /\ DOMAIN h = 1 .. n
  BY RememberType, HealingAssumption
<1>2. /\ n < Window => m = n + 1 /\ g[n + 1] = o /\ \A i \in 1 .. n : g[i] = h[i]
      /\ n = Window => m = Window /\ g[Window] = o /\ \A i \in 1 .. Window - 1 : g[i] = h[i + 1]
  BY RememberIs
<1>3. /\ k <= n /\ k \in Nat
      /\ \A i \in 1 .. n : i > n - k => ~h[i].success
      /\ k < n => h[n - k].success
  BY <1>1 DEF EndsWith, Remembered
<1>4. m > 0 /\ g[m] = o /\ n <= Window
  <2> HIDE DEF g, m
  <2>1. n <= Window
    OBVIOUS
  <2> HIDE DEF n
  <2>2. QED
    BY <1>1, <1>2, <2>1
<1>5. CASE o.success
  <2>1. Remembered(0) = 0
    BY <1>1 DEF Remembered
  <2>2. EndsWith(g, 0)
    <3> HIDE DEF g
    <3> QED BY <1>1, <1>4, <1>5, <2>1 DEF EndsWith
  <2>3. QED
    BY <1>5, <2>2
<1>6. CASE ~o.success
  <2> DEFINE q == Remembered(f + 1)
  <2>1. q = (IF n < Window THEN k + 1 ELSE IF f < Window THEN k + 1 ELSE Window) /\ q \in Nat
    BY <1>1, <1>3, <1>4 DEF Remembered
  <2>2. f < Window => k = f
    BY DEF Remembered
  <2>3. ~(f < Window) => k = Window /\ n = Window
    <3>1. ~(f < Window) => k = Window
      BY DEF Remembered
    <3> HIDE DEF g, n, m, k
    <3>2. QED
      BY <1>1, <1>3, <1>4, <3>1
  <2> HIDE DEF g, n, m, k, q
  <2>4. q <= m
    BY <1>1, <1>2, <1>3, <1>4, <2>1, <2>2, <2>3
  <2>5. ASSUME NEW i \in 1 .. m, i > m - q
        PROVE  ~g[i].success
    <3>1. CASE i = m
      BY <1>4, <1>6, <3>1
    <3>2. CASE i # m /\ n < Window
      <4>1. i \in 1 .. n /\ i > n - k /\ g[i] = h[i]
        BY <1>1, <1>2, <1>3, <2>1, <2>5, <3>2
      <4>2. QED
        BY <1>3, <4>1
    <3>3. CASE i # m /\ n = Window
      <4>1. i \in 1 .. Window - 1 /\ g[i] = h[i + 1] /\ i + 1 \in 1 .. n
        BY <1>1, <1>2, <2>5, <3>3
      <4>2. i + 1 > n - k
        BY <1>1, <1>2, <1>3, <2>1, <2>2, <2>3, <2>5, <3>3
      <4>3. QED
        BY <1>3, <4>1, <4>2
    <3>4. QED
      BY <1>1, <1>4, <3>1, <3>2, <3>3
  <2>6. ASSUME q < m
        PROVE  g[m - q].success
    <3>1. CASE n < Window
      <4>1. m - q = n - k /\ k < n /\ n - k \in 1 .. n
        BY <1>1, <1>2, <1>3, <2>1, <2>6, <3>1
      <4>2. QED
        BY <1>2, <1>3, <3>1, <4>1
    <3>2. CASE n = Window
      <4>1. f < Window /\ q = k + 1 /\ m = Window
        BY <1>1, <1>2, <2>1, <2>6, <3>2
      <4>2. m - q \in 1 .. Window - 1 /\ (m - q) + 1 = n - k /\ k < n
        BY <1>1, <1>3, <2>6, <3>2, <4>1
      <4>3. QED
        BY <1>2, <1>3, <3>2, <4>2
    <3>3. QED
      BY <1>1, <1>4, <3>1, <3>2
  <2>7. EndsWith(g, f + 1)
    BY <1>1, <2>4, <2>5, <2>6 DEF EndsWith, m, q
  <2>8. QED
    BY <1>6, <2>7 DEF g
<1>7. QED
  BY <1>5, <1>6

LEMMA NothingEndsWithNothing == EndsWith(<<>>, 0) /\ Evaluate(<<>>, 0) = "HEALTHY"
<1>1. Len(<<>>) = 0 /\ DOMAIN <<>> = {}
  OBVIOUS
<1>2. EndsWith(<<>>, 0)
  BY <1>1, HealingAssumption DEF EndsWith, Remembered
<1>3. Evaluate(<<>>, 0) = "HEALTHY"
  BY <1>1, HealingAssumption DEF Evaluate
<1>4. QED
  BY <1>2, <1>3

LEMMA CoherentInit == Init => Coherent
<1> SUFFICES ASSUME Init, NEW r \in Roles PROVE EndsWith(history[r], failures[r]) /\ StatusOf(r)
  BY DEF Coherent
<1>1. history[r] = <<>> /\ failures[r] = 0 /\ status[r] = "HEALTHY"
  BY DEF Init, AllHealthy
<1>2. tripped[r] = FALSE
  BY DEF Init
<1>3. StatusOf(r)
  <2>1. ~tripped[r]
    BY <1>2
  <2>2. status[r] = Evaluate(history[r], failures[r])
    BY <1>1, NothingEndsWithNothing
  <2>3. QED
    BY <2>1, <2>2, Zenon DEF StatusOf
<1>4. QED
  BY <1>1, <1>3, NothingEndsWithNothing

\* A monitor that nothing was reported to.
LEMMA SameMonitorIsCoherent ==
  ASSUME NEW r, EndsWith(history[r], failures[r]), StatusOf(r),
         history'[r] = history[r], failures'[r] = failures[r],
         status'[r] = status[r], tripped'[r] = tripped[r]
  PROVE  (EndsWith(history[r], failures[r]) /\ StatusOf(r))'
<1>1. EndsWith(history'[r], failures'[r])
  OBVIOUS
<1>2. StatusOf(r)'
  <2>1. Evaluate(history'[r], failures'[r]) = Evaluate(history[r], failures[r])
    OBVIOUS
  <2>2. QED
    BY <2>1, Zenon DEF StatusOf
<1>3. QED
  BY <1>1, <1>2 DEF EndsWith, Remembered

\* A monitor that has just evaluated what it holds.
LEMMA EvaluatedIsCoherent ==
  ASSUME NEW r, NEW h, NEW f, EndsWith(h, f),
         history'[r] = h, failures'[r] = f, status'[r] = Evaluate(h, f), tripped'[r] = FALSE
  PROVE  (EndsWith(history[r], failures[r]) /\ StatusOf(r))'
<1>1. EndsWith(history'[r], failures'[r])
  OBVIOUS
<1>2. StatusOf(r)'
  <2>1. ~tripped'[r]
    OBVIOUS
  <2>2. status'[r] = Evaluate(history'[r], failures'[r])
    OBVIOUS
  <2>3. QED
    BY <2>1, <2>2, Zenon DEF StatusOf
<1>3. QED
  BY <1>1, <1>2 DEF EndsWith, Remembered

LEMMA CoherentNext ==
  ASSUME IInv, Coherent, [Next]_vars
  PROVE  Coherent'
<1> DEFINE Fine(k) == EndsWith(history[k], failures[k]) /\ StatusOf(k)
<1>1. /\ history \in [Roles -> Seq(Outcomes)] /\ \A k \in Roles : Len(history[k]) <= Window
      /\ failures \in [Roles -> 0 .. MaxReports] /\ status \in [Roles -> Health]
      /\ tripped \in [Roles -> BOOLEAN]
  BY DEF IInv, TypeOK, MonitorsTyped
<1>2. \A k \in Roles : Fine(k)
  BY DEF Coherent
<1>3. ASSUME NEW r \in Roles, NEW k \in Roles, k # r,
             \E h : history' = [history EXCEPT ![r] = h] \/ history' = history,
             \E f : failures' = [failures EXCEPT ![r] = f] \/ failures' = failures,
             \E s : status' = [status EXCEPT ![r] = s],
             \E b : tripped' = [tripped EXCEPT ![r] = b]
      PROVE  Fine(k)'
  <2>1. /\ history'[k] = history[k] /\ failures'[k] = failures[k] /\ status'[k] = status[k]
        /\ tripped'[k] = tripped[k]
    BY <1>1, <1>3
  <2>2. QED
    BY <1>2, <2>1, SameMonitorIsCoherent
<1>4. ASSUME NEW r \in Roles, NEW o \in Outcomes, Report(r, o)
      PROVE  \A k \in Roles : Fine(k)'
  <2> DEFINE h == Remember(history[r], o)
             f == FailuresAfter(r, o)
             s == Evaluate(h, f)
  <2>1. /\ history' = [history EXCEPT ![r] = h] /\ failures' = [failures EXCEPT ![r] = f]
        /\ status' = [status EXCEPT ![r] = s] /\ tripped' = [tripped EXCEPT ![r] = FALSE]
    BY <1>4 DEF Report, Becomes
  <2>2. EndsWith(h, f)
    <3>1. history[r] \in Seq(Outcomes) /\ Len(history[r]) <= Window /\ failures[r] \in Nat
      BY <1>1, HealingAssumption
    <3>2. QED
      BY <1>2, <3>1, RememberKeepsTheEnd DEF FailuresAfter
  <2> HIDE DEF h, f, s
  <2>3. Fine(r)'
    <3>1. /\ history'[r] = h /\ failures'[r] = f /\ status'[r] = Evaluate(h, f)
          /\ tripped'[r] = FALSE
      BY <1>1, <2>1 DEF s
    <3>2. QED
      BY <2>2, <3>1, EvaluatedIsCoherent
  <2>4. QED
    BY <1>3, <2>1, <2>3
<1>5. ASSUME NEW r \in Roles, CircuitOpens(r)
      PROVE  \A k \in Roles : Fine(k)'
  <2>1. /\ history' = history /\ failures' = failures /\ status[r] \in {"HEALTHY", "DEGRADED"}
        /\ status' = [status EXCEPT ![r] = "UNHEALTHY"]
        /\ tripped' = [tripped EXCEPT ![r] = TRUE]
    BY <1>5 DEF CircuitOpens, Becomes
  <2>2. Fine(r)'
    <3>1. ~tripped[r] /\ status[r] = Evaluate(history[r], failures[r])
      BY <1>2, <2>1 DEF StatusOf
    <3>2. tripped'[r] /\ status'[r] = "UNHEALTHY"
          /\ Evaluate(history'[r], failures'[r]) \in {"HEALTHY", "DEGRADED"}
      BY <1>1, <2>1, <3>1
    <3>3. StatusOf(r)'
      BY <3>2, Zenon DEF StatusOf
    <3>4. EndsWith(history[r], failures[r])'
      BY <1>2, <2>1 DEF EndsWith, Remembered
    <3>5. QED
      BY <3>3, <3>4
  <2>3. QED
    BY <1>3, <2>1, <2>2
<1>6. ASSUME NEW r \in Roles, ResetRecovery(r)
      PROVE  \A k \in Roles : Fine(k)'
  <2>1. /\ history' = [history EXCEPT ![r] = <<>>] /\ failures' = [failures EXCEPT ![r] = 0]
        /\ status' = [status EXCEPT ![r] = "HEALTHY"]
        /\ tripped' = [tripped EXCEPT ![r] = FALSE]
    BY <1>6 DEF ResetRecovery, HistoryAfterReset, Becomes
  <2>2. Fine(r)'
    <3>1. /\ history'[r] = <<>> /\ failures'[r] = 0 /\ status'[r] = Evaluate(<<>>, 0)
          /\ tripped'[r] = FALSE
      BY <1>1, <2>1, NothingEndsWithNothing
    <3>2. QED
      BY <3>1, NothingEndsWithNothing, EvaluatedIsCoherent
  <2>3. QED
    BY <1>3, <2>1, <2>2
<1>7. ASSUME UNCHANGED <<history, failures, status, tripped>>
      PROVE  \A k \in Roles : Fine(k)'
  BY <1>2, <1>7, SameMonitorIsCoherent
<1>8. ASSUME NEW r \in Roles, CoolsDown(r) PROVE UNCHANGED <<history, failures, status, tripped>>
  BY <1>8 DEF CoolsDown, monitor
<1>9. ASSUME NEW l \in Loops, LoopStep(l) \/ Start(l)
      PROVE  UNCHANGED <<history, failures, status, tripped>>
  BY <1>9 DEF LoopStep, LoopChecks, LoopEnds, AlertSent, CancelDelivered, Start, monitor
<1>10. ASSUME Stop \/ StopReturns PROVE UNCHANGED <<history, failures, status, tripped>>
  BY <1>10 DEF Stop, StopReturns, monitor
<1>11. ASSUME UNCHANGED vars PROVE UNCHANGED <<history, failures, status, tripped>>
  BY <1>11 DEF vars, monitor
<1>12. \A k \in Roles : Fine(k)'
  <2> HIDE DEF Fine
  <2> QED BY <1>4, <1>5, <1>6, <1>7, <1>8, <1>9, <1>10, <1>11 DEF Next
<1>13. QED
  BY <1>12 DEF Coherent

\* The failures at the deque's end, counted.
LEMMA EndIsCounted ==
  ASSUME NEW h \in Seq(Outcomes), NEW f \in Nat, EndsWith(h, f)
  PROVE  Cardinality({i \in DOMAIN h : \A j \in i .. Len(h) : ~h[j].success}) = Remembered(f)
<1> DEFINE n == Len(h)
           k == Remembered(f)
           T == {i \in DOMAIN h : \A j \in i .. Len(h) : ~h[j].success}
<1>1. n \in Nat /\ DOMAIN h = 1 .. n /\ k \in Nat /\ k <= n
  BY HealingAssumption DEF Remembered, EndsWith
<1>2. /\ \A i \in 1 .. n : i > n - k => ~h[i].success
      /\ k < n => h[n - k].success
  BY <1>1 DEF EndsWith
<1> HIDE DEF k
<1>3. T = n - k + 1 .. n
  <2>1. ASSUME NEW i \in T PROVE i \in n - k + 1 .. n
    <3>1. i \in 1 .. n /\ \A j \in i .. n : ~h[j].success
      BY <1>1
    <3>2. ~(i <= n - k)
      <4>1. i <= n - k => k < n /\ n - k \in i .. n
        BY <1>1, <3>1
      <4>2. QED
        BY <1>2, <3>1, <4>1
    <3>3. QED
      BY <1>1, <3>1, <3>2
  <2>2. ASSUME NEW i \in n - k + 1 .. n PROVE i \in T
    <3>1. i \in 1 .. n /\ \A j \in i .. n : j \in 1 .. n /\ j > n - k
      BY <1>1
    <3>2. QED
      BY <1>1, <1>2, <3>1
  <2>3. QED
    BY <2>1, <2>2
<1> HIDE DEF T
<1>4. Cardinality(n - k + 1 .. n) = k
  <2>1. n - k + 1 \in Int /\ n \in Int
    BY <1>1
  <2>2. Cardinality(n - k + 1 .. n) = IF n - k + 1 > n THEN 0 ELSE n - (n - k + 1) + 1
    BY <2>1, FS_Interval
  <2> HIDE DEF n
  <2>3. QED
    BY <1>1, <2>2
<1>5. QED
  BY <1>3, <1>4 DEF T, k

\* The counter and the deque tell the same story, and the status is what they evaluate
\* to, but for a breaker that has opened since (health_monitor.py).
THEOREM MonitorsStayCoherent == Spec => []MonitorCoherent
<1>1. IInv /\ Coherent => MonitorCoherent
  <2> SUFFICES ASSUME IInv, Coherent, NEW r \in Roles
               PROVE  LET h == history[r]
                          trailing == {i \in DOMAIN h : \A j \in i .. Len(h) : ~h[j].success}
                      IN  /\ Cardinality(trailing) = IF failures[r] < Window THEN failures[r] ELSE Window
                          /\ IF tripped[r]
                             THEN status[r] = "UNHEALTHY"
                                  /\ Evaluate(h, failures[r]) \in {"HEALTHY", "DEGRADED"}
                             ELSE status[r] = Evaluate(h, failures[r])
    BY Zenon DEF MonitorCoherent
  <2>1. history[r] \in Seq(Outcomes) /\ failures[r] \in Nat
    BY HealingAssumption DEF IInv, TypeOK, MonitorsTyped
  <2>2. EndsWith(history[r], failures[r]) /\ StatusOf(r)
    BY DEF Coherent
  <2>3. Cardinality({i \in DOMAIN history[r] : \A j \in i .. Len(history[r]) : ~history[r][j].success})
          = Remembered(failures[r])
    BY <2>1, <2>2, EndIsCounted
  <2>4. QED
    BY <2>2, <2>3, Zenon DEF StatusOf, Remembered
<1>2. Spec => []Coherent
  BY CoherentInit, CoherentNext, Inductive, PTL DEF Spec
<1>3. QED
  BY <1>1, <1>2, Inductive, PTL
===============================================================================
