------------------------------- MODULE Healing -------------------------------
(***************************************************************************)
(* Self-healing: the health monitors that agents report to, the healers,   *)
(* and the watchdog's background loop (src/healing/).  Between two awaits  *)
(* the loop runs alone; at an await (an alerter, the sleep) agents report, *)
(* breakers open, and clients start and stop the watchdog.                 *)
(*                                                                         *)
(* A loop is known by the start() that made it.  Roles are numbered in the *)
(* order of the registry's dict.                                           *)
(***************************************************************************)
EXTENDS Integers, Sequences, FiniteSets, SequencesExt

CONSTANTS
  NumRoles,      \* the agents' roles
  Outcomes,      \* what execute() reports: success and latency
  DegradedAt, UnhealthyAt, DeadAt,  \* ..._consecutive_failures
  ErrorRate,     \* unhealthy_error_rate, in percent
  SlowLatency,   \* degraded_latency_ms
  Window,        \* history_window
  AlertOn,       \* the statuses an alert is sent for
  MaxAlerts,     \* max_alerts_per_agent
  AutoHeal,      \* auto_heal
  Fallback,      \* HealingConfig.fallback_model is set
  Substitute,    \* HealingConfig.substitute_role is set
  MaxAttempts,   \* max_recovery_attempts
  MaxLoops,      \* bound on the calls of start() that make a loop
  MaxReports     \* bound on the reports of all agents together

ASSUME HealingAssumption ==
  /\ NumRoles \in Nat \ {0}
  /\ Outcomes \subseteq [success : BOOLEAN, latency : Nat]
  /\ DegradedAt \in Nat \ {0} /\ UnhealthyAt \in Nat \ {0} /\ DeadAt \in Nat \ {0}
  /\ ErrorRate \in 1 .. 100
  /\ SlowLatency \in Nat \ {0}
  /\ Window \in Nat \ {0}
  /\ AlertOn \subseteq {"DEGRADED", "UNHEALTHY", "DEAD"}
  /\ MaxAlerts \in Nat
  /\ AutoHeal \in BOOLEAN /\ Fallback \in BOOLEAN /\ Substitute \in BOOLEAN
  /\ MaxAttempts \in Nat
  /\ MaxLoops \in Nat
  /\ MaxReports \in Nat

Roles == 1 .. NumRoles
Loops == 1 .. MaxLoops

Health == {"HEALTHY", "DEGRADED", "UNHEALTHY", "DEAD"}

VARIABLES
  history,     \* _history of each role's monitor
  failures,    \* _consecutive_failures of each
  status,      \* _status of each
  tripped,     \* history: a breaker has opened since the role's last report
  reports,     \* history: the reports so far
  attempts,    \* _recovery_attempt_count of each role's healer
  cooled,      \* recovery_cooldown_seconds have passed since _last_recovery_at
  handled,     \* history: substituted or escalated since the status last changed
  running,     \* _running
  task,        \* _task: the loop it is, or 0
  loop,        \* where each loop is
  cancelled,   \* the loops whose cancel() has not been delivered
  summaries,   \* the statuses in the list each loop's check_once goes through
  alerting,    \* the role whose alert each loop is sending, or 0
  alerts,      \* _alert_counts
  stopping,    \* the loop a stop() awaits, or 0
  overlapped   \* history: a start() has begun a loop while a stop() was waiting

monitor == <<history, failures, status, tripped, reports>>
healer == <<attempts, cooled, handled>>
lifecycle == <<running, task, cancelled, stopping, overlapped>>
vars == <<monitor, healer, lifecycle, loop, summaries, alerting, alerts>>

MonitorsTyped ==
  /\ history \in [Roles -> Seq(Outcomes)]
  /\ \A r \in Roles : Len(history[r]) <= Window
  /\ failures \in [Roles -> 0 .. MaxReports]
  /\ status \in [Roles -> Health]
  /\ tripped \in [Roles -> BOOLEAN]
  /\ reports \in 0 .. MaxReports

HealersTyped ==
  /\ attempts \in [Roles -> 0 .. MaxAttempts]
  /\ cooled \in [Roles -> BOOLEAN]
  /\ handled \in [Roles -> BOOLEAN]

WatchdogTyped ==
  /\ running \in BOOLEAN
  /\ task \in 0 .. MaxLoops
  /\ loop \in [Loops -> {"unborn", "created", "alerting", "sleeping", "ended"}]
  /\ cancelled \subseteq Loops
  /\ stopping \in 0 .. MaxLoops
  /\ overlapped \in BOOLEAN

ChecksTyped ==
  /\ summaries \in [Loops -> [Roles -> Health]]
  /\ alerting \in [Loops -> 0 .. NumRoles]
  /\ \A l \in Loops : loop[l] = "alerting" <=> alerting[l] # 0
  /\ alerts \in [Roles -> 0 .. MaxAlerts]

\* Every variable keeps to its values; no role has more attempts or alerts than it
\* is allowed (max_recovery_attempts, max_alerts_per_agent), whichever loops run.
TypeOK == MonitorsTyped /\ HealersTyped /\ WatchdogTyped /\ ChecksTyped

AllHealthy == [r \in Roles |-> "HEALTHY"]

\* monotonic() starts far from 0, so that a new healer is not in its cool-down.
Init ==
  /\ history = [r \in Roles |-> <<>>]
  /\ failures = [r \in Roles |-> 0]
  /\ status = AllHealthy
  /\ tripped = [r \in Roles |-> FALSE]
  /\ reports = 0
  /\ attempts = [r \in Roles |-> 0]
  /\ cooled = [r \in Roles |-> TRUE]
  /\ handled = [r \in Roles |-> FALSE]
  /\ running = FALSE /\ task = 0
  /\ loop = [l \in Loops |-> "unborn"]
  /\ cancelled = {}
  /\ summaries = [l \in Loops |-> AllHealthy]
  /\ alerting = [l \in Loops |-> 0]
  /\ alerts = [r \in Roles |-> 0]
  /\ stopping = 0 /\ overlapped = FALSE
-----------------------------------------------------------------------------
(***************************************************************************)
(* AgentHealthMonitor.                                                     *)
(***************************************************************************)
Failed(h) == {i \in DOMAIN h : ~h[i].success}

TotalLatency(h) == FoldLeft(LAMBDA sum, o : sum + o.latency, 0, h)

\* _evaluate, on a history and the failures in a row.
Evaluate(h, consec) ==
  IF consec >= DeadAt THEN "DEAD"
  ELSE IF \/ consec >= UnhealthyAt
          \/ Len(h) >= 3 /\ 100 * Cardinality(Failed(h)) >= ErrorRate * Len(h)
  THEN "UNHEALTHY"
  ELSE IF \/ consec >= DegradedAt
          \/ h # <<>> /\ TotalLatency(h) >= SlowLatency * Len(h)
  THEN "DEGRADED"
  ELSE "HEALTHY"

\* deque(maxlen = Window).
Remember(h, o) == IF Len(h) < Window THEN Append(h, o) ELSE Append(Tail(h), o)

\* Mutant of FailuresAfter: a success makes up for one failure only.
FailuresAfter_step(r, o) ==
  IF ~o.success THEN failures[r] + 1 ELSE IF failures[r] = 0 THEN 0 ELSE failures[r] - 1

FailuresAfter(r, o) == IF o.success THEN 0 ELSE failures[r] + 1

\* The monitor's status is st from here on.
Becomes(r, st) ==
  /\ status' = [status EXCEPT ![r] = st]
  /\ handled' = [handled EXCEPT ![r] = @ /\ st = status[r]]

\* An agent's execute() ends: record_success or record_failure.
Report(r, o) ==
  /\ reports < MaxReports
  /\ history' = [history EXCEPT ![r] = Remember(@, o)]
  /\ failures' = [failures EXCEPT ![r] = FailuresAfter(r, o)]
  /\ Becomes(r, Evaluate(Remember(history[r], o), FailuresAfter(r, o)))
  /\ tripped' = [tripped EXCEPT ![r] = FALSE]
  /\ reports' = reports + 1
  /\ UNCHANGED <<attempts, cooled, lifecycle, loop, summaries, alerting, alerts>>

\* record_circuit_open, by the role's breaker.
CircuitOpens(r) ==
  /\ status[r] \in {"HEALTHY", "DEGRADED"}
  /\ Becomes(r, "UNHEALTHY")
  /\ tripped' = [tripped EXCEPT ![r] = TRUE]
  /\ UNCHANGED <<history, failures, reports, attempts, cooled, lifecycle,
                 loop, summaries, alerting, alerts>>
-----------------------------------------------------------------------------
(***************************************************************************)
(* SelfHealer.                                                             *)
(***************************************************************************)

\* Mutant of MayRecover: the number of attempts is not looked at.
MayRecover_unbounded(r) == cooled[r]

MayRecover(r) == attempts[r] < MaxAttempts /\ cooled[r]

\* Mutant of SelectAction: a DEAD agent is reinitialised like an UNHEALTHY one.
SelectAction_reinit(st) ==
  CASE st = "DEGRADED" /\ Fallback    -> "MODEL_DOWNGRADE"
    [] st \in {"UNHEALTHY", "DEAD"}   -> "AGENT_REINIT"
    [] OTHER                          -> "NONE"

SelectAction(st) ==
  CASE st = "DEGRADED" /\ Fallback -> "MODEL_DOWNGRADE"
    [] st = "UNHEALTHY"            -> "AGENT_REINIT"
    [] st = "DEAD" /\ Substitute   -> "SUBSTITUTE_AGENT"
    [] st = "DEAD" /\ ~Substitute  -> "ESCALATE"
    [] OTHER                       -> "NONE"

LastResort == {"SUBSTITUTE_AGENT", "ESCALATE"}

\* heal(st): the cool-down begins even if there was nothing to do.
Heal(r, st) ==
  IF MayRecover(r)
  THEN /\ handled' = [handled EXCEPT ![r] = @ \/ SelectAction(st) \in LastResort]
       /\ cooled' = [cooled EXCEPT ![r] = FALSE]
       /\ attempts' = IF SelectAction(st) = "NONE" THEN attempts
                      ELSE [attempts EXCEPT ![r] = @ + 1]
  ELSE UNCHANGED healer

CoolsDown(r) ==
  /\ ~cooled[r]
  /\ cooled' = [cooled EXCEPT ![r] = TRUE]
  /\ UNCHANGED <<monitor, attempts, handled, lifecycle, loop,
                 summaries, alerting, alerts>>

\* Mutant of HistoryAfterReset: reset() leaves the deque.
HistoryAfterReset_kept(r) == history[r]

HistoryAfterReset(r) == <<>>

\* reset_recovery_count, by an operator, with the monitor's reset().
ResetRecovery(r) ==
  /\ attempts[r] > 0
  /\ attempts' = [attempts EXCEPT ![r] = 0]
  /\ history' = [history EXCEPT ![r] = HistoryAfterReset(r)]
  /\ failures' = [failures EXCEPT ![r] = 0]
  /\ Becomes(r, "HEALTHY")
  /\ tripped' = [tripped EXCEPT ![r] = FALSE]
  /\ UNCHANGED <<reports, cooled, lifecycle, loop,
                 summaries, alerting, alerts>>
-----------------------------------------------------------------------------
(***************************************************************************)
(* HealthWatchdog: one turn of _loop, from await to await.                 *)
(***************************************************************************)
MustAlert(r, st) == st \in AlertOn /\ alerts[r] < MaxAlerts

\* Mutant of CountsAfter: the count of a healthy role is left.
CountsAfter_kept(passed, snap, r) == IF r \in passed THEN alerts[r] ELSE alerts[r] + 1

\* _alert_counts of a role that was passed by, or that is alerted for.
CountsAfter(passed, snap, r) ==
  IF r \notin passed THEN alerts[r] + 1 ELSE IF snap[r] = "HEALTHY" THEN 0 ELSE alerts[r]

\* check_once goes on at the role `from`, up to the next alert it has to await.
GoesThrough(l, snap, from) ==
  \E next \in {0} \cup from .. NumRoles :
    LET passed == {r \in from .. NumRoles : next = 0 \/ r < next}
        seen == IF next = 0 THEN passed ELSE passed \cup {next}
    IN  /\ \A r \in passed : ~MustAlert(r, snap[r])
        /\ next # 0 => MustAlert(next, snap[next])
        /\ alerting' = [alerting EXCEPT ![l] = next]
        /\ alerts' = [r \in Roles |-> IF r \in seen THEN CountsAfter(passed, snap, r)
                                      ELSE alerts[r]]
        /\ loop' = [loop EXCEPT ![l] = IF next = 0 THEN "sleeping" ELSE "alerting"]
        /\ summaries' = [summaries EXCEPT ![l] =
             [r \in Roles |-> IF next = 0 \/ r < next THEN "HEALTHY" ELSE snap[r]]]

\* The loop begins, or wakes, and checks: it takes the summaries of this moment.
LoopChecks(l) ==
  /\ loop[l] \in {"created", "sleeping"} /\ l \notin cancelled
  /\ running
  /\ GoesThrough(l, status, 1)
  /\ UNCHANGED <<monitor, healer, lifecycle>>

LoopEnds(l) ==
  /\ loop[l] \in {"created", "sleeping"} /\ l \notin cancelled
  /\ ~running
  /\ loop' = [loop EXCEPT ![l] = "ended"]
  /\ UNCHANGED <<monitor, healer, lifecycle, summaries, alerting, alerts>>

\* The alerters have returned, or raised: the role is healed by its summary, and
\* the check goes on.
AlertSent(l) ==
  /\ loop[l] = "alerting" /\ l \notin cancelled
  /\ IF AutoHeal THEN Heal(alerting[l], summaries[l][alerting[l]]) ELSE UNCHANGED healer
  /\ GoesThrough(l, summaries[l], alerting[l] + 1)
  /\ UNCHANGED <<monitor, lifecycle>>

\* CancelledError at the await: no `except Exception` catches it, the loop breaks.
CancelDelivered(l) ==
  /\ l \in cancelled
  /\ cancelled' = cancelled \ {l}
  /\ loop' = [loop EXCEPT ![l] = "ended"]
  /\ alerting' = [alerting EXCEPT ![l] = 0]
  /\ summaries' = [summaries EXCEPT ![l] = AllHealthy]
  /\ UNCHANGED <<monitor, healer, running, task, stopping, overlapped, alerts>>

\* Mutant of MayStart: start() starts another loop.
MayStart_again == TRUE

MayStart == ~running

\* start(), unless it is running.
Start(l) ==
  /\ MayStart
  /\ loop[l] = "unborn" /\ \A k \in 1 .. l - 1 : loop[k] # "unborn"
  /\ running' = TRUE
  /\ task' = l
  /\ loop' = [loop EXCEPT ![l] = "created"]
  /\ overlapped' = (overlapped \/ stopping # 0)
  /\ UNCHANGED <<monitor, healer, cancelled, stopping, summaries, alerting, alerts>>

\* Mutant of ToCancel: a loop in the middle of a check is left to finish it.
ToCancel_asleep ==
  IF task # 0 /\ loop[task] \in {"created", "sleeping"} THEN {task} ELSE {}

\* The loop stop() cancels and awaits.
ToCancel == IF task # 0 /\ loop[task] # "ended" THEN {task} ELSE {}

\* stop(), up to its await; one at a time.
Stop ==
  /\ stopping = 0
  /\ running
  /\ running' = FALSE
  /\ cancelled' = cancelled \cup ToCancel
  /\ IF ToCancel = {} THEN task' = 0 /\ UNCHANGED stopping
                      ELSE stopping' = task /\ UNCHANGED task
  /\ UNCHANGED <<monitor, healer, overlapped, loop, summaries, alerting, alerts>>

\* stop() after its await: _task is set to None, whichever loop it is by now.
StopReturns ==
  /\ stopping # 0 /\ loop[stopping] = "ended"
  /\ task' = 0
  /\ stopping' = 0
  /\ UNCHANGED <<monitor, healer, running, cancelled, overlapped, loop, summaries,
                 alerting, alerts>>

LoopStep(l) == LoopChecks(l) \/ LoopEnds(l) \/ AlertSent(l) \/ CancelDelivered(l)

Next ==
  \/ \E r \in Roles, o \in Outcomes : Report(r, o)
  \/ \E r \in Roles : CircuitOpens(r) \/ CoolsDown(r) \/ ResetRecovery(r)
  \/ \E l \in Loops : LoopStep(l) \/ Start(l)
  \/ Stop \/ StopReturns

Spec == Init /\ [][Next]_vars

\* The event loop serves the watchdog, sleeps and alerters end, time passes.
Fairness ==
  /\ \A l \in Loops : WF_vars(LoopStep(l))
  /\ \A r \in Roles : WF_vars(CoolsDown(r))
  /\ WF_vars(StopReturns)

FairSpec == Spec /\ Fairness
-----------------------------------------------------------------------------
\* The counter and the deque tell the same story: the failures in a row are those
\* at the deque's end, and the status is what they evaluate to, but for a breaker
\* that has opened since.
MonitorCoherent ==
  \A r \in Roles :
    LET h == history[r]
        trailing == {i \in DOMAIN h : \A j \in i .. Len(h) : ~h[j].success}
    IN  /\ Cardinality(trailing) = IF failures[r] < Window THEN failures[r] ELSE Window
        /\ IF tripped[r]
           THEN status[r] = "UNHEALTHY" /\ Evaluate(h, failures[r]) \in {"HEALTHY", "DEGRADED"}
           ELSE status[r] = Evaluate(h, failures[r])

Live == {l \in Loops : loop[l] \notin {"unborn", "ended"}}

\* Unless a start() overlapped a stop(), there is at most one loop, and it is the
\* one stop() will find in _task.
OneLoop ==
  ~overlapped => Live \subseteq {task}

\* Once stop() has begun, nothing is alerted or healed until the next start(),
\* even if it interrupts a check: no start() may have overlapped a stop().
SilentWhenStopped ==
  [][~overlapped /\ ~running =>
       /\ UNCHANGED alerts
       /\ \A r \in Roles : attempts'[r] <= attempts[r]]_vars

\* A role that stays DEAD is substituted or escalated, if its healer has an attempt
\* left and no cool-down, the watchdog an alert left, and no check in flight that
\* still knows it by a milder status: such a check may use up the attempt.
DeadIsHandled ==
  \A r \in Roles :
    /\ status[r] = "DEAD" /\ running
    /\ attempts[r] < MaxAttempts /\ cooled[r] /\ alerts[r] < MaxAlerts
    /\ \A l \in Loops : alerting[l] = 0
    ~> status[r] # "DEAD" \/ ~running \/ handled[r]

\* A role that stays HEALTHY gets back the alerts it has used.
AlertsComeBack ==
  \A r \in Roles :
    status[r] = "HEALTHY" /\ running ~> status[r] # "HEALTHY" \/ ~running \/ alerts[r] = 0

\* A DEAD role is escalated to a human, or substituted, if recovery has failed
\* (docs/en/architecture.md:435, docs/en/human-gate.md:303).
DeadIsEscalated ==
  \A r \in Roles :
    status[r] = "DEAD" /\ running ~>
      \/ status[r] # "DEAD" \/ ~running
      \/ handled[r]
=============================================================================
