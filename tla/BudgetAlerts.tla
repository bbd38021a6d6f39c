---------------------------- MODULE BudgetAlerts ----------------------------
(***************************************************************************)
(* The dashboard's spending budgets: UsageStore and BudgetStore of         *)
(* src/dashboard/persistence.py, and the alerts of src/dashboard/routes.py *)
(* that record_usage() fires the first time a threshold is found exceeded. *)
(* Thresholds and events are stored; which alerts were sent is not.        *)
(***************************************************************************)
EXTENDS Naturals, FiniteSetsExt, Functions

CONSTANTS
  Sources,        \* what usage events name: a project, a role, both or neither
  NamedScopes,    \* the scopes of one project or one role
  ScopesOf,       \* those a source falls under
  LimitValues,    \* the limits a threshold can have; 0 is none
  LastDay,        \* bound on the days
  LastId,         \* bound on the thresholds created
  MaxEvents       \* bound on the usage events

Scopes == NamedScopes \cup {"all"}
Periods == {"daily", "monthly"}

ASSUME BudgetAlertsAssumption ==
  /\ IsFiniteSet(Sources) /\ "all" \notin NamedScopes /\ LimitValues \subseteq Nat
  /\ ScopesOf \in [Sources -> SUBSET NamedScopes]
  /\ LastDay \in Nat \ {0} /\ LastId \in Nat /\ MaxEvents \in Nat

VARIABLES
  clock,       \* the day
  costs,       \* stored: usage_events, the cost per day and source
  thresholds,  \* stored: budget_thresholds
  newId,       \* stored: the next AUTOINCREMENT id
  notified,    \* _notified_budgets
  alerts,      \* history: the alerts that were fired
  checked      \* history: what the last record_usage() should have alerted about

budgetAlertVars == <<clock, costs, thresholds, newId, notified, alerts, checked>>

\* A month has two days.
Month(d) == d \div 2
Key(period, d) == IF period = "daily" THEN d ELSE Month(d)
DaysLike(period, d) == {e \in 1 .. LastDay : Key(period, e) = Key(period, d)}

BudgetAlertsTypeOK ==
  /\ clock \in 1 .. LastDay
  /\ costs \in [1 .. LastDay -> [Sources -> Nat]]
  /\ thresholds \subseteq [id : 1 .. LastId, scope : Scopes, period : Periods,
                           limit : LimitValues]
  /\ newId \in 1 .. LastId + 1
  /\ notified \subseteq (1 .. LastId) \X Periods \X (0 .. LastDay)
  /\ alerts \subseteq [scope : Scopes, period : Periods, about : 0 .. LastDay,
                       key : 0 .. LastDay]
  /\ checked \subseteq [scope : Scopes, period : Periods, about : 0 .. LastDay]

BudgetAlertsInit ==
  /\ clock = 1
  /\ costs = [d \in 1 .. LastDay |-> [s \in Sources |-> 0]]
  /\ thresholds = {} /\ newId = 1
  /\ notified = {} /\ alerts = {} /\ checked = {}

\* The sum of status() over the events of the scope and of the period d lies in.
Cost(c, t, d) ==
  SumFunction([e \in DaysLike(t.period, d) |->
                 SumFunctionOnSet(c[e], {s \in Sources : t.scope \in ScopesOf[s] \cup {"all"}})])

Exceeded(c, d) == {t \in thresholds : t.limit > 0 /\ Cost(c, t, d) > t.limit}
Events == SumFunction([d \in 1 .. LastDay |-> SumFunctionOnSet(costs[d], Sources)])

\* record_usage() of an event of today, or of the day its caller says it is from; it reads
\* the clock again in status(), and for the key of the alert, without suspending: midnight
\* may lie in between.
RecordUsage(s, at, seen, keyed) ==
  LET after == [costs EXCEPT ![at][s] = @ + 1]
      exceeded == Exceeded(after, seen)
      new == {t \in exceeded : <<t.id, t.period, Key(t.period, keyed)>> \notin notified}
  IN  /\ clock <= seen /\ seen <= keyed /\ keyed <= clock + 1
      /\ Events < MaxEvents
      /\ costs' = after
      /\ clock' = keyed
      /\ notified' = notified \cup {<<t.id, t.period, Key(t.period, keyed)>> : t \in new}
      /\ alerts' = alerts \cup {[scope |-> t.scope, period |-> t.period,
                                 about |-> Key(t.period, seen),
                                 key |-> Key(t.period, keyed)] : t \in new}
      /\ checked' = {[scope |-> t.scope, period |-> t.period,
                      about |-> Key(t.period, seen)] : t \in exceeded}
      /\ UNCHANGED <<thresholds, newId>>

\* upsert(): the row of the scope and period keeps its id.
UpsertBudget(scope, period, limit) ==
  LET old == {t \in thresholds : t.scope = scope /\ t.period = period}
      id == IF old = {} THEN newId ELSE (CHOOSE t \in old : TRUE).id
  IN  /\ id <= LastId
      /\ thresholds' = (thresholds \ old)
           \cup {[id |-> id, scope |-> scope, period |-> period, limit |-> limit]}
      /\ newId' = IF old = {} THEN newId + 1 ELSE newId
      /\ checked' = {}
      /\ UNCHANGED <<clock, costs, notified, alerts>>

DeleteBudget(t) ==
  /\ thresholds' = thresholds \ {t} /\ checked' = {}
  /\ UNCHANGED <<clock, costs, newId, notified, alerts>>

\* purge_older_than() midnight.
PurgeUsage ==
  /\ costs' = [d \in 1 .. LastDay |->
                 IF d < clock THEN [s \in Sources |-> 0] ELSE costs[d]]
  /\ checked' = {}
  /\ UNCHANGED <<clock, thresholds, newId, notified, alerts>>

DayPasses ==
  /\ clock < LastDay /\ clock' = clock + 1 /\ checked' = {}
  /\ UNCHANGED <<costs, thresholds, newId, notified, alerts>>

\* The process restarts: _notified_budgets is empty again.
RestartAlerts ==
  /\ notified # {} /\ notified' = {} /\ checked' = {}
  /\ UNCHANGED <<clock, costs, thresholds, newId, alerts>>

BudgetAlertsNext ==
  \/ \E s \in Sources, at, seen, keyed \in 1 .. LastDay : RecordUsage(s, at, seen, keyed)
  \/ \E s \in Scopes, p \in Periods, l \in LimitValues : UpsertBudget(s, p, l)
  \/ \E t \in thresholds : DeleteBudget(t)
  \/ PurgeUsage \/ DayPasses \/ RestartAlerts

BudgetAlertsSpec == BudgetAlertsInit /\ [][BudgetAlertsNext]_budgetAlertVars
-----------------------------------------------------------------------------
\* A threshold found exceeded by record_usage() has been alerted about, in its period;
\* or, if the clock passed midnight inside the check, the alert of the period before was
\* filed under this one (routes.py:578).  Ids are never used again, so no alert of a
\* deleted threshold stands in for another's.
ExceededIsAlerted ==
  \A c \in checked : \E a \in alerts :
    /\ a.scope = c.scope /\ a.period = c.period
    /\ (a.about = c.about \/ (a.about + 1 = c.about /\ a.key = c.about))
=============================================================================
