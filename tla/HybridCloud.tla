----------------------------- MODULE HybridCloud -----------------------------
(***************************************************************************)
(* HybridCloudManager (src/runtime/hybrid.py): tasks are placed on local   *)
(* or cloud workers within a budget, and moved when a spot worker is       *)
(* reclaimed.  Spending is recorded by the caller when a task is done; the *)
(* day's sum starts anew when somebody first looks at it on another day,   *)
(* the month's never does.                                                 *)
(***************************************************************************)
EXTENDS Integers, FiniteSets

CONSTANTS
  Workers,
  LocalWorkers,    \* those of provider LOCAL
  CloudTasks,
  Preferred,       \* _score_resource: the workers, best first
  DailyBudget, MonthlyBudget,
  TaskCost,        \* what a cloud task costs
  MaxCloudSpend,   \* bound on the sum of all usage
  MaxDate          \* bound on the days

Strategies == {"MIGRATE", "LOCAL_FALLBACK", "REQUEUE"}
ResourceStates == {"available", "preempted"}

ASSUME HybridAssumption ==
  /\ IsFiniteSet(Workers) /\ LocalWorkers \subseteq Workers /\ IsFiniteSet(CloudTasks)
  /\ Preferred \in [Workers -> Nat]
  /\ \A v, w \in Workers : Preferred[v] = Preferred[w] => v = w
  /\ "none" \notin Workers
  /\ {DailyBudget, MonthlyBudget, TaskCost, MaxCloudSpend} \subseteq Nat
  /\ MaxDate \in Nat \ {0}

VARIABLES
  preemption,   \* preemption_strategy
  resources,    \* _resources: "available", "preempted", or "absent"
  activeTasks,  \* _active_tasks
  date,
  lastReset,    \* _last_reset_date
  spentToday,   \* _cloud_spend_today
  spentMonth,   \* _cloud_spend_monthly, of all time
  trueToday,    \* history: what was spent on this date
  trueMonth,    \* history: what was spent in this month
  wiped,        \* history: usage of this date was reset with that of the day before
  stranded,     \* history: the tasks a preemption has left where they were
  unasked       \* history: a preemption has sent to the cloud what was not there

hybridVars == <<preemption, resources, activeTasks, date, lastReset, spentToday,
                spentMonth, trueToday, trueMonth, wiped, stranded, unasked>>
money == <<date, lastReset, spentToday, spentMonth, trueToday, trueMonth, wiped>>

HybridTypeOK ==
  /\ preemption \in Strategies
  /\ resources \in [Workers -> {"absent"} \cup ResourceStates]
  /\ activeTasks \in [CloudTasks -> Workers \cup {"none"}]
  /\ date \in 1 .. MaxDate /\ lastReset \in 1 .. MaxDate
  /\ {spentToday, spentMonth, trueToday, trueMonth} \subseteq Nat
  /\ wiped \in BOOLEAN /\ unasked \in BOOLEAN /\ stranded \subseteq CloudTasks

HybridInit ==
  /\ preemption \in Strategies
  /\ resources = [w \in Workers |-> "available"]
  /\ activeTasks = [t \in CloudTasks |-> "none"]
  /\ date = 1 /\ lastReset = 1
  /\ spentToday = 0 /\ spentMonth = 0 /\ trueToday = 0 /\ trueMonth = 0
  /\ wiped = FALSE /\ unasked = FALSE /\ stranded = {}

Available(among) == {w \in among : resources[w] = "available"}
Best(among) == CHOOSE w \in among : \A v \in among : Preferred[w] <= Preferred[v]

\* _check_date_reset(), and what is spent today after it.
SpentNow == IF date # lastReset THEN 0 ELSE spentToday
DateReset ==
  /\ spentToday' = SpentNow /\ lastReset' = date
  /\ wiped' = (wiped \/ (date # lastReset /\ trueToday > 0))
  /\ UNCHANGED <<date, spentMonth, trueToday, trueMonth>>

\* Mutant of WithinBudget: the day's budget alone counts.
WithinBudget_day == SpentNow < DailyBudget

WithinBudget == SpentNow < DailyBudget /\ spentMonth < MonthlyBudget

Place(t, w) ==
  /\ activeTasks' = [activeTasks EXCEPT ![t] = w]
  /\ stranded' = stranded \ {t}

\* schedule_task(): the best available worker, a local one if that is beyond the budget.
ScheduleTask(t) ==
  LET all == Available(Workers)
      local == Available(LocalWorkers)
      best == Best(all) IN
  /\ activeTasks[t] = "none" /\ all # {}
  /\ IF best \in LocalWorkers THEN Place(t, best) /\ UNCHANGED money
     ELSE /\ DateReset
          /\ IF WithinBudget THEN Place(t, best)
             ELSE IF local # {} THEN Place(t, Best(local))
             ELSE UNCHANGED <<activeTasks, stranded>>
  /\ UNCHANGED <<preemption, resources, unasked>>

\* A task is done: unregister_task(), after record_cloud_usage() if it ran in the cloud.
FinishTask(t) ==
  /\ activeTasks[t] # "none"
  /\ activeTasks[t] \in LocalWorkers \/ spentMonth + TaskCost <= MaxCloudSpend
  /\ activeTasks' = [activeTasks EXCEPT ![t] = "none"]
  /\ stranded' = stranded \ {t}
  /\ IF activeTasks[t] \in LocalWorkers THEN UNCHANGED money
     ELSE /\ spentToday' = spentToday + TaskCost
          /\ spentMonth' = spentMonth + TaskCost
          /\ trueToday' = trueToday + TaskCost
          /\ trueMonth' = trueMonth + TaskCost
          /\ UNCHANGED <<date, lastReset, wiped>>
  /\ UNCHANGED <<preemption, resources, unasked>>

\* A month has two days.
MonthOf(d) == d \div 2

NextDate ==
  /\ date < MaxDate /\ date' = date + 1
  /\ trueToday' = 0 /\ wiped' = FALSE
  /\ trueMonth' = IF MonthOf(date + 1) = MonthOf(date) THEN trueMonth ELSE 0
  /\ UNCHANGED <<preemption, resources, activeTasks, lastReset, spentToday, spentMonth,
                 stranded, unasked>>

\* get_cloud_spend_today(), get_summary(), or the scheduler's periodic check.
LookAtSpend ==
  /\ date # lastReset /\ DateReset
  /\ UNCHANGED <<preemption, resources, activeTasks, stranded, unasked>>

\* _find_fallback_resource()
Refuges(w) ==
  Available((IF preemption = "MIGRATE" THEN Workers ELSE LocalWorkers) \ {w})

Victims(w) == {t \in CloudTasks : activeTasks[t] = w}

\* A task leaves where it is, if it is anywhere, whatever the budget.
Moves(t, rid, waiting) ==
  /\ activeTasks' = [activeTasks EXCEPT ![t] = rid]
  /\ stranded' = waiting \ {t}
  /\ unasked' = (unasked \/ (rid \notin LocalWorkers \cup {"none"}
                              /\ activeTasks[t] \in LocalWorkers \cup {"none"}))

\* handle_preemption(): of the tasks on the worker it treats one, or the one the event
\* names, wherever that is, done or never begun.
Preempt(w) ==
  LET waiting == stranded \cup Victims(w) IN
  /\ resources' = [resources EXCEPT ![w] = IF @ = "absent" THEN @ ELSE "preempted"]
  /\ \/ /\ Victims(w) = {} \/ (preemption # "REQUEUE" /\ Refuges(w) = {})
        /\ stranded' = waiting
        /\ UNCHANGED <<activeTasks, unasked>>
     \/ \E t \in CloudTasks :
          IF preemption = "REQUEUE" THEN Moves(t, "none", waiting)
          ELSE Refuges(w) # {} /\ Moves(t, Best(Refuges(w)), waiting)
  /\ UNCHANGED <<preemption, money>>

RecoverWorker(w) ==
  /\ resources[w] = "preempted"
  /\ resources' = [resources EXCEPT ![w] = "available"]
  /\ stranded' = {t \in stranded : activeTasks[t] # w}
  /\ UNCHANGED <<preemption, activeTasks, money, unasked>>

\* unregister_resource() leaves the tasks where they are; register_resource().
UnregisterWorker(w) ==
  /\ resources[w] # "absent"
  /\ resources' = [resources EXCEPT ![w] = "absent"]
  /\ stranded' = stranded \cup Victims(w)
  /\ UNCHANGED <<preemption, activeTasks, money, unasked>>

RegisterWorker(w) ==
  /\ resources[w] = "absent"
  /\ resources' = [resources EXCEPT ![w] = "available"]
  /\ stranded' = {t \in stranded : activeTasks[t] # w}
  /\ UNCHANGED <<preemption, activeTasks, money, unasked>>

HybridNext ==
  \/ \E t \in CloudTasks : ScheduleTask(t) \/ FinishTask(t)
  \/ \E w \in Workers :
       Preempt(w) \/ RecoverWorker(w) \/ UnregisterWorker(w) \/ RegisterWorker(w)
  \/ NextDate \/ LookAtSpend

HybridSpec == HybridInit /\ [][HybridNext]_hybridVars
-----------------------------------------------------------------------------
CloudRunning == {t \in CloudTasks : activeTasks[t] \notin LocalWorkers \cup {"none"}}

\* The budget is checked when a task is placed and charged when it is done: what a day
\* costs beyond it are tasks that were running when it was used up, unless usage recorded
\* after midnight was wiped with the day before's, or a preemption has sent a task to the
\* cloud that was not there, which asks no budget (hybrid.py:150, 251, 360).
DailyOverrunBounded ==
  /\ ~wiped /\ ~unasked /\ trueToday > 0 =>
       trueToday < DailyBudget + TaskCost * Cardinality(CloudTasks)
  /\ date = lastReset /\ ~wiped => spentToday = trueToday

\* A task goes to the cloud worker that suits it best while the month and the day have not
\* used up their budgets, up to usage that was wiped, and is sent elsewhere only if they
\* have: an earlier month's spending should not count, but the code departs from this in
\* that its sum is never reset, so any spending of an earlier month may bar the cloud
\* (hybrid.py:67, 147, 251).
BudgetDecides ==
  [][\A t \in CloudTasks :
       ScheduleTask(t) /\ Best(Available(Workers)) \notin LocalWorkers =>
         IF activeTasks'[t] = Best(Available(Workers))
         THEN trueMonth < MonthlyBudget /\ (trueToday < DailyBudget \/ wiped')
         ELSE \/ trueMonth >= MonthlyBudget \/ trueToday >= DailyBudget
              \/ spentMonth > trueMonth]_hybridVars

\* A task is on a worker that can run it, except where a preemption has treated another
\* task of the worker or found no refuge, or the worker was unregistered (hybrid.py:319).
OnlyStrandedTasksWait ==
  \A t \in CloudTasks :
    activeTasks[t] # "none" =>
      (resources[activeTasks[t]] = "available" <=> t \notin stranded)
=============================================================================
