--------------------------- MODULE TaskScheduler ---------------------------
(***************************************************************************)
(* The dependency scheduler of src/queue/scheduler.py on asyncio's event   *)
(* loop.  A step of the model is one callback of the loop: a stretch of    *)
(* code between two suspension points.  The loop runs its callbacks in the *)
(* order they were scheduled; the semaphore and the event are those of     *)
(* asyncio (CPython 3.11), which hand out wake-ups in FIFO order.          *)
(*                                                                         *)
(* A task is known by its registration number, so the order of the         *)
(* scheduler's dict is the order of the numbers, and a dependency on a     *)
(* number above `registered` is one on an unknown task.                    *)
(***************************************************************************)
EXTENDS Integers, FiniteSets, Sequences

CONSTANTS
  MaxTasks,      \* bound on the registrations
  MaxConcurrency,\* bound on the constructor's concurrency
  Priorities,    \* the priorities tasks are given
  DependencySets,\* the dependency sets tasks are given
  MaxRuns        \* bound on the calls of run()

ASSUME SchedulerAssumption ==
  /\ MaxTasks \in Nat
  /\ MaxConcurrency \in Nat \ {0}
  /\ Priorities \subseteq Int
  /\ DependencySets \subseteq SUBSET (1 .. MaxTasks)
  /\ MaxRuns \in Nat

AllTasks == 1 .. MaxTasks

\* TaskStatus, and ABANDONED for a task that the code also calls RUNNING but
\* whose coroutine is over: its executor raised what `except Exception` does not
\* catch, a CancelledError.
Status == {"PENDING", "READY", "RUNNING", "COMPLETED", "FAILED", "ABANDONED"}

\* The callbacks the loop can hold: the run() coroutine, the next step of a
\* task's coroutine, and the done-callback running.discard of its Task.
Main       == [cb |-> "main",    task |-> 0]
Step(t)    == [cb |-> "step",    task |-> t]
Discard(t) == [cb |-> "discard", task |-> t]
Callback   == [cb : {"main", "step", "discard"}, task : 0 .. MaxTasks]

VARIABLES
  concurrency,  \* _concurrency: tasks that may execute at a time
  registered,   \* number of entries of _tasks
  dependsOn,    \* depends_on of each task
  priority,     \* priority of each task
  status,       \* status of each task
  pass,         \* history: the pass of run()'s loop that made a task READY
  passes,       \* history: passes of run()'s loop so far
  loop,         \* the callbacks the event loop will run, in order
  sem,          \* the semaphore: value, waiters, and those granted a slot
  event,        \* completed_event
  running,      \* the set `running` of unfinished or undiscarded Tasks
  main,         \* where run() is
  runs          \* calls of run() so far

client == <<concurrency, registered, dependsOn, priority>>
vars == <<client, status, pass, passes, loop, sem, event, running, main, runs>>

Tasks == 1 .. registered

TypeOK ==
  /\ concurrency \in 1 .. MaxConcurrency
  /\ registered \in 0 .. MaxTasks
  /\ dependsOn \in [AllTasks -> SUBSET AllTasks]
  /\ priority \in [AllTasks -> Int]
  /\ status \in [AllTasks -> Status]
  /\ pass \in [AllTasks -> Nat]
  /\ passes \in Nat
  /\ loop \in Seq(Callback)
  /\ sem \in [value : Nat, waiters : Seq(AllTasks), granted : SUBSET AllTasks]
  /\ event \in BOOLEAN
  /\ running \in SUBSET AllTasks
  /\ main \in {"idle", "waiting", "woken", "gathering", "returned", "raised"}
  /\ runs \in 0 .. MaxRuns
-----------------------------------------------------------------------------
(***************************************************************************)
(* topological_sort: Kahn's algorithm with a queue kept in descending      *)
(* priority.  One iteration takes the head of the queue and queues the     *)
(* tasks whose last unmet dependency it was.                               *)
(***************************************************************************)

\* Registration order among equal priorities: Python's sort is stable.
Before(s, t) == priority[s] > priority[t] \/ (priority[s] = priority[t] /\ s < t)

\* Mutant of ByPriority: the ready tasks are not sorted.
ByPriority_unsorted(S) ==
  {s \in [1 .. Cardinality(S) -> S] : \A i, j \in DOMAIN s : i # j => s[i] # s[j]}

\* The orders sorted() can give a set: exactly one.
ByPriority(S) ==
  {s \in [1 .. Cardinality(S) -> S] :
     \A i, j \in DOMAIN s : i < j => Before(s[i], s[j])}

\* queue.append(t); queue.sort(...): t lands behind everything of its priority.
Enqueue(queue, t) ==
  LET ahead == Cardinality({i \in DOMAIN queue : priority[queue[i]] >= priority[t]})
  IN  SubSeq(queue, 1, ahead) \o <<t>> \o SubSeq(queue, ahead + 1, Len(queue))

\* The dependents of a task that it frees, queued in registration order.
Free(queue, S) ==
  LET after[t \in 0 .. MaxTasks] ==
        IF t = 0 THEN queue
        ELSE IF t \in S THEN Enqueue(after[t - 1], t) ELSE after[t - 1]
  IN  after[MaxTasks]

\* Mutant of Freed: a dependent is queued at the first dependency that is sorted.
Freed_by_any(current, sorted) == {t \in Tasks : current \in dependsOn[t]}

\* The tasks whose in-degree reaches 0 when current joins the sorted set.
Freed(current, sorted) ==
  {t \in Tasks : current \in dependsOn[t] /\ dependsOn[t] \subseteq sorted}

\* The sorted list topological_sort has built after its last iteration.
TopologicalSort ==
  LET sorted(queue) == {queue[i] : i \in DOMAIN queue}
      iteration[n \in 0 .. MaxTasks] ==
        IF n = 0
        THEN [queue |-> Free(<<>>, {t \in Tasks : dependsOn[t] = {}}), result |-> <<>>]
        ELSE LET k == iteration[n - 1] IN
             IF k.queue = <<>> THEN k
             ELSE LET result == Append(k.result, Head(k.queue)) IN
                  [queue  |-> Free(Tail(k.queue), Freed(Head(k.queue), sorted(result))),
                   result |-> result]
  IN  iteration[MaxTasks].result

\* run() raises unless every dependency is registered and the sort is complete.
Schedulable ==
  /\ \A t \in Tasks : dependsOn[t] \subseteq Tasks
  /\ Len(TopologicalSort) = registered
-----------------------------------------------------------------------------
(***************************************************************************)
(* The semaphore.  A slot freed while someone queues is handed to the      *)
(* first waiter that has none yet, whose coroutine is then scheduled.      *)
(***************************************************************************)
\* Mutant of Locked: acquire() never blocks.
Locked_never == FALSE

Locked == sem.value = 0 \/ sem.waiters # <<>>

WakeNext(s) ==
  LET first == {i \in DOMAIN s.waiters :
                  /\ s.waiters[i] \notin s.granted
                  /\ \A j \in 1 .. i - 1 : s.waiters[j] \in s.granted}
  IN  IF first = {} THEN s
      ELSE [s EXCEPT !.value = @ - 1, !.granted = @ \cup {s.waiters[i] : i \in first}]

Release(s) == WakeNext([s EXCEPT !.value = @ + 1])

\* The coroutine that resumes leaves the queue and passes a spare slot on.
Resume(s, t) ==
  LET at == CHOOSE i \in DOMAIN s.waiters : s.waiters[i] = t
      left == [s EXCEPT !.waiters = [i \in 1 .. Len(s.waiters) - 1 |->
                                       IF i < at THEN s.waiters[i] ELSE s.waiters[i + 1]],
                        !.granted = @ \ {t}]
  IN  IF left.value > 0 THEN WakeNext(left) ELSE left

\* The wake-ups that turned semaphore state s into s2.
Wakeups(s, s2) ==
  IF s2.granted \subseteq s.granted THEN <<>>
  ELSE <<Step(CHOOSE t \in s2.granted : t \notin s.granted)>>
-----------------------------------------------------------------------------
Init ==
  /\ concurrency \in 1 .. MaxConcurrency
  /\ registered = 0
  /\ dependsOn = [t \in AllTasks |-> {}]
  /\ priority = [t \in AllTasks |-> 1]
  /\ status = [t \in AllTasks |-> "PENDING"]
  /\ pass = [t \in AllTasks |-> 0]
  /\ passes = 0
  /\ loop = <<>>
  /\ sem = [value |-> concurrency, waiters |-> <<>>, granted |-> {}]
  /\ event = FALSE
  /\ running = {}
  /\ main = "idle"
  /\ runs = 0

\* No run() is in progress and its last callbacks have been processed.
Idle == main \in {"idle", "returned", "raised"} /\ loop = <<>>

AddTask(deps, p) ==
  /\ Idle
  /\ registered < MaxTasks
  /\ registered' = registered + 1
  /\ dependsOn' = [dependsOn EXCEPT ![registered + 1] = deps]
  /\ priority' = [priority EXCEPT ![registered + 1] = p]
  /\ main' = "idle"
  /\ UNCHANGED <<concurrency, status, pass, passes, loop, sem, event, running, runs>>

Reset ==
  /\ Idle
  /\ \E t \in Tasks : status[t] # "PENDING"
  /\ status' = [t \in AllTasks |-> "PENDING"]
  /\ pass' = [t \in AllTasks |-> 0]
  /\ passes' = 0
  /\ main' = "idle"
  /\ UNCHANGED <<client, loop, sem, event, running, runs>>
-----------------------------------------------------------------------------
\* Mutant of DepsMet: a dependency that has ended counts, however it ended.
DepsMet_by_end(t) ==
  \A d \in dependsOn[t] \cap Tasks : status[d] \in {"COMPLETED", "FAILED"}

DepsMet(t) == \A d \in dependsOn[t] \cap Tasks : status[d] = "COMPLETED"

\* Mutant of ReadyTasks: failed tasks are picked up again.
ReadyTasks_retrying == {t \in Tasks : status[t] \in {"PENDING", "FAILED"} /\ DepsMet(t)}

ReadyTasks == {t \in Tasks : status[t] = "PENDING" /\ DepsMet(t)}

Finished == \A t \in Tasks : status[t] \in {"COMPLETED", "FAILED"}

\* Mutant of NothingInFlight: run() leaves when nothing is ready.
NothingInFlight_ready(tasks) == ReadyTasks = {}

NothingInFlight(tasks) == tasks = {}

\* One pass of run()'s loop: make the ready tasks Tasks of the event loop, then
\* leave, or clear the event and wait for a task to set it.  tasks is the set
\* `running` and rest the callbacks behind the current one.
SchedulingPass(tasks, rest) ==
  /\ status' = [t \in AllTasks |-> IF t \in ReadyTasks THEN "READY" ELSE status[t]]
  /\ pass' = [t \in AllTasks |-> IF t \in ReadyTasks THEN passes ELSE pass[t]]
  /\ passes' = passes + 1
  /\ running' = tasks \cup ReadyTasks
  /\ \/ /\ Finished
        /\ main' = IF tasks = {} THEN "returned" ELSE "gathering"
        /\ loop' = IF tasks = {} THEN rest ELSE Append(rest, Main)
        /\ UNCHANGED event
     \/ /\ ~Finished
        /\ ~NothingInFlight(tasks \cup ReadyTasks)
        /\ \E ready \in ByPriority(ReadyTasks) :
             loop' = rest \o [i \in 1 .. Len(ready) |-> Step(ready[i])]
        /\ event' = FALSE
        /\ main' = "waiting"
     \/ /\ ~Finished
        /\ NothingInFlight(tasks \cup ReadyTasks)
        /\ main' = "returned"
        /\ loop' = rest
        /\ UNCHANGED event

RunRaises ==
  /\ Idle
  /\ runs < MaxRuns
  /\ ~Schedulable
  /\ main' = "raised"
  /\ runs' = runs + 1
  /\ UNCHANGED <<client, status, pass, passes, loop, sem, event, running>>

\* The semaphore, the event and the set are new in every call.
RunStarts ==
  /\ Idle
  /\ runs < MaxRuns
  /\ Schedulable
  /\ SchedulingPass({}, <<>>)
  /\ sem' = [value |-> concurrency, waiters |-> <<>>, granted |-> {}]
  /\ runs' = runs + 1
  /\ UNCHANGED client

RunWakes ==
  /\ loop # <<>> /\ Head(loop) = Main
  /\ main = "woken"
  /\ SchedulingPass(running, Tail(loop))
  /\ UNCHANGED <<client, sem, runs>>

\* gather() over tasks that have all ended returns once the loop gets to it.
RunReturns ==
  /\ loop # <<>> /\ Head(loop) = Main
  /\ main = "gathering"
  /\ loop' = Tail(loop)
  /\ main' = "returned"
  /\ UNCHANGED <<client, status, pass, passes, sem, event, running, runs>>
-----------------------------------------------------------------------------
(***************************************************************************)
(* _run_task.  s is the semaphore as the callback finds it after acquire   *)
(* and rest the callbacks behind the current one.                          *)
(***************************************************************************)

\* Mutant of Finish: only a task that COMPLETED sets the event.
Finish_silent_failure(t, s, rest) ==
  \E outcome \in {"COMPLETED", "FAILED", "ABANDONED"} :
    LET wakesMain == outcome = "COMPLETED" /\ ~event /\ main = "waiting" IN
    /\ status' = [status EXCEPT ![t] = outcome]
    /\ event' = (event \/ outcome = "COMPLETED")
    /\ main' = IF wakesMain THEN "woken" ELSE main
    /\ sem' = Release(s)
    /\ loop' = rest \o (IF wakesMain THEN <<Main>> ELSE <<>>)
                    \o Wakeups(s, Release(s)) \o <<Discard(t)>>

\* The executor ends: record the outcome and set the event (waking run()), unless
\* a CancelledError leaves the block before either; release the semaphore (waking
\* a waiter), and end the Task (scheduling its discard).
Finish(t, s, rest) ==
  \E outcome \in {"COMPLETED", "FAILED", "ABANDONED"} :
    LET caught == outcome # "ABANDONED"
        wakesMain == caught /\ ~event /\ main = "waiting" IN
    /\ status' = [status EXCEPT ![t] = outcome]
    /\ event' = (event \/ caught)
    /\ main' = IF wakesMain THEN "woken" ELSE main
    /\ sem' = Release(s)
    /\ loop' = rest \o (IF wakesMain THEN <<Main>> ELSE <<>>)
                    \o Wakeups(s, Release(s)) \o <<Discard(t)>>

\* Inside the semaphore: the executor suspends, or ends without suspending.
Execute(t, s, rest) ==
  \/ /\ status' = [status EXCEPT ![t] = "RUNNING"]
     /\ sem' = s
     /\ loop' = rest
     /\ UNCHANGED <<event, main>>
  \/ Finish(t, s, rest)

\* Mutant of TaskBegins: the executor is called outside the semaphore.
TaskBegins_unguarded(t) ==
  /\ loop # <<>> /\ Head(loop) = Step(t)
  /\ status[t] = "READY"
  /\ Execute(t, sem, Tail(loop))
  /\ UNCHANGED <<client, pass, passes, running, runs>>

TaskBegins(t) ==
  /\ loop # <<>> /\ Head(loop) = Step(t)
  /\ status[t] = "READY"
  /\ \A i \in DOMAIN sem.waiters : sem.waiters[i] # t
  /\ IF Locked
     THEN /\ sem' = [sem EXCEPT !.waiters = Append(@, t)]
          /\ loop' = Tail(loop)
          /\ UNCHANGED <<status, event, main>>
     ELSE Execute(t, [sem EXCEPT !.value = @ - 1], Tail(loop))
  /\ UNCHANGED <<client, pass, passes, running, runs>>

TaskResumes(t) ==
  /\ loop # <<>> /\ Head(loop) = Step(t)
  /\ status[t] = "READY"
  /\ t \in sem.granted
  /\ Execute(t, Resume(sem, t), Tail(loop) \o Wakeups(sem, Resume(sem, t)))
  /\ UNCHANGED <<client, pass, passes, running, runs>>

\* What the executor was waiting for has happened; the loop schedules the task.
ExecutorResolves(t) ==
  /\ status[t] = "RUNNING"
  /\ \A i \in DOMAIN loop : loop[i] # Step(t)
  /\ loop' = Append(loop, Step(t))
  /\ UNCHANGED <<client, status, pass, passes, sem, event, running, main, runs>>

TaskEnds(t) ==
  /\ loop # <<>> /\ Head(loop) = Step(t)
  /\ status[t] = "RUNNING"
  /\ Finish(t, sem, Tail(loop))
  /\ UNCHANGED <<client, pass, passes, running, runs>>

TaskDiscarded(t) ==
  /\ loop # <<>> /\ Head(loop) = Discard(t)
  /\ running' = running \ {t}
  /\ loop' = Tail(loop)
  /\ UNCHANGED <<client, status, pass, passes, sem, event, main, runs>>

LoopStep ==
  \/ RunWakes
  \/ RunReturns
  \/ \E t \in AllTasks : TaskBegins(t) \/ TaskResumes(t) \/ TaskEnds(t) \/ TaskDiscarded(t)

Next ==
  \/ \E deps \in DependencySets, p \in Priorities : AddTask(deps, p)
  \/ Reset
  \/ RunRaises
  \/ RunStarts
  \/ \E t \in AllTasks : ExecutorResolves(t)
  \/ LoopStep

Spec == Init /\ [][Next]_vars

\* The event loop runs what is scheduled, and every executor ends at last.
Fairness ==
  /\ WF_vars(LoopStep)
  /\ \A t \in AllTasks : WF_vars(ExecutorResolves(t))

FairSpec == Spec /\ Fairness
-----------------------------------------------------------------------------
\* The dict of a scheduler that stays: run() waits, and nothing is left that
\* could wake it.
Stalled ==
  /\ main = "waiting"
  /\ loop = <<>>
  /\ \A t \in AllTasks : status[t] # "RUNNING"

\* topological_sort finds an order exactly for the graphs without a cycle, and
\* puts every task behind all it depends on.
TopologicalSortCorrect ==
  LET sorted == TopologicalSort
      cyclic == \E S \in (SUBSET Tasks) \ {{}} : \A t \in S : dependsOn[t] \cap S # {}
  IN  Idle /\ (\A t \in Tasks : dependsOn[t] \subseteq Tasks) =>
        /\ (Len(sorted) = registered) <=> ~cyclic
        /\ \A i \in DOMAIN sorted :
             dependsOn[sorted[i]] \subseteq {sorted[j] : j \in 1 .. i - 1}

\* Whatever order executors end in, a task leaves PENDING only after everything
\* it depends on has COMPLETED, and none of that is undone while it runs.
DependenciesFirst ==
  \A t \in AllTasks : status[t] # "PENDING" =>
    \A d \in dependsOn[t] : status[d] = "COMPLETED"

\* The semaphore never lets more executors in than its initial value, however
\* releases, hand-overs and new tasks interleave.
ConcurrencyBound ==
  Cardinality({t \in AllTasks : status[t] = "RUNNING"}) <= concurrency

\* A task is never started ahead of one that became ready in an earlier pass, or
\* in the same pass with a higher priority.
NoOvertaking ==
  [][\A u \in AllTasks : status[u] = "READY" /\ status'[u] # "READY" =>
       ~ \E t \in AllTasks :
           /\ status[t] = "READY" /\ status'[t] = "READY"
           /\ \/ pass[t] < pass[u]
              \/ pass[t] = pass[u] /\ priority[t] > priority[u]]_vars

\* When run() has returned, or waits with nothing left to wake it, no task was
\* left that could have run: what has not ended depends on what failed or was
\* abandoned by its executor.
LeavesOnlyTheBlocked ==
  main = "returned" \/ Stalled =>
    \A t \in Tasks :
      \/ status[t] \in {"COMPLETED", "FAILED", "ABANDONED"}
      \/ /\ status[t] = "PENDING"
         /\ \E d \in dependsOn[t] : status[d] \in {"FAILED", "ABANDONED", "PENDING"}

\* run() returns, unless the loop has run dry for one of two reasons: a failed
\* task keeps another one PENDING, or a task was abandoned, which leaves it
\* RUNNING and does not set the event.
RunReturnsUnlessBlocked ==
  main = "waiting" ~>
    \/ main = "returned"
    \/ /\ Stalled
       /\ \/ \E t \in Tasks : status[t] = "ABANDONED"
          \/ \E t, d \in Tasks :
               status[t] = "PENDING" /\ d \in dependsOn[t] /\ status[d] = "FAILED"


\* Where each task is, as a client sees it: READY is a scheduling detail.
Progress ==
  [t \in AllTasks |-> CASE status[t] \in {"PENDING", "READY"} -> "waiting"
                        [] status[t] = "RUNNING"   -> "executing"
                        [] status[t] = "COMPLETED" -> "completed"
                        [] status[t] = "ABANDONED" -> "abandoned"
                        [] OTHER                   -> "failed"]

\* TaskScheduler.run implements DependencyRun: each task is executed at most once
\* between resets, after its dependencies, within the concurrency.
Abstract == INSTANCE DependencyRun WITH progress <- Progress

ImplementsDependencyRun == Abstract!Spec
=============================================================================
