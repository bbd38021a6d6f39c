--------------------------- MODULE DependencyRun ---------------------------
(***************************************************************************)
(* What TaskScheduler.run promises, without its event loop: the registered *)
(* tasks are executed at most once each, never before everything they      *)
(* depend on has completed, and never more than `concurrency` of them at a *)
(* time.  A task is known by its registration number.                      *)
(***************************************************************************)
EXTENDS Naturals, FiniteSets

CONSTANTS
  MaxTasks,       \* bound on the number of registrations
  MaxConcurrency  \* bound on the tasks that may execute at the same time

VARIABLES
  concurrency,  \* how many tasks may execute at the same time
  registered,   \* how many tasks have been registered
  dependsOn,    \* the tasks each task depends on
  progress      \* "waiting", "executing", "completed", "failed" or "abandoned"

vars == <<concurrency, registered, dependsOn, progress>>

AllTasks == 1 .. MaxTasks

Executing == {t \in AllTasks : progress[t] = "executing"}

MayStart(t) ==
  /\ t \in 1 .. registered
  /\ progress[t] = "waiting"
  /\ \A d \in dependsOn[t] : progress[d] = "completed"
  /\ Cardinality(Executing) < concurrency

Init ==
  /\ concurrency \in 1 .. MaxConcurrency
  /\ registered = 0
  /\ dependsOn = [t \in AllTasks |-> {}]
  /\ progress = [t \in AllTasks |-> "waiting"]

Register ==
  /\ registered < MaxTasks
  /\ registered' = registered + 1
  /\ \E deps \in SUBSET AllTasks :
       dependsOn' = [dependsOn EXCEPT ![registered + 1] = deps]
  /\ UNCHANGED <<concurrency, progress>>

Start(t) ==
  /\ MayStart(t)
  /\ progress' = [progress EXCEPT ![t] = "executing"]
  /\ UNCHANGED <<concurrency, registered, dependsOn>>

\* An executor that never suspends starts and ends in one step.
StartAndEnd(t) ==
  /\ MayStart(t)
  /\ \E outcome \in {"completed", "failed", "abandoned"} :
       progress' = [progress EXCEPT ![t] = outcome]
  /\ UNCHANGED <<concurrency, registered, dependsOn>>

\* An executor that raises a CancelledError abandons its task: no outcome is told.
End(t) ==
  /\ progress[t] = "executing"
  /\ \E outcome \in {"completed", "failed", "abandoned"} :
       progress' = [progress EXCEPT ![t] = outcome]
  /\ UNCHANGED <<concurrency, registered, dependsOn>>

\* Resetting is for the time between two runs, when nothing executes.
Reset ==
  /\ Executing = {}
  /\ progress' = [t \in AllTasks |-> "waiting"]
  /\ UNCHANGED <<concurrency, registered, dependsOn>>

Next ==
  \/ Register
  \/ \E t \in AllTasks : Start(t) \/ StartAndEnd(t) \/ End(t)
  \/ Reset

Spec == Init /\ [][Next]_vars
=============================================================================
