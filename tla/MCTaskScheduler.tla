-------------------------- MODULE MCTaskScheduler --------------------------
(* Instances of TaskScheduler for TLC: two runs of one scheduler.          *)
EXTENDS TaskScheduler

MCPriorities == {1, 2}
MCDependencySets == SUBSET (1 .. 3)
=============================================================================
