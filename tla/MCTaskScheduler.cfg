CONSTANTS
  MaxTasks = 3
  MaxConcurrency = 2
  Priorities <- MCPriorities
  DependencySets <- MCDependencySets
  MaxRuns = 2
SPECIFICATION FairSpec
CHECK_DEADLOCK FALSE
INVARIANTS
  TypeOK
  TopologicalSortCorrect
  DependenciesFirst
  ConcurrencyBound
  LeavesOnlyTheBlocked
PROPERTIES
  NoOvertaking
  RunReturnsUnlessBlocked
  ImplementsDependencyRun
