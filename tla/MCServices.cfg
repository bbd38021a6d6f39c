CONSTANTS
  Pipelines = {"p1", "p2", "p3"}
  Paths = {"x", "y", "z", "secret"}
  ProtectedPaths = {"secret"}
  TaskBranch <- MCTaskBranch
  ChangedFiles <- MCChangedFiles
  MaxSnapshots = 2
  MaxEdits = 3
  MaxSaves = 4
  RecoverySteps = {"s", "t"}
  WithFallbackFn = {"s"}
  Fallbacks <- MCFallbacks
  MaxRetries = 2
  BreakerOpensAt = 2
  BreakerClosesAt = 1
  BreakerProbes = 1
  MaxBreakerFailures = 6
  Agents = {"a", "b"}
  TokenLimit = 3
  CallTokens = {1, 3}
  Days = 2
  MaxSpent = 5
  Sources = {"e"}
  NamedScopes = {"role", "project"}
  ScopesOf <- MCScopesOf
  LimitValues = {1}
  LastDay = 3
  LastId = 2
  MaxEvents = 2
  Workers = {"l", "c", "d"}
  LocalWorkers = {"l"}
  CloudTasks = {"t1", "t2"}
  Preferred <- MCPreferred
  DailyBudget = 1
  MonthlyBudget = 2
  TaskCost = 1
  MaxCloudSpend = 2
  MaxDate = 3
  Names = {"m", "n"}
  Checks = {"check"}
  MaxRegistrations = 3
  Nodes = {"w1", "w2"}
  MaxOperations = 3
  Replicas = {0, 2}
  Roles = {"planner", "coder"}
  MaxMessages = 3
  Traced = {"p", "q"}
  MaxAgentSpans = 1
  BatchSize = 2
  Wrappings <- MCWrappings
  EvolutionEnabled = TRUE
  InitialThreshold = 4
  MaxDelta = 3
  MinExecutions = 2
  AutoApply = 70
  MaxCollected = 2
  ReviewScores = {0, 90}
  Stoppers = {"s", "t"}
  MaxEvolutionLoops = 3
  Processes = {"p", "q"}
  MaxUpdates = 4
  RuleContents = {"x", "y"}
  MaxRules = 3
  MaxRestarts = 2
  MaxSockets = 4
  DemoRetries = 2
  DemoThreshold = 70
  CoverageThreshold = 80
  DemoReports <- MCDemoReports
  DemoScores = {60, 90}
  DemoBallots <- MCDemoBallots
  DemoDivergence = 10
SPECIFICATION ServicesSpec
CHECK_DEADLOCK FALSE
INVARIANTS
  ServicesTypeOK
  StepsAreRecovered
  RemotesAreKnown
  RecordsAreKept
PROPERTIES
  StepsEnd
  SpendingIsBounded
  ChangesAreJustified
