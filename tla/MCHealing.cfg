CONSTANTS
  NumRoles = 1
  Outcomes <- MCOutcomes
  DegradedAt = 1
  UnhealthyAt = 2
  DeadAt = 3
  ErrorRate = 70
  SlowLatency = 3
  Window = 3
  AlertOn = {"DEGRADED", "UNHEALTHY", "DEAD"}
  MaxAlerts = 3
  AutoHeal = TRUE
  Fallback = TRUE
  Substitute = TRUE
  MaxAttempts = 2
  MaxLoops = 2
  MaxReports = 6
SPECIFICATION FairSpec
CHECK_DEADLOCK FALSE
INVARIANTS
  TypeOK
  MonitorCoherent
  OneLoop
PROPERTIES
  SilentWhenStopped
  DeadIsHandled
  AlertsComeBack
