CONSTANTS
  NumRoles = 1
  Outcomes <- MCOutcomes
  DegradedAt = 1
  UnhealthyAt = 2
  DeadAt = 3
  ErrorRate = 70
  SlowLatency = 3
  Window = 3
  AlertOn = {"DEGRADED", "UNHEALTHY", "DEAD"}
  MaxAlerts = 2
  AutoHeal = TRUE
  Fallback = TRUE
  Substitute = FALSE
  MaxAttempts = 1
  MaxLoops = 1
  MaxReports = 5
SPECIFICATION FairSpec
CHECK_DEADLOCK FALSE
PROPERTIES
  DeadIsEscalated
