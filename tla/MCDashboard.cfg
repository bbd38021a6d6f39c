CONSTANTS
  NumConns = 2
  Senders <- MCSenders
  Tasks = {t1}
  Requests = {r1, r2}
  Outcomes = {"AUTO_PASS", "L3_HALT"}
  MaxCrashes = 1
SPECIFICATION DashboardSpec
CHECK_DEADLOCK FALSE
INVARIANTS
  DashboardTypeOK
  StatusIsTrue
  MissedOnlyWhenShifted
  AuditedUnlessRaced
PROPERTIES
  FinalUnlessCancelled
  GatesAreKept
  TaskSettles
