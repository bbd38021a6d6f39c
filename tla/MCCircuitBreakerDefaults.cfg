CONSTANTS
  c1 = c1
  c2 = c2
  c3 = c3
  Callers <- MCCallers
  Cancellable = {}
  failure_threshold = 5
  success_threshold = 2
  half_open_max_calls = 1
  MaxFailures = 6
SPECIFICATION FairSpec
PROPERTY HalfOpenIsLeft
