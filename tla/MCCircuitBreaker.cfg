CONSTANTS
  c1 = c1
  c2 = c2
  c3 = c3
  Callers <- MCCallers
  Cancellable <- MCCancellable
  failure_threshold = 2
  success_threshold = 2
  half_open_max_calls = 2
  MaxFailures = 5
SPECIFICATION FairSpec
INVARIANTS
  TypeOK
  SlotAccounting
  ExhaustedOnlyByLeak
PROPERTIES
  OpenHolds
  RecoversOrExhausted
