CONSTANTS
  RuleContents = {"x", "y"}
  MaxRules = 2
  MaxRestarts = 1
SPECIFICATION RuleStoreSpec
CHECK_DEADLOCK FALSE
PROPERTIES
  CallsEnd
