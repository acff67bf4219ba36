CONSTANTS
  Capacity = 2
  MaxWrites = 5
  RunTimeLimit = 2
  TerminateTimeLimit = 1
  MaxDelta = 2
SPECIFICATION FairSpec
CHECK_DEADLOCK FALSE
INVARIANTS
  OutputComplete
PROPERTIES
  CallersReturn
