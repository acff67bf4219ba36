CONSTANTS
  Functions <- MCFunctions
  Value <- MCValue
  Input <- MCInput
  MaxConditions = 6
  MaxStatements = 10
SPECIFICATION FairSpec
INVARIANTS
  GraphClosed
  FailsOnEndlessFor
  PathsAreExecutions
  VariablesKept
  ValuesExact
  SolutionDrivesPath
  NoSolutionMeansInfeasible
PROPERTIES
  ConstructionEnds
CHECK_DEADLOCK FALSE
