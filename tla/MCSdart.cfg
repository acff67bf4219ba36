CONSTANTS
  Node <- MCNode
  End <- MCEnd
  TestData <- MCTestData
  Functions <- AllFunctions
  Iterations = 2
  Threshold = 3
  CountCap = 5
SPECIFICATION FairSpec
INVARIANTS
  KnownOnlyIfInfeasible
  DirectedUntilCovered
PROPERTIES
  DirectedDataCovers
  FeasibleCovered
