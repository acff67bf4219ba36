CONSTANTS
  Node <- MCNode
  End <- MCEnd
  TestData <- MCTestData
  None <- MCNone
  Functions <- AllFunctions
  Depth = 2
  MaxIterations = 3
  MaxSelection = 3
  MaxTries = 2
  MayThrow = FALSE
SPECIFICATION Spec
INVARIANTS
  QueryUnvisited
