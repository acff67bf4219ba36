CONSTANTS
  Node <- MCNode
  End <- MCEnd
  TestData <- MCTestData
  None <- MCNone
  Functions <- AllFunctions
  Depth = 2
  MaxIterations = 3
  MaxSelection = 3
  MaxTries = 2
  MayThrow = TRUE
SPECIFICATION FairSpec
INVARIANTS
  QueryWorthwhile
  CoverageTruthful
PROPERTIES
  FreshQuery
  
  GivesUpWhenExhausted
  DartEnds
