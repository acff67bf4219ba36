CONSTANTS
  Node <- MCNode
  End <- MCEnd
  TestData <- MCTestData
  Functions <- KilledOnly
  Iterations = 2
  Threshold = 3
  CountCap = 5
SPECIFICATION FairSpec
PROPERTIES
  StaticTestingFollows
