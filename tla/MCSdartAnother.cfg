CONSTANTS
  Node <- MCNode
  End <- MCEnd
  TestData <- MCTestData
  Functions <- InfeasibleOnly
  Iterations = 2
  Threshold = 3
  CountCap = 5
SPECIFICATION FairSpec
PROPERTIES
  SeeksAnother
