CONSTANTS
  Node <- MCNode
  Cfgs <- MCCfgs
  MaxLoop = 2
  StackLimit = 26
  MayThrow = TRUE
  WalksOf <- MCWalksOf
SPECIFICATION FairSpec
INVARIANTS
  FailureKeepsEarlier
  PathIsChain
  EmittedSound
  PathsComplete
  NoDuplicates
  OverflowOnlyOnFreeCycle
  LoopBound
PROPERTIES
  EnumerationEnds
