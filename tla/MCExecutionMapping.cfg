CONSTANTS
  Node <- MCNode
  Label <- MCLabel
  Scope <- MCScope
  Programs <- MCPrograms
  MaxMarks = 24
SPECIFICATION FairSpec
INVARIANTS
  ExecutionFound
  StatementsExact
  TwinsVisited
  BranchesExact
PROPERTIES
  MappingEnds
