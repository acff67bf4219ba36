CONSTANTS
  a = a
  b = b
  c = c
  d = d
  Node <- MCNode
  PathId <- MCPathId
  PathLists <- MCPathLists
  Epoches = 2
  MayThrow = TRUE
SPECIFICATION FairSpec
INVARIANTS
  EdgeMarksExact
  NodeMarksExact
  HmmExact
  NothingLeft
PROPERTIES
  SolvedOnce
  Campaign
  OutcomeByShape
