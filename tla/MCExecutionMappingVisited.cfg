CONSTANTS
  Node <- MCNode
  Label <- MCLabel
  Scope <- MCScope
  Programs <- MCPrograms
  MaxMarks = 16
SPECIFICATION Spec
INVARIANTS
  VisitedByTestpath
