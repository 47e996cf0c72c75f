SPECIFICATION Spec
CONSTANTS
  Node <- RstNode
  Root = 1
  Parent <- RstParent
  Relation <- RstRelation
  Keys <- RstKeys
  FreeVars = {}
  SumTerm <- BranchSum
  WhTerm = {}
  TermVars <- BranchVars
  TermVal <- BranchVal
  Streams = {3, 6, 8}
  Distributed = {}
  Dom <- Values
  BatchUpdates = FALSE
  Rows <- RstRows
  MaxTable = 0
  MaxEvents = 3
INVARIANTS
  RootAnswersQuery
CHECK_DEADLOCK FALSE
