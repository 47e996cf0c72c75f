SPECIFICATION Spec
CONSTANTS
  Node <- RstNode
  Root = 1
  Parent <- RstParent
  Relation <- RstRelation
  Keys <- RstKeys
  FreeVars = {4}
  SumTerm <- ComplexSum
  WhTerm <- ComplexWh
  TermVars <- ComplexVars
  TermVal <- ComplexVal
  Streams = {3, 6}
  Distributed = {}
  Dom <- Values
  BatchUpdates = TRUE
  Rows <- RstRows
  MaxTable = 1
  MaxEvents = 2
INVARIANTS
  ViewsMatchBase
  StatementsIndependent
PROPERTY
  ImplementsIVM
CHECK_DEADLOCK FALSE
