SPECIFICATION Spec
CONSTANTS
  InitSize = 1
  KeyHash <- MCKeyHash
  GrpHash <- MCGrpHash
  IsMax = FALSE
  Tables <- MCTables
INVARIANTS
  IndexesAgree
  OrderedAnswers
  SliceVisitsAll
