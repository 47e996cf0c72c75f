SPECIFICATION MCSpec
CONSTANTS
  InitSize = 1
  Key <- MCKey
  Slice <- MCSlice
  Hash <- MCHash
  SliceHash <- MCSliceHash
  Operand <- MCOperand
  MaxValue = 1
CONSTRAINT MostlyOne
VIEW MCView
INVARIANTS
  ListAndIndexesAgree
  TableIntact
PROPERTIES
  ImplementsKeyedStore
  TableImplementsKeyedStore
CHECK_DEADLOCK FALSE
