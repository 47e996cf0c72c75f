SPECIFICATION MCSpec
CONSTANTS
  Relation <- MCRelation
  Static <- MCStatic
  Order <- MCOrder
  Batch <- MCBatch
  NumRuns = 2
  Interval = 3
  MaxTuples = 4
INVARIANTS
  ActiveAreUnfinished
  AllDelivered
  TablesFirst
  BalancedStreams
  SnapshotsAsCompiled
  RowsKeepCells
PROPERTY
  Termination
CHECK_DEADLOCK FALSE
