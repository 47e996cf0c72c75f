SPECIFICATION Spec
CONSTANTS
  Query <- AllQueries
  TreeOf <- Trees
  RowsOf <- Databases
  PlanOf <- Plans
  CopiesOf <- Bounds
  Mults <- Inserts
INVARIANTS
  EnumerationIsJoin
CHECK_DEADLOCK FALSE
