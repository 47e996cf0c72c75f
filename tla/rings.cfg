SPECIFICATION Spec
CONSTANTS
  Query <- AllQueries
  Program <- AllPrograms
  RZero <- ZeroAt
  RStart <- StartsOf
  RLift <- LiftOf
  RPlus <- PlusOf
  RAssign <- AssignOf
  RTimes <- TimesOf
  RScale <- ScaleOf
  RIsZero <- IsZeroOf
  RMeans <- MeansOf
INVARIANTS
  ViewsMean
  RootMeans
CHECK_DEADLOCK FALSE
