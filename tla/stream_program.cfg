SPECIFICATION Spec
CONSTANTS
  OrderWidth = 16
  MaxMessages = 3
  MaxTime = 2
  Programs <- MCPrograms
INVARIANTS
  SnapshotsConsistent
  BooksAtTimestamps
  EveryLineCounts
PROPERTIES
  SnapshotsAnswered
