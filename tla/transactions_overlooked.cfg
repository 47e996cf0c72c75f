SPECIFICATION Spec
CONSTANTS
  Key = {1, 2}
  SliceOf <- MCSliceOf
  Never = 99
  Thread = {t1, t2}
  Present = {1}
  MaxXacts = 3
  MaxOps = 2
INVARIANT AllCommittedAreValid
