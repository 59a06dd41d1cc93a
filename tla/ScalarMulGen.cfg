SPECIFICATION Spec
CONSTANTS
  Threads = {t1, t2}
  N = 65521
  Bits = 16
  Windows = 3
  Multiples = 64
  MaxBlocks = 1
  Offsets = {16, 64}
  Scalars <- SomeScalars
SYMMETRY Callers
INVARIANTS
  StoredEntriesRight
  StoresInLiveBlock
  ReadyUnlessFreed
  ResultIsScalarTimesG
  NeverEqualOperands
  PartialSum
