SPECIFICATION FairSpec
CONSTANTS
  Threads = {t1, t2}
  Sizes = {0, 2, 3}
  Chunk = 2
  MaxCalls = 2
  MaxFaults = 1
  MaxInterrupts = 1
INVARIANTS
  FilledIfOK
  FailuresHaveACause
  DescriptorsAccountedFor
PROPERTIES
  CallsReturn
