SPECIFICATION FairSpec
CONSTANTS
  Threads = {t1, t2, t3}
  NoThread = NoThread
  MaxCalls = 2
INVARIANTS
  ExclusiveUnlessStray
  LostOnlyByReentry
PROPERTIES
  CallsReturn
  ImplementsMutex
