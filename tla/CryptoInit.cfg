SPECIFICATION FairSpec
CONSTANTS
  Threads = {t1, t2, t3}
  NoThread = NoThread
  Rows = 2
  MaxCalls = 2
INVARIANTS
  TypeOK
  MutualExclusion
  FlagClearOnEntry
  NoCallFails
  ReadyForUse
  CpuInfoWindow
PROPERTIES
  TableWrittenOnce
  EveryCallReturns
  ImplementsLifecycle
