SPECIFICATION Spec
CONSTANTS
  Threads = {t1, t2}
  NoThread = NoThread
  PipeCapacity = 2
  MaxInit = 2
INVARIANTS
  LoopServes
  NoLostWakeup
  EarlyReturnIsStale
PROPERTIES
  EveryCallReturns

CHECK_DEADLOCK FALSE
