CONSTANTS
  f1 = f1
  f2 = f2
  f3 = f3
  Futures = {f1, f2, f3}
  MaxHandles = 2
SPECIFICATION FairSpec
\* The system stops once the mutex is dropped.
CHECK_DEADLOCK FALSE
INVARIANTS
  MutualExclusion
  NoLostUnlock
  NothingOutlivesMutex
PROPERTIES
  ImplementsAbstractLock
  EveryoneGetsThrough
