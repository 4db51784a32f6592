CONSTANTS
  t1 = t1
  t2 = t2
  t3 = t3
  Tasks = {t1, t2, t3}
  MaxHandles = 2
  MaxItems = 2
  MaxLost = 1
SPECIFICATION FairSpec
\* The system stops once the drop of the condition variable has panicked.
CHECK_DEADLOCK FALSE
INVARIANTS
  ListedOrNotified
  ParkedForLockOrWoken
  NoSignalLost
  NothingOutlivesCondvar
  ErrorsAreFinal
PROPERTIES
  ImplementsAbstractLock
  WaitersAreNotified
