CONSTANTS
  d1 = d1
  d2 = d2
  Delays = {d1, d2}
  MaxHandles = 2
  MaxDuration = 2
  Resolution = 2
SPECIFICATION FairSpec
\* The system stops once the timer's drop has panicked.
CHECK_DEADLOCK FALSE
PROPERTIES
  BooksKeepUp
  ImplementsAbstractTimer
