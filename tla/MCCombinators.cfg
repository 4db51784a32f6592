CONSTANT
  Depth = 2
SPECIFICATION Spec
\* The task ends when its root has returned.
CHECK_DEADLOCK FALSE
INVARIANTS
  NeverPolledAgain
  NoWakeLost
PROPERTIES
  ReturnsWhatIsThere
  ResultBeforeTimeout
