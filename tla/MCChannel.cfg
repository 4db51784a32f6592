CONSTANTS
  s1 = s1
  s2 = s2
  SendFutures = {s1, s2}
  r1 = r1
  r2 = r2
  ReceiveFutures = {r1, r2}
  v1 = v1
  v2 = v2
  v3 = v3
  Values = {v1, v2, v3}
  None = None
  Capacity = 2
  MaxHandles = 2
SPECIFICATION FairSpec
\* The system stops once the channel is dropped.
CHECK_DEADLOCK FALSE
INVARIANTS
  ReceiversParkOnlyWhenEmpty
  SendersParkOnlyWhenFull
  NothingOutlivesChannel
  ValuesInOnePlace
PROPERTIES
  ClosedIsFinal
  ImplementsAbstractChannel
  ClosedIsTold
