CONSTANTS
  w1 = w1
  w2 = w2
  Wakers = {w1, w2}
  None = None
  Levels = 2
SPECIFICATION Spec
INVARIANT
  StoredWakersOnly
