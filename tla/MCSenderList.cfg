CONSTANTS
  t1 = t1
  t2 = t2
  t3 = t3
  Links = {t1, t2, t3}
  Lists = {"waiting_senders", "notified"}
  Null = Null
  Capacity = 1
SPECIFICATION SendersSpec
INVARIANTS
  NoDangling
  ListHoldsTheParked
