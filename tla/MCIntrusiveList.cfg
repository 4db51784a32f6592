CONSTANTS
  x1 = x1
  x2 = x2
  x3 = x3
  x4 = x4
  Links = {x1, x2, x3, x4}
  l1 = l1
  l2 = l2
  Lists = {l1, l2}
  Null = Null
SPECIFICATION Spec
INVARIANTS
  TypeOK
  NoDangling
  DoublyLinked
PROPERTY
  ImplementsAbstractList
