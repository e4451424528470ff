CONSTANTS
  p1 = p1
  p2 = p2
  c1 = c1
  c2 = c2
  c3 = c3
  Producers = {p1, p2}
  Consumers = {c1, c2, c3}
  ConsumerOps = {"wait", "try", "empty"}
  MaxPushes = 3
SPECIFICATION Spec
SYMMETRY MCSymmetry
INVARIANTS TypeOK NoLostWakeup GivenOnce
PROPERTY ImplementsLifoStore
CHECK_DEADLOCK FALSE
