CONSTANTS
  t1 = t1
  t2 = t2
  Tabs = {t1, t2}
  Timeout = 2
  Throttle = 1
  Net = 4
  BucketMax = 1
  Refill = 1
  MaxTime = 4
  MaxFaults = 1
SPECIFICATION Spec
SYMMETRY Symmetry
INVARIANTS AtMostBurst GoneInTime ShownAtFirst
CHECK_DEADLOCK FALSE
