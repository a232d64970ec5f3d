CONSTANTS
  t1 = t1
  t2 = t2
  Tabs = {t1, t2}
  Timeout = 2
  Throttle = 1
  Net = 4
  BucketMax = 1
  Refill = 1
  MaxTime = 6
  MaxFaults = 0
SPECIFICATION Spec
SYMMETRY Symmetry
INVARIANTS ShownWhileTyping
CHECK_DEADLOCK FALSE
