CONSTANTS
  t1 = t1
  t2 = t2
  Tabs = {t1, t2}
  Ids = {1, 2, 3, 4, 5}
  AccessTtl = 1
  MaxTime = 2
  MaxLogins = 1
  MaxRequests = 2
  MaxResets = 1
  MaxFaults = 1
  MaxEvents = 2
  MaxIssued = 2
SPECIFICATION FairSpec
PROPERTIES Settles
CHECK_DEADLOCK FALSE
