CONSTANTS
  ann = ann
  bob = bob
  a1 = a1
  a2 = a2
  b1 = b1
  e1 = e1
  e2 = e2
  t1 = t1
  t2 = t2
  Original = t1
  NoText = NoText
  Users = {ann, bob}
  Author = ann
  Admins = {bob}
  Sockets = {a1, a2, b1}
  UserOf <- TwoTabs
  Emoji = {e1, e2}
  FreeIndex = 1
  Texts = {t1, t2}
  MaxRequests = 3
  MaxFaults = 1
SPECIFICATION Spec
PROPERTIES QuietAddIsDuplicate
CHECK_DEADLOCK FALSE
