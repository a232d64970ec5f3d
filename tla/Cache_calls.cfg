CONSTANTS
  u1 = u1
  r1 = r1
  r2 = r2
  w1 = w1
  w2 = w2
  User = {u1}
  Call = {r1, r2}
  Request = {w1, w2}
  Ttl = 2
  MaxHold = 1
  MaxChanges = 2
  Faulty = TRUE
SPECIFICATION CacheFairSpec
INVARIANTS StaleOnlyByOverlap
PROPERTIES AdmittedWasMember FreshInTheEnd
