CONSTANTS
  u1 = u1
  r1 = r1
  r2 = r2
  w1 = w1
  w2 = w2
  User = {u1}
  Call = {r1, r2}
  Request = {w1}
  Ttl = 2
  MaxHold = 1
  MaxChanges = 1
  Faulty = FALSE
SPECIFICATION CacheSpec
PROPERTIES NonMembersGet404
