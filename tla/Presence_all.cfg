CONSTANTS
  i1 = i1
  i2 = i2
  s1 = s1
  s2 = s2
  Instance = {i1, i2}
  Socket = {s1, s2}
  Home <- HomeTwo
  Ttl = 2
  MaxLate = 1
SPECIFICATION FairSpec
INVARIANTS RefsImplyOnline PeersAgree
PROPERTIES ExpiryMeansNobody HeartbeatHeals GhostsExpire
