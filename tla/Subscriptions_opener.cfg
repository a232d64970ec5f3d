CONSTANTS
  k1 = k1
  k2 = k2
  u1 = u1
  u2 = u2
  s1 = s1
  pub = pub
  priv = priv
  dm = dm
  User = {u1, u2}
  Socket = {s1}
  Owner <- OwnerOne
  Channel = {dm}
  Kind <- KindDm
  Slot = {k1}
  MaxChanges = 1
SPECIFICATION Spec
INVARIANTS DmReachesBoth
CHECK_DEADLOCK FALSE
