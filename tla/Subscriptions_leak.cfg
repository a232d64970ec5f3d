CONSTANTS
  k1 = k1
  k2 = k2
  u1 = u1
  u2 = u2
  s1 = s1
  pub = pub
  priv = priv
  dm = dm
  User = {u1}
  Socket = {s1}
  Owner <- OwnerOne
  Channel = {pub, priv}
  Kind <- KindPubPriv
  Slot = {k1}
  MaxChanges = 0
SPECIFICATION Spec
INVARIANTS NoLeaks
CHECK_DEADLOCK FALSE
