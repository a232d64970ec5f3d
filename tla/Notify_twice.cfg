CONSTANTS
  ann = ann
  bob = bob
  r1 = r1
  r2 = r2
  m1 = m1
  Replicas = {r1, r2}
  Msgs = {m1}
  Users = {ann, bob}
  Shapes <- ThreeShapes
  Feeds = {"activity"}
  Attempts = 2
  MaxTroubles = 2
SPECIFICATION Spec
INVARIANTS NeverTwice
CHECK_DEADLOCK FALSE
