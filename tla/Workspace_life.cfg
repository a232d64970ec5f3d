SPECIFICATION Spec
CONSTANTS
  o = o
  b = b
  r1 = r1
  r2 = r2
  Users = {o, b}
  Owner = o
  Slots = {r1, r2}
  MaxRequests = 6
  MaxFaults = 1
SYMMETRY SlotSymmetry
INVARIANTS InsidersOnly InviteHonoured WholeOrGone
CHECK_DEADLOCK FALSE
