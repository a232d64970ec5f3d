CONSTANTS
  MaxRows = 2
  MaxMarks = 2
  MaxFaults = 1
SPECIFICATION BadgeSpec
INVARIANTS BadgeRight
CHECK_DEADLOCK FALSE
