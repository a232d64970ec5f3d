CONSTANTS
  PageSize = 1
  Backlog = 1
  MaxOthers = 2
  MaxSends = 1
  MaxJoins = 2
  MaxDeletes = 1
  MaxFaults = 1
SPECIFICATION TimelineFairSpec
INVARIANTS ListedOnce ListMatchesStore
PROPERTIES LoadingEnds
CHECK_DEADLOCK FALSE
