CONSTANTS
  f1 = f1
  f2 = f2
  u1 = u1
  s1 = s1
  s2 = s2
  Files = {f1}
  Users = {u1}
  Owner <- OneOwner
  Sockets = {s1, s2}
  UserOf <- OneUser
  MaxPosts = 3
  MaxChanges = 1
  Faulty = TRUE
SPECIFICATION FairSpec
INVARIANTS RowsHaveBytes AttachedOnce NoOrphanBytes
PROPERTIES DeletionCompletes
CHECK_DEADLOCK FALSE
