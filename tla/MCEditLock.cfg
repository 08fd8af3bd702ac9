SPECIFICATION FairSpec
CONSTANTS
  a1 = a1
  a2 = a2
  b = b
  A = A
  B = B
  check = check
  Editors = {a1, a2, b}
  Users = {A, B}
  Sweeps = {check}
  UserOf <- MCUserOf
  MaxLocks = 3
  MaxRequests = 2
INVARIANTS
  TypeOK
  ExclusiveUnlessPassed
PROPERTY AbandonedLocksEnd
CHECK_DEADLOCK FALSE
