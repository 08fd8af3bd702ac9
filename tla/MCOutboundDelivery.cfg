SPECIFICATION FairSpec
CONSTANTS
  Messages = {m1, m2}
  Loops = {p1}
  Drains = {d1}
  None = None
  RlsBypassed = TRUE
  MaxCopies = 2
INVARIANTS
  TypeOK
  RepeatedOnlyIfLost
PROPERTIES
  ImplementsDelivery
  NoReplyIsForgotten
CHECK_DEADLOCK FALSE
