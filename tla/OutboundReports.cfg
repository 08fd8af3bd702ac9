SPECIFICATION FairSpec
CONSTANTS
  Messages = {m1, m2}
  Loops = {p1}
  Drains = {d1}
  None = None
  RlsBypassed = FALSE
  MaxCopies = 2
PROPERTIES
  ReportsSettle
CHECK_DEADLOCK FALSE
