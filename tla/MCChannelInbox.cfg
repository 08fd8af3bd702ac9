SPECIFICATION FairSpec
CONSTANTS
  Processes = {p1, p2}
  None = None
  MaxMessages = 2
  MaxToken = 2
  MaxAttempts = 2
INVARIANTS
  TypeOK
  NothingIsSkipped
  AnsweredOnce
PROPERTIES
  ImplementsFeed
  ArrivedMessagesAreStored
CHECK_DEADLOCK FALSE
