SPECIFICATION PageFairSpec
CONSTANTS
  Handlers = {h1, h2}
  None = None
  MaxEvents = 4
  PageSize = 2
INVARIANTS
  TypeOK
  EventsTellTheTask
  NewestExecutionIsCurrent
  PageIsWhole
PROPERTY EventsAreShown
CHECK_DEADLOCK FALSE
