SPECIFICATION FairSpec
CONSTANTS
  Intents = {i1, i2}
  Scanners = {s1, s2}
  Slots = {1}
  MaxAttempts = 2
INVARIANTS
  TypeOK
  EveryClaimIsCounted
  ScanDecidesOnCurrentRow
PROPERTIES
  ImplementsQueue
  LeaseIsRespected
  EveryIntentSettles
CHECK_DEADLOCK FALSE
