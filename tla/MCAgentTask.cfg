\* One task with three calls; the binding changes twice
SPECIFICATION FairSpec
CONSTANTS
  Tasks = {t1}
  Calls = {c1, c2, c3}
  MaxAttempts = 2
  MaxEpoch = 3
CHECK_DEADLOCK FALSE
INVARIANTS
  TypeOK
  WaitingTaskHasAProposal
  RetriedWorkIsClean
PROPERTIES
  ImplementsApproval
  OnlyStaleCancellationsReopen
  OpenTasksSettle
