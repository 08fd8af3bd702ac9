\* Two tasks with one call each: one may resume the other
SPECIFICATION Spec
CONSTANTS
  Tasks = {t1, t2}
  Calls = {c1}
  MaxAttempts = 1
  MaxEpoch = 2
SYMMETRY Symmetry
CHECK_DEADLOCK FALSE
INVARIANTS
  ResumedWorkIsResolved
