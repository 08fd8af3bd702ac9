\* A turn that lost its claim or its binding and had called a tool
SPECIFICATION Spec
CONSTANTS
  Tasks = {t1}
  Calls = {c1}
  MaxAttempts = 1
  MaxEpoch = 2
SYMMETRY Symmetry
CHECK_DEADLOCK FALSE
INVARIANTS
  NothingCommittedIsTrue
