SPECIFICATION Spec
CONSTANTS
  Handlers = {h1, h2}
  Keys = {k1, k2}
  Quotes = {q1, q2}
  Tasks = {t1, t2}
  None = None
  Price = 2
  Balance = 1
  DailyPoints = 2
INVARIANTS
  AcceptanceIsAtomic
CHECK_DEADLOCK FALSE
