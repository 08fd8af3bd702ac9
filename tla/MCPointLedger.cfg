CONSTANTS
  s1 = s1
  s2 = s2
  Sessions = {s1, s2}
  MaxBuckets = 2
  MaxReservations = 2
  MaxPoints = 2
  MaxCredit = 1
  MaxOverRefund = 0
  MaxTime = 1
  Expiries = {2}
  DayLength = 1
  DailyPoints = 1
SPECIFICATION Spec
SYMMETRY Symmetry
CONSTRAINT UntilDrift
INVARIANTS TypeOK ProjectionMatchesRows PostingsConserve
PROPERTIES SoonestToExpireFirst ImplementsPurse
