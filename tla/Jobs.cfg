SPECIFICATION MCSpec
CONSTRAINT MCBound
CONSTANTS
  Employments = {1, 2}
  Writers = {"w1"}
  Jobs = {"timer", "by hand"}
  MaxWrites = 1
  Workers = {"w1", "w2"}
  MaxAttempts = 2
  PoolSize = 1
  MaxOverflow = 1
  Refused = {}
  MaxFaults = 1
  MaxTime = 2
  Emp = {"e1", "e2", "e3"}
  Group = {"g1", "g2"}
  User = {"u1", "u2"}
  Owner <- MCOwner
INVARIANTS
  OnceInOrder
  NoLateMembership ShrinksToTwo
PROPERTIES RefinesPlanGuard
CHECK_DEADLOCK FALSE
