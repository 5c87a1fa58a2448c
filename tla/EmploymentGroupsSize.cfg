SPECIFICATION Spec
CONSTANTS
  e1 = e1
  e2 = e2
  e3 = e3
  u1 = u1
  u2 = u2
  g1 = g1
  g2 = g2
  Emp <- MCEmp
  User <- MCUser
  Owner <- MCOwner
  Group <- MCGroup
INVARIANT NoSmallGroup
CHECK_DEADLOCK FALSE
