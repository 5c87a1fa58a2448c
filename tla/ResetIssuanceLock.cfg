CONSTANTS
  Send = {s1, s2}
  Redeem = {}
  Admin = {}
  Conn = {c1, c2}
  None = None
SPECIFICATION Spec
INVARIANT Serialized
CHECK_DEADLOCK FALSE
