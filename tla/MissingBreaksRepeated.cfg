CONSTANTS
  History = {{1440, 1445, 1450, 2193}}
  RangeStart = 1440
  RangeEnd = 2880
  MaxRequests = 2
SPECIFICATION Spec
PROPERTY Idempotent
CHECK_DEADLOCK FALSE
