SPECIFICATION MCSpec
CONSTRAINT MCBound
SYMMETRY MCSymmetry
CONSTANTS
  Admins = {admin1, admin2}
  MaxSecrets = 3
  MaxOffs = 2
  Users = {"u1", "u2"}
  Employments = {"e1", "e2"}
  Owner <- MCOwner
  EmployeeChoices <- MCEmployeeChoices
  EmploymentChoices <- MCEmploymentChoices
  MaxPuts = 3
  MaxId = 4
  Times = {1, 2}
  Window = {1, 2}
  EventEmployments = {"e1"}
  EventLimit = 2
  FixedEmployments = {"e1", "e2"}
  FixedLimit = 1
  Assertions = {"a1", "a2"}
  Copies = {1, 2}
  Lifetime = 2
  Ahead = 1
  Grace = 3
  NonceTime = 8
  Workers = {"w1", "w2"}
  Operations = {"o1", "o2"}
  Persons = {"p1", "p2"}
  Emails = {"m1", "m2"}
  Rank <- MCRank
  MaxUsers = 4
  Days = {"d1", "d2"}
  CellTime = 2
  MaxEdits = 3
INVARIANTS
  SecretsSound
  LastWins
  ReceivedOnce
  ProvisionedOnce
  ConfirmedStays ShowsKnown
PROPERTIES SingleUse OwnProfileNoConflict
CHECK_DEADLOCK FALSE
