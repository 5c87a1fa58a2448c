CONSTANTS
  Employment = {e1}
  User = {u1}
  Owner <- MCOwner
  LastDay = 2
  MonthOf <- MCMonthOf
  HourlyProfile = {"HOURLY"}
  TaskProfile = "TASK_SHIFT_BASED"
  PlanStatus = {"HOLIDAY"}
  AttendanceStatus = {"SICKNESS"}
  NoStatus = "NONE"
  InputTime <- MCTimes
  InputShift <- MCShifts
  InputPeriod <- MCPeriods
  InputProfile <- MCProfiles
CONSTRAINT MCBound
SPECIFICATION Spec
INVARIANTS TypeOK DayExclusive MetricsFresh FactsInPeriod
PROPERTIES LockedAttendanceFrozen LockedPlanFrozen InactiveReadOnly
CHECK_DEADLOCK FALSE
