SPECIFICATION Spec
CONSTANTS
  monthly = monthly
  yearly = yearly
  q1 = q1
  q2 = q2
  Requests = {q1, q2}
  Licenses = {"LIC-1"}
  PlanVersions = {monthly, yearly}
  TrialDays <- MCTrialDays
  PeriodLength <- MCPeriodLength
  Absent = Absent
  NoTask = NoTask
  MaxTime = 1
  MaxEvents = 4
SYMMETRY Symmetry
PROPERTY
  RevokedIsTerminal
CHECK_DEADLOCK FALSE
