SPECIFICATION TermSpec
CONSTANTS
  FirstYear = 2027
  LastYear = 2028
  TrialDays = {14, 45}
  MaxLate = 1
  MaxMonths = 3
INVARIANTS
  EndsAreAnchored
  MonthsAreWhole
PROPERTY
  PeriodHasItsLength
CHECK_DEADLOCK FALSE
