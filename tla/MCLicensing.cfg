SPECIFICATION LicensingSpec
CONSTANTS
  monthly = monthly
  yearly = yearly
  Requests = {q1}
  Editors = {e1, e2}
  Plans = {"STANDARD"}
  Licenses = {"LIC-1"}
  PlanVersions = {monthly, yearly}
  Versions = {monthly, yearly}
  NoVersion = NoVersion
  TrialDays <- MCTrialDays
  PeriodLength <- MCPeriodLength
  Absent = Absent
  NoTask = NoTask
  MaxTime = 2
  MaxEvents = 4
SYMMETRY Symmetry
INVARIANTS
  VersionsAreNumbered
  HistoryIsContiguous
PROPERTIES
  RevokedIsTerminal
  TermOnlyExtends
CHECK_DEADLOCK FALSE
