SPECIFICATION FairSpec
CONSTANTS
  Requests = {"q1", "q2"}
  Offered <- MCOffered
  Orgs = {"org1", "org2"}
  Metrics = {"api_request"}
  HourLength = 2
  DayLength = 4
  MonthLength = 8
  MaxInt = 3
  Copies = 2
  Absent = Absent
  Limits = {0, 1, 3}
  Times = {0, 1, 4, 8}
INVARIANTS
  TypeOK
  NoWaitCycle
  AggregatesMatchEvents
  ReportsMatchEvents
  QuotaIsHonest
PROPERTIES
  ImplementsTotals
  EveryIngestionEnds
CHECK_DEADLOCK FALSE
