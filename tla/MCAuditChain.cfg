SPECIFICATION FairSpec
CONSTANTS
  c1 = c1
  c2 = c2
  c3 = c3
  login = login
  suspend = suspend
  Calls = {c1, c2, c3}
  Payloads = {login, suspend}
  PayloadOf <- MCPayloadOf
INVARIANTS
  ChainIntact
  AnswerMatchesLog
PROPERTIES
  ImplementsLog
  EveryCallEnds
CHECK_DEADLOCK FALSE
