SPECIFICATION FairSpec
CONSTANTS
  Tabs = {"t1", "t2"}
  Calls = {"c1", "c2"}
  Sids = {"s1", "s2", "s3"}
  None = None
INVARIANTS
  StoredSessionIsOpen
  NoSessionIsLeftBehind
PROPERTIES
  LogoutHoldsInAllTabs
  EveryCallSettles
CHECK_DEADLOCK FALSE
