SPECIFICATION FairSpec
CONSTANTS
  None = None
  Selections = {"all", "one"}
  All = "all"
  MaxWrites = 2
INVARIANTS
  TypeOK
  OfferedIsAllowed
  SettledIsCurrent
  ReadYourWrites
PROPERTIES
  SpinnersEnd
