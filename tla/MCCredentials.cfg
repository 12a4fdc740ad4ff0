SPECIFICATION Spec
CONSTANTS
  Requests = {q1, q2}
  Passwords = {p1, p2}
  Links = {l1, l2}
  Invitation = invitation
  None = None
  MaxFailed = 2
  MaxWrong = 3
SYMMETRY Symmetry
CHECK_DEADLOCK FALSE
INVARIANTS
  LockoutCounts
  SessionsMatchPassword
PROPERTY
  LinksAreSpent
