CONSTANTS
  Users = {u1}
  Roles = {owner, support}
  MfaRequired = {owner}
  Sids = {s1, s2, s3}
  Requests = {q1, q2}
  NoSession = NoSession
SPECIFICATION Spec
SYMMETRY Symmetry
INVARIANTS
  SuccessorsAreBounded
  MfaBeforePrivilege
  NobodyIsRoleless
PROPERTY
  SuspendedStaysOut
