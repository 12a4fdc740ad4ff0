SPECIFICATION Spec
CONSTANTS
  sales = sales
  rent = rent
  o1 = o1
  o2 = o2
  q1 = q1
  q2 = q2
  Operators = {o1, o2}
  Requests = {q1, q2}
  Movements = {"m1"}
  Absent = Absent
  NoDto = NoDto
  Keep = Keep
  Types = {"income", "expense"}
  Categories = {sales, rent}
  KindOf <- MCKindOf
  OpenStatuses = {"pending", "paid"}
  MaxVersion = 4
SYMMETRY Symmetry
INVARIANTS
  AuditNeverOverstates
PROPERTIES
  VoidedIsTerminal
  NoLostUpdate
  ImplementsLedger
