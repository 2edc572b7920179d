SPECIFICATION AdministrationSpec
CONSTANTS
  a1 = a1
  a2 = a2
  a3 = a3
  b1 = b1
  b2 = b2
  i1 = i1
  i2 = i2
  c1 = c1
  c2 = c2
  r1 = r1
  None = None
  Accounts <- MCAdministrators
  Holders <- MCHolders
  Codes = {r1}
  MaxFailedLogins = 2
  Operations = {"o1"}
  Ids <- MCIds
  Callers <- MCCallers
  Times = {0, 1}
  Lifetime = 1
  Required = 1
SYMMETRY Symmetry
INVARIANTS
  DualControl
  ConsumedOnce
  CodesOnce
PROPERTIES
  SuperPreserved
CHECK_DEADLOCK FALSE
