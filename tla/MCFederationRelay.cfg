\* Two messages between two deployments, with blocks, claims and cleaning up.
SPECIFICATION Spec
CONSTANTS
  a = a
  b = b
  m1 = m1
  m2 = m2
  c1 = c1
  c2 = c2
  g1 = g1
  x1 = x1
  None = None
  Deployments = {a, b}
  k1 = k1
  Keys = {k1}
  Registered <- MCRegistered
  Ids = {m1, m2}
  Shapes <- MCShapes
  Grants = {g1}
  Uses = 1
  Attachments = {x1}
  Callers <- MCCallers
  MaxTtl = 2
  Ends = {2}
  GrantEnds = {2}
  FileEnds = {1, 2}
  Statuses = {"active", "blocked"}
  Quarrels <- MCQuarrels
  MaxChanges = 1
  Retention = 1
  ClaimTtl = 1
  MaxPending = 1
  MaxClaims = 1
  MaxTime = 2
SYMMETRY Symmetry
INVARIANTS
  LiveOnOpenRoutes
  WithinCapacity
  AttachmentsLast
PROPERTIES
  ReplaysRefused
CHECK_DEADLOCK FALSE
