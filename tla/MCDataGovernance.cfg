SPECIFICATION Spec
CONSTANTS
  h1 = h1
  h2 = h2
  r1 = r1
  r2 = r2
  c1 = c1
  c2 = c2
  Deployments = {d1}
  Events = {e1}
  Requests = {r1, r2}
  Type <- MCType
  Holds = {h1, h2}
  Scope <- MCScope
  Until <- MCUntil
  Callers <- MCCallers
  GraceTime = 1
  KeepTelemetry = 1
  KeepExports = 1
  NonceLife = 1
  LastReport = 0
  MaxRevision = 2
  MaxTime = 2
  None = None
PROPERTIES
  ValidWasReadBefore
  Forgotten
CHECK_DEADLOCK FALSE
