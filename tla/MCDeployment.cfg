SPECIFICATION Spec
CONSTANTS
  r1 = r1
  r2 = r2
  None = None
  Runs = {r1}
  Offered <- MCOffered
  Regions = {"CN-BJ"}
  NodeOwnsSecrets = TRUE
  MaxEdits = 0
INVARIANT PassedStarts
CHECK_DEADLOCK FALSE
