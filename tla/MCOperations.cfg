\* On one of the hosts backups and restores lock different directories.
\* Two runs of the bootstrap may be at work on one environment.
SPECIFICATION OperationsSpec
CONSTANTS
  s1 = s1
  s2 = s2
  h1 = h1
  h2 = h2
  r1 = r1
  r2 = r2
  Offered <- MCOffered
  Runs = {r1, r2}
  Regions = {"CN-BJ", "CN-EAST-1"}
  NodeOwnsSecrets = FALSE
  MaxEdits = 1
  None = None
  Scripts = {s1, s2}
  Hosts = {h1, h2}
  Apart = {h2}
  Required = TRUE
  MaxAttempts = 2
  RetentionDays = 1
  MaxTime = 2
  MaxFaults = 1
  MaxRuns = 3
SYMMETRY OperationsSymmetry
INVARIANTS VerifiedIsOffsite PublishedIsWhole WholeByOneRun
PROPERTY OneIsKept
CHECK_DEADLOCK FALSE
