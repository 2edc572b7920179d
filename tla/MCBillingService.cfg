\* Two holds that expire and are swept, one per sweep, or one that is also captured and
\* released, or refunds, or requests that are repeated, after a change of the rate or
\* not; one instance may stop.
SPECIFICATION FairService
CONSTANTS
  k1 = k1
  k2 = k2
  k3 = k3
  c1 = c1
  c2 = c2
  None = None
  Keys <- MCKeys
  Refs = {None}
  Receipts = {}
  Times <- MCTimes
  MaxCredits = 3
  Callers <- MCCallers
  Workloads <- MCWorkloads
  Units = {3}
  HoldTime = 1
  SweepLimit = 1
  MaxCrashes = 1
  MaxRateChanges = 1
INVARIANT
  AuditSound
PROPERTIES
  LedgerSteps
  ExpiredReturned
CHECK_DEADLOCK FALSE
