\* Four keys, one of them the expiry key of another, are enough for a top-up, a hold,
\* its settlement and a refund, or for two holds or two refunds that compete.
SPECIFICATION Spec
CONSTANTS
  k1 = k1
  k2 = k2
  k3 = k3
  r1 = r1
  None = None
  Keys <- MCKeys
  Refs = {r1}
  Times <- MCTimes
  MaxCredits = 3
  Receipts = {e1}
  e1 = e1
SYMMETRY KeySymmetry
INVARIANTS
  SettledOnce
  RefundsBounded
  ReleaseNeverBlocked
PROPERTY PrepaidSpec
\* Once every key is used, only retries are left.
CHECK_DEADLOCK FALSE
