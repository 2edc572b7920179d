\* A license that is moved, changed and revoked while leases are on their way; receipts
\* that compete for a sequence number, a task and a key that callers may take.
SPECIFICATION DeploymentsSpec
CONSTANTS
  l1 = l1
  d1 = d1
  d2 = d2
  m1 = m1
  m2 = m2
  m3 = m3
  c1 = c1
  c2 = c2
  n1 = n1
  r1 = r1
  e1 = e1
  e2 = e2
  e3 = e3
  s1 = s1
  s2 = s2
  None = None
  Licenses = {l1}
  Deployments = {d1, d2}
  Machines = {m1, m2, m3}
  FirstMachine <- MCFirstMachine
  Customer <- MCOwner
  Organization <- MCOwner
  Limits = {1}
  Reports = {2}
  Callers <- MCCallers
  Nonces = {n1}
  LeaseDuration = 1
  Grace = 1
  MaxTime = 1
  Expiries = {1, 2}
  MaxRevision = 2
  topup = topup
  Keys <- MCKeys
  Receipts = {e1, e2, e3}
  Refs = {r1}
  Times = {0}
  MaxCredits = 2
  SigningKeys = {s1, s2}
  Envelopes <- MCEnvelopes
SYMMETRY MCSymmetry
INVARIANTS
  PreviousMachineRunsOut
  RevokedLeasesRunOut
  ReceiptsAreBilled
  BootstrapOnce
PROPERTY RevocationIsFinal
CHECK_DEADLOCK FALSE
