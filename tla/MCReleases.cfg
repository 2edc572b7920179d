\* Two releases of one channel are activated, rolled back and offered while artifacts
\* are registered and revoked; two tickets, whether of one artifact or of two, and two PUTs.
SPECIFICATION ReleasesSpec
CONSTANTS
  r1 = r1
  r2 = r2
  c1 = c1
  c2 = c2
  None = None
  Releases = {r1, r2}
  ChannelOf <- MCStable
  Installers = {"exe"}
  Manifests = {"full", "incremental"}
  KindsOf <- MCKinds
  Referenced <- MCReferenced
  Callers <- MCCallers
  Slots = {"exe", "dmg"}
  Digests = {1, 2}
  MaxTickets = 2
  MaxPuts = 2
SYMMETRY CallerSymmetry
INVARIANT BytesAreSigned
PROPERTY NeverReadyAgain
CHECK_DEADLOCK FALSE
