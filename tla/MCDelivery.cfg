\* Workers stop, lose their lease or are late; a database of the witness is lost, before
\* or while it is recovered.
SPECIFICATION DeliverySpec
CONSTANTS
  NoRow = NoRow
  Watchers = {}
  Anchorers = {}
  none = none
  Channels <- OneChannel
  CriticalOnly = {}
  Reports <- NoReports
  NoReport = none
  Corruptible = {}
  MaxAnchorAttempts = 2
  MaxEvents = 0
  MaxRepeats = 0
  MaxCorruptions = 0
  MaxReports = 0
  Messages = {m1, m2}
  Senders = {w1, w2}
  MaxSendAttempts = 2
  MaxSendFaults = 1
  MaxSendRetries = 1
  Pruned = TRUE
  Branches = {0, 1}
  Receipts = {r1, r2}
  EvidenceWorkers = {w1, w2}
  MaxSequence = 2
  MaxStoreAttempts = 2
  MaxDelays = 1
  MaxLosses = 1
  MaxStoreRetries = 1
  Absent = Absent
PROPERTIES
  OutcomeOfLatestClaim
  Settles
  RecoveredAll
  EvidenceSettles
CHECK_DEADLOCK FALSE
