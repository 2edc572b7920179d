\* A row or the head is changed while the chain is verified and anchored, an anchor
\* fails twice, and the report of the backups is missing, written and missing again.
SPECIFICATION AlertsSpec
CONSTANTS
  all = all
  critical = critical
  NoRow = NoRow
  Watchers = {w}
  Anchorers = {a}
  Channels <- CChannels
  CriticalOnly = {critical}
  Reports <- CReports
  NoReport <- CNoReport
  Corruptible = {0, 2}
  MaxAnchorAttempts = 2
  MaxEvents = 2
  MaxRepeats = 1
  MaxCorruptions = 1
  MaxReports = 2
  Messages = {}
  Senders = {}
  MaxSendAttempts = 2
  MaxSendFaults = 0
  MaxSendRetries = 0
  Pruned = TRUE
INVARIANTS
  NoFalseAlarm
  AnchoredWasTrue
PROPERTY WatchAlerts
CHECK_DEADLOCK FALSE
