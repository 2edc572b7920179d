----------------------------- MODULE WatchedChain ------------------------------
(* The chain of the audit events, verified and anchored, with the alerts of   *)
(* what recovery depends on (RecoveryAssurance), beside an outbox that alerts *)
(* and anchors leave through (DeliveryOutbox).  Names are its own, so that it *)
(* can stand beside what else others rely on this installation for.           *)
EXTENDS Integers

CONSTANTS
  \* of the chain
  Watchers, Anchorers, Channels, CriticalOnly, Reports, Corruptible, NoReport,
  MaxAnchorAttempts, MaxEvents, MaxRepeats, MaxCorruptions, MaxReports,
  \* of the outbox
  Messages, Senders, MaxSendAttempts, MaxSendFaults, MaxSendRetries, Pruned,
  NoRow

VARIABLES
  event, head, genuine, anchor, witnessed, report, alerts, pollers, due, corruptions, operations,
  row, sender, received, outboxAudit, sendFaults, sendRetries

chainVars ==
  <<event, head, genuine, anchor, witnessed, report, alerts, pollers, due, corruptions, operations>>
outboxVars == <<row, sender, received, outboxAudit, sendFaults, sendRetries>>

Recovery == INSTANCE RecoveryAssurance WITH
  MaxAttempts <- MaxAnchorAttempts, MaxFaults <- MaxCorruptions, None <- NoRow,
  workers <- pollers, faults <- corruptions

ASSUME ChainAssumption == Recovery!AssuranceAssumption

Outbox == INSTANCE DeliveryOutbox WITH
  Workers <- Senders, MaxAttempts <- MaxSendAttempts, MaxFaults <- MaxSendFaults,
  MaxRetries <- MaxSendRetries, None <- NoRow,
  worker <- sender, audit <- outboxAudit, faults <- sendFaults, retries <- sendRetries

\* The chain is reported broken only when it is (RecoveryAssurance, audit/service.ts verify).
NoFalseAlarm == Recovery!NoFalseAlarm

\* What is handed to the witness as a head is one the chain has had (RecoveryAssurance,
\* audit-anchor/service.ts #poll).
AnchoredWasTrue == Recovery!AnchoredWasTrue

\* Only the latest claim of a row settles it (DeliveryOutbox, finishAlertDelivery).
OutcomeOfLatestClaim == Outbox!OutcomeOfLatestClaim

\* What was enqueued is delivered or has visibly failed (DeliveryOutbox, claimAlertDelivery).
Settles == Outbox!Settles
=============================================================================
