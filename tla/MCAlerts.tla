------------------------------ MODULE MCAlerts ------------------------------
(* An alert worker, two channels, and an anchor worker with two attempts;    *)
(* the outbox beside the chain keeps what it starts with.                    *)
EXTENDS WatchedChain

CONSTANTS all, critical

alertVars == <<chainVars, outboxVars>>

CChannels == <<all, critical>>

Without(file) == [file |-> file]
Report(at, age, offsite, required) ==
  [file |-> "report", recordedAt |-> at, age |-> age, offsite |-> offsite, required |-> required]

CNoReport == Without("missing")
\* The report can be written and go missing again.
CReports == { CNoReport, Report(1, "recent", "verified", TRUE) }

AlertsInit == Recovery!Init /\ Outbox!Init

OfChain(A) == A /\ UNCHANGED outboxVars

AlertsNext == OfChain(Recovery!Next)

\* Fairness of RecoveryAssurance.
AlertsSpec ==
  /\ AlertsInit /\ [][AlertsNext]_alertVars
  /\ \A x \in Watchers :
       /\ WF_alertVars(OfChain(Recovery!Poll(x)))
       /\ SF_alertVars(OfChain(Recovery!IntervalOver(x)))

\* Whoever is to hear of a broken chain, a failed backup or a failed anchor does, once
\* for each fingerprint of it (RecoveryAssurance, alert-delivery/service.ts #poll).
WatchAlerts == Recovery!TroubleAlerted
=============================================================================
