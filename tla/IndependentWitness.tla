--------------------------- MODULE IndependentWitness ---------------------------
(* The witness of another installation's chain (AuditWitness), under names of *)
(* its own, so that it can stand beside what this installation keeps.         *)
EXTENDS Integers, Sequences

CONSTANTS
  Branches, Receipts, EvidenceWorkers, MaxSequence, MaxStoreAttempts, MaxDelays, MaxLosses,
  MaxStoreRetries, Absent

VARIABLES
  chain, branch, anchors, receipt, evidence, tokens, object, evidenceWorkers, recovery,
  delays, losses, storeRetries

witnessVars ==
  <<chain, branch, anchors, receipt, evidence, tokens, object, evidenceWorkers, recovery,
    delays, losses, storeRetries>>

Witness == INSTANCE AuditWitness WITH
  Workers <- EvidenceWorkers, MaxAttempts <- MaxStoreAttempts, MaxRetries <- MaxStoreRetries,
  None <- Absent, workers <- evidenceWorkers, retries <- storeRetries

ASSUME WitnessAssumption == Witness!WitnessAssumption

\* NULL is not the head of a chain.
ASSUME HeadAssumption == Absent \notin Seq(Branches)

WitnessSpec == Witness!Spec

\* A recovery that comes to its end has brought back all that it listed and did not book
\* in a database that was lost (AuditWitness, recoverEvidence).
RecoveredAll == Witness!RecoveredAll

\* Evidence is stored or fails, so that its failure is seen (AuditWitness,
\* claimAuditWitnessEvidence).
EvidenceSettles == Witness!EvidenceSettles
=============================================================================
