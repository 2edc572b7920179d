----------------------------- MODULE Publishing ------------------------------
(* The two halves of an update: the rollout of releases, and the uploads of  *)
(* the artifacts of one of them.  The rollout sees an artifact as registered *)
(* or revoked, whatever bytes are stored for it.                             *)
EXTENDS UpdateRollout

CONSTANTS
  Slots, Digests, MaxTickets, MaxPuts   \* of the uploads (ManagedArtifacts)

VARIABLES
  draft, tickets, puts, row, urls,
  requests          \* the calls of ManagedArtifacts

uploadVars == <<draft, tickets, puts, row, requests, urls>>

\* NULL is not an artifact.
ASSUME ArtifactAssumption ==
  None \notin [slot : Slots, digest : Digests, version : Nat, active : BOOLEAN]

Uploads == INSTANCE ManagedArtifacts WITH calls <- requests

\* What is downloaded is what was signed (ManagedArtifacts, s3-object-store.ts objectKey).
BytesAreSigned == Uploads!BytesAreSigned
=============================================================================
