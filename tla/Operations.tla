----------------------------- MODULE Operations ------------------------------
(* What is run on the hosts: the backups and restores of the database, and   *)
(* the bootstrap of a deployment with the checks before it starts.  They     *)
(* share no file: a backup needs of the bootstrap that it is over.           *)
EXTENDS BackupReplication

CONSTANTS
  Runs, Offered, Regions, NodeOwnsSecrets, MaxEdits   \* of the bootstrap (Deployment)

VARIABLES
  bundle,           \* the files of Deployment
  values, options, run, next, verdict, stack, edits

deploymentVars == <<bundle, values, options, run, next, verdict, stack, edits>>

Identity == INSTANCE Deployment WITH files <- bundle

\* The options are those the script knows, and nobody is not a run.
ASSUME IdentityAssumption == Offered \subseteq Identity!Options /\ None \notin Runs

\* What an environment file relies on was written by the run that wrote it (Deployment,
\* bootstrap-production.mjs).
WholeByOneRun == Identity!WholeByOneRun
=============================================================================
