---------------------------- MODULE MCOperations ----------------------------
(* Backups: two scripts on two hosts, three runs and one fault.  Deployment: *)
(* two runs of the bootstrap with some options for production or staging.  A *)
(* behaviour is one of the backups or one of the deployment.                 *)
EXTENDS Operations, TLC

CONSTANTS s1, s2, h1, h2, r1, r2

VARIABLE subject

\* For production the options that differ in the files that are written and, with a KMS,
\* in the region.  For staging one of each kind that signs with a key of its own.
MCOffered ==
  {o \in [environment : {"staging", "production"}, ci : BOOLEAN, kms : BOOLEAN,
          storage : {"none", "http", "https"}, region : {"CN-BJ", "CN-EAST-1"},
          owner : {"named", "missing"}, hosts : {"public"}] :
    \/ /\ o.environment = "production" /\ o.owner = "named"
       /\ o.region = "CN-BJ" \/ (o.kms /\ o.storage = "https" /\ ~o.ci)
    \/ ~o.kms /\ ~o.ci /\ o.owner = "missing" /\ o.region = "CN-BJ"}

\* Which script runs on which host matters to the backups only.
OperationsInit ==
  /\ Init /\ Identity!Init
  /\ \/ subject = "backups"
     \/ subject = "deployment" /\ \A s \in Scripts : host[s] = h1

OperationsNext ==
  /\ UNCHANGED subject
  /\ \/ subject = "backups" /\ Next /\ UNCHANGED deploymentVars
     \/ subject = "deployment" /\ Identity!Next /\ UNCHANGED vars

OperationsSymmetry == Permutations({s1, s2}) \cup Permutations({r1, r2})

OperationsSpec == OperationsInit /\ [][OperationsNext]_<<vars, deploymentVars, subject>>
=============================================================================
