---------------------------- MODULE MCDeployment ----------------------------
EXTENDS Deployment
CONSTANTS r1, r2

\* All that is acceptable for production, some of what is refused, and one of each kind of
\* staging.
MCOffered ==
  {o \in Options :
    \/ Production(o) /\ o.hosts = "public"
    \/ ~Production(o) /\ ~o.ci /\ o.hosts = "public" /\ o.owner = "missing" /\ o.region = "CN-BJ"}
=============================================================================
