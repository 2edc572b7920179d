----------------------------- MODULE Deployment -----------------------------
(* From nothing to a stack that runs: scripts/bootstrap-production.mjs makes  *)
(* the identity files of an environment, scripts/preflight-deployment.mjs     *)
(* inspects them, deploy/control-entrypoint.sh copies the secrets into the    *)
(* container, and the loaders of the configuration accept them or not.        *)
(*                                                                            *)
(* A file is who wrote it; what it holds follows from the options that run    *)
(* was given.  The environment file can be edited, so its values are kept     *)
(* apart.  Files that are written together and only ever needed together are  *)
(* one name.  Values with a default in range are not modelled.                *)
EXTENDS Naturals, Sequences

CONSTANTS
  Runs,             \* runs of the bootstrap
  Offered,          \* the options they may be given, of Options
  Regions,          \* of {"CN-BJ", "CN-EAST-1"}: short ones and long ones
  NodeOwnsSecrets,  \* the host's user that owns the secrets has the id of node
  MaxEdits,         \* bound on edits of an environment file
  None

\* ci: CI=true and the flags for tests; kms: valid ARNs; owner: the ACME address and the
\* privacy contact; hosts: the public names of Control and Federation.
Options ==
  [environment : {"staging", "production"}, ci : BOOLEAN, kms : BOOLEAN,
   storage : {"none", "http", "https"}, region : Regions,
   owner : {"named", "placeholder", "missing"}, hosts : {"public", "reserved", "same"}]

Environments == {o.environment : o \in Offered}
Signing == {"private_key", "keyring"}
Attestation == {"attestation_key", "attestation_keyring"}
Tls == <<"tls_ca", "tls_cert">>
Names == Signing \cup Attestation \cup {"tokens", "s3_credentials", "tls_ca", "tls_cert", ".env"}

VARIABLES
  files,    \* [Environments -> [Names -> who wrote it, or None]]
  values,   \* [Environments -> what .env says, or None]
  options,  \* [Runs -> options, or None]
  run,      \* [Runs -> "new", "check", "write" or "ended"]
  next,     \* [Runs -> which of its files comes next]
  verdict,  \* [Environments -> how the last preflight ended]
  stack,    \* [Environments -> which services started, or None]
  edits
vars == <<files, values, options, run, next, verdict, stack, edits>>

Init ==
  /\ files = [e \in Environments |-> [n \in Names |-> None]]
  /\ values = [e \in Environments |-> None]
  /\ options = [r \in Runs |-> None]
  /\ run = [r \in Runs |-> "new"] /\ next = [r \in Runs |-> 1]
  /\ verdict = [e \in Environments |-> "none"]
  /\ stack = [e \in Environments |-> None]
  /\ edits = 0

Exists(e, n) == files[e][n] # None
Production(v) == v.environment = "production"

-----------------------------------------------------------------------------
\* bootstrap-production.mjs

StorageGiven(o) == Production(o) => o.storage = "https" \/ (o.storage = "none" /\ o.ci)
HostsGiven(o) == o.hosts # "same" /\ (Production(o) => o.hosts # "reserved")
OwnerGiven(o) == Production(o) => o.owner # "missing"
SigningGiven(o) == Production(o) => o.kms \/ o.ci
Acceptable(o) == StorageGiven(o) /\ HostsGiven(o) /\ OwnerGiven(o) /\ SigningGiven(o)

\* What a run writes, in this order.
Files(o) ==
  (IF o.kms THEN << >> ELSE <<"private_key">>)
  \o <<"keyring", "tokens", "s3_credentials">>
  \o (IF o.storage = "none" THEN << >> ELSE <<"attestation_key", "attestation_keyring">>)
  \o Tls \o <<".env">>
Targets(o) == {Files(o)[i] : i \in DOMAIN Files(o)}

\* What is looked for before anything is written.
Refuses(o) ==
  \E n \in Targets(o) \cup Signing \cup Attestation : Exists(o.environment, n)

\* The values of the environment file: an owner is made up where none is required, and the
\* mark for tests is one of production only.
Environment(o) ==
  [o EXCEPT !.ci = @ /\ Production(o), !.owner = IF @ = "missing" THEN "placeholder" ELSE @]

Begin(r, o) ==
  /\ run[r] = "new" /\ o \in Offered
  /\ Acceptable(o)
  /\ options' = [options EXCEPT ![r] = o]
  /\ run' = [run EXCEPT ![r] = "check"]
  /\ UNCHANGED <<next, files, values, verdict, stack, edits>>

Check(r) ==
  /\ run[r] = "check"
  /\ run' = [run EXCEPT ![r] = IF Refuses(options[r]) THEN "ended" ELSE "write"]
  /\ UNCHANGED <<next, files, values, options, verdict, stack, edits>>

Writing(r) == run[r] = "write"

\* Slip: an existing file is written over.
Overwrites(e, n) == FALSE
Collides(e, n) == Exists(e, n)

\* The flag wx: the next file, which must not be there.
Write(r) ==
  LET o == options[r]  e == o.environment  n == Files(o)[next[r]] IN
  /\ Writing(r)
  /\ IF Collides(e, n)
     THEN /\ run' = [run EXCEPT ![r] = "ended"]
          /\ UNCHANGED <<files, values, next>>
     ELSE /\ files' = [files EXCEPT ![e][n] = r]
          /\ values' = IF n = ".env" THEN [values EXCEPT ![e] = Environment(o)] ELSE values
          /\ run' = [run EXCEPT ![r] = IF n = ".env" THEN "ended" ELSE @]
          /\ next' = [next EXCEPT ![r] = @ + 1]
  /\ UNCHANGED <<options, verdict, stack, edits>>

\* It is stopped, or openssl fails: what was written stays.
Stop(r) ==
  /\ Writing(r)
  /\ run' = [run EXCEPT ![r] = "ended"]
  /\ UNCHANGED <<files, values, options, next, verdict, stack, edits>>

-----------------------------------------------------------------------------
\* What the operator does between the scripts, one thing after the other.
Quiet(e) == \A r \in Runs : run[r] \in {"check", "write"} => options[r].environment # e
Anew(e) == verdict' = [verdict EXCEPT ![e] = "none"] /\ stack' = [stack EXCEPT ![e] = None]

\* All of it is removed, after a bootstrap that did not end well.
Clear(e) ==
  /\ Quiet(e) /\ values[e] = None /\ \E n \in Names : Exists(e, n)
  /\ files' = [files EXCEPT ![e] = [n \in Names |-> None]]
  /\ Anew(e)
  /\ UNCHANGED <<values, options, run, next, edits>>

\* The environment file is edited; with storage come the files of the attestation.
Edit(e, storage, region, owner) ==
  /\ Quiet(e) /\ values[e] # None /\ edits < MaxEdits
  /\ edits' = edits + 1
  /\ values' = [values EXCEPT ![e].storage = storage, ![e].region = region, ![e].owner = owner]
  /\ files' = [files EXCEPT ![e] = [n \in Names |->
       IF n \in Attestation /\ @[n] = None /\ storage # "none" THEN "operator" ELSE @[n]]]
  /\ Anew(e)
  /\ UNCHANGED <<options, run, next>>

-----------------------------------------------------------------------------
\* preflight-deployment.mjs

Kms(e) == options[files[e]["keyring"]].kms

\* Outside of CI nothing for production that signs on the host, used or left behind.
SigningIdentity(e, testing) ==
  /\ Exists(e, "keyring")
  /\ ~Kms(e) => (Exists(e, "private_key") /\ (Production(values[e]) => testing))
  /\ (Production(values[e]) /\ ~testing) => ~Exists(e, "private_key")

PostgresIdentity(e) ==
  /\ Exists(e, "tls_ca") /\ Exists(e, "tls_cert")
  /\ files[e]["tls_ca"] = files[e]["tls_cert"]

AttestationIdentity(e) == \A n \in Attestation : Exists(e, n)

StorageSettings(e, testing) ==
  LET v == values[e] IN
  /\ v.ci = (Production(v) /\ testing)
  /\ (Production(v) /\ v.storage = "none") => testing
  /\ v.storage # "none" =>
       v.storage = "https" /\ Exists(e, "s3_credentials") /\ AttestationIdentity(e)

PublicNames(v) == v.hosts # "same" /\ (Production(v) => v.hosts # "reserved")
Ownership(v) == Production(v) => v.owner = "named"

Passes(e, testing) ==
  /\ PublicNames(values[e]) /\ Ownership(values[e])
  /\ Exists(e, "tokens")
  /\ SigningIdentity(e, testing) /\ PostgresIdentity(e) /\ StorageSettings(e, testing)

\* testing: CI=true and its flags.  DNS and Docker may fail it as well.
Preflight(e, testing, unreachable) ==
  /\ Quiet(e) /\ values[e] # None
  /\ verdict' = [verdict EXCEPT ![e] =
       IF ~Passes(e, testing) \/ unreachable THEN "refused"
       ELSE IF testing THEN "passed in CI" ELSE "passed"]
  /\ UNCHANGED <<files, values, options, run, next, stack, edits>>

-----------------------------------------------------------------------------
\* control-entrypoint.sh and the loaders

NamedOnes(e) ==
  {"keyring", "tokens"}
    \cup (IF values[e].storage = "none" THEN {} ELSE {"s3_credentials", "attestation_keyring"})

\* The signing directory and the files that variables name are copied into one directory,
\* and the variables are changed to it.
Staged(e) ==
  NamedOnes(e) \cup {n \in Signing : Exists(e, n)}

DataRegion(v) == v.region = "CN-BJ"
ArtifactStorage(v) == v.storage # "http"
ControlConfig(v) ==
  /\ (Production(v) /\ v.storage = "none") => v.ci
  /\ ArtifactStorage(v) /\ DataRegion(v)

\* References in a keyring are relative to it.
SigningProviders(e) == {"keyring"} \cup (IF Kms(e) THEN {} ELSE {"private_key"}) \subseteq Staged(e)
AttestationVerifier(e) == values[e].storage # "none" => Attestation \subseteq Staged(e)

ControlStarts(e) == ControlConfig(values[e]) /\ SigningProviders(e) /\ AttestationVerifier(e)

\* The federation reads the credentials of the storage where they are mounted, as node.
AttachmentStorage(v) == v.storage # "none" => v.storage = "https" /\ NodeOwnsSecrets
FederationStarts(e) == AttachmentStorage(values[e])

Up(e) ==
  /\ Quiet(e) /\ verdict[e] \in {"passed", "passed in CI"}
  /\ stack' = [stack EXCEPT ![e] = [control |-> ControlStarts(e), federation |-> FederationStarts(e)]]
  /\ UNCHANGED <<files, values, options, run, next, verdict, edits>>

-----------------------------------------------------------------------------
Bootstrap(r) == (\E o \in Offered : Begin(r, o)) \/ Check(r) \/ Write(r) \/ Stop(r)

Operate(e) ==
  \/ Clear(e)
  \/ \E storage \in {"none", "http", "https"}, region \in Regions, owner \in {"named", "placeholder"} :
       Edit(e, storage, region, owner)
  \/ \E testing, unreachable \in BOOLEAN : Preflight(e, testing, unreachable)
  \/ Up(e)

Next ==
  \/ \E r \in Runs : Bootstrap(r)
  \/ \E e \in Environments : Operate(e)

Spec == Init /\ [][Next]_vars

-----------------------------------------------------------------------------
\* An environment file stands for a complete identity of one run: whatever other runs were
\* doing at the time and wherever they were stopped, every file that it relies on was written
\* by the run that wrote it (main, bootstrap-production.mjs).
WholeByOneRun ==
  \A e \in Environments : Exists(e, ".env") =>
    \A n \in Targets(options[files[e][".env"]]) : files[e][n] = files[e][".env"]

\* What has passed starts: the public key of the attestation is found, as the README says, by a
\* reference relative to the keyring in the attestation directory, README.md:175-178.
PassedStarts ==
  \A e \in Environments : stack[e] # None => stack[e].control
=============================================================================
