--------------------------- MODULE DataGovernance ---------------------------
(* What the control plane promises one customer about their data: they may   *)
(* have it exported and, after days of grace, erased; what reports their      *)
(* deployments sent is deleted after a time; and a legal hold keeps it.       *)
(* An erasure is checked and carried out in one transaction, which locks its  *)
(* request but neither holds nor licenses; its manifest is a second one.      *)
(* Licenses are read, signed and stored, and reports checked and stored, by   *)
(* calls on other instances at the same time.                                 *)
(*                                                                           *)
(* A row either holds what identifies the customer or a pseudonym for it.     *)
(* Each deployment has at most one license.  Signatures of reports match,     *)
(* every batch has one event, and one clock serves all instances.             *)
EXTENDS Integers

CONSTANTS
  Deployments,
  Events,      \* events reported; each comes with a nonce of its own
  Requests,
  Type,        \* [Requests -> Types]
  Holds,
  Scope,       \* [Holds -> sets of data classes]
  Until,       \* [Holds -> times at which they expire], after MaxTime if never
  Callers,     \* calls in flight at once
  GraceTime,     \* customerErasureGraceDays
  KeepTelemetry, \* telemetryRetentionDays
  KeepExports,   \* exportRecordRetentionDays
  NonceLife,     \* twice TELEMETRY_MAX_CLOCK_SKEW_MS
  LastReport,    \* bound: when the last report is checked
  MaxRevision,   \* bound: of licenses
  MaxTime,
  None

Scopes ==
  {"all", "data_governance", "customer_identity", "deployment_identity", "health_telemetry",
   "billing_ledger", "security_audit"}

Types == {"customer_export", "customer_erasure", "forensic_export"}

\* Rows of control_licenses.
Licenses == [plain : BOOLEAN, revoked : BOOLEAN, revision : Nat]

ASSUME GovernanceAssumption ==
  /\ Scope \in [Holds -> SUBSET Scopes \ {{}}]
  /\ Until \in [Holds -> Nat] /\ Type \in [Requests -> Types]
  /\ {GraceTime, KeepTelemetry, KeepExports, NonceLife, MaxRevision, MaxTime} \subseteq Nat
  /\ LastReport + KeepTelemetry < MaxTime
  /\ None \notin Nat \cup Licenses

VARIABLES
  now,
  executions,  \* how many erasures were carried out
  deployment,  \* control_deployments
  license,     \* control_licenses, by deployment
  telemetry,   \* control_telemetry_events: when each was received
  nonces,      \* control_telemetry_nonces: when each expires
  frozen,      \* a row of control_credit_holds
  hold,        \* control_legal_holds
  request,     \* control_data_governance_requests
  calls        \* [Callers -> call]

rows == <<deployment, license>>
reports == <<telemetry, nonces>>
vars == <<now, executions, rows, reports, frozen, hold, request, calls>>

Idle == [pc |-> "idle"]
Become(c, call) == calls' = [calls EXCEPT ![c] = call]
Leave(c) == Become(c, Idle)

\* The rows are records: a deployment is plain or not, and active or suspended; a
\* license plain, revoked, of a revision; a request has a status, its earliest
\* execution, its result (the number of the erasure, or whether an export is
\* restricted), its manifest (the number, too) and when it was completed.
Init ==
  /\ now = 0 /\ executions = 0
  /\ deployment = [d \in Deployments |-> None]
  /\ license = [d \in Deployments |-> None]
  /\ telemetry = [e \in Events |-> None]
  /\ nonces = [e \in Events |-> None]
  /\ frozen = "none"
  /\ hold = [h \in Holds |-> "none"]
  /\ request = [r \in Requests |-> None]
  /\ calls = [c \in Callers |-> Idle]

Erased == executions > 0

-----------------------------------------------------------------------------
\* Legal holds.

InForce(h, at) == hold[h] = "placed" /\ Until[h] > at
HeldAgainst(class, at) == \E h \in Holds : InForce(h, at) /\ Scope[h] \cap {"all", class} # {}

CreateLegalHold(h) ==
  /\ hold[h] = "none"
  /\ Until[h] > now
  /\ hold' = [hold EXCEPT ![h] = "placed"]
  /\ UNCHANGED <<now, executions, rows, reports, frozen, request, calls>>

ReleaseLegalHold(h) ==
  /\ hold[h] = "placed"
  /\ hold' = [hold EXCEPT ![h] = "released"]
  /\ UNCHANGED <<now, executions, rows, reports, frozen, request, calls>>

-----------------------------------------------------------------------------
\* Exports: the data is read, a request inserted, the bundle signed, and the
\* request completed by a transaction of its own.

Pending(earliest) ==
  [status |-> "pending", earliest |-> earliest,
   result |-> None, manifest |-> None, completedAt |-> None]

IsPending(r) == request[r] # None /\ request[r].status = "pending"
Erasure(r) == Type[r] = "customer_erasure"

\* An index allows one pending erasure of a customer.
CreateRequest(r, earliest) ==
  /\ request[r] = None
  /\ Erasure(r) => \A q \in Requests : ~(Erasure(q) /\ IsPending(q))
  /\ request' = [request EXCEPT ![r] = Pending(earliest)]

Completable(r) == request[r].status = "pending" \/ request[r].manifest = None

CompleteRequest(r, result, manifest, at) ==
  request' =
    IF Completable(r)
    THEN [request EXCEPT ![r].status = "completed", ![r].manifest = manifest, ![r].result = result,
            ![r].completedAt = IF @ = None THEN at ELSE @]
    ELSE request

ExportCustomer(c, r) ==
  /\ calls[c] = Idle /\ ~Erasure(r)
  /\ CreateRequest(r, None)
  /\ Become(c, [pc |-> "exporting", request |-> r, at |-> now])
  /\ UNCHANGED <<now, executions, rows, reports, frozen, hold>>

CompleteExport(c) ==
  /\ calls[c].pc = "exporting"
  /\ CompleteRequest(calls[c].request, "delivered", "delivered", calls[c].at)
  /\ Leave(c)
  /\ UNCHANGED <<now, executions, rows, reports, frozen, hold>>

-----------------------------------------------------------------------------
\* Erasure.

\* A customer who was erased is refused, by what was read before the insert.
AskForErasure(c) ==
  /\ calls[c] = Idle /\ ~Erased
  /\ Become(c, [pc |-> "asking", at |-> now])
  /\ UNCHANGED <<now, executions, rows, reports, frozen, hold, request>>

RequestCustomerErasure(c, r) ==
  /\ calls[c].pc = "asking"
  /\ Erasure(r)
  /\ CreateRequest(r, calls[c].at + GraceTime)
  /\ Leave(c)
  /\ UNCHANGED <<now, executions, rows, reports, frozen, hold>>

\* Pending, and its grace is over.
Due(r, at) == Erasure(r) /\ IsPending(r) /\ request[r].earliest <= at

ExecuteCustomerErasure(c, r) ==
  /\ calls[c] = Idle
  /\ Due(r, now) /\ \A h \in Holds : ~InForce(h, now)
  /\ Become(c, [pc |-> "executing", request |-> r, at |-> now])
  /\ UNCHANGED <<now, executions, rows, reports, frozen, hold, request>>

LockedBy(c, r) == calls[c].pc = "checked" /\ calls[c].request = r

Blocked(at) == frozen = "active" \/ \E h \in Holds : InForce(h, at)

StillDue(r, at) == Due(r, at)

\* In the transaction: the request is locked, and the rest read without a lock.
CheckErasure(c) ==
  LET call == calls[c] IN
  /\ call.pc = "executing"
  /\ \A b \in Callers : ~LockedBy(b, call.request)
  /\ \/ /\ StillDue(call.request, call.at) /\ ~Blocked(call.at)
        /\ Become(c, [pc |-> "checked", request |-> call.request, at |-> call.at])
     \/ /\ ~StillDue(call.request, call.at) \/ Blocked(call.at)
        /\ Leave(c)
  /\ UNCHANGED <<now, executions, rows, reports, frozen, hold, request>>

\* Slip: the deployments stay as active as they were.
PseudonymKept(row) == [row EXCEPT !.plain = FALSE]
Pseudonym(row) == [row EXCEPT !.plain = FALSE, !.status = "suspended"]

\* The revision stays what it was.
ErasedLicense(row) == [row EXCEPT !.plain = FALSE, !.revoked = TRUE]

\* What is left of a credit hold names an organization which has no account.
LeftOf(credit) == IF credit = "active" THEN "lost" ELSE credit

CarryOutErasure(c) ==
  LET call == calls[c] IN
  /\ call.pc = "checked"
  /\ executions' = executions + 1
  /\ telemetry' = [e \in Events |-> None]
  /\ nonces' = [e \in Events |-> None]
  /\ deployment' = [d \in Deployments |->
       IF deployment[d] = None THEN None ELSE Pseudonym(deployment[d])]
  /\ license' = [d \in Deployments |-> IF license[d] = None THEN None ELSE ErasedLicense(license[d])]
  /\ frozen' = LeftOf(frozen)
  /\ request' = [request EXCEPT ![call.request].status = "completed",
       ![call.request].result = executions + 1, ![call.request].completedAt = call.at]
  /\ Become(c, [pc |-> "erased", request |-> call.request, at |-> call.at, result |-> executions + 1])
  /\ UNCHANGED <<now, hold>>

RecordManifest(c) ==
  /\ calls[c].pc = "erased"
  /\ CompleteRequest(calls[c].request, calls[c].result, calls[c].result, calls[c].at)
  /\ Leave(c)
  /\ UNCHANGED <<now, executions, rows, reports, frozen, hold>>

-----------------------------------------------------------------------------
\* What other parts write about the customer meanwhile.

\* It does not ask whether the customer was erased.
CreateDeployment(d) ==
  /\ deployment[d] = None
  /\ deployment' = [deployment EXCEPT ![d] = [plain |-> TRUE, status |-> "active"]]
  /\ UNCHANGED <<now, executions, license, reports, frozen, hold, request, calls>>

\* The account of the organization, which loses its name with the erasure.
Freeze ==
  /\ ~Erased /\ frozen \in {"none", "closed"}
  /\ frozen' = "active"
  /\ UNCHANGED <<now, executions, rows, reports, hold, request, calls>>

\* Settled or released; for a hold that names no account, neither is possible.
CloseFrozen ==
  /\ frozen = "active"
  /\ frozen' = "closed"
  /\ UNCHANGED <<now, executions, rows, reports, hold, request, calls>>

\* issueLicense reads the deployment, #changeLicense the license; each stores what
\* it read and signed.  `erasures' is how many there had been, which no step reads.
ReadDeployment(c, d) ==
  /\ calls[c] = Idle
  /\ license[d] = None /\ deployment[d] # None /\ deployment[d].status = "active"
  /\ Become(c, [pc |-> "signing", deployment |-> d, revision |-> 0,
                plain |-> deployment[d].plain, erasures |-> executions])
  /\ UNCHANGED <<now, executions, rows, reports, frozen, hold, request>>

Changeable(row) == ~row.revoked

ReadLicense(c, d) ==
  /\ calls[c] = Idle
  /\ license[d] # None /\ Changeable(license[d]) /\ license[d].revision < MaxRevision
  /\ Become(c, [pc |-> "signing", deployment |-> d, revision |-> license[d].revision,
                plain |-> license[d].plain, erasures |-> executions])
  /\ UNCHANGED <<now, executions, rows, reports, frozen, hold, request>>

StoredRevision(d) == IF license[d] = None THEN 0 ELSE license[d].revision

\* The whole row is written, revoked_at_ms too, if the revision is what was read.
StoreLicense(c) ==
  LET call == calls[c] IN
  /\ call.pc = "signing"
  /\ license' =
       IF StoredRevision(call.deployment) = call.revision
       THEN [license EXCEPT ![call.deployment] =
               [plain |-> call.plain, revoked |-> FALSE, revision |-> call.revision + 1]]
       ELSE license
  /\ Leave(c)
  /\ UNCHANGED <<now, executions, deployment, reports, frozen, hold, request>>

\* ingestTelemetry checks license and deployment, then stores the batch.
CheckReport(c, d, e) ==
  /\ calls[c] = Idle /\ now <= LastReport
  /\ license[d] # None /\ ~license[d].revoked /\ deployment[d].status = "active"
  /\ Become(c, [pc |-> "reporting", event |-> e, at |-> now])
  /\ UNCHANGED <<now, executions, rows, reports, frozen, hold, request>>

WithoutExpired(at) ==
  [e \in Events |-> IF nonces[e] # None /\ nonces[e] < at THEN None ELSE nonces[e]]

\* What is old goes with every batch, held or not.
WithoutOld(at) ==
  [e \in Events |->
     IF telemetry[e] # None /\ telemetry[e] < at - KeepTelemetry THEN None ELSE telemetry[e]]

\* A nonce that is there rolls the whole batch back.
IngestTelemetryBatch(c) ==
  LET call == calls[c]
      e == call.event
      kept == WithoutOld(call.at)
  IN
  /\ call.pc = "reporting"
  /\ \/ /\ WithoutExpired(call.at)[e] = None
        /\ nonces' = [WithoutExpired(call.at) EXCEPT ![e] = call.at + NonceLife]
        /\ telemetry' = [kept EXCEPT ![e] = IF @ = None THEN call.at ELSE @]
     \/ /\ WithoutExpired(call.at)[e] # None
        /\ UNCHANGED reports
  /\ Leave(c)
  /\ UNCHANGED <<now, executions, rows, frozen, hold, request>>

-----------------------------------------------------------------------------
\* Slip: a hold that has ended keeps the telemetry, too.
DeletableUnlessEverHeld(e) ==
  /\ telemetry[e] < now - KeepTelemetry
  /\ \A h \in Holds : hold[h] = "none" \/ Scope[h] \cap {"all", "health_telemetry"} = {}
Deletable(e) == telemetry[e] < now - KeepTelemetry /\ ~HeldAgainst("health_telemetry", now)

Restrictable(r) ==
  /\ ~Erasure(r)
  /\ request[r].status = "completed" /\ request[r].completedAt < now - KeepExports
  /\ request[r].result # "restricted" /\ ~HeldAgainst("data_governance", now)

\* Every instance does this from time to time.
RunRetention ==
  /\ telemetry' = [e \in Events |->
       IF telemetry[e] # None /\ Deletable(e) THEN None ELSE telemetry[e]]
  /\ nonces' = WithoutExpired(now)
  /\ request' = [r \in Requests |->
       IF request[r] # None /\ Restrictable(r)
       THEN [request[r] EXCEPT !.result = "restricted"] ELSE request[r]]
  /\ UNCHANGED <<now, executions, rows, frozen, hold, calls>>

\* A call may end at any time, between its transactions or before one commits.
Stop(c) ==
  /\ calls[c] # Idle
  /\ Leave(c)
  /\ UNCHANGED <<now, executions, rows, reports, frozen, hold, request>>

Tick ==
  /\ now < MaxTime
  /\ now' = now + 1
  /\ UNCHANGED <<executions, rows, reports, frozen, hold, request, calls>>

Erasing ==
  \E c \in Callers :
    \/ AskForErasure(c) \/ CheckErasure(c) \/ CarryOutErasure(c) \/ RecordManifest(c)
    \/ \E r \in Requests : RequestCustomerErasure(c, r) \/ ExecuteCustomerErasure(c, r)

Exporting ==
  \E c \in Callers :
    CompleteExport(c) \/ \E r \in Requests : ExportCustomer(c, r)

Licensing ==
  \/ \E d \in Deployments : CreateDeployment(d)
  \/ \E c \in Callers :
       StoreLicense(c) \/ \E d \in Deployments : ReadDeployment(c, d) \/ ReadLicense(c, d)

Reporting ==
  \E c \in Callers :
    IngestTelemetryBatch(c) \/ \E d \in Deployments, e \in Events : CheckReport(c, d, e)

Next ==
  \/ \E h \in Holds : CreateLegalHold(h) \/ ReleaseLegalHold(h)
  \/ Exporting \/ Erasing \/ Licensing \/ Reporting
  \/ Freeze \/ CloseFrozen
  \/ RunRetention \/ Tick
  \/ \E c \in Callers : Stop(c)

\* Retention runs on a timer of every instance; no call needs to end.
Spec == Init /\ [][Next]_vars /\ WF_vars(Tick) /\ WF_vars(RunRetention)

-----------------------------------------------------------------------------
\* After an erasure a license of an erased deployment becomes valid only if what it
\* is made from was read before: a change or an issue in flight brings the license
\* back, as the revision does not tell the two apart, but no later one does
\* (executeCustomerErasure, updateLicense, CommercialControlService.#changeLicense).
Valid(d) == license[d] # None /\ ~license[d].revoked
ValidWasReadBefore ==
  [][\A d \in Deployments :
       executions > 0 /\ deployment[d] # None /\ ~deployment[d].plain /\ ~Valid(d) /\ Valid(d)' =>
         \E c \in Callers :
           calls[c].pc = "signing" /\ calls[c].deployment = d /\ calls[c].erasures < executions
    ]_vars

\* A report leaves in the end, also one that was stored after its customer was
\* erased, unless a legal hold on telemetry stays in force (runDataRetention).
HoldsTelemetry ==
  \E h \in Holds :
    /\ hold[h] = "placed" /\ Until[h] > now
    /\ Scope[h] \cap {"all", "health_telemetry"} # {}
Forgotten == \A e \in Events : telemetry[e] # None ~> telemetry[e] = None \/ HoldsTelemetry
=============================================================================
