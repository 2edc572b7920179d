------------------------ MODULE DataGovernanceProofs ------------------------
(* Theorems about DataGovernance, for any number of deployments, requests,   *)
(* legal holds and calls, and any times of grace and retention.              *)
EXTENDS DataGovernance, TLAPS

-----------------------------------------------------------------------------
(* The inductive invariant.                                                  *)

CallType ==
  [pc : {"idle"}]
    \cup [pc : {"asking"}, at : Nat]
    \cup [pc : {"exporting", "executing", "checked"}, request : Requests, at : Nat]
    \cup [pc : {"erased"}, request : Requests, at : Nat, result : Nat]
    \cup [pc : {"signing"}, deployment : Deployments, revision : Nat, plain : BOOLEAN, erasures : Nat]
    \cup [pc : {"reporting"}, event : Events, at : Nat]

TypeOK ==
  /\ now \in Nat /\ executions \in Nat
  /\ deployment \in
       [Deployments -> [plain : BOOLEAN, status : {"active", "suspended"}] \cup {None}]
  /\ license \in [Deployments -> Licenses \cup {None}]
  /\ hold \in [Holds -> {"none", "placed", "released"}]
  /\ calls \in [Callers -> CallType]

\* What has lost its name is not active.
Nameless ==
  \A d \in Deployments : deployment[d] # None /\ ~ deployment[d].plain => deployment[d].status = "suspended"

\* What a license is made from is as it was read, until the next erasure.
Fresh(d) == (deployment[d] # None /\ deployment[d].status = "active") \/ Valid(d)
Drawn(c) ==
  calls[c].pc = "signing" =>
    /\ calls[c].erasures <= executions
    /\ calls[c].erasures = executions => Fresh(calls[c].deployment)

IInv == TypeOK /\ Nameless /\ \A c \in Callers : Drawn(c)

-----------------------------------------------------------------------------
LEMMA InitEstablishes == Init => IInv
<1> SUFFICES ASSUME Init
             PROVE  IInv
  OBVIOUS
<1>1. TypeOK /\ Nameless
  BY DEF Init, TypeOK, CallType, Idle, Nameless
<1>2. \A c \in Callers : calls[c].pc = "idle"
  BY DEF Init, Idle
<1> QED
  BY <1>1, <1>2 DEF IInv, Drawn

LEMMA Fields ==
  ASSUME TypeOK, NEW c \in Callers
  PROVE  /\ calls[c] \in CallType
         /\ calls[c].pc \in {"asking", "exporting", "executing", "checked", "erased", "reporting"} =>
              calls[c].at \in Nat
         /\ calls[c].pc \in {"exporting", "executing", "checked", "erased"} => calls[c].request \in Requests
         /\ calls[c].pc = "signing" =>
              /\ calls[c].deployment \in Deployments /\ calls[c].revision \in Nat
              /\ calls[c].plain \in BOOLEAN /\ calls[c].erasures \in Nat
<1>1. calls[c] \in CallType
  BY DEF TypeOK
<1> QED
  BY <1>1 DEF CallType

LEMMA IdleType == Idle \in CallType /\ Idle.pc = "idle"
  BY DEF Idle, CallType

LEMMA Becomes ==
  ASSUME TypeOK, NEW c \in Callers, NEW r \in CallType, Become(c, r)
  PROVE  /\ calls' \in [Callers -> CallType] /\ calls'[c] = r
         /\ \A b \in Callers : b # c => calls'[b] = calls[b]
  BY DEF TypeOK, Become

\* A call that reads or writes nothing that the invariant is about.
LEMMA CallStep ==
  ASSUME IInv, NEW c \in Callers, NEW r \in CallType, Become(c, r),
         UNCHANGED <<now, executions, deployment, license, hold>>, Drawn(c)'
  PROVE  IInv'
<1>1. /\ calls' \in [Callers -> CallType] /\ calls'[c] = r
      /\ \A b \in Callers : b # c => calls'[b] = calls[b]
  BY Becomes DEF IInv
<1>2. TypeOK' /\ Nameless'
  BY <1>1 DEF IInv, TypeOK, Nameless
<1>3. \A b \in Callers : b # c => Drawn(b)'
  BY <1>1 DEF IInv, Drawn, Fresh, Valid
<1> QED
  BY <1>2, <1>3 DEF IInv

LEMMA QuietStep ==
  ASSUME IInv, NEW c \in Callers, NEW r \in CallType, Become(c, r), r.pc # "signing",
         UNCHANGED <<now, executions, deployment, license, hold>>
  PROVE  IInv'
<1>1. calls'[c] = r
  BY Becomes DEF IInv
<1>2. Drawn(c)'
  BY <1>1 DEF Drawn
<1> QED
  BY <1>2, CallStep

LEMMA LeaveStep ==
  ASSUME IInv, NEW c \in Callers, Leave(c), UNCHANGED <<now, executions, deployment, license, hold>>
  PROVE  IInv'
  BY IdleType, QuietStep DEF Leave

\* Steps of no call.
LEMMA BesideStep ==
  ASSUME IInv, TypeOK', Nameless', UNCHANGED <<executions, license, calls>>,
         \A d \in Deployments : deployment[d] # None => deployment'[d] = deployment[d]
  PROVE  IInv'
<1>1. ASSUME NEW c \in Callers
      PROVE  Drawn(c)'
  <2>1. Drawn(c)
    BY DEF IInv
  <2>2. calls[c].pc = "signing" => calls[c].deployment \in Deployments
    BY Fields DEF IInv
  <2> QED
    BY <2>1, <2>2 DEF Drawn, Fresh, Valid
<1> QED
  BY <1>1 DEF IInv

-----------------------------------------------------------------------------
(* Each step keeps it.                                                       *)

LEMMA CheckErasureStep ==
  ASSUME IInv, NEW c \in Callers, CheckErasure(c)
  PROVE  IInv'
<1> DEFINE r == [pc |-> "checked", request |-> calls[c].request, at |-> calls[c].at]
<1>1. calls[c].pc = "executing" /\ UNCHANGED <<now, executions, deployment, license, hold>>
  BY DEF CheckErasure, rows
<1>2. CASE Leave(c)
  BY <1>1, <1>2, LeaveStep
<1>3. CASE Become(c, r)
  <2>1. calls[c].request \in Requests /\ calls[c].at \in Nat
    BY <1>1, Fields DEF IInv
  <2>2. r \in CallType /\ r.pc = "checked"
    BY <2>1 DEF CallType
  <2> HIDE DEF r
  <2> QED
    BY <1>1, <1>3, <2>2, QuietStep
<1> QED
  BY <1>2, <1>3 DEF CheckErasure

LEMMA CarryOutStep ==
  ASSUME IInv, NEW c \in Callers, CarryOutErasure(c)
  PROVE  IInv'
<1> DEFINE r == [pc |-> "erased", request |-> calls[c].request, at |-> calls[c].at,
                 result |-> executions + 1]
<1>1. /\ calls[c].pc = "checked" /\ executions' = executions + 1 /\ Become(c, r)
      /\ deployment' = [d \in Deployments |->
           IF deployment[d] = None THEN None ELSE Pseudonym(deployment[d])]
      /\ license' = [d \in Deployments |-> IF license[d] = None THEN None ELSE ErasedLicense(license[d])]
      /\ UNCHANGED <<now, hold>>
  BY DEF CarryOutErasure
<1>2. executions \in Nat /\ executions + 1 \in Nat /\ ~ (executions + 1 <= executions)
  BY DEF IInv, TypeOK
<1>3. r \in CallType /\ r.pc = "erased"
  <2>1. calls[c].request \in Requests /\ calls[c].at \in Nat
    BY <1>1, Fields DEF IInv
  <2> QED
    BY <1>2, <2>1 DEF CallType
<1> HIDE DEF r
<1>4. /\ calls' \in [Callers -> CallType] /\ calls'[c] = r
      /\ \A b \in Callers : b # c => calls'[b] = calls[b]
  BY <1>1, <1>3, Becomes DEF IInv
<1>5. deployment' \in [Deployments -> [plain : BOOLEAN, status : {"active", "suspended"}] \cup {None}]
      /\ Nameless'
  <2>1. ASSUME NEW row \in [plain : BOOLEAN, status : {"active", "suspended"}]
        PROVE  /\ Pseudonym(row) \in [plain : BOOLEAN, status : {"active", "suspended"}]
               /\ Pseudonym(row).status = "suspended"
    BY DEF Pseudonym
  <2>2. \A d \in Deployments :
          deployment[d] \in [plain : BOOLEAN, status : {"active", "suspended"}] \cup {None}
    BY DEF IInv, TypeOK
  <2> QED
    BY <1>1, <2>1, <2>2 DEF Nameless
<1>6. license' \in [Deployments -> Licenses \cup {None}]
  <2>1. \A row \in Licenses : ErasedLicense(row) \in Licenses
    BY DEF ErasedLicense, Licenses
  <2>2. \A d \in Deployments : license[d] \in Licenses \cup {None}
    BY DEF IInv, TypeOK
  <2> QED
    BY <1>1, <2>1, <2>2
<1>7. TypeOK'
  BY <1>1, <1>2, <1>4, <1>5, <1>6 DEF IInv, TypeOK
<1>8. ASSUME NEW b \in Callers
      PROVE  Drawn(b)'
  <2>1. CASE b = c
    BY <1>3, <1>4, <2>1 DEF Drawn
  <2>2. CASE b # c
    <3>1. Drawn(b) /\ calls'[b] = calls[b]
      BY <1>4, <2>2 DEF IInv
    <3>2. calls[b].pc = "signing" => calls[b].erasures \in Nat
      BY Fields DEF IInv
    <3> QED
      BY <1>1, <1>2, <3>1, <3>2 DEF Drawn
  <2> QED
    BY <2>1, <2>2
<1> QED
  BY <1>5, <1>7, <1>8 DEF IInv

\* A license is made from an active deployment or a valid license.
LEMMA ReadStep ==
  ASSUME IInv, NEW c \in Callers, NEW d \in Deployments, ReadDeployment(c, d) \/ ReadLicense(c, d)
  PROVE  IInv'
<1>1. UNCHANGED <<now, executions, deployment, license, hold>> /\ executions \in Nat
  BY DEF ReadDeployment, ReadLicense, rows, IInv, TypeOK
<1>2. /\ deployment[d] \in [plain : BOOLEAN, status : {"active", "suspended"}] \cup {None}
      /\ license[d] \in Licenses \cup {None}
  BY DEF IInv, TypeOK
<1>3. PICK revision \in Nat, plain \in BOOLEAN :
        /\ Become(c, [pc |-> "signing", deployment |-> d, revision |-> revision,
                      plain |-> plain, erasures |-> executions])
        /\ Fresh(d)
  <2>1. CASE ReadDeployment(c, d)
    BY <1>2, <2>1 DEF ReadDeployment, Fresh
  <2>2. CASE ReadLicense(c, d)
    BY <1>2, <2>2 DEF ReadLicense, Changeable, Fresh, Valid, Licenses
  <2> QED
    BY <2>1, <2>2
<1> DEFINE r == [pc |-> "signing", deployment |-> d, revision |-> revision,
                 plain |-> plain, erasures |-> executions]
<1>4. r \in CallType /\ r.pc = "signing" /\ r.deployment = d /\ r.erasures = executions
  BY <1>1 DEF CallType
<1>5. Become(c, r)
  BY <1>3
<1> HIDE DEF r
<1>6. calls'[c] = r
  BY <1>4, <1>5, Becomes DEF IInv
<1>7. Drawn(c)'
  BY <1>1, <1>3, <1>4, <1>6 DEF Drawn, Fresh, Valid
<1> QED
  BY <1>1, <1>4, <1>5, <1>7, CallStep

LEMMA StoreLicenseStep ==
  ASSUME IInv, NEW c \in Callers, StoreLicense(c)
  PROVE  IInv'
<1> DEFINE d == calls[c].deployment
           row == [plain |-> calls[c].plain, revoked |-> FALSE, revision |-> calls[c].revision + 1]
<1>1. /\ calls[c].pc = "signing" /\ Become(c, Idle)
      /\ license' = license \/ license' = [license EXCEPT ![d] = row]
      /\ UNCHANGED <<now, executions, deployment, hold>>
  BY DEF StoreLicense, Leave
<1>2. /\ calls' \in [Callers -> CallType] /\ calls'[c] = Idle
      /\ \A b \in Callers : b # c => calls'[b] = calls[b]
  BY <1>1, IdleType, Becomes DEF IInv
<1>3. d \in Deployments /\ row \in Licenses /\ ~ row.revoked /\ row # None
  <2>1. d \in Deployments /\ calls[c].plain \in BOOLEAN /\ calls[c].revision + 1 \in Nat
    BY <1>1, Fields DEF IInv
  <2>2. row \in Licenses /\ ~ row.revoked
    BY <2>1 DEF Licenses
  <2>3. None \notin Licenses
    BY GovernanceAssumption
  <2> QED
    BY <2>1, <2>2, <2>3
<1> HIDE DEF d, row
<1>4. license' \in [Deployments -> Licenses \cup {None}] /\ \A e \in Deployments : Valid(e) => Valid(e)'
  BY <1>1, <1>3 DEF IInv, TypeOK, Valid
<1>5. TypeOK' /\ Nameless'
  BY <1>1, <1>2, <1>4 DEF IInv, TypeOK, Nameless
<1>6. ASSUME NEW b \in Callers
      PROVE  Drawn(b)'
  <2>1. CASE b = c
    BY <1>2, <2>1, IdleType DEF Drawn
  <2>2. CASE b # c
    <3>1. Drawn(b) /\ calls'[b] = calls[b]
      BY <1>2, <2>2 DEF IInv
    <3>2. calls[b].pc = "signing" => calls[b].deployment \in Deployments
      BY Fields DEF IInv
    <3> QED
      BY <1>1, <1>4, <3>1, <3>2 DEF Drawn, Fresh
  <2> QED
    BY <2>1, <2>2
<1> QED
  BY <1>5, <1>6 DEF IInv

LEMMA ErasingStep ==
  ASSUME IInv, Erasing
  PROVE  IInv'
<1>1. PICK c \in Callers :
        \/ AskForErasure(c) \/ CheckErasure(c) \/ CarryOutErasure(c) \/ RecordManifest(c)
        \/ \E r \in Requests : RequestCustomerErasure(c, r) \/ ExecuteCustomerErasure(c, r)
  BY DEF Erasing
<1>2. CASE AskForErasure(c)
  <2> DEFINE r == [pc |-> "asking", at |-> now]
  <2>1. r \in CallType /\ r.pc = "asking"
    BY DEF CallType, IInv, TypeOK
  <2>2. Become(c, r) /\ UNCHANGED <<now, executions, deployment, license, hold>>
    BY <1>2 DEF AskForErasure, rows
  <2> QED
    BY <2>1, <2>2, QuietStep
<1>3. CASE CheckErasure(c) \/ CarryOutErasure(c)
  BY <1>3, CheckErasureStep, CarryOutStep
<1>4. CASE RecordManifest(c)
  BY <1>4, LeaveStep DEF RecordManifest, rows
<1>5. ASSUME NEW q \in Requests, RequestCustomerErasure(c, q)
      PROVE  IInv'
  BY <1>5, LeaveStep DEF RequestCustomerErasure, rows
<1>6. ASSUME NEW q \in Requests, ExecuteCustomerErasure(c, q)
      PROVE  IInv'
  <2> DEFINE r == [pc |-> "executing", request |-> q, at |-> now]
  <2>1. r \in CallType /\ r.pc = "executing"
    BY DEF CallType, IInv, TypeOK
  <2>2. Become(c, r) /\ UNCHANGED <<now, executions, deployment, license, hold>>
    BY <1>6 DEF ExecuteCustomerErasure, rows
  <2> QED
    BY <2>1, <2>2, QuietStep
<1> QED
  BY <1>1, <1>2, <1>3, <1>4, <1>5, <1>6

LEMMA ExportingStep ==
  ASSUME IInv, Exporting
  PROVE  IInv'
<1>1. PICK c \in Callers : CompleteExport(c) \/ \E q \in Requests : ExportCustomer(c, q)
  BY DEF Exporting
<1>2. CASE CompleteExport(c)
  BY <1>2, LeaveStep DEF CompleteExport, rows
<1>3. ASSUME NEW q \in Requests, ExportCustomer(c, q)
      PROVE  IInv'
  <2> DEFINE r == [pc |-> "exporting", request |-> q, at |-> now]
  <2>1. r \in CallType /\ r.pc = "exporting"
    BY DEF CallType, IInv, TypeOK
  <2>2. Become(c, r) /\ UNCHANGED <<now, executions, deployment, license, hold>>
    BY <1>3 DEF ExportCustomer, rows
  <2> QED
    BY <2>1, <2>2, QuietStep
<1> QED
  BY <1>1, <1>2, <1>3

LEMMA LicensingStep ==
  ASSUME IInv, Licensing
  PROVE  IInv'
<1>1. ASSUME NEW d \in Deployments, CreateDeployment(d)
      PROVE  IInv'
  <2> DEFINE row == [plain |-> TRUE, status |-> "active"]
  <2>1. /\ deployment[d] = None /\ deployment' = [deployment EXCEPT ![d] = row]
        /\ UNCHANGED <<now, executions, license, hold, calls>>
    BY <1>1 DEF CreateDeployment
  <2>2. row \in [plain : BOOLEAN, status : {"active", "suspended"}] /\ row.plain
    OBVIOUS
  <2> HIDE DEF row
  <2>3. TypeOK' /\ Nameless'
    BY <2>1, <2>2 DEF IInv, TypeOK, Nameless
  <2>4. \A e \in Deployments : deployment[e] # None => deployment'[e] = deployment[e]
    BY <2>1 DEF IInv, TypeOK
  <2> QED
    BY <2>1, <2>3, <2>4, BesideStep
<1>2. ASSUME NEW c \in Callers, StoreLicense(c)
      PROVE  IInv'
  BY <1>2, StoreLicenseStep
<1>3. ASSUME NEW c \in Callers, NEW d \in Deployments, ReadDeployment(c, d) \/ ReadLicense(c, d)
      PROVE  IInv'
  BY <1>3, ReadStep
<1> QED
  BY <1>1, <1>2, <1>3 DEF Licensing

LEMMA ReportingStep ==
  ASSUME IInv, Reporting
  PROVE  IInv'
<1>1. ASSUME NEW c \in Callers, IngestTelemetryBatch(c)
      PROVE  IInv'
  BY <1>1, LeaveStep DEF IngestTelemetryBatch, rows
<1>2. ASSUME NEW c \in Callers, NEW d \in Deployments, NEW e \in Events, CheckReport(c, d, e)
      PROVE  IInv'
  <2> DEFINE r == [pc |-> "reporting", event |-> e, at |-> now]
  <2>1. r \in CallType /\ r.pc = "reporting"
    BY DEF CallType, IInv, TypeOK
  <2>2. Become(c, r) /\ UNCHANGED <<now, executions, deployment, license, hold>>
    BY <1>2 DEF CheckReport, rows
  <2> QED
    BY <2>1, <2>2, QuietStep
<1> QED
  BY <1>1, <1>2 DEF Reporting

LEMMA LegalHoldStep ==
  ASSUME IInv, NEW h \in Holds, CreateLegalHold(h) \/ ReleaseLegalHold(h)
  PROVE  IInv'
<1>1. /\ \/ hold[h] = "none" /\ hold' = [hold EXCEPT ![h] = "placed"]
         \/ hold[h] = "placed" /\ hold' = [hold EXCEPT ![h] = "released"]
      /\ UNCHANGED <<now, executions, deployment, license, calls>>
  BY DEF CreateLegalHold, ReleaseLegalHold, rows
<1>2. hold' \in [Holds -> {"none", "placed", "released"}]
  BY <1>1 DEF IInv, TypeOK
<1>3. TypeOK' /\ Nameless'
  BY <1>1, <1>2 DEF IInv, TypeOK, Nameless
<1> QED
  BY <1>1, <1>2, <1>3, BesideStep

LEMMA NextPreserves == IInv /\ [Next]_vars => IInv'
<1> SUFFICES ASSUME IInv, [Next]_vars
             PROVE  IInv'
  OBVIOUS
<1>1. ASSUME UNCHANGED <<executions, deployment, license, hold, calls>>, now' \in Nat
      PROVE  IInv'
  <2>1. TypeOK' /\ Nameless'
    BY <1>1 DEF IInv, TypeOK, Nameless
  <2> QED
    BY <1>1, <2>1, BesideStep
<1>2. CASE Freeze \/ CloseFrozen \/ RunRetention \/ Tick \/ UNCHANGED vars
  BY <1>1, <1>2 DEF Freeze, CloseFrozen, RunRetention, Tick, vars, rows, IInv, TypeOK
<1>3. ASSUME NEW c \in Callers, Stop(c)
      PROVE  IInv'
  BY <1>3, LeaveStep DEF Stop, rows
<1> QED
  BY <1>2, <1>3, LegalHoldStep, ExportingStep, ErasingStep, LicensingStep, ReportingStep DEF Next

-----------------------------------------------------------------------------
(* The theorems.                                                             *)

LEMMA SpecSteps == Spec => Init /\ [][Next]_vars
  BY PTL DEF Spec

\* What a license is made from is as it was read until the next erasure
\* (executeCustomerErasure, issueLicense and #changeLicense).
THEOREM GovernanceInvariant == Spec => []IInv
<1> QED
  BY InitEstablishes, NextPreserves, SpecSteps, PTL

\* Only a stored license makes one valid, and it is made from what was read before an erasure.
LEMMA OnlyOldReads ==
  ASSUME IInv, [Next]_vars, NEW d \in Deployments, executions > 0,
         deployment[d] # None, ~deployment[d].plain, ~Valid(d), Valid(d)'
  PROVE  \E c \in Callers :
           calls[c].pc = "signing" /\ calls[c].deployment = d /\ calls[c].erasures < executions
<1>1. ~ UNCHANGED license
  BY DEF Valid
<1>2. ~ \E c \in Callers : CarryOutErasure(c)
  <2> SUFFICES ASSUME license' = [e \in Deployments |->
                                  IF license[e] = None THEN None ELSE ErasedLicense(license[e])]
               PROVE  FALSE
    BY DEF CarryOutErasure
  <2>1. license[d] \in Licenses /\ license'[d] = ErasedLicense(license[d])
    BY DEF Valid, IInv, TypeOK
  <2>2. ErasedLicense(license[d]).revoked
    BY <2>1 DEF ErasedLicense, Licenses
  <2> QED
    BY <2>1, <2>2 DEF Valid
<1>3. ASSUME NEW c \in Callers, StoreLicense(c)
      PROVE  calls[c].pc = "signing" /\ calls[c].deployment = d /\ calls[c].erasures < executions
  <2>1. calls[c].pc = "signing" /\ license' # license
    BY <1>1, <1>3 DEF StoreLicense
  <2>2. calls[c].deployment \in Deployments /\ calls[c].erasures \in Nat /\ executions \in Nat
    BY <2>1, Fields DEF IInv, TypeOK
  <2>3. calls[c].deployment = d
    <3>1. PICK row : license' = [license EXCEPT ![calls[c].deployment] = row]
      BY <1>3, <2>1 DEF StoreLicense
    <3> QED
      BY <2>2, <3>1 DEF IInv, TypeOK, Valid
  <2>4. ~ Fresh(d)
    BY DEF Fresh, IInv, Nameless
  <2> QED
    BY <2>1, <2>2, <2>3, <2>4 DEF IInv, Drawn
<1>4. \E c \in Callers : StoreLicense(c)
  BY <1>1, <1>2 DEF Next, vars, rows, CreateLegalHold, ReleaseLegalHold, Exporting, CompleteExport,
     ExportCustomer, Erasing, AskForErasure, CheckErasure, RecordManifest, RequestCustomerErasure,
     ExecuteCustomerErasure, Licensing, CreateDeployment, ReadDeployment, ReadLicense, Reporting,
     IngestTelemetryBatch, CheckReport, Freeze, CloseFrozen, RunRetention, Tick, Stop
<1> QED
  BY <1>3, <1>4

\* After an erasure no license becomes valid that was read or issued since, however many calls
\* had read one before (updateLicense, CommercialControlService.#changeLicense).
THEOREM OnlyOldLicensesReturn == Spec => ValidWasReadBefore
<1>1. IInv /\ [Next]_vars =>
        [\A d \in Deployments :
           executions > 0 /\ deployment[d] # None /\ ~deployment[d].plain /\ ~Valid(d) /\ Valid(d)' =>
             \E c \in Callers :
               calls[c].pc = "signing" /\ calls[c].deployment = d /\ calls[c].erasures < executions
        ]_vars
  BY OnlyOldReads
<1> QED
  BY <1>1, GovernanceInvariant, SpecSteps, PTL DEF ValidWasReadBefore
=============================================================================
