-------------------------- MODULE LicenseLifecycle --------------------------
(* Licenses, the deployments they are bound to, the leases deployments ask   *)
(* for every few minutes and the seats they report with them.  A change of a *)
(* license reads it, signs what it will be and stores that if the revision   *)
(* is still the one it read; leases and changes run on any instance.         *)
(*                                                                           *)
(* A request that does not match the license (its token, its deployment, its *)
(* machine) is refused without a change: the requests here match.  Whether   *)
(* the signing key is usable is SigningKeys'; an audit event that is not     *)
(* appended ends the call, as a crash does.  One clock serves all instances. *)
EXTENDS Integers, Sequences

CONSTANTS
  Licenses,
  Deployments,
  Machines,
  FirstMachine,  \* [Deployments -> Machines]
  Customer,      \* [Deployments -> customers]
  Organization,  \* [Deployments -> organizations]
  Limits,        \* seat limits
  Reports,       \* numbers of active seats reported
  Callers,       \* calls in flight at once
  Nonces,        \* nonces of lease requests
  LeaseDuration,
  Grace,         \* after expiry, and for seats over the limit
  MaxTime,
  Expiries,      \* times at which licenses expire
  MaxRevision,
  None

ASSUME LicenseAssumption ==
  /\ FirstMachine \in [Deployments -> Machines]
  /\ Limits \subseteq Nat /\ Reports \subseteq Nat
  /\ LeaseDuration \in Nat \ {0} /\ Grace \in Nat
  /\ MaxTime \in Nat /\ MaxRevision \in Nat \ {0}
  /\ Expiries \subseteq Nat

\* The signed part of a license, and its row.
Terms ==
  [deployment : Deployments, machine : Machines, version : Nat, expiresAt : Nat, seats : Nat,
   enforce : BOOLEAN]
Rows == [terms : Terms, revision : Nat, revokedAt : Nat \cup {None}]

ASSUME NoneAssumption == None \notin Rows \cup Nat

VARIABLES
  now,
  machine,  \* machine_fingerprint of control_deployments
  license,  \* rows of control_licenses
  history,  \* control_license_lifecycle_events
  usage,    \* control_license_seat_usage
  nonces,   \* control_lease_nonces; a row outlives every call that could meet it
  calls,    \* [Callers -> call]
  lease,    \* history: the latest lease granted, and how long after the license
            \* was read its clock was
  revocations  \* history: [license, revision, at] of each, when it was stored

vars == <<now, machine, license, history, usage, nonces, lease, revocations, calls>>

\* A row of control_licenses: its terms, the part that is signed (deployment,
\* machine, version of the credentials, expiry, seats), its revision and when it
\* was revoked.  None stands for no row and for no time.
Row(terms, revision) == [terms |-> terms, revision |-> revision, revokedAt |-> None]

Idle == [pc |-> "idle"]
Become(c, call) == calls' = [calls EXCEPT ![c] = call]
Leave(c) == Become(c, Idle)

Init ==
  /\ now = 0
  /\ machine = FirstMachine
  /\ license = [l \in Licenses |-> None]
  /\ history = [l \in Licenses |-> <<>>]
  /\ usage = [l \in Licenses |-> None]
  /\ nonces = {}
  /\ lease = None
  /\ revocations = {}
  /\ calls = [c \in Callers |-> Idle]

-----------------------------------------------------------------------------
\* issueLicense: the deployment is read, the license signed, then stored under
\* an id of its own.
BeginIssue(c, l, d, expiresAt, seats, enforce) ==
  /\ calls[c] = Idle
  /\ license[l] = None
  /\ \A o \in Callers : calls[o] # Idle => calls[o].license # l
  /\ expiresAt > now
  /\ Become(c, [pc |-> "create", license |-> l,
                terms |-> [deployment |-> d, machine |-> machine[d], version |-> 1,
                           expiresAt |-> expiresAt, seats |-> seats, enforce |-> enforce]])
  /\ UNCHANGED <<now, machine, license, history, usage, nonces, lease, revocations>>

Create(c) ==
  /\ calls[c].pc = "create"
  /\ license' = [license EXCEPT ![calls[c].license] = Row(calls[c].terms, 1)]
  /\ Leave(c)
  /\ UNCHANGED <<now, machine, history, usage, nonces, lease, revocations>>

-----------------------------------------------------------------------------
\* The changes of a license.  renewLicense, resizeLicense,
\* transferLicenseMachine, rebindLicenseDeployment: the terms each may ask for.
Renewals(t) == {[t EXCEPT !.expiresAt = e] : e \in {e \in Expiries : e > t.expiresAt}}

Resized(t, s, b) == [t EXCEPT !.seats = s, !.enforce = b]
Resizes(t) == {Resized(t, s, b) : s \in Limits, b \in BOOLEAN}

Transfers(t) ==
  {[t EXCEPT !.machine = m, !.version = @ + 1] : m \in Machines \ {t.machine}}

Targets(t) == {d \in Deployments \ {t.deployment} : Customer[d] = Customer[t.deployment]}

\* Slip: the deployment changes and the credentials do not.
RebindsUnrotated(t) == {[t EXCEPT !.deployment = d, !.machine = machine[d]] : d \in Targets(t)}

Rebinds(t) ==
  {[t EXCEPT !.deployment = d, !.machine = machine[d], !.version = @ + 1] : d \in Targets(t)}

Changes(kind, t) ==
  CASE kind = "renew"    -> Renewals(t)
    [] kind = "resize"   -> Resizes(t)
    [] kind = "transfer" -> Transfers(t)
    [] kind = "rebind"   -> Rebinds(t)

\* A change reads the license, and the deployments if it needs them, and signs.
BeginChange(c, l, kind) ==
  /\ calls[c] = Idle
  /\ license[l] # None
  /\ license[l].revokedAt = None
  /\ license[l].revision < MaxRevision
  /\ \E terms \in Changes(kind, license[l].terms) :
       Become(c, [pc |-> kind, license |-> l, read |-> license[l], terms |-> terms])
  /\ UNCHANGED <<now, machine, license, history, usage, nonces, lease, revocations>>

RevisionUnchanged(c) == license[calls[c].license].revision = calls[c].read.revision

\* The machine of the deployment is still the one the license was bound to.
MachineUnchanged(c) ==
  LET bound == calls[c].read.terms IN
  calls[c].pc = "transfer" => machine[bound.deployment] = bound.machine

\* UNIQUE (organization_id, machine_fingerprint)
MachineTaken(c) ==
  LET terms == calls[c].terms IN
  /\ calls[c].pc = "transfer"
  /\ \E d \in Deployments \ {terms.deployment} :
       Organization[d] = Organization[terms.deployment] /\ machine[d] = terms.machine

MoveMachine(c) ==
  IF calls[c].pc = "transfer"
    THEN machine' = [machine EXCEPT ![calls[c].terms.deployment] = calls[c].terms.machine]
    ELSE UNCHANGED machine

\* updateLicense, one transaction: the row is written whole, as it was signed.
Store(c) ==
  LET l == calls[c].license
      call == calls[c] IN
  /\ call.pc \in {"renew", "resize", "transfer", "rebind"}
  /\ RevisionUnchanged(c)
  /\ MachineUnchanged(c)
  /\ ~ MachineTaken(c)
  /\ license' = [license EXCEPT ![l] = Row(call.terms, call.read.revision + 1)]
  /\ history' = [history EXCEPT ![l] = Append(@, [before |-> call.read.terms, after |-> call.terms, at |-> now])]
  /\ MoveMachine(c)
  /\ usage' = IF call.pc \in {"transfer", "rebind"} THEN [usage EXCEPT ![l] = None] ELSE usage
  /\ IF call.pc = "resize" THEN Become(c, [call EXCEPT !.pc = "resized"]) ELSE Leave(c)
  /\ UNCHANGED <<now, nonces, lease, revocations>>

\* What the store answers null to: "License changed concurrently; reload and
\* retry".
Refuse(c) ==
  /\ calls[c].pc \in {"renew", "resize", "transfer", "rebind"}
  /\ ~ (RevisionUnchanged(c) /\ MachineUnchanged(c))
  /\ Leave(c)
  /\ UNCHANGED <<now, machine, license, history, usage, nonces, lease, revocations>>

RefuseTaken(c) ==
  /\ calls[c].pc = "transfer"
  /\ RevisionUnchanged(c) /\ MachineUnchanged(c)
  /\ MachineTaken(c)
  /\ Leave(c)
  /\ UNCHANGED <<now, machine, license, history, usage, nonces, lease, revocations>>

\* revokeLicense: the clock is read before the row is written, and the first
\* time written stays; revision and history are left alone.
BeginRevoke(c, l) ==
  /\ calls[c] = Idle
  /\ license[l] # None
  /\ Become(c, [pc |-> "revoke", license |-> l, at |-> now])
  /\ UNCHANGED <<now, machine, license, history, usage, nonces, lease, revocations>>

Revoke(c) ==
  LET l == calls[c].license
      first == license[l].revokedAt = None IN
  /\ calls[c].pc = "revoke"
  /\ license' = [license EXCEPT ![l].revokedAt = IF first THEN calls[c].at ELSE @]
  /\ revocations' = IF first
       THEN revocations \cup {[license |-> l, revision |-> license[l].revision, at |-> now]}
       ELSE revocations
  /\ Leave(c)
  /\ UNCHANGED <<now, machine, history, usage, nonces, lease>>

-----------------------------------------------------------------------------
\* When the overuse began that a report of seats belongs to, None if it is none.
OverageStart(previous, seats, terms, at) ==
  IF ~ (seats > terms.seats /\ terms.enforce) THEN None
  ELSE IF previous = None \/ previous.start = None THEN at
  ELSE previous.start

\* recordLicenseSeatUsage: the row of a license after a report at a time.  (Its
\* status follows; its copy of the limit is for display.)
Recounted(l, seats, terms, at) ==
  [seats |-> seats, start |-> OverageStart(usage[l], seats, terms, at)]

\* A resize ends with a recount: the row is read, then written in a transaction
\* of its own with the new limit.
ReadSeats(c) ==
  LET l == calls[c].license IN
  /\ calls[c].pc = "resized"
  /\ IF usage[l] = None THEN Leave(c)
     ELSE Become(c, [pc |-> "recount", license |-> l, terms |-> calls[c].terms,
                     seats |-> usage[l].seats])
  /\ UNCHANGED <<now, machine, license, history, usage, nonces, lease, revocations>>

Recount(c) ==
  LET l == calls[c].license IN
  /\ calls[c].pc = "recount"
  /\ usage' = [usage EXCEPT ![l] = Recounted(l, calls[c].seats, calls[c].terms, now)]
  /\ Leave(c)
  /\ UNCHANGED <<now, machine, license, history, nonces, lease, revocations>>

-----------------------------------------------------------------------------
\* issueLease, for a deployment that reports seats or does not: the license is
\* read,
BeginLease(c, l, nonce, seats) ==
  /\ calls[c] = Idle
  /\ license[l] # None
  /\ Become(c, [pc |-> "clock", license |-> l, read |-> license[l],
                nonce |-> nonce, seats |-> seats, at |-> now, delay |-> 0])
  /\ UNCHANGED <<now, machine, license, history, usage, nonces, lease, revocations>>

\* Slip: a lease is refused by the terms of the license alone.
NotOver(row) == now < row.terms.expiresAt + Grace

Usable(row) == row.revokedAt = None /\ now < row.terms.expiresAt + Grace

\* and then the clock, by which the row that was read is judged and the lease
\* dated.
ReadClock(c) ==
  LET call == calls[c] IN
  /\ call.pc = "clock"
  /\ IF Usable(call.read)
       THEN Become(c, [call EXCEPT !.pc = "nonce", !.at = now, !.delay = now - call.at])
       ELSE Leave(c)
  /\ UNCHANGED <<now, machine, license, history, usage, nonces, lease, revocations>>

\* consumeLeaseNonce
UseNonce(c) ==
  LET nonce == <<calls[c].read.terms.deployment, calls[c].nonce>> IN
  /\ calls[c].pc = "nonce"
  /\ nonces' = nonces \cup {nonce}
  /\ IF nonce \in nonces THEN Leave(c) ELSE Become(c, [calls[c] EXCEPT !.pc = "lease"])
  /\ UNCHANGED <<now, machine, license, history, usage, lease, revocations>>

Earliest(times) == CHOOSE t \in times : \A u \in times : t <= u

\* The lease that a call is granted, in the grace of an expiry, of an overuse that
\* began at `start', of both or of neither.
Lease(call, start) ==
  LET terms == call.read.terms
      deadlines == (IF call.at >= terms.expiresAt THEN {terms.expiresAt + Grace} ELSE {})
                     \cup (IF start # None THEN {start + Grace} ELSE {})
  IN [license |-> call.license, revision |-> call.read.revision,
      machine |-> terms.machine, version |-> terms.version, delay |-> call.delay,
      expiresAt |-> Earliest({call.at + LeaseDuration}
                      \cup IF deadlines = {} THEN {terms.expiresAt} ELSE deadlines)]

Grant(c, start) == lease' = Lease(calls[c], start)

\* The seats reported are recorded, by the limit the call has read; a lease is
\* granted unless they exceed it and the grace for that is over.
Report(c) ==
  LET call == calls[c]
      row == Recounted(call.license, call.seats, call.read.terms, call.at) IN
  /\ call.pc = "lease"
  /\ call.seats # None
  /\ usage' = [usage EXCEPT ![call.license] = row]
  /\ IF row.start # None /\ call.at >= row.start + Grace
       THEN UNCHANGED lease ELSE Grant(c, row.start)
  /\ Leave(c)
  /\ UNCHANGED <<now, machine, license, history, nonces, revocations>>

\* Without a report there is no lease if the limit is enforced.
Unreported(c) ==
  /\ calls[c].pc = "lease"
  /\ calls[c].seats = None
  /\ IF calls[c].read.terms.enforce THEN UNCHANGED lease ELSE Grant(c, None)
  /\ Leave(c)
  /\ UNCHANGED <<now, machine, license, history, usage, nonces, revocations>>

-----------------------------------------------------------------------------
\* The instance stops, or a query, the signer or an audit event fails.
Fail(c) ==
  /\ calls[c] # Idle
  /\ Leave(c)
  /\ UNCHANGED <<now, machine, license, history, usage, nonces, lease, revocations>>

Tick ==
  /\ now < MaxTime
  /\ now' = now + 1
  /\ UNCHANGED <<machine, license, history, usage, nonces, lease, revocations, calls>>

Next ==
  \/ Tick
  \/ \E c \in Callers :
       \/ \E l \in Licenses :
            \/ \E d \in Deployments, e \in Expiries, s \in Limits, b \in BOOLEAN : BeginIssue(c, l, d, e, s, b)
            \/ \E kind \in {"renew", "resize", "transfer", "rebind"} : BeginChange(c, l, kind)
            \/ BeginRevoke(c, l)
            \/ \E n \in Nonces, seats \in Reports \cup {None} : BeginLease(c, l, n, seats)
       \/ Create(c) \/ Store(c) \/ Refuse(c) \/ RefuseTaken(c)
       \/ ReadSeats(c) \/ Recount(c) \/ Revoke(c)
       \/ ReadClock(c) \/ UseNonce(c) \/ Report(c) \/ Unreported(c)
       \/ Fail(c)

Spec == Init /\ [][Next]_vars

-----------------------------------------------------------------------------
\* Correctness.

\* The machine a license was moved away from has credentials of an earlier
\* version, and whatever lease it has or is still granted, by a call that had read
\* the license before, runs out within one duration of the move and of the time
\* that call took from reading the license to reading the clock.
PreviousMachineRunsOut ==
  lease # None =>
    \A n \in DOMAIN history[lease.license] :
      LET move == history[lease.license][n] IN
      lease.revision <= n /\ lease.machine # move.after.machine =>
        /\ lease.version < move.after.version
        /\ lease.expiresAt <= move.at + LeaseDuration + lease.delay

\* "Revoking an online License prevents the next lease renewal" (README.md:1010):
\* leases of the revision that was revoked, or of one before, end within one
\* duration of that and of the same delay, undone or not.
RevokedLeasesRunOut ==
  \A r \in revocations :
    lease # None /\ lease.license = r.license /\ lease.revision <= r.revision =>
      lease.expiresAt <= r.at + LeaseDuration + lease.delay
=============================================================================
