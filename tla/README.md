# Otto Control: specifications

TLA+ models of the commercial control plane in this repository, with TLC runs
over small instances and TLAPS proofs about every model but one. Everything is
translated from the code; where a document, a message of the code or a test says
something else, the difference is a run whose violation is expected
(`deployment_starts`), or is described under [Differences](#differences).

Otto Control is a Fastify application over PostgreSQL. Three instances run
against one database, so what interleaves is mostly *transactions of different
instances*: each transaction is atomic at READ COMMITTED with the row locks and
advisory locks it takes, and between two transactions of one request anything may
happen, including a stop of the instance. The models keep exactly that grain: one
action per transaction (or per read that is acted upon later), and a call's
program counter between them. Around the application are scripts that set it up,
back it up and start it; there the grain is a file or an object.

## Inventory

| Component | State | Operations | What is hard | What makes it correct |
|---|---|---|---|---|
| Credit ledger (`storage/postgres-store.ts` 2971-4050) | account row, holds, append-only transaction rows | top-up, refund, usage, hold, capture, release, expiry | concurrent settlement, retries under old keys, keys that callers share with the sweep and with receipts, limits of the columns | the abstract prepaid account, one settlement, bounded refunds, room for every release |
| Billing service (`modules/billing/service.ts`) | rates, audit events | the calls around the transactions, the sweep, prices | several transactions per call, stops between, rate changes between retries | only ledger steps, audit events are true, expired holds come back (not always) |
| Execution receipts (`modules/billing/execution-receipt.ts`, store 3500-3840) | receipt keys, receipts, last sequence | register, bootstrap, revoke, ingest | key checked before the transaction, sequence races, replays, callers who use the key of its row | each is billed once and in order, one bootstrap, revocation is final |
| Approval center (`modules/admin-identity/service.ts`, store 2193-2356) | approvals and decisions | request, decide, list, consume, then execute | clocks of instances, late decisions, a stop between consumption and effect | two people, one execution |
| Administrator accounts and sessions (same service, store 1794-2192) | accounts, roles, sessions, recovery codes | bootstrap, enroll, login, roles, status | check-then-act, lost failure counts, session revocation after the fact | an active super administrator remains, a recovery code signs in once |
| Licenses (`modules/commercial-control/service.ts`, store 1180-1585) | licenses, deployments, lifecycle events, seat usage, nonces | issue, renew, resize, transfer, rebind, revoke, lease | signed from a stale read, clocks read apart from rows, revocation without a revision, seat recount | leases of the previous machine and of a revoked license run out; a revocation lasts and a grace is not restarted (neither holds) |
| Update rollout (`modules/update-policy`, store 2500-2767) | releases | create, activate, pause, rollback, resolve | gate before the transaction, two reads per policy | what was revoked is not made ready again |
| Release artifacts (`modules/release-artifacts`, store 2768-2941) | artifacts, objects, tickets | register, upload, complete, revoke, download | repeated PUTs, tickets that outlive the draft, keys without versions | what is downloaded was verified; nothing joins a published release (it does) |
| Alert outbox (`modules/alert-delivery`, store 4054-4228), audit anchors (4290-4440), evidence queue (4576-4700) | rows with a lease | enqueue, claim, finish, retry, prune | stops, slow workers, attempts at the limit | the latest claim decides, rows settle |
| Audit chain and alerts (`audit-chain.ts`, `modules/audit`, `modules/audit-anchor`, `modules/alert-delivery`) | hash chain, anchors, conditions | append, verify, capture, observe | the head read before the events, deduplicated conditions | no false alarm, whatever is wrong is told |
| Audit witness (`modules/audit-witness`, store 4443-4836) | receipts, evidence rows, WORM objects | ingest, store, retry, recover | order of anchors, loss of a database, objects that cannot be overwritten | evidence settles, a recovery brings back what it listed |
| Signing keys (`crypto/signing-keyring.ts`, store 1587-1790) and providers (`crypto/*-signer.ts`) | key states; active key of each instance; circuits | start, activate, retire, revoke, sign | changes by other instances, failover between regions, circuits | one active key at any time, a recovered provider signs again |
| Data governance (`modules/data-governance`, store 4840-5460) and telemetry (store 2387-) | requests, legal holds, manifests, reports | export, hold, erase, retain, ingest | changes in flight during an erasure, a stop before the manifest | holds are respected (but for one placed too late), what is erased stays so but for what was read before, reports leave |
| Federation relay (`modules/federation`, `federation-app.ts`) | deployments, keys, grants, blocks, nonces, messages, attachments | enqueue, claim, acknowledge, expire, block | validation before the enqueue, claims that expire, capacity, several times of expiry | no message past a block, capacity held, attachments last, replays refused |
| Backups (`deploy/backup-postgres.sh`, `restore-postgres.sh`, `scripts/replicate-backup-s3.mjs`) | files, reports, objects, lock | back up, replicate, prune, restore | interrupts, kills, lost answers, two hosts and one bucket, two names for the directory of the lock | verified is off site; where the lock is one, what is published is whole and one backup remains |
| Deployment (`scripts/bootstrap-production.mjs`, `preflight-deployment.mjs`, `deploy/control-entrypoint.sh`, the configuration loaders) | identity and secret files, environment file, stack | bootstrap, edit, preflight, start | two runs, files copied elsewhere, four programs with four opinions | files of one run, what passes starts (it does not) |
| Commercial delivery, operator console, observability, HTTP applications, drills | none, or files read | read, render, wire, rehearse | | |

`PROJECT.json` lists each with the modules that model it, and the hazards with
the line each one bites at.

## Modules

| Module | Role |
|---|---|
| `CreditTotals` | sums over finite sets as cardinalities, so that they can be proved about without induction |
| `PrepaidAccount` | abstract: a prepaid account whose credits are free, reserved or spent |
| `CreditLedger` | the account, hold and transaction rows; one action per store operation; implements `PrepaidAccount` |
| `BillingService` | EXTENDS `CreditLedger`: the service's calls, sweep, prices, audit events, stops, retries |
| `ExecutionReceipts` | EXTENDS `CreditLedger`: receipt keys, receipts, sequence, debit |
| `AdminApprovals` | the approval center with instances' clocks |
| `AdminAccounts` | administrator accounts, their sign-ins, roles and status |
| `LicenseLifecycle` | licenses, deployments, seats and leases |
| `UpdateRollout` | releases, artifacts, the gate and the signed policies |
| `ManagedArtifacts` | tickets, PUTs, versions and downloads of managed uploads |
| `DeliveryOutbox` | an outbox with leased rows and its workers |
| `RecoveryAssurance` | the audit chain, its verification and anchors, and the alerts about them and the backups |
| `AuditWitness` | the independent witness, its WORM evidence and recovery |
| `SigningKeys` | the keyring of several instances and their providers |
| `DataGovernance` | erasure, export, legal holds and retention, with the licenses, reports and frozen credits they touch |
| `FederationRelay` | the relay between deployments of different customers |
| `BackupReplication` | backup and restore scripts with their bucket |
| `Deployment` | bootstrap, preflight, entrypoint and loaders |
| `Administration` | `AdminApprovals` beside `AdminAccounts` |
| `Enforcement` | `LicenseLifecycle` beside `ExecutionReceipts` |
| `Publishing` | `UpdateRollout` beside `ManagedArtifacts` |
| `Operations` | `BackupReplication` beside `Deployment` |
| `WatchedChain` | `RecoveryAssurance` beside `DeliveryOutbox` |
| `IndependentWitness` | `AuditWitness` under names of its own |
| `BillingServiceProofs`, `AdministrationProofs`, `EnforcementProofs`, `PublishingProofs`, `OperationsProofs`, `AssuranceProofs`, `FederationRelayProofs`, `DataGovernanceProofs` | theorems about the modules each EXTENDS and those they have instances of |
| `MC*` | instances for TLC |

The five modules that say *beside*, and `IndependentWitness`, give each part the constants
and the variables of its own module and let it take no step of another's: they are where
the assumptions that a proof needs of a part are stated, and where the theorems and the
runs find its properties under one name. In `MCDeployments`, `MCAdministration`,
`MCReleases`, `MCOperations` and `MCDelivery` a variable `subject` says which of two parts
a behaviour is about; the variables of the other part keep their initial values. In
`MCAlerts` that part is always the chain. `MCDelivery` puts the outbox of `WatchedChain`
next to the witness and states the fairness of each for its behaviours. Nothing of one
part is taken as evidence about the other.

Operators commented `Slip:` are variants of the operator that follows, written as
a plausible mistake would write it. No action uses them; each is what one of the
properties has been seen to catch.

### How the models correspond to the code

**CreditLedger.** `account`, `holds` and `ledger` are the rows of
`control_enterprise_credit_accounts`, `control_credit_holds` and
`control_credit_transactions` of one customer and organization. Every store
operation locks the account row first and is one action. A retry that finds the
row of its key, and a refusal, are stuttering steps; `Unused`, `WithinLimits` and
the guards of each action are the conditions under which the transaction commits.
All keys are of one name space, as in the code: `LedgerKeys` are the callers' keys,
`ExpiryKey(h)` under which the sweep returns a hold and `ReceiptKey(e)` under which a
receipt is billed, and callers may use any of them before the code does. Times are
readings of callers' clocks and reach the ledger in any order.

**BillingService.** A call is `list`, `sweep`, `price`, `store`, `audit` or a part of
these, as `billing/service.ts` orders them: the sweep before holds, usage and
account reads, the price read before the transaction, the audit event of top-ups
and refunds after it in a transaction of its own. `Answers` is the comparison of a
replay, price included. A sweep goes through what it has listed; a hold that was settled
meanwhile is passed over, and one whose expiry key is another row's (`KeyTaken`) fails
the sweep and the call. `Crash` ends a call anywhere; a request may be repeated.

**ExecutionReceipts.** `keys`, `stored` and `lastSequence` are the three tables of
receipts; `bootstrapLock` is the advisory lock of bootstraps. A receipt call
verifies with the key as read first, prices, then ingests in one transaction with
the debit. `Others` is any other transaction on the same account, under whatever key, the
receipt's included.

**AdminApprovals.** `approvals` are the rows with their decisions, `effects` the
protected operations carried out. Reads expire what has run out, by the
database's clock; decisions and consumptions use the instance's.

**AdminAccounts.** `status`, `super`, `confirmed`, `failed`, `locked` and `codes` are
columns of accounts and recovery codes, `signedIn` the accounts with a live
session. A sign-in is its chain of transactions: password, code or recovery code,
failure count, session. A change of status revokes the sessions in a transaction
of its own.

**LicenseLifecycle.** `license` rows hold the signed terms, the revision and the
revocation; `machine` the fingerprint of deployments. A change is a read and a
signature, then one transaction; a resize ends with a separate recount of seats. A
lease reads the license, then the clock, consumes its nonce, reports seats by the limit it
has read and is granted; a revocation reads the clock and then writes the row. Two history
variables are read by properties only: `revocations`, and in a lease the `delay` between
its reading of the license and of the clock.

**UpdateRollout.** `release` has the state, the previous release and whether it was
ever published; `artifact` the state of each kind. `Check` is the gate, over its
several reads, of an installer and of the manifests that the release references
(`Referenced`); `Offer` is the second read of a resolution and the signature.

**ManagedArtifacts.** `puts` are the versions the bucket has, in their order; the
checksum that the presigned header signs decides what a PUT may store. A ticket
names a key derived from the digest. A completion reads the clock and the ticket
(`BeginComplete`), the release (`CheckRelease`) and the artifacts there are (`LookUp`), then
verifies the object (`Inspect`) and inserts the row (`Insert`): one that is under way may
insert after the activation. `urls`
are presigned downloads: a key without a version.

**DeliveryOutbox.** `row` is a row of the outbox, `claim` numbers its leases in the
place of `lease_until`. Time is what it makes true: a row becomes due, a lease
expires. Alerts, anchors and WORM evidence share the protocol.

**RecoveryAssurance.** `event` and `head` are the chain, `genuine` the heads it
has had by appending. A verification
is the read of the head and one step per event. A poll of the alert worker reads
the backup report, which may be missing, written and missing again, verifies the chain,
looks at the anchors and enqueues an alert for each condition whose fingerprint was not
enqueued before; a fingerprint holds no time of its own; a poll of the anchor
worker captures the verified head. Delivery is one step here.

**AuditWitness.** `anchors` are signed heads that may arrive in any order and again;
`receipt` and `evidence` the two tables of the witness, `object` the WORM store,
which refuses a second object in a slot unless it is the same. `LoseDatabase` takes the
rows of a database; a recovery lists the objects and restores the rows one by one, and
goes on when the database is lost under it. What it has `left` are the objects that it has
yet to come to; `due`, which only a property reads, are those it listed but for the ones
it had booked in a database that was lost.

**SigningKeys.** `state` is `control_signing_keys`; `remembered` the `#activeKeyId` of
an instance; `circuit` the failures, the circuit and the active region of each
provider. Start is registration, a read, and an activation if nothing is active;
`BeginRevoke` is what the service checks before the transaction.

**DataGovernance.** `license`, `deployment`, `telemetry`, `hold` and `request` are rows
with or without what identifies the customer. An erasure is a request, its due
date, a transaction that looks for holds and frozen credits, in one step, and erases
in another, and a second transaction for the manifest.

**FederationRelay.** `message` and `envelope` are a row of
`control_federation_messages`, `nonces` the table of nonces. `Enqueue` is a
validation and then a transaction that locks both deployments and checks again;
claims carry a token; expiry and purging are the maintenance calls.

**BackupReplication.** A script is a program counter over the lines of the shell:
lock, dump, rename, checksum, upload with retries, history and latest report,
pruning. A restore checks its archive and the archive's checksum file, and is a mandatory
backup, a drop and a load. `lock` holds the lock directories there are. On the hosts in
`Apart` a restore has another one than a backup (`RestoreLock`), as it has where
`OTTO_CONTROL_BACKUP_DIR` is set in the environment file only. `harmed` are the hosts where
a file was damaged or a restore gave up half way.

**Deployment.** `files` says which run of the bootstrap wrote each file, `values` what
the environment file says now, after edits. `next` is the position of a run in
its list of writes, with exclusive creation. `Preflight` and the start are the
conditions of the scripts and loaders, over the same files.

## Runs

| Run | Question | Result |
|---|---|---|
| `credit_ledger` | all orders of four keyed requests, of which one may use the key of an expiry, and a receipt | one settlement, bounded refunds, room for releases; implements `PrepaidAccount` |
| `billing` | with one stop: two holds that expire and are swept at once; one that is also captured and released; refunds; or repeated requests with a change of the rate; fairness | ledger steps only; the audit log is true and misses only what a stop lost; expired holds come back, but for a blocked key |
| `deployments` | one license over two deployments and three machines; receipts over two sequence numbers and a key that callers may take | leases of a machine that was left and of a revision that was revoked run out; receipts are billed once and in order, one bootstrap, revocation of keys final |
| `administration` | two approvals with three administrators; two accounts with their sign-ins | dual control, one execution; a super administrator remains, a code signs in once |
| `alerts` | an alert and an anchor worker over a chain that is tampered with and a report that comes and goes; fairness | no false alarm, accepted anchors were true, all trouble is told, once for each fingerprint |
| `delivery` | two messages, two workers and a fault; two receipts, two workers and the loss of a database; fairness | the latest claim decides, rows and evidence settle, a recovery is complete but for what was lost under it |
| `releases` | two releases of a channel; managed uploads of two artifacts | no second readiness; downloads are what was signed |
| `federation` | two deployments, messages, a grant, an attachment, one intervention | nothing on a closed route, capacity, attachments last, replays refused |
| `governance` | an erasure, an export, two holds, a license and reports in flight; fairness | nothing made valid from a later read, reports leave |
| `signing` | two instances, two keys, two regions, a change or a stop; fairness | a key is always active, a recovered provider signs again |
| `operations` | two scripts on two hosts, one with two lock directories, with a fault; two bootstraps | verified is off site; where the lock is one, what is published is whole and one backup remains; identity files are of one run |
| `deployment_starts` | one bootstrap and what the README says to set | violated: what passed the preflight does not start |

### Differences

`deployment_starts` ends in the violation it expects; the finding in `PROJECT.json`
quotes the lines that say otherwise. The models show more differences between the
code and its documents. Each is an interleaving of a few actions of the module
named, or follows from the lines it quotes:

* *A revoked license comes back* (`LicenseLifecycle`; `postgres-store.ts:1404`).
  `revokeLicense` (1385) leaves the revision alone and `updateLicense` writes
  `revoked_at_ms` back as it was read: a change that read the license before the
  revocation undoes it, against `README.md:965` and `README.md:1010`.
  `RevokedLeasesRunOut` bounds the leases of the revision that was revoked, whether the
  revocation is undone or not; those of the revision that undid it go on.
* *A grace that starts again* (`LicenseLifecycle`; `postgres-store.ts:1537`). The limit that
  a lease request read (`commercial-control/service.ts:1000`, 1050) decides about the
  overage: a recount with an older and larger limit clears a grace, and the next one begins
  another, against `README.md:814-815`.
* *Keys that were taken* (`CreditLedger`, `BillingService`, `ExecutionReceipts`;
  `billing/service.ts:23`). A caller's key may be `expiry:hold_...` or
  `receipt:exec_...`. With the first every sweep fails at that hold
  (`billing/service.ts:82-86`, 607, `postgres-store.ts:3384-3388`), so neither it nor an
  expired hold listed after it is returned: `ExpiredReturned` exempts both (`Blocks`). With
  the second that receipt is refused for ever (3759), and, since sequence numbers have no
  gaps, so is every later one; `ReceiptsAreBilled` says what holds of those that are stored.
* *A bootstrapped key that is the second* (`ExecutionReceipts`; `postgres-store.ts:3570-3591`).
  A registration between the reading of the keys and the insertion makes it so, against
  `docs/otto-commercial-enforcement-v2.md:14`. `BootstrapOnce` says that one at most is
  bootstrapped.
* *Two live approvals of one operation* (`AdminApprovals`; `admin-identity/service.ts:435`).
  Two requests that overlap both find no duplicate; `test/admin-identity.test.ts:110`
  expects a conflict.
* *A rolled-back release is published again* (`UpdateRollout`; `postgres-store.ts:2731`).
  After A, B and A were activated each is the other's previous release: two rollbacks
  publish what had been withdrawn, which an activation refuses (2634).
* *A retry after a rate change* (`BillingService`; `postgres-store.ts:3282`). The
  price, not the units, is compared with the row of the key, so an unchanged
  request is answered 409 once the rate has changed, against `README.md:72`.
* *An audit event lost* (`BillingService`; `billing/service.ts:306`). A top-up or
  refund whose instance stops before its event is answered as a replay afterwards
  and never audited, against `README.md:828`. `AuditSound` allows one missing event
  for each stop.
* *An executed approval expires* (`AdminApprovals`; `postgres-store.ts:2278`). `Decide`
  looks at the expiry before the status and marks an executed or rejected approval
  expired; `README.md:971` has it marked executed. It still cannot be executed again.
* *The second license of a deployment* (`postgres-store.ts:1414`). The transfer of
  the first moves the deployment's machine, and every transfer of the second is
  refused as a concurrent change.
* *More attempts than the limit* (`DeliveryOutbox`; `postgres-store.ts:4106`). A claim
  does not look at the limit, only a failed delivery does: a message whose workers
  stop is claimed beyond it, against `README.md:521`.
* *Gates passed too early* (`UpdateRollout`). Between `Check` and `Activate` an
  artifact can be revoked, when there is no active release to pause
  (`update-policy/service.ts:312`, against `README.md:65`); between `Check` and `Offer`
  the policy loses its installer (`update-policy/service.ts:459`, against
  `README.md:1193`); a signed registration that read a draft is stored in a release
  that is active by then (`release-artifacts/service.ts:225`).
* *A verified artifact that cannot be downloaded* (`ManagedArtifacts`;
  `release-artifacts/service.ts:677`). A repeated PUT makes a new version of the same
  bytes; the row names the version that was verified, and the comparison with the
  current one fails for good. Likewise when the retention of the object lapses. A
  retried completion is refused once the release is active.
* *An artifact joins a published release* (`ManagedArtifacts`;
  `release-artifacts/service.ts:449`). A completion that found the release a draft (634)
  inserts its row after the activation; registrations (225) and new tickets (297)
  refuse a release that is no draft.
* *A broken chain alerts again and again* (`RecoveryAssurance`;
  `alert-delivery/service.ts:478-481`). The fingerprint of a broken chain holds its
  head, and enqueuing an alert appends to the chain, so every check has a new
  condition, against `README.md:520`. `TroubleAlerted` bounds alerts from below only;
  the instance bounds the repetitions. Of a backup report that is missing or unreadable
  the fingerprint has no time at all, and that of failed anchors is their ids: what
  disappears a second time, or fails again, is told to nobody who was told of the first.
* *Late anchors fail* (`AuditWitness`; `postgres-store.ts:4464-4483`). Anchors that
  arrive out of order are refused as a rollback and fail in the end. A receipt that is
  delivered again after the witness lost its database gets another id and conflicts
  with its own object: its evidence fails for good. A fork that is longer than what was
  witnessed is accepted. A recovery under which the database is lost reports every object
  as processed (`audit-witness/service.ts:464-540`), although the rows it had booked before
  the loss are gone: another recovery brings them back, and `RecoveredAll` leaves them out.
* *An erasure and what runs beside it* (`DataGovernance`; `postgres-store.ts:5219-5387`).
  Legal holds and frozen credits committed between the look (5219) and the commit are
  overridden, against `docs/forensic-evidence-procedure.zh-CN.md:35`, and such a credit hold
  cannot be settled any more; a license change in
  flight restores identity and validity (`ValidWasReadBefore` says that nothing else
  does); a stop before the manifest leaves none, for good. The ingestion of telemetry
  deletes old events by itself (2414) whatever legal holds say.
* *The last usable super administrator* (`AdminAccounts`; `postgres-store.ts:1963`).
  `SuperPreserved` holds of accounts that are active; a pending account can be made
  active without ever being able to sign in, and then counts. Two bootstraps at once
  make two super administrators (`admin-identity/service.ts:176`); a sign-in in flight
  opens a session after the revocation of all; failures counted at the same time are
  lost, and a late one lifts a lock (291-302).
* *Providers* (`SigningKeys`; `aws-kms-ed25519-signer.ts:336`). The active region is
  read again in every turn of the loop: a request that overlaps another may try one
  region twice and not the healthy one. `SignsAgain` says that this passes.
  `signing-keyring.ts:212` checks the provider of a replacement only for a key that
  was active when read.
* *Messages* (`FederationRelay`; `federation/service.ts:576-691`). Of two identical
  requests at once one is answered as a conflict of nonces; a receipt is accepted for a
  message that was not delivered; attachments that are ready can be downloaded after a
  block; objects whose removal fails once are never removed. The limit of an inbox is a
  constant here; a later registration of its deployment may lower it (`registerDeployment`,
  `federation/postgres-store.ts:241-258`) below what the inbox holds, and the limit of
  bytes is not modelled.
* *Backups* (`BackupReplication`). A kill leaves the lock, and later backups are refused
  until it is removed by hand; after a restore that failed half way the daily backups
  of what is left are called verified, and prune the good ones; the mandatory backup of
  a restore may prune the very archive that is restored
  (`backup-postgres.sh:159`, `restore-postgres.sh`).
* *Two directories for one lock* (`BackupReplication`; `restore-postgres.sh:85`). A restore
  takes the directory of its lock from the variables of its process, a backup from the
  environment file, too (`backup-postgres.sh:14`), where the bootstrap writes
  `./backups-staging` (`bootstrap-production.mjs:482`). Where the two differ a backup dumps
  half a database while a restore loads it, publishes it, has it verified, and prunes.
  `PublishedIsWhole` and `OneIsKept` are about the hosts where they do not (`Apart`);
  `VerifiedIsOffsite` holds of all.
* *Configurations that pass and do not start* (`Deployment`). Regions longer than the
  bootstrap checks, placeholder owners and plain-HTTP staging storage pass one program
  and are refused by the next; a bootstrap that stopped half-way refuses every rerun.

### Bounds

*Ledger.* Four keys are enough for a top-up, a hold, a settlement and a refund, or
for two holds or two refunds that compete; credits up to three allow captures
below and above the hold and partial refunds. `MaxCredits` is also the CHECK bound
of the columns, so reaching it is part of the run. One of the keys is the one another
hold would expire under, and a receipt brings a key of its own. What is checked here of
the invariants is proved for every bound.
*Service.* Two calls at once: every race in this code is between two, a third
would find the row already settled. Clock readings 0..2 let a hold be created,
expire and be swept; one stop and one rate change are what one lost answer needs.
`Workloads` gives the kinds of calls of a behaviour; each is about one kind of race, and
all of them together have every call. Among the keys is the one a hold expires under, so
that a sweep meets one that was taken.
*Deployments.* Two deployments and three machines give transfers and rebinds that
collide; two revisions are one change that is stored and the others that read the same
row, the change that undoes a revocation among them; a lease of one reading ends within the
two there are, and the readings let a call read its license in one and its clock in the
other. What longer histories could add is proved, see below. Three envelopes compete for
one task and one sequence number; one of two keys of the ledger is the key of a receipt.
*Administration.* Two rows, two calls; readings 0 and 1 with a lifetime of one make an
approval valid by one clock and expired by another. Two accounts with one recovery
code each: the last administrator is one of two.
*Alerts.* A chain of a few events that is changed once, two channels of which one hears
of critical conditions only, two attempts at an anchor, a report that is missing, good
and missing again: the second time is what a fingerprint without a time does not see.
*Delivery.* Two messages and workers, two attempts, one fault: enough to lose a lease on
the last attempt. Chains of two events over two branches are the shortest fork; one loss
falls before, into or after a recovery.
*Releases.* Two releases on one channel reach every use of the previous release; each
has an installer and a manifest that it references, so that revoking either makes it
unready, and one has a manifest that it does not reference. Two tickets and two PUTs,
the second of which overwrites the first.
*Federation.* Capacity one and two messages, each claimed once; a retention, a claim and
a life of one or two readings end in every order; one intervention of an administrator.
*Governance.* One hold without end and one that expires; two calls, so that a license
change or a report is in flight while an erasure commits.
*Signing.* Two failures open a circuit; one change is a revocation that an activation
already under way overtakes, or a stop.
*Operations.* Three runs of two scripts: a good backup, one that fails and one that
prunes, with a retention of one day out of two; one fault of any kind; one host with two
lock directories and one without. Two bootstraps of one environment with options that
differ in the files they write or, with a KMS, in the region.
Bounds of the environment (`MaxFaults`, `MaxRetries`, `MaxCrashes`, `MaxRateChanges`,
`MaxRevision`, `MaxChanges`, `MaxDelays`, `MaxLosses`, `MaxRuns`, `MaxEdits`, `MaxTime`)
are guards of the actions they count and bound nothing else.

`CHECK_DEADLOCK FALSE` is set everywhere: all of these systems stop when nobody
asks for anything and the bounds of the environment are used up.

### Fairness

Safety runs assume none. In the others it is what timers and timeouts of the code
provide, and never that anyone makes a request, unless the code polls for it:

* `FairService`: a call that has begun goes on and time passes; nothing makes anyone
  call, so `ExpiredReturned` has the premise that the account is read again and again,
  which is what triggers the sweep (`billing/service.ts:594`).
* `FairOutbox`: a poll that claimed delivers and finishes, time passes, and, strongly,
  a due row is claimed: polls are timed and claim in the order of `next_attempt_at`
  (`postgres-store.ts:4117`), so a row cannot be passed over for ever by rows that
  become due after it. Faults are bounded: a system whose workers stop at every
  attempt promises nothing.
* `RecoveryAssurance`: polls go on; strongly, intervals are over: an interval passes
  whether or not a poll is running, but the model has it pass between polls.
* `AuditWitness`: workers store what is claimable, and leases run out. `MCAlerts` and
  `MCDelivery` state the fairness of the module a behaviour is about.
* `DataGovernance`: time passes and retention runs, by a timer of every instance; no
  call needs to end.
* `SigningKeys`: an instance that starts goes on, calls have timeouts and open circuits
  close; strongly, requests keep coming to an instance that is up: without requests a
  circuit has nobody to count for.

## Proofs

Each `...Proofs` module EXTENDS the module it is about and proves, for every value of
the constants that the assumptions allow, that an invariant is kept by every step of the
specification of each part; the properties are concluded from it. The invariant of the
module that is extended is called `IInv` (the ledger's is `Inv`), those of the others
after their part. The assumptions are the named ASSUMEs of the modules: what kind of
number or set a constant is, and that `None` (`Absent` at the witness) is not a row. No
proof assumes a bound: times, faults and changes are bounded by constants of which only
the type is used.

| Theorem | Property | Assumptions |
|---|---|---|
| `TypeCorrect`, `LedgerTruth`, `FrozenBacked` | parts of `Inv` | `KeysAssumption`, `CreditsAssumption`, `TimesAssumption` |
| `HoldsSettledOnce`, `RefundsStayBounded`, `ReleaseAlwaysFits` | `SettledOnce`, `RefundsBounded`, `ReleaseNeverBlocked` | the same |
| `LedgerIsPrepaid` | `PrepaidSpec`: `CreditLedger` implements `PrepaidAccount` | the same |
| `EventsOnce`, `ServiceKeepsLedger` | `AuditSound`, `LedgerSteps` | the same and `ServiceAssumption` |
| `ServiceIsLedger`, `ServiceKeepsPromises` | `PrepaidSpec`, and the ledger's invariants, of the service | the same |
| `OthersApproved`, `UsedOnce` | `DualControl`, `ConsumedOnce` | `ApprovalsAssumption` |
| `EachCodeOnce`, `SuperStays` | `CodesOnce`, `SuperPreserved` | none |
| `MovedMachinesRunOut`, `RevocationEndsLeases` | `PreviousMachineRunsOut`, `RevokedLeasesRunOut` | `LicenseAssumption`, `NoneAssumption` |
| `BilledOnceInOrder`, `OneBootstrap`, `RevokedBillsNothing` | `ReceiptsAreBilled`, `BootstrapOnce`, `RevocationIsFinal` | `BillingAssumption` |
| `RevocationsShutGates` | `NeverReadyAgain` | those of `UpdateRollout` |
| `DownloadsAreSigned` | `BytesAreSigned` | `ArtifactAssumption` |
| `VerifiedStaysOffsite`, `OnlyWholeIsPublished`, `OneBackupIsKept` | `VerifiedIsOffsite`, `PublishedIsWhole`, `OneIsKept` | `BackupAssumption`, `NoneAssumption` |
| `EnvironmentsAreWhole` | `WholeByOneRun` | `IdentityAssumption` |
| `OneKeyActive` | `OneActiveAlways` | `SigningAssumption` |
| `LatestClaimSettles` | `OutcomeOfLatestClaim` | none |
| `NoFalseAlarms`, `AnchorsWereTrue` | `NoFalseAlarm`, `AnchoredWasTrue` | none |
| `RecoveryIsWhole` | `RecoveredAll` | `WitnessAssumption`, `HeadAssumption` |
| `RoutesOfLiveMessages`, `InboxCapacity`, `AttachmentsThere`, `NoReplay` | `LiveOnOpenRoutes`, `WithinCapacity`, `AttachmentsLast`, `ReplaysRefused` | `RelayAssumption`, `NoneAssumption` |
| `OnlyOldLicensesReturn` | `ValidWasReadBefore` | `GovernanceAssumption` |

With these every invariant and every property of steps that a passing run checks on a
small instance is proved for all; the runs have them under the same names.

### The ledger

`BillingServiceProofs` proves, for every finite set of keys and receipts, every limit of
credits and every set of clock readings, that `Spec` keeps

    Inv == TypeOK /\ LedgerIsTruth /\ TotalsReconcile /\ FrozenBacksHolds
             /\ SettledOnce /\ RefundsNameCharges /\ RefundsBounded /\ ChargesOutstanding

Two parts are there only to be inductive. `RefundsNameCharges`: a refund names an
earlier charge, without which a new charge might come with refunds of its own row
number. `ChargesOutstanding`: what all charges have not given back adds up to
`consumed - refunded`; with it the available and frozen balances together never
exceed what was topped up, which is why a release always fits
(`ReleaseAlwaysFits`), why a refund's column limit never bites, and why `refunded`
stays in range.

The argument: every action *posts* one row in one of four ways (`StepPosts`: a row
that touches no hold, a freeze, a settlement, a refund); each conjunct is then
shown to survive a posting, rather than each of the nine actions. Sums are
cardinalities of sets of parts (`CreditTotals`), so that "one summand changed"
(`TotalOfChanged`) and "one summand was added" (`TotalOfAdded`) are facts about
finite sets, proved from the library's cardinality theorems without induction over data.

`LedgerIsPrepaid`: the balances map initial states to an account without credits, and
every posting is a step of the prepaid account or leaves it alone. It needs that keys
are unique among the rows (`KeysUnique`), which makes the reservation of a hold and the
spending of a charge the same one when it is settled or refunded.

### The billing service

The service's part of the same module. Between the reading of a clock, a rate or a hold
and the transaction that uses it anything may happen, so `CallSound` says what a call
that has come so far has in hand: a positive price, clock readings, a row for a refund.
It holds whatever the others do, since rows are only added, and with it a step of the
service is a step of the ledger (`ServiceKeepsLedger`); the service's specification
therefore implies the ledger's, and through it the prepaid account's, and takes over
what was proved of them (`ServiceIsLedger`, `ServiceKeepsPromises`). For `AuditSound` each
event that is recorded or still pending is of a row or a rate change of its own
(`EventOf`, `EventsDiffer`, `PendingDiffer`); what is neither has been lost, and `FewLost`
counts it against the stops.

### Administrators

`AdministrationProofs`. An approval that was consumed is `Spent`: its row can only expire
and keeps its decisions. The invariant says it of every call that carries an operation out
and of everything carried out (`CarriersSpent`, `EffectsSpent`), and that no two calls carry
the same approval and none one that is done (`OneCarrier`, `CarriedNotDone`): between the
transaction that consumes and the operation the call may be anywhere. `SoundRow`
ties a status to the decisions it was given for; that a requester never decides makes
`Approvers` the set the code counts.

`CodesOnce` counts the sign-ins of a code. It needs that a code
that is still stored has none (`UsedUp`), and that codes come with the enrollment, which
happens once (`CodesComeLate`). `SuperPreserved` is kept by each step by itself, since the
transactions that take a role or a status away count those that are left.

### Licenses and leases

`EnforcementProofs`. A lease is issued in three transactions from a row that may
since have been changed, so the invariant relates calls, leases and rows to the *history*
of a license: every revision's terms are in it (`TermsAt`), credentials never go back
(`RowSound`), a call works from a revision that was (`Reads`), and what came after that
revision, a change or a revocation, is no earlier than the call's clock reading less its
`delay` (`InTime`). The same of the lease that is out (`LeaseSound`) gives both properties:
it ends within a duration and that delay of the change that it missed. A revocation is in
the history with the reading of its clock, which may be older than its row, and as long as
nobody has undone it the row says so (`RevocationsSound`). One license id is created once
(`CreatorsAlone`).

### Execution receipts

The same module, through the instance `Billing`. The property `ReceiptsAreBilled` is
inductive once rows are only added, which is shown of every step of the ledger that
the others may take; the debit and the receipt are one transaction. `BootstrapOnce`
needs the lock: a bootstrap reads the keys under it and inserts later, so
`LockedInsert` says that only who holds the lock is about to insert, and that no
key was bootstrapped that its reading did not show. `RevocationIsFinal` is a
property of steps: the key is read again by the transaction that stores.

### Releases

`PublishingProofs`. `NeverReadyAgain` needs that nothing makes a revoked artifact
active (`RevokedStay`) and that an artifact is of a kind its release has. Of the uploads
the invariant says that the versions of an object have the digest the object is named
for (`NamedForBytes`), since the presigned header decides what a PUT may store; that a
row is of bytes that were put (`RowsUploaded`); and that a URL that was handed out is of
a version that exists (`UrlsSound`). `BytesAreSigned` follows whichever version is
current when the URL is used.

### Signing keys

`AssuranceProofs`. `OneActiveAlways` is a property of steps: once a key is active exactly
one is. At most one is active (`AtMostOne`) because activations retire the others
in the same transaction; one remains because a revocation of the active key activates its
replacement, and replaces nothing when the key is no longer active. The invariant adds
that nothing is served without one (`ServedWithKey`), as calls begin only at an instance
that is up.

### The outbox, the chain and the witness

The same module, about `WatchedChain` and `IndependentWitness`. `OutcomeOfLatestClaim`
needs only the types of rows: a finish compares the claim it was made under in the
statement that settles.

*The chain.* A hash stands for what it was made from, so a row that was changed is one
whose content is not what its hash says. `GenuineSound` makes that an invariant that
survives every corruption: the heads the chain has had are of rows that were written,
and any row found that continues one of them leads to one of them. A verification
follows such rows from the first (`VerifySound`), so where it ends well it has arrived
at a head there was, whatever was changed behind it or appended before it:
`AnchoredWasTrue`. The other way around, `Chained` says that as long as nothing was
changed each row continues the one before, and a verification then misses none below the
head it has read: an observation of a broken chain exists, in a poll or as an alert,
only after a corruption, which is never undone (`Onward`): `NoFalseAlarm`.

*The witness.* `OneHead` says that rows, objects and workers never disagree about the
head of a receipt: ids are used once, and everything else copies from one of the three
to another. It survives the loss of the rows because objects and workers remain, and
makes it indifferent whether a recovery finds a row booked meanwhile or books the object
itself; `RecoveryOK` is then what `RecoveredAll` asks for, at any point of a recovery:
whatever is `due` and not `left` is booked. A loss makes it true of nothing, as only what
is left is still due then.

### Federation relay

`FederationRelayProofs`. An enqueue validates in one transaction and inserts in another, a
cleanup collects in one and removes in another. `CallsSound` keeps what they rely on
across the gap: clock readings are past, a validated envelope was signed, what is being
removed has expired for good. `LiveOnOpenRoutes` is inductive together with the rows' types,
since the insertion asks again. `NoReplay` needs `NoncesHold`, that a nonce outlives its
envelope's validity whatever has become of the message; `AttachmentsThere` needs
`EnvelopesCovered`, that the attachment of what was validated outlives the envelope, and
`RowsSound`, that only what is over is removed. `InboxesBounded` is `WithinCapacity` with
the finiteness of inboxes, which cardinalities need.

### Backups

`OperationsProofs`. Scripts that lock the same directory (`LockOf`) exclude each other by
a lock that a kill leaves behind and someone removes: `Locked` and `Exclusive`. Two backups
of a host always do, a backup and a restore where the host is not in `Apart`. With them a
script's file is its own, on any host, and what the place it has come to says can be
carried along: the first object is in the bucket when the second is sent (`Sent`), and a
backup is not old (`Timely`, from the assumption of `Tick` that a script takes less than the
days of retention). On the hosts that are neither in `Apart` nor `harmed` (`Reliable`) half
a database is there only while its restore loads it (`HalfIsLoading`), so that a dump that
passed is whole (`DumpSound`). `harmed` are the hosts where a file was damaged or a restore
gave up. `OneBackupIsKept` follows for these: a prune comes after its own backup was
published, which is whole, not too old and has its checksum. The steps of the others are
dealt with once (`OthersStay`, `ScriptStep`): a script with the lock changes files on its
own host only, and the bucket loses nothing.

### Bootstraps

The same module, through the instance `Identity`. Files are created exclusively
and in an order of which the environment file is the last, so as long as a run goes on
what it has written is there (`WrittenThere`), and an environment file is of a run that
ended well with all it writes in place (`EnvironmentsStand`). No other run can write
where a file is, and the operator's edits come after the end of the run.

### Data governance

`DataGovernanceProofs`. A license is stored from what was read: until the next erasure its
deployment stays active or the license valid (`Drawn`), and what has lost its name is
suspended (`Nameless`); so what makes a license of an erased deployment valid was read
before.

### What stays with TLC

Liveness and everything under fairness (`ExpiredReturned`, `Settles`, `WatchAlerts`,
`Forgotten`, `EvidenceSettles`, `SignsAgain`) and ENABLED are outside the prover: these
properties are checked on the instances of the runs only. So is the expected violation
of `deployment_starts`, which is a counterexample and not a theorem. The modules
that set parts beside each other prove nothing about what one part does
to another: where parts share rows, as a service does with its ledger, one module
extends the other.

## Not modelled

Cryptography, encodings and schema validation (a request that fails them changes
nothing), HTTP limits, the console, metrics, drills and PostgreSQL itself: the models
assume that a committed transaction lasts and that the locks it takes exclude what
PostgreSQL says they exclude, except where the loss of a database is the subject.
Deadlocks that the database resolves by aborting a transaction appear as refused
calls. Statements and listings only read. The creation of customers and deployments,
privacy acceptances, distribution settings and enterprise account settings write one
row and are left out, as are the rate windows and the client of the federation, the
observation of signing evidence by the alert worker, and the point-in-time archive.

## Plan

1. Prove: that the anchors of `RecoveryAssurance` and the evidence of `AuditWitness`
   implement `DeliveryOutbox`, whose claims they abbreviate; that the prices of
   `BillingService` never charge less than the units cost.
2. Compose: `SigningKeys` with `LicenseLifecycle` (a key revoked between the
   signature and the store), `AuditWitness` over `DeliveryOutbox` for anchors.
3. Model what is left: statements over the ledger, the federation's client, a database
   that fails over to a replica.
