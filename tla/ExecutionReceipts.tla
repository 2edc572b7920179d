------------------------- MODULE ExecutionReceipts --------------------------
(* Signed execution receipts of one deployment, billed to the account of one *)
(* organization: the receipt keys administrators register and revoke and the *)
(* deployment bootstraps, the receipts and their contiguous sequence.  Calls *)
(* run on any instance: what one has read before its transaction may have    *)
(* changed when the transaction begins.                                      *)
(*                                                                           *)
(* An envelope that is malformed, wrongly signed or outside of its validity  *)
(* window by the clock of the instance that gets it is refused without a     *)
(* change, a stuttering step: Envelopes are those that may pass.  The sweep  *)
(* that precedes a receipt is a sweep of BillingService; what it does to the *)
(* ledger is among Others.                                                   *)
EXTENDS CreditLedger

CONSTANTS
  SigningKeys,  \* key ids
  Envelopes,    \* [id, task, sequence, key, ref], of Receipts, sequences from 1,
                \* SigningKeys and Refs
  Callers       \* calls in flight at once

VARIABLES
  keys,         \* [SigningKeys -> status]
  lastSequence, \* control_execution_receipt_sequences
  stored,       \* rows of control_execution_receipts, in the order of commit
  bootstrapLock, \* the call that holds the advisory lock of bootstraps, if any
  calls,        \* [Callers -> call]
  audit         \* audit events: [event, of]

receiptVars == <<keys, lastSequence, stored, bootstrapLock, calls, audit>>
allVars == <<vars, receiptVars>>

-----------------------------------------------------------------------------
\* A call: what it is about, an envelope or a key; whether it found the key
\* active, registered or missing when it looked; and the amount it priced.
Call(pc, about) == [pc |-> pc, about |-> about, found |-> "none", amount |-> 0]
Idle == Call("idle", None)

Leave(c) == calls' = [calls EXCEPT ![c] = Idle]
Become(c, call) == calls' = [calls EXCEPT ![c] = call]

ReceiptsInit ==
  /\ Init
  /\ keys = [k \in SigningKeys |-> "none"]
  /\ lastSequence = 0
  /\ stored = <<>>
  /\ bootstrapLock = None
  /\ calls = [c \in Callers |-> Idle]
  /\ audit = {}

-----------------------------------------------------------------------------
\* Keys.  Each call looks the key up, then writes, then appends an audit event
\* unless what it had found says that it changed nothing.
BeginKeyCall(c, k, pc) ==
  /\ calls[c] = Idle
  /\ Become(c, [Call(pc, k) EXCEPT !.found = keys[k]])
  /\ pc = "revoke" => keys[k] # "none"
  /\ UNCHANGED <<vars, keys, lastSequence, stored, bootstrapLock, audit>>

AuditUnless(c, quiet, event) ==
  IF quiet THEN Leave(c) ELSE Become(c, [calls[c] EXCEPT !.pc = "audit", !.found = event])

\* registerExecutionReceiptKey: ON CONFLICT DO NOTHING, then the row is read.
Register(c) ==
  LET k == calls[c].about IN
  /\ calls[c].pc = "register"
  /\ keys' = [keys EXCEPT ![k] = IF @ = "none" THEN "active" ELSE @]
  /\ AuditUnless(c, keys'[k] # "active" \/ calls[c].found # "none", "registered")
  /\ UNCHANGED <<vars, lastSequence, stored, bootstrapLock, audit>>

\* Slip: two bootstraps may run at once.
BootstrapUnlocked(c) == TRUE

BootstrapLocked(c) == bootstrapLock = None

\* bootstrapExecutionReceiptKey takes the lock and reads the deployment's keys:
\* the key itself is a replay, and any other a refusal.  Only bootstraps take
\* the lock: a registration may still come before the insertion.
BootstrapRead(c) ==
  /\ calls[c].pc = "bootstrap"
  /\ BootstrapLocked(c)
  /\ IF \A j \in SigningKeys : keys[j] = "none"
       THEN bootstrapLock' = c /\ Become(c, [calls[c] EXCEPT !.pc = "insert"])
       ELSE UNCHANGED bootstrapLock /\ Leave(c)
  /\ UNCHANGED <<vars, keys, lastSequence, stored, audit>>

\* The key is inserted, unless a registration has inserted it, and the lock is
\* released with the end of the transaction.
BootstrapInsert(c) ==
  LET k == calls[c].about IN
  /\ calls[c].pc = "insert"
  /\ IF keys[k] = "none"
       THEN keys' = [keys EXCEPT ![k] = "active"] /\ AuditUnless(c, FALSE, "bootstrapped")
       ELSE UNCHANGED keys /\ Leave(c)
  /\ bootstrapLock' = None
  /\ UNCHANGED <<vars, lastSequence, stored, audit>>

\* revokeExecutionReceiptKey
Revoke(c) ==
  LET k == calls[c].about IN
  /\ calls[c].pc = "revoke"
  /\ keys' = [keys EXCEPT ![k] = IF @ = "active" THEN "revoked" ELSE @]
  /\ AuditUnless(c, calls[c].found # "active", "revoked")
  /\ UNCHANGED <<vars, lastSequence, stored, bootstrapLock, audit>>

-----------------------------------------------------------------------------
\* consumeExecutionReceipt: the key is read and the signature verified with it.
BeginReceipt(c, e) ==
  /\ calls[c] = Idle
  /\ keys[e.key] = "active"
  /\ Become(c, Call("price", e))
  /\ UNCHANGED <<vars, keys, lastSequence, stored, bootstrapLock, audit>>

\* #price, at whatever rate is in force.
PriceReceipt(c, amount) ==
  /\ calls[c].pc = "price"
  /\ Become(c, [calls[c] EXCEPT !.pc = "ingest", !.amount = amount])
  /\ UNCHANGED <<vars, keys, lastSequence, stored, bootstrapLock, audit>>

Known(id) == \E i \in DOMAIN stored : stored[i].envelope.id = id

\* Slip: that the key was active when the signature was verified is enough.
KeyActiveWhenVerified(e) == TRUE

\* The key as the transaction reads it, FOR SHARE: a revocation waits for the
\* transaction, or the transaction sees it.
KeyActive(e) == keys[e.key] = "active"

NextInSequence(e) == e.sequence = lastSequence + 1

\* Slip: what the balance does not cover is not charged.
DebitIfCovered(e, amount) ==
  IF account.available >= amount THEN Consume(ReceiptKey(e.id), amount, e.ref) ELSE UNCHANGED vars

Debit(e, amount) == Consume(ReceiptKey(e.id), amount, e.ref)

\* ingestExecutionReceipt commits: debit, receipt and sequence in one
\* transaction; the audit event follows.
Ingest(c) ==
  LET e == calls[c].about IN
  /\ calls[c].pc = "ingest"
  /\ ~ Known(e.id)
  /\ KeyActive(e)
  /\ NextInSequence(e)
  /\ \A i \in DOMAIN stored : stored[i].envelope.task # e.task
  /\ Debit(e, calls[c].amount)
  /\ stored' = Append(stored, [envelope |-> e, row |-> Len(ledger')])
  /\ lastSequence' = e.sequence
  /\ Become(c, [calls[c] EXCEPT !.pc = "audit", !.found = "consumed"])
  /\ UNCHANGED <<keys, bootstrapLock, audit>>

\* A known receipt id is a replay or a conflict, and the other conditions of
\* the transaction fail, among them that a caller has used the receipt's key
\* for a row of its own: nothing changes.
IngestRefusedOrReplayed(c) ==
  LET e == calls[c].about IN
  /\ calls[c].pc = "ingest"
  /\ \/ Known(e.id)
     \/ ~ KeyActive(e)
     \/ ~ NextInSequence(e)
     \/ \E i \in DOMAIN stored : stored[i].envelope.task = e.task
     \/ ~ Unused(ReceiptKey(e.id))
     \/ account.available < calls[c].amount
     \/ account.consumed + calls[c].amount > MaxCredits
  /\ Leave(c)
  /\ UNCHANGED <<vars, keys, lastSequence, stored, bootstrapLock, audit>>

AppendAudit(c) ==
  /\ calls[c].pc = "audit"
  /\ audit' = audit \cup {[event |-> calls[c].found, of |-> calls[c].about]}
  /\ Leave(c)
  /\ UNCHANGED <<vars, keys, lastSequence, stored, bootstrapLock>>

\* The instance stops, or the caller's connection breaks.
Crash(c) ==
  /\ calls[c] # Idle
  /\ Leave(c)
  /\ bootstrapLock' = IF bootstrapLock = c THEN None ELSE bootstrapLock
  /\ UNCHANGED <<vars, keys, lastSequence, stored, audit>>

\* Every other transaction on the account, under whatever key.
Others == Bookings /\ UNCHANGED receiptVars

ReceiptsNext ==
  \/ \E c \in Callers :
       \/ \E k \in SigningKeys, pc \in {"register", "bootstrap", "revoke"} : BeginKeyCall(c, k, pc)
       \/ Register(c) \/ BootstrapRead(c) \/ BootstrapInsert(c) \/ Revoke(c)
       \/ \E e \in Envelopes : BeginReceipt(c, e)
       \/ \E amount \in Amounts : PriceReceipt(c, amount)
       \/ Ingest(c) \/ IngestRefusedOrReplayed(c)
       \/ AppendAudit(c)
       \/ Crash(c)
  \/ Others

ReceiptsSpec == ReceiptsInit /\ [][ReceiptsNext]_allVars

-----------------------------------------------------------------------------
\* Correctness.

\* Receipts are billed once each and in their order, whichever call stopped
\* where and whatever keys callers use: the n-th has sequence number n and a
\* charge of its own under its own key, of credits that were not held, and no
\* two are of one task.
ReceiptsAreBilled ==
  /\ lastSequence = Len(stored)
  /\ \A i \in DOMAIN stored :
       /\ stored[i].envelope.sequence = i
       /\ stored[i].row \in Rows
       /\ ledger[stored[i].row].key = ReceiptKey(stored[i].envelope.id)
       /\ ledger[stored[i].row].type = "consume"
       /\ \A j \in DOMAIN stored :
            \/ stored[j].row = stored[i].row
            \/ stored[j].envelope.task = stored[i].envelope.task
            => j = i

\* Once a key is revoked nothing signed with it is billed any more, not even
\* what was verified before the revocation and is on its way.
RevocationIsFinal ==
  [][\A k \in SigningKeys : keys[k] = "revoked" =>
       /\ keys'[k] = "revoked"
       /\ \A i \in DOMAIN stored' \ DOMAIN stored : stored'[i].envelope.key # k]_allVars

\* However many bootstraps run at once, at most one key of a deployment is ever
\* registered without an administrator's approval.  It need not be the first: a
\* registration does not wait for the lock.
BootstrapOnce ==
  \A a, b \in audit :
    a.event = "bootstrapped" /\ b.event = "bootstrapped" => a = b
=============================================================================
