---------------------------- MODULE AuditWitness ----------------------------
(* A second installation witnesses the audit chain of a first one, and keeps *)
(* what it witnessed as objects that cannot be written twice.                *)
(*                                                                           *)
(* The source chains its audit events and, from time to time, anchors the    *)
(* head of the chain: a signed receipt is queued and posted until it is       *)
(* answered, so the witness may see receipts late, again and in any order.    *)
(* The witness books a receipt together with a row for the evidence, which    *)
(* workers of its instances put into the object store under the sequence      *)
(* number.  After a loss of its database the rows are recovered from there.   *)
(*                                                                           *)
(* A hash stands for all that it was made from, so the head of a chain is the *)
(* chain.  How an anchor is queued and retried is DeliveryOutbox's.  There is *)
(* one source, object storage is configured, and time is left out: a lease    *)
(* runs out when the worker is slow, which happens MaxDelays times, or gone.  *)
EXTENDS Integers, Sequences, FiniteSets

CONSTANTS
  Branches,     \* what tells the events after a restore from those before
  Receipts,     \* receipt ids
  Workers,      \* of all instances of the witness
  MaxSequence,
  MaxAttempts,
  MaxDelays,    \* how often a worker is slow, stops, or cannot reach the store
  MaxLosses,    \* how often a database is lost, of either side
  MaxRetries,   \* how often an administrator retries failed evidence
  None

WitnessAssumption ==
  /\ Branches \subseteq Nat /\ 0 \in Branches
  /\ {MaxSequence, MaxAttempts} \subseteq Nat \ {0}
  /\ {MaxDelays, MaxLosses, MaxRetries} \subseteq Nat

VARIABLES
  chain,     \* of the source: control_audit_events, control_audit_chain_state
  branch,    \* of the events the source appends
  anchors,   \* heads the source has anchored; each may arrive at any time
  receipt,   \* control_audit_witness_receipts: the head each is about
  evidence,  \* control_audit_witness_evidence, by receipt
  tokens,    \* claims made: no lease ends when another does
  object,    \* the object store: the body under each sequence number
  workers,   \* [Workers -> what they are doing]
  recovery,  \* the recovery in progress
  delays, losses, retries

source == <<chain, branch, anchors>>
bounds == <<delays, losses, retries>>
vars == <<source, receipt, evidence, tokens, object, workers, recovery, bounds>>

Idle == [pc |-> "idle"]
Set(w, work) == workers' = [workers EXCEPT ![w] = work]

Numbers == 0 .. MaxSequence

Init ==
  /\ chain = <<>> /\ branch = 0 /\ anchors = {}
  /\ receipt = [r \in Receipts |-> None]
  /\ evidence = [r \in Receipts |-> None]
  /\ tokens = 0
  /\ object = [n \in Numbers |-> None]
  /\ workers = [w \in Workers |-> Idle]
  /\ recovery = Idle
  /\ delays = 0 /\ losses = 0 /\ retries = 0

-----------------------------------------------------------------------------
\* The source.

AppendChainedAuditEvent ==
  /\ Len(chain) < MaxSequence
  /\ chain' = Append(chain, branch)

AuditEvent ==
  /\ AppendChainedAuditEvent
  /\ UNCHANGED <<branch, anchors, receipt, evidence, tokens, object, workers, recovery, bounds>>

\* The chain is verified up to some head, and that an anchor was queued is an event
\* like any other; meanwhile the chain may have grown.
EnqueueAuditAnchor(n) ==
  /\ SubSeq(chain, 1, n) \notin anchors
  /\ anchors' = anchors \cup {SubSeq(chain, 1, n)}
  /\ AppendChainedAuditEvent
  /\ UNCHANGED <<branch, receipt, evidence, tokens, object, workers, recovery, bounds>>

\* The database of the source goes back to what it was, and what comes is new.
RestoreSource(n) ==
  /\ losses < MaxLosses /\ branch + 1 \in Branches
  /\ chain' = SubSeq(chain, 1, n)
  /\ branch' = branch + 1
  /\ losses' = losses + 1
  /\ UNCHANGED <<anchors, receipt, evidence, tokens, object, workers, recovery, delays, retries>>

-----------------------------------------------------------------------------
\* Receipts.

Booked == {r \in Receipts : receipt[r] # None}
Latest == CHOOSE r \in Booked : \A q \in Booked : Len(receipt[q]) <= Len(receipt[r])

\* Neither behind the latest sequence number nor another head at the same one.
Acceptable(head) ==
  Booked # {} =>
    /\ Len(head) >= Len(receipt[Latest])
    /\ Len(head) = Len(receipt[Latest]) => head = receipt[Latest]

Replay(head) == \E r \in Booked : receipt[r] = head

\* The body that is stored names the receipt: no two receipts have the same.
Body(r, head) == [receipt |-> r, head |-> head]

NewEvidence(status) == [status |-> status, attempts |-> 0, lease |-> None, lapsed |-> FALSE]

\* A receipt id is random: none is used twice, not even after a loss.
Fresh(r) == receipt[r] = None /\ ~ \E n \in Numbers : object[n] # None /\ object[n].receipt = r
Used(w, r) == workers[w] # Idle /\ workers[w].receipt = r

IngestReceipt(r, head) ==
  /\ Fresh(r) /\ \A w \in Workers : ~Used(w, r)
  /\ ~Replay(head) /\ Acceptable(head)
  /\ receipt' = [receipt EXCEPT ![r] = head]
  /\ evidence' = [evidence EXCEPT ![r] = NewEvidence("pending")]
  /\ UNCHANGED <<source, tokens, object, workers, recovery, bounds>>

-----------------------------------------------------------------------------
\* Evidence.

\* Slip: a lease that has run out is not looked at.
ClaimableWithoutLeases(row) == row.status \in {"pending", "retrying"}
Claimable(row) ==
  \/ row.status \in {"pending", "retrying"}
  \/ /\ row.status = "storing" /\ row.lapsed

\* The time of the next attempt comes, and each claim has a lease of its own.
ClaimEvidence(w, r) ==
  /\ workers[w] = Idle
  /\ evidence[r] # None /\ Claimable(evidence[r])
  /\ tokens' = tokens + 1
  /\ evidence' = [evidence EXCEPT ![r] =
       [status |-> "storing", attempts |-> @.attempts + 1, lease |-> tokens + 1, lapsed |-> FALSE]]
  /\ Set(w, [pc |-> "claimed", receipt |-> r, head |-> receipt[r], lease |-> tokens + 1,
             attempts |-> evidence[r].attempts + 1])
  /\ UNCHANGED <<source, receipt, object, recovery, bounds>>

Slot(work) == object[Len(work.head)]

SameBytes(slot, body) == slot = body

\* put writes only where nothing is, and what is there must be the same bytes, which
\* are read again before the evidence counts as stored.
PutObject(w) ==
  LET work == workers[w]
      body == Body(work.receipt, work.head)
  IN
  /\ work.pc = "claimed"
  /\ object' = IF Slot(work) = None THEN [object EXCEPT ![Len(work.head)] = body] ELSE object
  /\ Set(w, [work EXCEPT !.pc =
       IF Slot(work) = None \/ SameBytes(Slot(work), body) THEN "put" ELSE "failed"])
  /\ UNCHANGED <<source, receipt, evidence, tokens, recovery, bounds>>

\* The object may be there nevertheless.
LoseAnswer(w) ==
  /\ workers[w].pc \in {"claimed", "put"} /\ delays < MaxDelays
  /\ Set(w, [workers[w] EXCEPT !.pc = "failed"])
  /\ delays' = delays + 1
  /\ UNCHANGED <<source, receipt, evidence, tokens, object, recovery, losses, retries>>

Outcome(work) ==
  IF work.pc = "put" THEN "stored" ELSE IF work.attempts >= MaxAttempts THEN "failed" ELSE "retrying"

Leased(work) ==
  LET row == evidence[work.receipt] IN row # None /\ row.status = "storing" /\ row.lease = work.lease

\* Who has lost the lease changes nothing.
FinishEvidence(w) ==
  LET work == workers[w] IN
  /\ work.pc \in {"put", "failed"}
  /\ evidence' =
       IF Leased(work)
       THEN [evidence EXCEPT ![work.receipt].status = Outcome(work),
               ![work.receipt].lease = None, ![work.receipt].lapsed = FALSE]
       ELSE evidence
  /\ Set(w, Idle)
  /\ UNCHANGED <<source, receipt, tokens, object, recovery, bounds>>

HeldBySome(r) == \E w \in Workers : Used(w, r) /\ Leased(workers[w])

LeaseRunsOut(r) ==
  /\ evidence[r] # None /\ evidence[r].status = "storing" /\ ~evidence[r].lapsed
  /\ HeldBySome(r) => delays < MaxDelays
  /\ evidence' = [evidence EXCEPT ![r].lapsed = TRUE]
  /\ delays' = IF HeldBySome(r) THEN delays + 1 ELSE delays
  /\ UNCHANGED <<source, receipt, tokens, object, workers, recovery, losses, retries>>

StopWorker(w) ==
  /\ workers[w] # Idle /\ delays < MaxDelays
  /\ Set(w, Idle)
  /\ delays' = delays + 1
  /\ UNCHANGED <<source, receipt, evidence, tokens, object, recovery, losses, retries>>

RetryEvidence(r) ==
  /\ evidence[r] # None /\ evidence[r].status = "failed" /\ retries < MaxRetries
  /\ evidence' = [evidence EXCEPT ![r].status = "pending", ![r].attempts = 0]
  /\ retries' = retries + 1
  /\ UNCHANGED <<source, receipt, tokens, object, workers, recovery, delays, losses>>

-----------------------------------------------------------------------------
\* Recovery.

\* The witness goes on with an empty database; a recovery under way does not notice,
\* and all that it has booked is gone.
LoseDatabase ==
  /\ losses < MaxLosses
  /\ receipt' = [r \in Receipts |-> None]
  /\ evidence' = [r \in Receipts |-> None]
  /\ losses' = losses + 1
  /\ recovery' = IF recovery = Idle THEN Idle ELSE [recovery EXCEPT !.due = recovery.left]
  /\ UNCHANGED <<source, tokens, object, workers, delays, retries>>

Stored == {n \in Numbers : object[n] # None}

\* `due' is what the recovery has listed and not booked in a database that was lost:
\* no step depends on it.
ListObjects ==
  /\ recovery = Idle /\ Stored # {}
  /\ recovery' = [pc |-> "recovering", left |-> Stored, due |-> Stored]
  /\ UNCHANGED <<source, receipt, evidence, tokens, object, workers, bounds>>

RowAt(n) == {r \in Booked : Len(receipt[r]) = n}

\* Slip: whatever is there at the sequence number is what the object says.
AnyRow(n) == TRUE
Matching(n) == RowAt(n) = {object[n].receipt}

\* One object after the other is read and verified, and booked in a transaction of
\* its own; what is there already must be the same, or the recovery ends.
RestoreEvidence ==
  /\ recovery # Idle
  /\ \E n \in recovery.left :
       LET found == object[n] IN
       /\ \A m \in recovery.left : n <= m
       /\ \/ /\ RowAt(n) = {}
             /\ receipt' = [receipt EXCEPT ![found.receipt] = found.head]
             /\ evidence' = [evidence EXCEPT ![found.receipt] = NewEvidence("stored")]
             /\ recovery' = [recovery EXCEPT !.left = @ \ {n}]
          \/ /\ RowAt(n) # {} /\ Matching(n)
             /\ recovery' = [recovery EXCEPT !.left = @ \ {n}]
             /\ UNCHANGED <<receipt, evidence>>
          \/ /\ RowAt(n) # {} /\ ~Matching(n)
             /\ recovery' = Idle
             /\ UNCHANGED <<receipt, evidence>>
  /\ UNCHANGED <<source, tokens, object, workers, bounds>>

EndRecovery ==
  /\ recovery # Idle /\ recovery.left = {}
  /\ recovery' = Idle
  /\ UNCHANGED <<source, receipt, evidence, tokens, object, workers, bounds>>

-----------------------------------------------------------------------------
Source ==
  \/ AuditEvent
  \/ \E n \in 0 .. Len(chain) : EnqueueAuditAnchor(n) \/ RestoreSource(n)

Storing ==
  \E w \in Workers :
    \/ PutObject(w) \/ FinishEvidence(w)
    \/ \E r \in Receipts : ClaimEvidence(w, r)

Trouble ==
  \/ LoseDatabase
  \/ \E w \in Workers : LoseAnswer(w) \/ StopWorker(w)

Next ==
  \/ Source \/ Storing \/ Trouble
  \/ \E r \in Receipts, head \in anchors : IngestReceipt(r, head)
  \/ \E r \in Receipts : LeaseRunsOut(r) \/ RetryEvidence(r)
  \/ ListObjects \/ RestoreEvidence \/ EndRecovery

\* Workers poll on a timer, and time passes.
Spec ==
  /\ Init /\ [][Next]_vars
  /\ WF_vars(Storing)
  /\ \A r \in Receipts : WF_vars(LeaseRunsOut(r))

-----------------------------------------------------------------------------

\* A recovery that comes to its end has brought back all that it listed, whatever was
\* booked meanwhile; when the database is lost under it, all that it had still to come
\* to, and the rest takes another recovery (AuditWitnessService.recoverEvidence).
RecoveredAll ==
  [][recovery # Idle /\ recovery' = Idle /\ recovery.left = {} =>
       \A n \in recovery.due : receipt[object[n].receipt] = object[n].head]_vars

\* Evidence is stored or fails, so that its failure is seen: no row stays claimed by
\* a worker that is gone (claimAuditWitnessEvidence).
EvidenceSettles ==
  \A r \in Receipts :
    evidence[r] # None ~> evidence[r] = None \/ evidence[r].status \in {"stored", "failed"}
=============================================================================
