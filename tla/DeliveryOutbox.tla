--------------------------- MODULE DeliveryOutbox ---------------------------
(* A PostgreSQL outbox and the workers that empty it: alert deliveries,      *)
(* audit anchors and WORM evidence each have one, built alike.  A worker     *)
(* claims a due row under a lease, delivers it, and finishes the row if the  *)
(* lease is still its own.                                                   *)
(*                                                                           *)
(* Time appears as what it makes true: a row that waited becomes due, a lease*)
(* expires.  The lease outlasts the timeout of a delivery several times: that*)
(* it expires under a live worker, like a crash or a failing query, is a     *)
(* fault, and MaxFaults bounds these.  lease_until names the claim: claims of *)
(* a row are numbered here.                                                  *)
EXTENDS Integers, Sequences

CONSTANTS
  Messages,    \* fingerprints, for alerts with their channel
  Workers,     \* one per instance: a poll of an instance never overlaps another
  MaxAttempts, \* positive
  MaxFaults,
  MaxRetries,  \* bound on what administrators and the source of messages do
  Pruned,      \* whether finished rows are pruned: alerts are, anchors are not
  None

VARIABLES
  row,      \* [Messages -> row or None]
  worker,   \* [Workers -> what it is doing]
  received, \* messages whose receiver has got them since they were enqueued
  audit,    \* [Messages -> sequence of audited events]
  faults,
  retries

vars == <<row, worker, received, audit, faults, retries>>

Waiting == {"pending", "retrying"}
Finished == {"delivered", "failed"}

Idle == [pc |-> "idle"]
Resume(w, state) == worker' = [worker EXCEPT ![w] = state]
Event(m, event) == audit' = [audit EXCEPT ![m] = Append(@, event)]

Init ==
  /\ row = [m \in Messages |-> None]
  /\ worker = [w \in Workers |-> Idle]
  /\ received = {}
  /\ audit = [m \in Messages |-> <<>>]
  /\ faults = 0
  /\ retries = 0

-----------------------------------------------------------------------------
\* enqueueAlertDelivery, enqueueAuditAnchor; the evidence of a witness receipt
\* is enqueued with it.  One row per fingerprint, its audit event with it.
Enqueue(m) ==
  /\ row[m] = None
  /\ row' = [row EXCEPT ![m] = [status |-> "pending", attempts |-> 0, claim |-> 0, due |-> TRUE]]
  /\ received' = received \ {m}
  /\ Event(m, "enqueued")
  /\ UNCHANGED <<worker, faults, retries>>

\* Slip: only rows that wait are claimed.
WaitingRow(r) == r.status \in Waiting /\ r.due

\* A row whose turn has come, or one whose lease has expired.
Claimable(r) == r.due

\* claimAlertDelivery, claimAuditAnchor, claimAuditWitnessEvidence.  The oldest
\* due row is taken, or the next if another claim has it locked: any due row.
Claim(w, m) ==
  /\ worker[w] = Idle
  /\ row[m] # None
  /\ Claimable(row[m])
  /\ row' = [row EXCEPT ![m].status = "delivering", ![m].attempts = @ + 1,
                        ![m].claim = @ + 1, ![m].due = FALSE]
  /\ Resume(w, [pc |-> "deliver", message |-> m,
                attempts |-> row'[m].attempts, claim |-> row'[m].claim])
  /\ UNCHANGED <<received, audit, faults, retries>>

Acknowledged(accepted, answered) == accepted /\ answered

\* #deliver: the receiver gets the message or does not, and the answer arrives
\* or does not.
Deliver(w, accepted, answered) ==
  /\ worker[w].pc = "deliver"
  /\ received' = IF accepted THEN received \cup {worker[w].message} ELSE received
  /\ Resume(w, [worker[w] EXCEPT
       !.pc = IF Acknowledged(accepted, answered) THEN "delivered" ELSE "not_delivered"])
  /\ UNCHANGED <<row, audit, faults, retries>>

\* Slip: the row is being delivered, whoever claimed it.
RowBeingDelivered(w) ==
  LET r == row[worker[w].message] IN r # None /\ r.status = "delivering"

\* WHERE id = $1 AND status = 'delivering' AND lease_until = $7
LeaseHeld(w) ==
  LET r == row[worker[w].message] IN
  r # None /\ r.status = "delivering" /\ r.claim = worker[w].claim

Settle(m, status, due) ==
  row' = [row EXCEPT ![m].status = status, ![m].due = due]

\* finishAlertDelivery, finishAuditAnchor, finishAuditWitnessEvidence, after a
\* delivery: the row and its audit event in one transaction.  A lost lease is an
\* error like any other: it is caught where a failed delivery is.
FinishDelivered(w) ==
  LET m == worker[w].message IN
  /\ worker[w].pc = "delivered"
  /\ IF LeaseHeld(w)
       THEN Settle(m, "delivered", FALSE) /\ Event(m, "delivered") /\ Resume(w, Idle)
       ELSE UNCHANGED <<row, audit>> /\ Resume(w, [worker[w] EXCEPT !.pc = "not_delivered"])
  /\ UNCHANGED <<received, faults, retries>>

\* The same after a failure: the last attempt is terminal and audited.
FinishNotDelivered(w) ==
  LET m == worker[w].message
      terminal == worker[w].attempts >= MaxAttempts IN
  /\ worker[w].pc = "not_delivered"
  /\ IF LeaseHeld(w)
       THEN /\ Settle(m, IF terminal THEN "failed" ELSE "retrying", FALSE)
            /\ IF terminal THEN Event(m, "failed") ELSE UNCHANGED audit
       ELSE UNCHANGED <<row, audit>>
  /\ Resume(w, Idle)
  /\ UNCHANGED <<received, faults, retries>>

\* retryAlertDelivery, retryAuditAnchor, retryAuditWitnessEvidence
Retry(m) ==
  /\ retries < MaxRetries
  /\ row[m] # None
  /\ row[m].status = "failed"
  /\ row' = [row EXCEPT ![m].status = "pending", ![m].attempts = 0, ![m].due = TRUE]
  /\ Event(m, "retried")
  /\ retries' = retries + 1
  /\ UNCHANGED <<worker, received, faults>>

\* pruneAlertDeliveries, at the start of a poll.  No worker is at a row that has
\* been finished for the retention period, thirty days or more.
Prune(m) ==
  /\ Pruned
  /\ retries < MaxRetries
  /\ row[m] # None
  /\ row[m].status \in Finished
  /\ \A w \in Workers : worker[w] # Idle => worker[w].message # m
  /\ row' = [row EXCEPT ![m] = None]
  /\ retries' = retries + 1
  /\ UNCHANGED <<worker, received, audit, faults>>

-----------------------------------------------------------------------------
\* What time does.  The waiting of a retry ends.
BecomeDue(m) ==
  /\ row[m] # None
  /\ row[m].status = "retrying" /\ ~ row[m].due
  /\ row' = [row EXCEPT ![m].due = TRUE]
  /\ UNCHANGED <<worker, received, audit, faults, retries>>

Holder(m) == {w \in Workers : worker[w] # Idle /\ worker[w].message = m
                                /\ worker[w].claim = row[m].claim}

\* A lease expires whose holder is gone.
ExpireAbandoned(m) ==
  /\ row[m] # None
  /\ row[m].status = "delivering" /\ ~ row[m].due
  /\ Holder(m) = {}
  /\ row' = [row EXCEPT ![m].due = TRUE]
  /\ UNCHANGED <<worker, received, audit, faults, retries>>

\* A lease expires whose holder is still at it.
ExpireHeld(m) ==
  /\ faults < MaxFaults
  /\ row[m] # None
  /\ row[m].status = "delivering" /\ ~ row[m].due
  /\ Holder(m) # {}
  /\ row' = [row EXCEPT ![m].due = TRUE]
  /\ faults' = faults + 1
  /\ UNCHANGED <<worker, received, audit, retries>>

\* An instance stops, or the transaction that finishes a row fails: after a
\* delivery the worker goes on to record a failure, otherwise the poll ends.
Fail(w) ==
  /\ faults < MaxFaults
  /\ worker[w] # Idle
  /\ \/ Resume(w, Idle)
     \/ /\ worker[w].pc = "delivered"
        /\ Resume(w, [worker[w] EXCEPT !.pc = "not_delivered"])
  /\ faults' = faults + 1
  /\ UNCHANGED <<row, received, audit, retries>>

Finish(w) == FinishDelivered(w) \/ FinishNotDelivered(w)

Next ==
  \/ \E m \in Messages :
       \/ Enqueue(m) \/ Retry(m) \/ Prune(m)
       \/ BecomeDue(m) \/ ExpireAbandoned(m) \/ ExpireHeld(m)
       \/ \E w \in Workers : Claim(w, m)
  \/ \E w \in Workers :
       \/ \E accepted, answered \in BOOLEAN : Deliver(w, accepted, answered)
       \/ Finish(w)
       \/ Fail(w)

Spec == Init /\ [][Next]_vars

\* Polls are timed and go on until no row is due; a delivery ends, at the latest
\* by its timeout; time passes.  A due row is not passed over for ever: rows are
\* claimed in the order in which they became due.
FairOutbox ==
  /\ Spec
  /\ \A m \in Messages :
       /\ WF_vars(BecomeDue(m)) /\ WF_vars(ExpireAbandoned(m))
       /\ SF_vars(\E w \in Workers : Claim(w, m))
  /\ \A w \in Workers :
       /\ WF_vars(\E accepted, answered \in BOOLEAN : Deliver(w, accepted, answered))
       /\ WF_vars(Finish(w))

-----------------------------------------------------------------------------
\* Correctness.

\* The outcome of a row is the one of its latest claim: of the workers that took
\* it, one whose lease expired and was claimed anew can no longer settle it.
OutcomeOfLatestClaim ==
  [][\A m \in Messages :
       (row[m] # None /\ row'[m] # None /\ row[m].status = "delivering"
          /\ row'[m].status # "delivering")
         => \E w \in Holder(m) : worker'[w] = Idle]_vars

\* An alert, anchor or evidence that has been enqueued is delivered, or has
\* visibly failed, even if workers stop between any two of their steps: no row
\* stays claimed by an instance that is gone.
Settles ==
  \A m \in Messages :
    (row[m] # None /\ row[m].status \notin Finished)
      ~> (row[m] # None /\ row[m].status \in Finished)
=============================================================================
