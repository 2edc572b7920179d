-------------------------- MODULE RecoveryAssurance --------------------------
(* The audit chain as it is verified and anchored, and the alerts of the     *)
(* conditions that recovery depends on: the backups, the chain, and the      *)
(* anchors that an independent witness is to take.                           *)
(*                                                                           *)
(* A verification reads the head of the chain and then the events, page by   *)
(* page, while others append.  A page is one event here: larger pages leave  *)
(* out some of the interleavings.  The leases and the webhooks of the two     *)
(* outboxes are DeliveryOutbox's, the books of the witness AuditWitness's:    *)
(* here an anchor is delivered or refused at once, and an alert is a row.     *)
(* Time is that something is due.                                             *)
EXTENDS Integers, Sequences, FiniteSets

CONSTANTS
  Watchers,         \* alert workers, one per instance
  Anchorers,        \* anchor workers, one per instance
  Channels,         \* alert channels that are enabled, in the order they are configured in
  CriticalOnly,     \* those whose minimum severity is critical
  Reports,          \* what the latest backup report may say
  Corruptible,      \* sequence numbers whose row may be changed or lost, 0 for the head
  NoReport,         \* as it is before the first backup
  MaxAttempts,      \* of an anchor
  MaxEvents,        \* bound on events other than those of alerts
  MaxRepeats,       \* bound on alerts of a broken chain, per channel
  MaxFaults,        \* bound on corruption, failing calls and an absent witness
  MaxReports,       \* bound on backups, reports that go missing and manual retries
  None

ChannelSet == {Channels[i] : i \in DOMAIN Channels}

\* No worker polls without a channel.
AssuranceAssumption ==
  /\ Len(Channels) > 0
  /\ CriticalOnly \subseteq ChannelSet
  /\ MaxAttempts \in Nat \ {0}
  /\ NoReport \in Reports
  /\ {MaxEvents, MaxRepeats, MaxFaults, MaxReports} \subseteq Nat

VARIABLES
  event,      \* control_audit_events: a row or None under each sequence number
  head,       \* control_audit_chain_state
  genuine,    \* the heads the chain has had by appending
  anchor,     \* control_audit_anchors: [head -> row]
  witnessed,  \* the last sequence number the witness took
  report,     \* latest.json of the backups
  alerts,     \* control_alert_deliveries: [channel, kind, severity, fingerprint]
  workers,    \* [Watchers \cup Anchorers -> poll]
  due,        \* alert workers whose assurance interval is over
  faults, operations

chain == <<event, head, genuine>>
anchoring == <<anchor, witnessed>>
bounds == <<faults, operations>>
vars == <<chain, anchoring, report, alerts, workers, due, bounds>>

Idle == [pc |-> "idle"]
Set(w, poll) == workers' = [workers EXCEPT ![w] = poll]

Genesis == <<>>

\* auditEventHash: what a row is made from tells its hash.
Hash(previous, sequence, content) == <<previous, sequence, content>>
Row(previous, sequence, content) ==
  [previous |-> previous, content |-> content, hash |-> Hash(previous, sequence, content)]

Init ==
  /\ event = <<>> /\ head = [last |-> 0, hash |-> Genesis] /\ genuine = {head}
  /\ anchor = <<>> /\ witnessed = 0
  /\ report = NoReport
  /\ alerts = {}
  /\ workers = [w \in Watchers \cup Anchorers |-> Idle]
  /\ due = Watchers
  /\ faults = 0 /\ operations = 0

-----------------------------------------------------------------------------
\* The chain.

\* The row and the head, in the transaction of what it is about.
AppendChainedAuditEvent ==
  LET row == Row(head.hash, head.last + 1, "event") IN
  /\ event' = Append(event, row)
  /\ head' = [last |-> head.last + 1, hash |-> row.hash]
  /\ genuine' = IF head \in genuine THEN genuine \cup {head'} ELSE genuine

AuditEvent ==
  /\ head.last < MaxEvents
  /\ AppendChainedAuditEvent
  /\ UNCHANGED <<anchoring, report, alerts, workers, due, bounds>>

\* A row is changed or lost, or the head is, by whatever means.
Corrupt(n) ==
  /\ faults < MaxFaults
  /\ \/ n \in DOMAIN event /\ event[n] # None
        /\ \/ event' = [event EXCEPT ![n].content = "changed"]
           \/ event' = [event EXCEPT ![n] = None]
        /\ UNCHANGED head
     \/ n = 0 /\ head.last > 0
        /\ head' = [head EXCEPT !.hash = <<"changed">>]
        /\ UNCHANGED event
  /\ faults' = faults + 1
  /\ UNCHANGED <<genuine, anchoring, report, alerts, workers, due, operations>>

\* Not as it was written, or continued from what was not.
Corrupted ==
  \/ head \notin genuine
  \/ \E n \in DOMAIN event : event[n] = None \/ event[n].content # "event"

-----------------------------------------------------------------------------
\* AuditService.verify.

\* What was observed before is kept.
Verifying(state, observed) ==
  [pc |-> "verify", head |-> state, expected |-> 1, previous |-> Genesis, broken |-> FALSE,
   observed |-> observed]

\* Slip: pages go on to whatever was appended meanwhile.
ThroughTheEnd(poll) == Len(event)
ThroughSequence(poll) == poll.head.last

Matches(row, sequence, previous) ==
  /\ row # None
  /\ row.previous = previous
  /\ row.hash = Hash(previous, sequence, row.content)

\* Slip: the head that is stored is not compared.
SameLength(poll) == poll.expected = poll.head.last + 1
SameHead(poll) == poll.expected = poll.head.last + 1 /\ poll.previous = poll.head.hash

\* listChainedAuditEvents: the next row, if there is one.
VerifyEvent(w) ==
  LET poll == workers[w]  n == poll.expected IN
  /\ poll.pc = "verify" /\ ~poll.broken /\ n <= ThroughSequence(poll)
  /\ Set(w, IF Matches(event[n], n, poll.previous)
            THEN [poll EXCEPT !.expected = n + 1, !.previous = event[n].hash]
            ELSE [poll EXCEPT !.broken = TRUE])
  /\ UNCHANGED <<chain, anchoring, report, alerts, due, bounds>>

Verified(w) ==
  /\ workers[w].pc = "verify"
  /\ workers[w].broken \/ workers[w].expected > ThroughSequence(workers[w])

Valid(poll) == ~poll.broken /\ SameHead(poll)

-----------------------------------------------------------------------------
\* Anchors.

\* The interval since the latest anchor is over, or it is forced.
BeginAnchor(w) ==
  /\ w \in Anchorers /\ workers[w] = Idle /\ head.last < MaxEvents
  /\ Set(w, Verifying(head, <<>>))
  /\ UNCHANGED <<chain, anchoring, report, alerts, due, bounds>>

NewAnchor == [status |-> "pending", attempts |-> 0]
Anchors == DOMAIN anchor
With(x, row) == [y \in Anchors \cup {x} |-> IF y = x THEN row ELSE anchor[y]]

\* enqueueAuditAnchor: once per head, and an event with it.
EnqueueAuditAnchor(w) ==
  LET x == workers[w].head IN
  /\ w \in Anchorers /\ Verified(w)
  /\ IF Valid(workers[w]) /\ x \notin Anchors /\ head.last < MaxEvents
     THEN anchor' = With(x, NewAnchor) /\ AppendChainedAuditEvent
     ELSE UNCHANGED <<anchor, chain>>
  /\ Set(w, Idle)
  /\ UNCHANGED <<witnessed, report, alerts, due, bounds>>

Undelivered == {"pending", "retrying"}

\* An attempt: the witness takes what is not behind what it has taken.
DeliverAnchor(x) ==
  /\ x \in Anchors /\ anchor[x].status \in Undelivered
  /\ x.last >= witnessed
  /\ anchor' = [anchor EXCEPT ![x].status = "delivered", ![x].attempts = @ + 1]
  /\ witnessed' = x.last
  /\ AppendChainedAuditEvent
  /\ UNCHANGED <<report, alerts, workers, due, bounds>>

AttemptFails(x) ==
  LET attempts == anchor[x].attempts + 1  terminal == attempts >= MaxAttempts IN
  /\ anchor' = With(x, [status |-> IF terminal THEN "failed" ELSE "retrying", attempts |-> attempts])
  /\ IF terminal THEN AppendChainedAuditEvent ELSE UNCHANGED chain

\* A newer one has overtaken it.
RefuseAnchor(x) ==
  /\ x \in Anchors /\ anchor[x].status \in Undelivered
  /\ x.last < witnessed
  /\ AttemptFails(x)
  /\ UNCHANGED <<witnessed, report, alerts, workers, due, bounds>>

WitnessAbsent(x) ==
  /\ faults < MaxFaults
  /\ x \in Anchors /\ anchor[x].status \in Undelivered
  /\ AttemptFails(x)
  /\ faults' = faults + 1
  /\ UNCHANGED <<witnessed, report, alerts, workers, due, operations>>

RetryAuditAnchor(x) ==
  /\ operations < MaxReports
  /\ x \in Anchors /\ anchor[x].status = "failed"
  /\ anchor' = [anchor EXCEPT ![x] = NewAnchor]
  /\ AppendChainedAuditEvent
  /\ operations' = operations + 1
  /\ UNCHANGED <<witnessed, report, alerts, workers, due, faults>>

AnchorsIn(status) == {x \in Anchors : anchor[x].status = status}

-----------------------------------------------------------------------------
\* Backups.

\* A backup that ran, or did not, or whoever removes a report, changes what there is to
\* read.
BackupRuns(r) ==
  /\ operations < MaxReports /\ r # report
  /\ report' = r
  /\ operations' = operations + 1
  /\ UNCHANGED <<chain, anchoring, alerts, workers, due, faults>>

\* What is wrong with a report, the first of these that is.
ResultState(r) ==
  CASE r.age = "ahead" -> "future_report_timestamp"
    [] r.age = "old"   -> "backup_stale"
    [] OTHER ->
         CASE r.offsite = "failed" /\ r.required -> "offsite_required_failed"
           [] r.offsite = "failed"               -> "offsite_failed"
           [] r.offsite = "disabled"             -> "offsite_disabled"
           [] OTHER                              -> "backup_verified"

\* BackupStatusService.status: there may be nothing to read.
BackupStatus(r) ==
  CASE r.file = "not configured" -> "report_directory_not_configured"
    [] r.file = "unreadable"     -> "backup_report_directory_unreadable"
    [] r.file = "missing"        -> "backup_report_missing"
    [] r.file = "invalid"        -> "backup_report_invalid"
    [] OTHER                     -> ResultState(r)

Warnings == {"report_directory_not_configured", "offsite_failed", "offsite_disabled"}

-----------------------------------------------------------------------------
\* Alerts.

Observation(kind, severity, fingerprint) ==
  [kind |-> kind, severity |-> severity, fingerprint |-> fingerprint]

BackupObserved ==
  LET reason == BackupStatus(report) IN
  IF reason = "backup_verified" THEN <<>>
  ELSE <<Observation("backup", IF reason \in Warnings THEN "warning" ELSE "critical",
                     <<reason, IF report.file = "report" THEN report.recordedAt ELSE None>>)>>

ChainObserved(poll) ==
  IF Valid(poll) THEN <<>>
  ELSE <<Observation("chain", "critical", <<poll.head.hash, poll.expected>>)>>

AnchorsObserved ==
  IF AnchorsIn("failed") \cup AnchorsIn("retrying") = {} THEN <<>>
  ELSE <<Observation("anchors",
           IF AnchorsIn("failed") # {} THEN "critical" ELSE "warning",
           <<AnchorsIn("failed"), AnchorsIn("retrying")>>)>>

\* Slip: the least severity of a channel is compared the wrong way around.
ForLess(o) == {c \in ChannelSet : o.severity = "warning" \/ c \notin CriticalOnly}

\* Which channels an observation is for.
For(o) == {c \in ChannelSet : o.severity = "critical" \/ c \notin CriticalOnly}

Alert(c, o) ==
  [channel |-> c, kind |-> o.kind, severity |-> o.severity, fingerprint |-> o.fingerprint]

\* One observation after the other, and for each one channel after the other.
Queue(observations) == [pc |-> "enqueue", left |-> observations, next |-> 1]

\* collectObservations, until the verification: with or without the checks that are
\* due less often.
Watch(w) ==
  /\ w \in Watchers /\ workers[w] = Idle
  /\ IF w \in due
     THEN /\ due' = due \ {w}
          /\ Set(w, Verifying(head, BackupObserved))
     ELSE /\ BackupObserved # <<>>
          /\ Set(w, Queue(BackupObserved))
          /\ UNCHANGED due
  /\ UNCHANGED <<chain, anchoring, report, alerts, bounds>>

ObserveChain(w) ==
  /\ w \in Watchers /\ Verified(w)
  /\ Set(w, [pc |-> "anchors", observed |-> workers[w].observed \o ChainObserved(workers[w])])
  /\ UNCHANGED <<chain, anchoring, report, alerts, due, bounds>>

ObserveAnchors(w) ==
  /\ workers[w].pc = "anchors"
  /\ Set(w, Queue(workers[w].observed \o AnchorsObserved))
  /\ UNCHANGED <<chain, anchoring, report, alerts, due, bounds>>

Repeats(c, kind) == Cardinality({a \in alerts : a.channel = c /\ a.kind = kind})

NewCondition(alert) == alert \notin alerts

\* enqueueAlertDelivery: one row per condition and channel, and an event with it.
EnqueueAlertDelivery(w) ==
  LET poll == workers[w]
      c == Channels[poll.next]
      alert == Alert(c, Head(poll.left))
  IN
  /\ poll.pc = "enqueue" /\ poll.left # <<>>
  /\ IF /\ c \in For(Head(poll.left)) /\ NewCondition(alert)
        /\ alert.kind = "chain" => Repeats(c, "chain") < MaxRepeats
     THEN alerts' = alerts \cup {alert} /\ AppendChainedAuditEvent
     ELSE UNCHANGED <<alerts, chain>>
  /\ Set(w, IF poll.next < Len(Channels)
            THEN [poll EXCEPT !.next = @ + 1] ELSE Queue(Tail(poll.left)))
  /\ UNCHANGED <<anchoring, report, due, bounds>>

EndPoll(w) ==
  /\ workers[w].pc = "enqueue" /\ workers[w].left = <<>>
  /\ Set(w, Idle)
  /\ UNCHANGED <<chain, anchoring, report, alerts, due, bounds>>

\* A query or the signer fails, or the instance stops: the poll ends as it is.
Fail(w) ==
  /\ faults < MaxFaults /\ workers[w] # Idle
  /\ Set(w, Idle)
  /\ faults' = faults + 1
  /\ UNCHANGED <<chain, anchoring, report, alerts, due, operations>>

\* It would come to the same during a poll.
IntervalOver(w) ==
  /\ w \notin due /\ workers[w] = Idle
  /\ due' = due \cup {w}
  /\ UNCHANGED <<chain, anchoring, report, alerts, workers, bounds>>

-----------------------------------------------------------------------------
Poll(w) ==
  \/ Watch(w) \/ VerifyEvent(w) \/ ObserveChain(w) \/ ObserveAnchors(w)
  \/ EnqueueAlertDelivery(w) \/ EndPoll(w)

AnchorPoll(w) == BeginAnchor(w) \/ VerifyEvent(w) \/ EnqueueAuditAnchor(w)

Next ==
  \/ AuditEvent
  \/ \E n \in Corruptible : Corrupt(n)
  \/ \E w \in Watchers : Poll(w) \/ IntervalOver(w)
  \/ \E w \in Anchorers : AnchorPoll(w)
  \/ \E w \in Watchers \cup Anchorers : Fail(w)
  \/ \E x \in Anchors :
       DeliverAnchor(x) \/ RefuseAnchor(x) \/ WitnessAbsent(x) \/ RetryAuditAnchor(x)
  \/ \E r \in Reports : BackupRuns(r)

\* Instances run their alert worker for good: its timer and what a poll awaits go on.
\* Intervals are over whether or not a poll is running: strong fairness stands for that,
\* because IntervalOver waits for the end of a poll.
Fairness == \A w \in Watchers : WF_vars(Poll(w)) /\ SF_vars(IntervalOver(w))

Spec == Init /\ [][Next]_vars /\ Fairness

-----------------------------------------------------------------------------
\* The chain is reported broken only when it is, however much is appended while it is
\* verified: verify (audit/service.ts) stays below the sequence number it read first.
NoFalseAlarm == (\E a \in alerts : a.kind = "chain") => Corrupted

\* What is handed to the witness as a head is one that the chain has had, whatever is
\* changed before, after and while it is verified (audit-anchor/service.ts #poll).
AnchoredWasTrue == Anchors \subseteq genuine

\* Of everything that is wrong whoever is to hear of it has an alert with the fingerprint
\* it has now.
AllTold == \A c \in ChannelSet :
  /\ Corrupted => \E a \in alerts : a.channel = c /\ a.kind = "chain"
  /\ \A i \in DOMAIN BackupObserved :
       c \in For(BackupObserved[i]) => Alert(c, BackupObserved[i]) \in alerts
  /\ \A x \in AnchorsIn("failed") :
       \E a \in alerts : a.channel = c /\ a.kind = "anchors" /\ x \in a.fingerprint[1]

\* Whoever is to hear of it hears of a chain that was changed, of what is wrong with the
\* backups and of every anchor that failed for good, if the trouble lasts and whichever
\* polls fail, once for each "condition fingerprint" (README.md:520-521): a report that is
\* missing or cannot be read has no time in its fingerprint, and a set of anchors that
\* failed is its fingerprint, so that either is not told again when it comes back
\* (alert-delivery/service.ts #poll).
TroubleAlerted == []<>AllTold
=============================================================================
