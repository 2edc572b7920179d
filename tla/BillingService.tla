--------------------------- MODULE BillingService ---------------------------
(* BillingService over the ledger: the calls of deployments and              *)
(* administrators, each a sequence of database transactions with other       *)
(* calls' transactions, a clock, changes of the billing rate and crashes of  *)
(* its instance in between.  A caller that got no answer may repeat its      *)
(* request.  One module's rate stands for all: a hold and its charges are of *)
(* the same module.                                                          *)
EXTENDS CreditLedger

CONSTANTS
  Callers,      \* calls that can be in flight at once, on any instance
  Workloads,    \* what callers may ask for: `keys', the keys each kind of call comes
                \* with, the `rates' that may be in force, and `until' when
  Units,        \* metered units a request reports
  HoldTime,     \* expiresInSeconds
  SweepLimit,   \* expired holds one sweep lists
  MaxCrashes,   \* bound on crashes
  MaxRateChanges \* bound on changes of the rate, those in progress included

Kinds == {"topup", "refund", "hold", "capture", "release", "consume", "account", "rate"}

ASSUME ServiceAssumption ==
  /\ \A w \in Workloads :
       /\ DOMAIN w.keys \subseteq Kinds
       /\ w.keys \in [DOMAIN w.keys -> SUBSET Keys]
       /\ w.rates \subseteq [unitSize : Nat \ {0}, creditsPerUnit : Nat \ {0}]
       /\ w.until \in Nat /\ 0 .. w.until \subseteq Times
  /\ Units \subseteq Nat \ {0}
  /\ HoldTime \in Times \cap (Nat \ {0})
  /\ SweepLimit \in Nat \ {0}

VARIABLES
  workload,     \* one of Workloads
  now,          \* the clock
  rate,         \* the billing rate in force
  calls,        \* [Callers -> call], where each call is
  audit,        \* the audit events appended, in order: [op, of], of a row's
                \* number or of a rate change's
  committed,    \* requests whose transaction was committed
  refused,      \* requests answered with "key already used for another operation"
  brokenSweep,  \* whether a sweep ever failed its call
  crashes, rateChanges

serviceVars == <<workload, now, rate, calls, audit, committed, refused, brokenSweep, crashes, rateChanges>>
allVars == <<vars, serviceVars>>

-----------------------------------------------------------------------------
\* A request: its parameters, as the caller repeats them.  `target' is the hold
\* a capture or release names, or the row a refund does.
Request(op, key, target, units, ref) ==
  [op |-> op, key |-> key, target |-> target, units |-> units, ref |-> ref]

NoRequest == Request("none", None, None, 0, None)

\* Where a call is, the times and prices it has read, and the holds its sweep
\* has still to return.
At(pc, request) == [pc |-> pc, request |-> request, price |-> 0, at |-> 0, todo |-> {}]
Idle == At("idle", NoRequest)

Step(c, pc) == calls' = [calls EXCEPT ![c].pc = pc]
Leave(c) == calls' = [calls EXCEPT ![c] = Idle]

\* Slip: a unit begun and not filled costs nothing.
PriceRoundedDown(r, units) == (units \div r.unitSize) * r.creditsPerUnit

\* ceil(units / unitSize) * creditsPerUnit
Price(r, units) == ((units + r.unitSize - 1) \div r.unitSize) * r.creditsPerUnit

\* The transactions that append an audit event of their own afterwards.
Audited == {"topup", "refund"}
\* The calls that return expired holds before anything else.
Sweeping == {"hold", "consume", "account"}

Ops == DOMAIN workload.keys

-----------------------------------------------------------------------------
ServiceInit ==
  /\ Init
  /\ now = 0
  /\ workload \in Workloads
  /\ rate \in workload.rates
  /\ calls = [c \in Callers |-> Idle]
  /\ audit = <<>>
  /\ committed = {} /\ refused = {}
  /\ brokenSweep = FALSE
  /\ crashes = 0 /\ rateChanges = 0

FirstStep(op) ==
  IF op \in Sweeping THEN "list"
  ELSE IF op \in {"capture", "release"} THEN "lookup"
  ELSE IF op = "rate" THEN "rate" ELSE "store"

\* A request arrives, new or repeated.
Begin(c, request) ==
  /\ calls[c] = Idle
  /\ request.op \in Ops
  /\ request.op = "rate" =>
       rateChanges + Cardinality({d \in Callers : calls[d].pc = "rate"}) < MaxRateChanges
  /\ calls' = [calls EXCEPT ![c] = At(FirstStep(request.op), request)]
  /\ UNCHANGED <<vars, workload, now, rate, audit, committed, refused, brokenSweep, crashes, rateChanges>>

\* Slip: a hold that expires right now is left for later.
OverBefore(h) == holds[h].expiresAt < now

Over(h) == holds[h].expiresAt <= now

\* #releaseExpiredHolds reads the clock and lists, oldest first, the holds that
\* have expired by then, up to its limit.
ListExpired(c) ==
  LET expired == {h \in Keys : Active(h) /\ Over(h)} IN
  /\ calls[c].pc = "list"
  /\ \E listed \in SUBSET expired :
       /\ Cardinality(listed) =
            IF Cardinality(expired) < SweepLimit THEN Cardinality(expired) ELSE SweepLimit
       /\ \A h \in listed, g \in expired \ listed : holds[h].expiresAt <= holds[g].expiresAt
       /\ calls' = [calls EXCEPT ![c] = [@ EXCEPT !.pc = "sweep", !.at = now, !.todo = listed]]
  /\ UNCHANGED <<vars, workload, now, rate, audit, committed, refused, brokenSweep, crashes, rateChanges>>

\* The errors a sweep ignores: someone else has settled the hold.
Tolerated(h) == ~ Active(h)

\* The row that returned the hold under the sweep's key.
Returns(row, h) == row.key = ExpiryKey(h) /\ row.type = "release" /\ row.hold = h

\* A row that is not the hold's return has the key the sweep returns it under.
KeyTaken(h) == \E i \in Rows : ledger[i].key = ExpiryKey(h) /\ ~ Returns(ledger[i], h)

\* What fails a sweep: its key is taken, it would exceed a limit, or the hold
\* was settled and that is not tolerated.
ReleaseFails(h) ==
  \/ KeyTaken(h)
  \/ /\ Unused(ExpiryKey(h))
     /\ IF Active(h) THEN account.available + holds[h].amount > MaxCredits ELSE ~ Tolerated(h)

\* One listed hold, the oldest left: it is returned, another sweep's row is
\* found or the error that it was settled otherwise is ignored, or the call
\* fails and the holds listed after it are not looked at.
SweepOne(c, h) ==
  /\ calls[c].pc = "sweep"
  /\ h \in calls[c].todo
  /\ \A g \in calls[c].todo : holds[h].expiresAt <= holds[g].expiresAt
  /\ IF ReleaseFails(h)
       THEN Leave(c) /\ brokenSweep' = TRUE
       ELSE calls' = [calls EXCEPT ![c].todo = @ \ {h}] /\ UNCHANGED brokenSweep
  /\ IF Unused(ExpiryKey(h)) /\ Active(h) /\ ~ ReleaseFails(h)
       THEN Expire(h, calls[c].at) ELSE UNCHANGED vars
  /\ UNCHANGED <<workload, now, rate, audit, committed, refused, crashes, rateChanges>>

\* The sweep is over; an account read is answered, the other calls go on.
SweepDone(c) ==
  /\ calls[c].pc = "sweep"
  /\ calls[c].todo = {}
  /\ IF calls[c].request.op = "account" THEN Leave(c) ELSE Step(c, "price")
  /\ UNCHANGED <<vars, workload, now, rate, audit, committed, refused, brokenSweep, crashes, rateChanges>>

\* getCreditHold: a capture or release of an unknown hold is refused.
Lookup(c) ==
  /\ calls[c].pc = "lookup"
  /\ IF holds[calls[c].request.target] = NoSuchHold THEN Leave(c)
     ELSE Step(c, IF calls[c].request.op = "capture" THEN "price" ELSE "store")
  /\ UNCHANGED <<vars, workload, now, rate, audit, committed, refused, brokenSweep, crashes, rateChanges>>

\* #price, and the reading of the clock that goes with the transaction.
ReadPrice(c) ==
  LET price == Price(rate, calls[c].request.units) IN
  /\ calls[c].pc = "price"
  /\ IF price > MaxCredits THEN Leave(c)
     ELSE calls' = [calls EXCEPT ![c] = [@ EXCEPT !.pc = "store", !.price = price, !.at = now]]
  /\ UNCHANGED <<vars, workload, now, rate, audit, committed, refused, brokenSweep, crashes, rateChanges>>

\* The ledger transaction of a call.
Transaction(call) ==
  LET r == call.request IN
  CASE r.op = "topup"   -> TopUp(r.key, r.units, r.ref)
    [] r.op = "refund"  -> Refund(r.target, r.key, r.units, r.ref)
    [] r.op = "hold"    -> CreateHold(r.key, call.price, r.ref, call.at, call.at + HoldTime)
    [] r.op = "capture" -> CaptureHold(r.target, r.key, call.price, r.ref, call.at)
    [] r.op = "release" -> Release(r.target, r.key)
    [] r.op = "consume" -> Consume(r.key, call.price, r.ref)

SameCharge(row, price) == row.billed = price

\* A row of the request's key answers the request: the parameters the store
\* compares are the same.  The price is compared, and not the units.
Answers(row, call) ==
  LET r == call.request IN
  CASE r.op = "topup"   -> row.type = "topup" /\ row.availableDelta = r.units /\ row.ref = r.ref
    [] r.op = "refund"  -> /\ row.type = "refund" /\ row.billed = r.units
                           /\ row.related = r.target /\ row.ref = r.ref
    [] r.op = "hold"    -> row.type = "freeze" /\ row.frozenDelta = call.price /\ row.ref = r.ref
    [] r.op = "capture" -> /\ row.type = "capture" /\ SameCharge(row, call.price)
                           /\ row.hold = r.target /\ row.ref = r.ref
    [] r.op = "release" -> row.type = "release" /\ row.hold = r.target
    [] r.op = "consume" -> row.type = "consume" /\ SameCharge(row, call.price) /\ row.ref = r.ref

\* The store commits the call's transaction; a top-up or refund has its audit
\* event still to append.
StoreCommit(c) ==
  /\ calls[c].pc = "store"
  /\ Transaction(calls[c])
  /\ committed' = committed \cup {calls[c].request}
  /\ IF calls[c].request.op \in Audited
       THEN calls' = [calls EXCEPT ![c] = [@ EXCEPT !.pc = "audit", !.at = Len(ledger) + 1]]
       ELSE Leave(c)
  /\ UNCHANGED <<workload, now, rate, audit, refused, brokenSweep, crashes, rateChanges>>

\* Slip: a replay is audited like the first execution.
AuditAgain(c, i) == calls' = [calls EXCEPT ![c] = [@ EXCEPT !.pc = "audit", !.at = i]]

\* A replay of row i is answered without an audit event.
AnswerReplay(c, i) == Leave(c)

\* The store finds a row of the key: the call is a replay, which is answered
\* with that row, or a conflict.  (A hold under a key that a row of another type
\* has taken fails in the unique index; its caller gets no success either.)
StoreFound(c) ==
  /\ calls[c].pc = "store"
  /\ \E i \in Rows :
       /\ ledger[i].key = calls[c].request.key
       /\ \/ /\ Answers(ledger[i], calls[c])
             /\ AnswerReplay(c, i)
             /\ UNCHANGED refused
          \/ /\ ~ Answers(ledger[i], calls[c])
             /\ Leave(c)
             /\ refused' = refused \cup {calls[c].request}
  /\ UNCHANGED <<vars, workload, now, rate, audit, committed, brokenSweep, crashes, rateChanges>>

\* The transaction is rolled back: too few credits, a hold that is settled or
\* expired, a refund too large, a limit exceeded.
StoreRefuses(c) ==
  /\ calls[c].pc = "store"
  /\ Unused(calls[c].request.key)
  /\ ~ ENABLED Transaction(calls[c])
  /\ Leave(c)
  /\ UNCHANGED <<vars, workload, now, rate, audit, committed, refused, brokenSweep, crashes, rateChanges>>

\* appendAuditEvent, in a transaction of its own, and the answer.
AppendAudit(c) ==
  /\ calls[c].pc = "audit"
  /\ audit' = Append(audit, [op |-> calls[c].request.op, of |-> calls[c].at])
  /\ Leave(c)
  /\ UNCHANGED <<vars, workload, now, rate, committed, refused, brokenSweep, crashes, rateChanges>>

\* setBillingRate: the new rate replaces the one in force; `target' is the rate.
StoreRate(c) ==
  /\ calls[c].pc = "rate"
  /\ rate' = calls[c].request.target
  /\ rateChanges' = rateChanges + 1
  /\ calls' = [calls EXCEPT ![c] = [@ EXCEPT !.pc = "audit", !.at = rateChanges']]
  /\ UNCHANGED <<vars, workload, now, audit, committed, refused, brokenSweep, crashes>>

\* The instance stops, or its connection to the database breaks, and the
\* caller gets no answer.
Crash(c) ==
  /\ crashes < MaxCrashes
  /\ calls[c] # Idle
  /\ Leave(c)
  /\ crashes' = crashes + 1
  /\ UNCHANGED <<vars, workload, now, rate, audit, committed, refused, brokenSweep, rateChanges>>

\* The clock stops where a hold created now would expire beyond the workload.
Tick ==
  /\ now + 1 + HoldTime <= workload.until
  /\ now' = now + 1
  /\ UNCHANGED <<vars, workload, rate, calls, audit, committed, refused, brokenSweep, crashes, rateChanges>>

-----------------------------------------------------------------------------
ReadAccount == Request("account", None, None, 0, None)

Keyed(op) == IF op \in Ops THEN workload.keys[op] ELSE {}

\* What callers may ask for: of any row or hold there is, and of holds there
\* are not.
Requests ==
  {ReadAccount}
  \cup {Request("topup", k, None, u, r) : k \in Keyed("topup"), u \in Units, r \in Refs}
  \cup {Request("refund", k, i, u, r) : k \in Keyed("refund"), i \in Rows, u \in Units, r \in Refs}
  \cup {Request("hold", k, None, u, r) : k \in Keyed("hold"), u \in Units, r \in Refs}
  \cup {Request("consume", k, None, u, r) : k \in Keyed("consume"), u \in Units, r \in Refs}
  \cup {Request("capture", k, h, u, r) :
           k \in Keyed("capture"), h \in Keyed("hold"), u \in Units, r \in Refs}
  \cup {Request("release", k, h, 0, None) : k \in Keyed("release"), h \in Keyed("hold")}
  \cup {Request("rate", None, r, 0, None) : r \in workload.rates}

\* A step of a call that has begun.
Proceed(c) ==
  \/ ListExpired(c) \/ (\E h \in Keys : SweepOne(c, h)) \/ SweepDone(c)
  \/ Lookup(c) \/ ReadPrice(c)
  \/ StoreCommit(c) \/ StoreFound(c) \/ StoreRefuses(c) \/ StoreRate(c)
  \/ AppendAudit(c)

ServiceNext ==
  \/ \E c \in Callers :
       \/ \E request \in Requests : Begin(c, request)
       \/ Proceed(c)
       \/ Crash(c)
  \/ Tick

ServiceSpec == ServiceInit /\ [][ServiceNext]_allVars

\* A call that has begun goes on, and time passes.  That anyone calls is not
\* assumed.
FairService ==
  ServiceSpec /\ WF_allVars(Tick) /\ \A c \in Callers : WF_allVars(Proceed(c))

-----------------------------------------------------------------------------
\* Correctness.

\* Whatever was read before a transaction, and whatever happened in between,
\* the ledger changes only as CreditLedger says.  A price beyond the limit,
\* or a clock outside of the readings, would be such a change.
LedgerSteps == [][vars' # vars => Next]_vars

\* "Top-ups, rate changes, and refunds are audited" (README): each event is of
\* its own committed row or rate change, no row has two, however often the
\* request was repeated, and a row has none only while its call is still to
\* append it, or for a call whose instance stopped.
AuditSound ==
  /\ \A n \in DOMAIN audit :
       IF audit[n].op = "rate" THEN audit[n].of \in 1 .. rateChanges
       ELSE audit[n].of \in Rows /\ ledger[audit[n].of].type = audit[n].op
  /\ \A m, n \in DOMAIN audit : audit[m] = audit[n] => m = n
  /\ LET missing == {i \in Rows :
           /\ ledger[i].type \in Audited
           /\ \A n \in DOMAIN audit : audit[n] # [op |-> ledger[i].type, of |-> i]
           /\ \A c \in Callers : <<calls[c].pc, calls[c].at>> # <<"audit", i>>}
     IN Cardinality(missing) <= crashes

\* A sweep takes the oldest holds first, so that as long as the account is read
\* again and again no hold stays active once it has expired, however few holds
\* a sweep lists and whichever instances stop in the middle of one, unless a
\* hold at least as old cannot be returned, its key being taken.
Expired(h) == Active(h) /\ holds[h].expiresAt <= now

AccountIsRead == \E c \in Callers : Begin(c, ReadAccount)

Blocks(g, h) == Expired(g) /\ KeyTaken(g) /\ holds[g].expiresAt <= holds[h].expiresAt

ExpiredReturned ==
  []<><<AccountIsRead>>_allVars =>
    \A h \in Keys : [](Expired(h) => <>(~ Active(h) \/ \E g \in Keys : Blocks(g, h)))
=============================================================================
