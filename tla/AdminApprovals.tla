--------------------------- MODULE AdminApprovals ---------------------------
(* Dual control: an administrator asks for the approval of one operation     *)
(* with its exact request, others decide, and the requester executes the     *)
(* operation once.  Calls run on several instances and read clocks that need *)
(* not agree, nor agree with the database's; each `at' is such a reading.    *)
(* A call may stop between any two of its transactions.                      *)
EXTENDS Naturals, Sequences, FiniteSets

CONSTANTS
  Accounts,     \* administrators
  Operations,   \* an operation, its target and the digest of its request
  Ids,          \* ids of approvals
  Callers,      \* calls in flight at once
  Times,        \* clock readings
  Lifetime,     \* how long an approval may be used
  Required,     \* decisions needed; the service asks for one
  None

ASSUME ApprovalsAssumption ==
  /\ Times \subseteq Nat /\ Lifetime \in Nat \ {0} /\ Required \in 1 .. 10
  /\ None \notin Accounts

VARIABLES
  approvals,    \* rows of control_admin_approvals, with their decisions
  calls,        \* [Callers -> call]
  effects       \* protected operations carried out, in order: [operation, by, id]

vars == <<approvals, calls, effects>>

Live == {"pending", "approved"}

NoApproval ==
  [status |-> "none", requester |-> None, operation |-> None, expiresAt |-> 0,
   decisions |-> [a \in Accounts |-> "none"]]

\* A call: the account that makes it, the operation and approval it is about,
\* and the clock it read.
Call(pc, by, operation, id, at) ==
  [pc |-> pc, by |-> by, operation |-> operation, id |-> id, at |-> at]
Idle == Call("idle", None, None, None, 0)

Leave(c) == calls' = [calls EXCEPT ![c] = Idle]
Become(c, call) == calls' = [calls EXCEPT ![c] = call]

Init ==
  /\ approvals = [i \in Ids |-> NoApproval]
  /\ calls = [c \in Callers |-> Idle]
  /\ effects = <<>>

-----------------------------------------------------------------------------
\* UPDATE ... SET status = 'expired', which every read of approvals begins with.
Lapsed(a, at) ==
  IF a.status \in Live /\ a.expiresAt <= at THEN [a EXCEPT !.status = "expired"] ELSE a

\* listAdminApprovals; the clock is the database's.
List(at) ==
  /\ approvals' = [i \in Ids |-> Lapsed(approvals[i], at)]
  /\ UNCHANGED <<calls, effects>>

\* getAdminApproval, at the end of a decision.
Refresh(c, at) ==
  /\ calls[c].pc = "refresh"
  /\ approvals' = [approvals EXCEPT ![calls[c].id] = Lapsed(@, at)]
  /\ Become(c, [calls[c] EXCEPT !.pc = "audit decision"])
  /\ UNCHANGED effects

\* A live approval of the operation that its requester asked for.
Matches(a, by, operation, at) ==
  a.status \in Live /\ a.requester = by /\ a.operation = operation /\ a.expiresAt > at

\* requestApproval reads its clock and lists the approvals, for which the
\* database reads its own; it goes on if none of them matches.
BeginRequest(c, by, operation, at, dbAt) ==
  /\ calls[c] = Idle
  /\ approvals' = [i \in Ids |-> Lapsed(approvals[i], dbAt)]
  /\ \A i \in Ids : ~ Matches(approvals'[i], by, operation, at)
  /\ Become(c, Call("create", by, operation, None, at))
  /\ UNCHANGED effects

\* createAdminApproval
Create(c, i) ==
  /\ calls[c].pc = "create"
  /\ approvals[i] = NoApproval
  /\ approvals' = [approvals EXCEPT ![i] =
       [NoApproval EXCEPT !.status = "pending", !.requester = calls[c].by,
          !.operation = calls[c].operation, !.expiresAt = calls[c].at + Lifetime]]
  /\ Become(c, [calls[c] EXCEPT !.pc = "audit request", !.id = i])
  /\ UNCHANGED effects

Approvers(a) == {b \in Accounts : a.decisions[b] = "approve"}

\* What a decision makes of an approval.
Decided(a, by, decision) ==
  LET b == [a EXCEPT !.decisions[by] = decision] IN
  [b EXCEPT !.status =
     IF decision = "reject" THEN "rejected"
     ELSE IF Cardinality(Approvers(b)) >= Required THEN "approved" ELSE "pending"]

MayDecide(a, by) == a.requester # by

\* Slip: an approval that has been decided may be decided again.
Undecided(a, by) == a.status \in {"pending", "rejected"} /\ a.decisions[by] = "none"

Open(a, by) == a.status = "pending" /\ a.decisions[by] = "none"

\* decideAdminApproval, one transaction with the row locked.  A decision that
\* comes after the expiry marks the approval expired, whatever its status was.
Decide(c, by, i, decision, at) ==
  /\ calls[c] = Idle
  /\ approvals[i] # NoApproval
  /\ MayDecide(approvals[i], by)
  /\ \/ /\ approvals[i].expiresAt <= at
        /\ approvals' = [approvals EXCEPT ![i].status = "expired"]
     \/ /\ approvals[i].expiresAt > at
        /\ Open(approvals[i], by)
        /\ approvals' = [approvals EXCEPT ![i] = Decided(@, by, decision)]
  /\ Become(c, Call("refresh", by, None, i, at))
  /\ UNCHANGED effects

\* Slip: an executed approval is as good as an approved one.
UsableAgain(a) == a.status \in {"approved", "executed"}

Usable(a) == a.status = "approved"

\* consumeAdminApproval: one conditional UPDATE that names the requester and the
\* request.
Consume(c, by, operation, i, at) ==
  /\ calls[c] = Idle
  /\ approvals[i].requester = by
  /\ approvals[i].operation = operation
  /\ Usable(approvals[i])
  /\ approvals[i].expiresAt > at
  /\ approvals' = [approvals EXCEPT ![i].status = "executed"]
  /\ Become(c, Call("audit consume", by, operation, i, at))
  /\ UNCHANGED effects

\* The calls append audit events; a consumed approval's operation comes next.
AppendAudit(c) ==
  /\ calls[c].pc \in {"audit request", "audit decision", "audit consume"}
  /\ IF calls[c].pc = "audit consume" THEN Become(c, [calls[c] EXCEPT !.pc = "execute"]) ELSE Leave(c)
  /\ UNCHANGED <<approvals, effects>>

\* The route carries the operation out.
Execute(c) ==
  /\ calls[c].pc = "execute"
  /\ effects' = Append(effects,
       [operation |-> calls[c].operation, by |-> calls[c].by, id |-> calls[c].id])
  /\ Leave(c)
  /\ UNCHANGED approvals

\* The instance stops; an approval consumed by then stays so.
Crash(c) ==
  /\ calls[c] # Idle
  /\ Leave(c)
  /\ UNCHANGED <<approvals, effects>>

-----------------------------------------------------------------------------
Next ==
  \/ \E c \in Callers, at \in Times :
       \/ \E by \in Accounts, operation \in Operations :
            \/ \E dbAt \in Times : BeginRequest(c, by, operation, at, dbAt)
            \/ \E i \in Ids : Consume(c, by, operation, i, at)
       \/ \E by \in Accounts, i \in Ids, decision \in {"approve", "reject"} :
            Decide(c, by, i, decision, at)
       \/ Refresh(c, at)
  \/ \E c \in Callers :
       \/ \E i \in Ids : Create(c, i)
       \/ AppendAudit(c) \/ Execute(c) \/ Crash(c)
  \/ \E at \in Times : List(at)

Spec == Init /\ [][Next]_vars

-----------------------------------------------------------------------------
\* Correctness.

\* "High-risk operations require another administrator" (README): whatever was
\* carried out was asked for by who carried it out, as exactly this operation,
\* and approved by as many others as it takes, and nobody had rejected it.
DualControl ==
  \A n \in DOMAIN effects :
    LET a == approvals[effects[n].id] IN
    /\ a.requester = effects[n].by /\ a.operation = effects[n].operation
    /\ Cardinality(Approvers(a) \ {effects[n].by}) >= Required
    /\ \A b \in Accounts : a.decisions[b] # "reject"

\* "Is consumed once" (README), whichever instances get the repeated request.
ConsumedOnce ==
  \A m, n \in DOMAIN effects : effects[m].id = effects[n].id => m = n
=============================================================================
