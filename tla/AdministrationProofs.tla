------------------------ MODULE AdministrationProofs ------------------------
(* Theorems about AdminApprovals, for all administrators, operations, calls, *)
(* clocks and numbers of decisions required, and then about AdminAccounts,   *)
(* for all accounts, recovery codes and calls.                               *)
EXTENDS Administration, FiniteSetTheorems, SequenceTheorems, TLAPS

-----------------------------------------------------------------------------
(* Approvals: the inductive invariant.                                       *)

Approval ==
  [status : {"none", "pending", "approved", "rejected", "executed", "expired"},
   requester : Accounts \cup {None}, operation : Operations \cup {None},
   expiresAt : Nat, decisions : [Accounts -> {"none", "approve", "reject"}]]

Effect == [operation : Operations \cup {None}, by : Accounts \cup {None}, id : Ids \cup {None}]

CallType ==
  [pc : {"idle", "create", "refresh", "audit request", "audit decision", "audit consume", "execute"},
   by : Accounts \cup {None}, operation : Operations \cup {None}, id : Ids \cup {None}, at : Nat]

TypeOK ==
  /\ approvals \in [Ids -> Approval]
  /\ calls \in [Callers -> CallType]
  /\ effects \in Seq(Effect)

Unrejected(a) == \A b \in Accounts : a.decisions[b] # "reject"
Enough(a) == Cardinality(Approvers(a)) >= Required

\* What a row's status says of its decisions; its requester takes none.
SoundRow(a) ==
  /\ a.status = "none" => a = NoApproval
  /\ a.status \in {"pending", "approved", "executed"} => Unrejected(a)
  /\ a.status \in {"approved", "executed"} => Enough(a)
  /\ a.requester \notin Approvers(a)

\* An approval that was consumed for an operation: however its row fares from then
\* on, it stays unusable and keeps its decisions.
Spent(i, by, operation) ==
  /\ i \in Ids
  /\ approvals[i].status \in {"executed", "expired"}
  /\ approvals[i].requester = by /\ approvals[i].operation = operation
  /\ Unrejected(approvals[i]) /\ Enough(approvals[i])

\* A call that has consumed an approval and not yet carried the operation out.
Carries(c) == calls[c].pc \in {"audit consume", "execute"}

RefreshesAny == \A c \in Callers : calls[c].pc = "refresh" => calls[c].id \in Ids
RowsSound == \A i \in Ids : SoundRow(approvals[i])
CarriersSpent ==
  \A c \in Callers : Carries(c) => Spent(calls[c].id, calls[c].by, calls[c].operation)
EffectsSpent ==
  \A n \in DOMAIN effects : Spent(effects[n].id, effects[n].by, effects[n].operation)
OneCarrier ==
  \A c, d \in Callers : Carries(c) /\ Carries(d) /\ calls[c].id = calls[d].id => c = d
CarriedNotDone ==
  \A c \in Callers, n \in DOMAIN effects : Carries(c) => calls[c].id # effects[n].id

IInv ==
  /\ TypeOK /\ RefreshesAny
  /\ RowsSound /\ CarriersSpent /\ EffectsSpent
  /\ OneCarrier /\ CarriedNotDone /\ ConsumedOnce

-----------------------------------------------------------------------------
(* What the actions do to a row.                                             *)

\* A requester is no approver, so leaving the requester out of the approvers leaves
\* out nobody.
LEMMA Others ==
  ASSUME NEW a \in Approval, a.requester \notin Approvers(a)
  PROVE  Approvers(a) \ {a.requester} = Approvers(a)
  OBVIOUS

\* The expiry that every read begins with changes nothing but a live status.
LEMMA LapsedRow ==
  ASSUME NEW a \in Approval, NEW at \in Nat
  PROVE  /\ Lapsed(a, at) \in Approval
         /\ SoundRow(a) => SoundRow(Lapsed(a, at))
         /\ a.status \in {"executed", "expired"} => Lapsed(a, at) = a
<1>1. a.status \notin Live => Lapsed(a, at) = a
  BY DEF Lapsed
<1>2. Lapsed(a, at) = a \/ Lapsed(a, at) = [a EXCEPT !.status = "expired"]
  BY DEF Lapsed
<1> QED
  BY <1>1, <1>2 DEF Approval, SoundRow, Approvers, Live, NoApproval

\* A decision on an open row leaves a sound one: what one rejection left rejected
\* stays so, and the approval that completes the number is counted.
LEMMA DecidedRow ==
  ASSUME NEW a \in Approval, SoundRow(a), NEW by \in Accounts, MayDecide(a, by), Open(a, by),
         NEW decision \in {"approve", "reject"}
  PROVE  /\ Decided(a, by, decision) \in Approval
         /\ SoundRow(Decided(a, by, decision))
<1> DEFINE b == [a EXCEPT !.decisions[by] = decision]
           verdict == IF decision = "reject" THEN "rejected"
                      ELSE IF Cardinality(Approvers(b)) >= Required THEN "approved" ELSE "pending"
           d == [b EXCEPT !.status = verdict]
<1>1. Decided(a, by, decision) = d
  BY DEF Decided
<1>2. d \in Approval /\ d.status = verdict /\ d.requester = a.requester
        /\ d.decisions = [a.decisions EXCEPT ![by] = decision]
  BY DEF Approval
<1>3. Approvers(d) = Approvers(b)
  BY DEF Approvers, Approval
<1>4. Unrejected(a)
  BY DEF SoundRow, Open
<1>5. decision = "approve" => Unrejected(d)
  BY <1>2, <1>4 DEF Unrejected, Approval
<1>6. a.requester \notin Approvers(d)
  BY <1>2 DEF SoundRow, MayDecide, Approvers, Approval
<1>7. verdict # "none" /\ verdict # "executed"
  OBVIOUS
<1>8. verdict \in {"pending", "approved"} => decision = "approve"
  OBVIOUS
<1>9. verdict = "approved" => Cardinality(Approvers(b)) >= Required
  OBVIOUS
<1>10. Enough(d) <=> Cardinality(Approvers(b)) >= Required
  BY <1>3 DEF Enough
<1> HIDE DEF b, verdict, d
<1> QED
  BY <1>1, <1>2, <1>5, <1>6, <1>7, <1>8, <1>9, <1>10 DEF SoundRow

-----------------------------------------------------------------------------
(* Preservation.                                                             *)

\* Rows as every action leaves them: sound, and a spent one still spent.
KeepsRows ==
  /\ approvals' \in [Ids -> Approval]
  /\ \A i \in Ids : SoundRow(approvals'[i])
  /\ \A i \in Ids : approvals[i].status \in {"executed", "expired"} =>
       /\ approvals'[i].status \in {"executed", "expired"}
       /\ approvals'[i].requester = approvals[i].requester
       /\ approvals'[i].operation = approvals[i].operation
       /\ approvals'[i].decisions = approvals[i].decisions

LEMMA SpentStays ==
  ASSUME TypeOK, KeepsRows, NEW i, NEW by, NEW operation, Spent(i, by, operation)
  PROVE  Spent(i, by, operation)'
<1>1. i \in Ids
  BY DEF Spent
<1>2. Approvers(approvals'[i]) = Approvers(approvals[i])
  BY <1>1 DEF KeepsRows, Spent, Approvers
<1> QED
  BY <1>1, <1>2 DEF KeepsRows, Spent, Unrejected, Enough

\* A step that consumes nothing and carries nothing out: whoever carries an
\* approval afterwards did so before.
LEMMA QuietStep ==
  ASSUME IInv, KeepsRows, UNCHANGED effects, calls' \in [Callers -> CallType], RefreshesAny',
         \A c \in Callers : Carries(c)' =>
           /\ Carries(c) /\ calls'[c].id = calls[c].id
           /\ calls'[c].by = calls[c].by /\ calls'[c].operation = calls[c].operation
  PROVE  IInv'
<1>1. TypeOK' /\ RowsSound'
  BY DEF IInv, TypeOK, KeepsRows, RowsSound
<1>2. CarriersSpent'
  <2> SUFFICES ASSUME NEW c \in Callers, Carries(c)'
               PROVE  Spent(calls[c].id, calls[c].by, calls[c].operation)'
    BY DEF CarriersSpent
  <2>1. Spent(calls[c].id, calls[c].by, calls[c].operation)
    BY DEF IInv, CarriersSpent
  <2> QED
    BY <2>1, SpentStays DEF IInv, Spent
<1>3. EffectsSpent'
  <2> SUFFICES ASSUME NEW n \in DOMAIN effects
               PROVE  Spent(effects[n].id, effects[n].by, effects[n].operation)'
    BY DEF EffectsSpent
  <2>1. Spent(effects[n].id, effects[n].by, effects[n].operation)
    BY DEF IInv, EffectsSpent
  <2> QED
    BY <2>1, SpentStays DEF IInv, Spent
<1>4. OneCarrier' /\ CarriedNotDone' /\ ConsumedOnce'
  BY DEF IInv, OneCarrier, CarriedNotDone, ConsumedOnce
<1> QED
  BY <1>1, <1>2, <1>3, <1>4 DEF IInv

LEMMA QuietCall ==
  ASSUME IInv, KeepsRows, UNCHANGED effects, NEW c \in Callers, NEW call \in CallType,
         Become(c, call), call.pc = "refresh" => call.id \in Ids,
         call.pc \in {"audit consume", "execute"} =>
           Carries(c) /\ call = [calls[c] EXCEPT !.pc = call.pc]
  PROVE  IInv'
<1>1. calls' \in [Callers -> CallType] /\ \A d \in Callers \ {c} : calls'[d] = calls[d]
  BY DEF Become, IInv, TypeOK
<1>2. calls'[c] = call
  BY DEF Become, IInv, TypeOK
<1>3. RefreshesAny'
  BY <1>1, <1>2 DEF RefreshesAny, IInv
<1>4. ASSUME NEW d \in Callers, Carries(d)'
      PROVE  /\ Carries(d) /\ calls'[d].id = calls[d].id
             /\ calls'[d].by = calls[d].by /\ calls'[d].operation = calls[d].operation
  <2>1. CASE d = c
    <3>1. calls[c] \in CallType
      BY DEF IInv, TypeOK
    <3> QED
      BY <1>2, <1>4, <2>1, <3>1 DEF Carries, CallType
  <2>2. CASE d # c
    BY <1>1, <1>4, <2>2 DEF Carries
  <2> QED
    BY <2>1, <2>2
<1> QED
  BY <1>1, <1>3, <1>4, QuietStep

LEMMA IdleType == Idle \in CallType /\ Idle.pc = "idle"
  BY DEF Idle, Call, CallType

\* The two ways rows change without anything being approved or used.
LEMMA RowsUnchanged ==
  ASSUME IInv, UNCHANGED approvals
  PROVE  KeepsRows
  BY DEF IInv, TypeOK, RowsSound, KeepsRows

LEMMA AllLapse ==
  ASSUME IInv, NEW at \in Nat, approvals' = [i \in Ids |-> Lapsed(approvals[i], at)]
  PROVE  KeepsRows
<1> SUFFICES ASSUME NEW i \in Ids
             PROVE  /\ Lapsed(approvals[i], at) \in Approval
                    /\ SoundRow(Lapsed(approvals[i], at))
                    /\ approvals[i].status \in {"executed", "expired"} =>
                         Lapsed(approvals[i], at) = approvals[i]
  BY DEF KeepsRows
<1> QED
  BY LapsedRow DEF IInv, TypeOK, RowsSound

\* One row changes, to a sound row; if it was spent it stays so.
LEMMA OneRow ==
  ASSUME IInv, NEW i \in Ids, NEW a \in Approval, approvals' = [approvals EXCEPT ![i] = a],
         SoundRow(a),
         approvals[i].status \in {"executed", "expired"} =>
           a = approvals[i] \/ a = [approvals[i] EXCEPT !.status = "expired"]
  PROVE  KeepsRows
<1>1. approvals[i] \in Approval
  BY DEF IInv, TypeOK
<1> QED
  BY <1>1 DEF IInv, TypeOK, RowsSound, KeepsRows, Approval

-----------------------------------------------------------------------------
(* One lemma per action.                                                     *)

LEMMA ListStep ==
  ASSUME IInv, NEW at \in Times, List(at)
  PROVE  IInv'
<1>1. at \in Nat
  BY ApprovalsAssumption
<1>2. KeepsRows
  BY <1>1, AllLapse DEF List
<1> QED
  BY <1>2, QuietStep DEF List, IInv, TypeOK, RefreshesAny, Carries

LEMMA RefreshStep ==
  ASSUME IInv, NEW c \in Callers, NEW at \in Times, Refresh(c, at)
  PROVE  IInv'
<1>1. at \in Nat /\ calls[c].id \in Ids /\ calls[c] \in CallType
  BY ApprovalsAssumption DEF Refresh, IInv, RefreshesAny, TypeOK
<1> DEFINE i == calls[c].id
           call == [calls[c] EXCEPT !.pc = "audit decision"]
<1>2. approvals[i] \in Approval /\ SoundRow(approvals[i])
  BY <1>1 DEF IInv, TypeOK, RowsSound
<1>3. approvals' = [approvals EXCEPT ![i] = Lapsed(approvals[i], at)]
  BY DEF Refresh
<1>4. KeepsRows
  BY <1>1, <1>2, <1>3, LapsedRow, OneRow
<1>5. call \in CallType /\ call.pc = "audit decision"
  BY <1>1 DEF CallType
<1> QED
  BY <1>4, <1>5, QuietCall DEF Refresh

LEMMA BeginRequestStep ==
  ASSUME IInv, NEW c \in Callers, NEW by \in Accounts, NEW operation \in Operations,
         NEW at \in Times, NEW dbAt \in Times, BeginRequest(c, by, operation, at, dbAt)
  PROVE  IInv'
<1>1. at \in Nat /\ dbAt \in Nat
  BY ApprovalsAssumption
<1>2. KeepsRows
  BY <1>1, AllLapse DEF BeginRequest
<1> DEFINE call == Call("create", by, operation, None, at)
<1>3. call \in CallType /\ call.pc = "create"
  BY <1>1 DEF Call, CallType
<1> QED
  BY <1>2, <1>3, QuietCall DEF BeginRequest

LEMMA CreateStep ==
  ASSUME IInv, NEW c \in Callers, NEW i \in Ids, Create(c, i)
  PROVE  IInv'
<1> DEFINE a == [NoApproval EXCEPT !.status = "pending", !.requester = calls[c].by,
                   !.operation = calls[c].operation, !.expiresAt = calls[c].at + Lifetime]
           call == [calls[c] EXCEPT !.pc = "audit request", !.id = i]
<1>1. calls[c] \in CallType
  BY DEF IInv, TypeOK
<1>2. a \in Approval /\ a.status = "pending" /\ \A b \in Accounts : a.decisions[b] = "none"
  <2> HIDE DEF a
  <2>1. calls[c].at + Lifetime \in Nat
    <3>1. calls[c].at \in Nat
      BY <1>1 DEF CallType
    <3>2. Lifetime \in Nat
      BY ApprovalsAssumption
    <3> QED
      BY <3>1, <3>2
  <2>2. calls[c].by \in Accounts \cup {None} /\ calls[c].operation \in Operations \cup {None}
    BY <1>1 DEF CallType
  <2>3. NoApproval \in Approval /\ \A b \in Accounts : NoApproval.decisions[b] = "none"
    BY DEF NoApproval, Approval
  <2> QED
    BY <2>1, <2>2, <2>3 DEF a, Approval
<1>3. SoundRow(a)
  BY <1>2 DEF SoundRow, Unrejected, Approvers
<1>4. approvals[i].status = "none"
  BY DEF Create, NoApproval
<1>5. KeepsRows
  BY <1>2, <1>3, <1>4, OneRow DEF Create
<1>6. call \in CallType /\ call.pc = "audit request"
  BY <1>1 DEF CallType
<1> QED
  BY <1>5, <1>6, QuietCall DEF Create

LEMMA DecideStep ==
  ASSUME IInv, NEW c \in Callers, NEW by \in Accounts, NEW i \in Ids,
         NEW decision \in {"approve", "reject"}, NEW at \in Times, Decide(c, by, i, decision, at)
  PROVE  IInv'
<1>1. approvals[i] \in Approval /\ SoundRow(approvals[i]) /\ at \in Nat
  BY ApprovalsAssumption DEF IInv, TypeOK, RowsSound
<1>2. KeepsRows
  <2>1. CASE approvals' = [approvals EXCEPT ![i].status = "expired"]
    <3> DEFINE a == [approvals[i] EXCEPT !.status = "expired"]
    <3>1. a \in Approval /\ SoundRow(a)
      BY <1>1 DEF Approval, SoundRow, Approvers
    <3> QED
      BY <2>1, <3>1, OneRow
  <2>2. CASE /\ Open(approvals[i], by)
             /\ approvals' = [approvals EXCEPT ![i] = Decided(approvals[i], by, decision)]
    <3>1. MayDecide(approvals[i], by)
      BY DEF Decide
    <3>2. /\ Decided(approvals[i], by, decision) \in Approval
          /\ SoundRow(Decided(approvals[i], by, decision))
      BY <1>1, <2>2, <3>1, DecidedRow
    <3>3. approvals[i].status = "pending"
      BY <2>2 DEF Open
    <3> QED
      BY <2>2, <3>2, <3>3, OneRow
  <2> QED
    BY <2>1, <2>2 DEF Decide
<1> DEFINE call == Call("refresh", by, None, i, at)
<1>3. call \in CallType /\ call.pc = "refresh" /\ call.id = i
  BY <1>1 DEF Call, CallType
<1> QED
  BY <1>2, <1>3, QuietCall DEF Decide

LEMMA AppendAuditStep ==
  ASSUME IInv, NEW c \in Callers, AppendAudit(c)
  PROVE  IInv'
<1>1. KeepsRows
  BY RowsUnchanged DEF AppendAudit
<1> DEFINE call == [calls[c] EXCEPT !.pc = "execute"]
<1>2. calls[c] \in CallType
  BY DEF IInv, TypeOK
<1>3. call \in CallType /\ call.pc = "execute"
  BY <1>2 DEF CallType
<1>4. CASE calls[c].pc = "audit consume"
  BY <1>1, <1>3, <1>4, QuietCall DEF AppendAudit, Carries
<1>5. CASE calls[c].pc # "audit consume"
  BY <1>1, <1>5, IdleType, QuietCall DEF AppendAudit, Leave, Become
<1> QED
  BY <1>4, <1>5

LEMMA CrashStep ==
  ASSUME IInv, NEW c \in Callers, Crash(c)
  PROVE  IInv'
  BY RowsUnchanged, IdleType, QuietCall DEF Crash, Leave, Become

\* Whoever consumes an approval finds it approved, so nobody has consumed it before.
LEMMA ConsumeStep ==
  ASSUME IInv, NEW c \in Callers, NEW by \in Accounts, NEW operation \in Operations,
         NEW i \in Ids, NEW at \in Times, Consume(c, by, operation, i, at)
  PROVE  IInv'
<1> DEFINE a == [approvals[i] EXCEPT !.status = "executed"]
           call == Call("audit consume", by, operation, i, at)
<1>1. approvals[i] \in Approval /\ SoundRow(approvals[i]) /\ approvals[i].status = "approved"
  BY DEF IInv, TypeOK, RowsSound, Consume, Usable
<1>2. a \in Approval /\ a.status = "executed" /\ a.requester = by /\ a.operation = operation
        /\ a.decisions = approvals[i].decisions
  BY <1>1 DEF Approval, Consume
<1>3. SoundRow(a) /\ Unrejected(a) /\ Enough(a)
  BY <1>1, <1>2 DEF SoundRow, Unrejected, Enough, Approvers
<1>4. KeepsRows
  BY <1>1, <1>2, <1>3, OneRow DEF Consume
<1>5. \A b, o : ~ Spent(i, b, o)
  BY <1>1 DEF Spent
<1>6. Spent(i, by, operation)'
  <2>1. approvals'[i] = a
    BY DEF Consume, IInv, TypeOK
  <2> QED
    BY <1>2, <1>3, <2>1 DEF Spent
<1>7. call \in CallType /\ call.pc = "audit consume" /\ call.id = i /\ call.by = by
        /\ call.operation = operation
  BY ApprovalsAssumption DEF Call, CallType
<1>8. calls' \in [Callers -> CallType] /\ calls'[c] = call
        /\ \A d \in Callers \ {c} : calls'[d] = calls[d]
  BY <1>7 DEF Consume, Become, IInv, TypeOK
<1>9. \A d \in Callers \ {c} : Carries(d)' => Carries(d) /\ calls[d].id # i
  <2> SUFFICES ASSUME NEW d \in Callers \ {c}, Carries(d)'
               PROVE  Carries(d) /\ calls[d].id # i
    OBVIOUS
  <2>1. Carries(d)
    BY <1>8 DEF Carries
  <2>2. Spent(calls[d].id, calls[d].by, calls[d].operation)
    BY <2>1 DEF IInv, CarriersSpent
  <2> QED
    BY <1>5, <2>1, <2>2
<1>10. \A n \in DOMAIN effects : effects[n].id # i
  BY <1>5 DEF IInv, EffectsSpent
<1>11. UNCHANGED effects
  BY DEF Consume
<1>12. TypeOK' /\ RowsSound' /\ RefreshesAny'
  BY <1>4, <1>7, <1>8, <1>11 DEF IInv, TypeOK, KeepsRows, RowsSound, RefreshesAny
<1>13. CarriersSpent'
  <2> SUFFICES ASSUME NEW d \in Callers, Carries(d)'
               PROVE  Spent(calls[d].id, calls[d].by, calls[d].operation)'
    BY DEF CarriersSpent
  <2>1. CASE d = c
    BY <1>6, <1>7, <1>8, <2>1
  <2>2. CASE d # c
    <3>1. Spent(calls[d].id, calls[d].by, calls[d].operation)
      BY <1>9, <2>2 DEF IInv, CarriersSpent
    <3>2. calls'[d] = calls[d]
      BY <1>8, <2>2
    <3> QED
      BY <1>4, <3>1, <3>2, SpentStays DEF IInv, Spent
  <2> QED
    BY <2>1, <2>2
<1>14. EffectsSpent'
  <2> SUFFICES ASSUME NEW n \in DOMAIN effects
               PROVE  Spent(effects[n].id, effects[n].by, effects[n].operation)'
    BY <1>11 DEF EffectsSpent
  <2>1. Spent(effects[n].id, effects[n].by, effects[n].operation)
    BY DEF IInv, EffectsSpent
  <2> QED
    BY <1>4, <1>11, <2>1, SpentStays DEF IInv, Spent
<1>15. OneCarrier'
  BY <1>7, <1>8, <1>9 DEF IInv, OneCarrier
<1>16. CarriedNotDone'
  BY <1>7, <1>8, <1>9, <1>10, <1>11 DEF IInv, CarriedNotDone
<1> QED
  BY <1>11, <1>12, <1>13, <1>14, <1>15, <1>16 DEF IInv, ConsumedOnce

\* What a caller carries has not been carried out, and nobody else carries it.
LEMMA ExecuteStep ==
  ASSUME IInv, NEW c \in Callers, Execute(c)
  PROVE  IInv'
<1> DEFINE e == [operation |-> calls[c].operation, by |-> calls[c].by, id |-> calls[c].id]
<1>1. Carries(c) /\ calls[c] \in CallType
  BY DEF Execute, Carries, IInv, TypeOK
<1>2. e \in Effect
  BY <1>1 DEF Effect, CallType
<1>3. /\ effects' = Append(effects, e) /\ effects' \in Seq(Effect)
      /\ DOMAIN effects' = DOMAIN effects \cup {Len(effects) + 1}
      /\ Len(effects) + 1 \notin DOMAIN effects
      /\ \A n \in DOMAIN effects : effects'[n] = effects[n]
      /\ effects'[Len(effects) + 1] = e
  BY <1>2 DEF Execute, IInv, TypeOK
<1>4. calls' \in [Callers -> CallType] /\ calls'[c] = Idle
        /\ \A d \in Callers \ {c} : calls'[d] = calls[d]
  BY IdleType DEF Execute, Leave, IInv, TypeOK
<1>5. \A d \in Callers : Carries(d)' => d # c /\ Carries(d) /\ calls'[d] = calls[d]
  BY <1>4, IdleType DEF Carries
<1>6. UNCHANGED approvals
  BY DEF Execute
<1>7. TypeOK' /\ RowsSound' /\ RefreshesAny'
  BY <1>3, <1>4, <1>6, IdleType DEF IInv, TypeOK, RowsSound, RefreshesAny
<1>8. \A i, by, operation : Spent(i, by, operation)' <=> Spent(i, by, operation)
  BY <1>6 DEF Spent
<1>9. CarriersSpent'
  BY <1>5, <1>6 DEF IInv, CarriersSpent, Spent
<1>10. EffectsSpent'
  <2>1. Spent(e.id, e.by, e.operation)
    BY <1>1 DEF IInv, CarriersSpent
  <2> HIDE DEF e
  <2> QED
    BY <1>3, <1>6, <2>1 DEF IInv, EffectsSpent, Spent
<1>11. OneCarrier'
  BY <1>5 DEF IInv, OneCarrier
<1>12. CarriedNotDone'
  <2> SUFFICES ASSUME NEW d \in Callers, NEW n \in DOMAIN effects', Carries(d)'
               PROVE  calls'[d].id # effects'[n].id
    BY DEF CarriedNotDone
  <2>1. d # c /\ Carries(d) /\ calls'[d] = calls[d]
    BY <1>5
  <2>2. calls[d].id # calls[c].id
    BY <1>1, <2>1 DEF IInv, OneCarrier
  <2> QED
    BY <1>3, <2>1, <2>2 DEF IInv, CarriedNotDone
<1>13. ConsumedOnce'
  <2>1. \A n \in DOMAIN effects : effects[n].id # e.id
    BY <1>1 DEF IInv, CarriedNotDone
  <2> HIDE DEF e
  <2> QED
    BY <1>3, <2>1 DEF IInv, ConsumedOnce
<1> QED
  BY <1>7, <1>9, <1>10, <1>11, <1>12, <1>13 DEF IInv

-----------------------------------------------------------------------------
(* The theorems.                                                             *)

LEMMA InitEstablishes == Init => IInv
<1> SUFFICES ASSUME Init
             PROVE  IInv
  OBVIOUS
<1>1. NoApproval \in Approval /\ SoundRow(NoApproval)
  BY ApprovalsAssumption DEF NoApproval, Approval, SoundRow, Approvers
<1>2. TypeOK /\ RowsSound /\ effects = <<>>
  BY <1>1, IdleType DEF Init, TypeOK, RowsSound
<1>3. \A c \in Callers : calls[c].pc = "idle"
  BY IdleType DEF Init
<1>4. RefreshesAny /\ CarriersSpent /\ OneCarrier /\ CarriedNotDone
  BY <1>3 DEF RefreshesAny, CarriersSpent, OneCarrier, CarriedNotDone, Carries
<1> QED
  BY <1>2, <1>4 DEF IInv, EffectsSpent, ConsumedOnce

LEMMA NextPreserves == IInv /\ [Next]_vars => IInv'
<1> SUFFICES ASSUME IInv, [Next]_vars
             PROVE  IInv'
  OBVIOUS
<1>1. CASE UNCHANGED vars
  BY <1>1 DEF vars, IInv, TypeOK, RefreshesAny, RowsSound, CarriersSpent, EffectsSpent, Spent,
     OneCarrier, CarriedNotDone, Carries, ConsumedOnce
<1>2. CASE Next
  BY <1>2, BeginRequestStep, ConsumeStep, DecideStep, RefreshStep, CreateStep, AppendAuditStep,
     ExecuteStep, CrashStep, ListStep DEF Next
<1> QED
  BY <1>1, <1>2

\* Rows keep their form and say of themselves what is true, whoever carries an
\* approved operation does so with an approval of its own that is used up, and so
\* was everything carried out (consumeAdminApproval, decideAdminApproval).
THEOREM ApprovalsInvariant == Spec => []IInv
BY InitEstablishes, NextPreserves, PTL DEF Spec

LEMMA DualControlHolds == IInv => DualControl
<1> SUFFICES ASSUME IInv, NEW n \in DOMAIN effects
             PROVE  LET a == approvals[effects[n].id] IN
                    /\ a.requester = effects[n].by /\ a.operation = effects[n].operation
                    /\ Cardinality(Approvers(a) \ {effects[n].by}) >= Required
                    /\ \A b \in Accounts : a.decisions[b] # "reject"
  BY DEF DualControl
<1> DEFINE a == approvals[effects[n].id]
<1>1. Spent(effects[n].id, effects[n].by, effects[n].operation)
  BY DEF IInv, EffectsSpent
<1>2. a \in Approval /\ SoundRow(a) /\ a.requester = effects[n].by
        /\ a.operation = effects[n].operation /\ Unrejected(a) /\ Enough(a)
  BY <1>1 DEF Spent, IInv, TypeOK, RowsSound
<1>3. Approvers(a) \ {effects[n].by} = Approvers(a)
  BY <1>2, Others DEF SoundRow
<1> HIDE DEF a
<1> QED
  BY <1>2, <1>3 DEF Unrejected, Enough, a

\* Whatever was carried out, its requester carried out, as exactly the operation
\* that was approved, with the approval of as many others as it takes and the
\* rejection of none, for any number of administrators, instances and clocks.
THEOREM OthersApproved == Spec => []DualControl
BY ApprovalsInvariant, DualControlHolds, PTL

\* No approval is used for two operations, whichever instances get the repeated
\* request and wherever they stop.
THEOREM UsedOnce == Spec => []ConsumedOnce
<1>1. IInv => ConsumedOnce
  BY DEF IInv
<1> QED
  BY <1>1, ApprovalsInvariant, PTL

-----------------------------------------------------------------------------
(* Accounts: the inductive invariant.                                        *)

SignInType ==
  [pc : {"idle"}] \cup [pc : {"create"}, super : BOOLEAN]
    \cup [pc : {"confirm", "clear", "session", "revoke"}, account : Holders]
    \cup [pc : {"failure"}, account : Holders, failed : Nat]
    \cup [pc : {"code"}, account : Holders, code : Codes, failed : Nat]
    \cup [pc : {"roles", "revoke"}, account : Holders, super : BOOLEAN]
    \cup [pc : {"status", "revoke"}, account : Holders, to : {"active", "disabled"}]

AccountsTyped ==
  /\ status \in [Holders -> {"none", "pending", "active", "disabled"}]
  /\ super \subseteq Holders
  /\ failed \in [Holders -> Nat]
  /\ codes \in [Holders -> SUBSET Codes]
  /\ accepted \in [Holders -> [Codes -> Nat]]
  /\ signIns \in [Callers -> SignInType]

\* Before its enrollment is confirmed an account has no codes, so those it gets then
\* are the first.
CodesComeLate ==
  \A a \in Holders : status[a] \in {"none", "pending"} =>
    codes[a] = {} /\ \A r \in Codes : accepted[a][r] = 0

\* The steps that no call takes.
TimePasses(a) == Accts!SessionEnds(a) \/ Accts!LockEnds(a) \/ Accts!EnrollmentEnds(a)

\* A code that has signed in is not left to be used.
UsedUp == \A a \in Holders, r \in Codes : r \in codes[a] => accepted[a][r] = 0

AccountsIInv == AccountsTyped /\ CodesComeLate /\ UsedUp /\ Accts!CodesOnce

-----------------------------------------------------------------------------
LEMMA AccountsInit == Accts!Init => AccountsIInv
  BY DEF Accts!Init, Accts!Idle, SignInType, AccountsIInv, AccountsTyped, CodesComeLate, UsedUp,
     Accts!CodesOnce

\* What a call remembers, by the step it is at.
LEMMA SignInHolds ==
  ASSUME AccountsTyped, NEW c \in Callers
  PROVE  /\ signIns[c] \in SignInType
         /\ signIns[c].pc \in {"confirm", "clear", "session", "failure", "code", "roles", "status",
                             "revoke"} => signIns[c].account \in Holders
         /\ signIns[c].pc \in {"failure", "code"} => signIns[c].failed \in Nat
         /\ signIns[c].pc = "code" => signIns[c].code \in Codes
         /\ signIns[c].pc \in {"create", "roles"} => signIns[c].super \in BOOLEAN
         /\ signIns[c].pc = "status" => signIns[c].to \in {"active", "disabled"}
  BY DEF AccountsTyped, SignInType

\* A call that goes on to a step it can be at keeps the form of the signIns.
LEMMA SignInsTyped ==
  ASSUME AccountsTyped, NEW c \in Callers, NEW call \in SignInType,
         signIns' = [signIns EXCEPT ![c] = call]
  PROVE  signIns' \in [Callers -> SignInType]
  BY DEF AccountsTyped

LEMMA SignInLeaves ==
  ASSUME AccountsTyped, NEW c \in Callers, Accts!Leave(c)
  PROVE  signIns' \in [Callers -> SignInType]
  BY DEF AccountsTyped, Accts!Leave, Accts!Idle, SignInType

LEMMA SignInBegins ==
  ASSUME AccountsTyped, NEW c \in Callers, Accts!Begin(c)
  PROVE  AccountsTyped'
<1>1. signIns' \in [Callers -> SignInType]
  <2>1. ASSUME NEW call \in SignInType, Accts!Become(c, call)
        PROVE  signIns' \in [Callers -> SignInType]
    BY <2>1, SignInsTyped DEF Accts!Become
  <2>2. CASE Accts!Bootstrap(c)
    BY <2>1, <2>2 DEF Accts!Bootstrap, SignInType
  <2>3. ASSUME NEW isSuper \in BOOLEAN, Accts!CreateAccount(c, isSuper)
        PROVE  signIns' \in [Callers -> SignInType]
    BY <2>1, <2>3 DEF Accts!CreateAccount, SignInType
  <2>4. ASSUME NEW a \in Holders, Accts!BeginConfirm(c, a)
        PROVE  signIns' \in [Callers -> SignInType]
    BY <2>1, <2>4 DEF Accts!BeginConfirm, SignInType
  <2>5. ASSUME NEW a \in Holders, Accts!Login(c, a)
        PROVE  signIns' \in [Callers -> SignInType]
    <3>1. failed[a] \in Nat
      BY DEF AccountsTyped
    <3> QED
      BY <2>1, <2>5, <3>1 DEF Accts!Login, SignInType
  <2>6. ASSUME NEW a \in Holders, NEW isSuper \in BOOLEAN, Accts!BeginReplaceRoles(c, a, isSuper)
        PROVE  signIns' \in [Callers -> SignInType]
    BY <2>1, <2>6 DEF Accts!BeginReplaceRoles, SignInType
  <2>7. ASSUME NEW a \in Holders, NEW by \in Holders, NEW to \in {"active", "disabled"},
               Accts!BeginSetStatus(c, by, a, to)
        PROVE  signIns' \in [Callers -> SignInType]
    BY <2>1, <2>7 DEF Accts!BeginSetStatus, SignInType
  <2> QED
    BY <2>2, <2>3, <2>4, <2>5, <2>6, <2>7 DEF Accts!Begin
<1>2. UNCHANGED <<Accts!identity, Accts!credentials>>
  BY DEF Accts!Begin, Accts!Bootstrap, Accts!CreateAccount, Accts!BeginConfirm, Accts!Login,
     Accts!BeginReplaceRoles, Accts!BeginSetStatus
<1> QED
  BY <1>1, <1>2 DEF AccountsTyped, Accts!identity, Accts!credentials

LEMMA SignInProceeds ==
  ASSUME AccountsTyped, NEW c \in Callers, Accts!Proceed(c)
  PROVE  AccountsTyped'
<1> DEFINE a == signIns[c].account
<1>1. signIns[c] \in SignInType
  BY SignInHolds
<1>2. ASSUME NEW n \in Holders, Accts!CreateAdminAccount(c, n) PROVE AccountsTyped'
  BY <1>2, SignInLeaves DEF Accts!CreateAdminAccount, Accts!credentials, AccountsTyped
<1>3. CASE Accts!ConfirmAdminEnrollment(c)
  <2>1. a \in Holders
    BY <1>3, SignInHolds DEF Accts!ConfirmAdminEnrollment
  <2>2. [pc |-> "session", account |-> a] \in SignInType
    BY <2>1 DEF SignInType
  <2>3. signIns' \in [Callers -> SignInType]
    BY <1>3, <2>2, SignInsTyped, SignInLeaves DEF Accts!ConfirmAdminEnrollment, Accts!Become
  <2> QED
    BY <1>3, <2>1, <2>3 DEF Accts!ConfirmAdminEnrollment, Accts!identity, Accts!credentials,
       AccountsTyped
<1>4. CASE Accts!ConsumeAdminRecoveryCode(c)
  <2>1. a \in Holders /\ signIns[c].code \in Codes /\ signIns[c].failed \in Nat
    BY <1>4, SignInHolds DEF Accts!ConsumeAdminRecoveryCode
  <2>2. /\ [pc |-> "clear", account |-> a] \in SignInType
        /\ [pc |-> "failure", account |-> a, failed |-> signIns[c].failed] \in SignInType
    BY <2>1 DEF SignInType
  <2>3. signIns' \in [Callers -> SignInType]
    BY <1>4, <2>2, SignInsTyped DEF Accts!ConsumeAdminRecoveryCode, Accts!Become
  <2>4. codes' \in [Holders -> SUBSET Codes]
    BY <1>4, <2>1 DEF Accts!ConsumeAdminRecoveryCode, AccountsTyped
  <2>5. accepted' \in [Holders -> [Codes -> Nat]]
    <3> DEFINE uses == [accepted[a] EXCEPT ![signIns[c].code] = @ + 1]
    <3>1. accepted[a] \in [Codes -> Nat] /\ accepted[a][signIns[c].code] + 1 \in Nat
      BY <2>1 DEF AccountsTyped
    <3>2. uses \in [Codes -> Nat]
      BY <2>1, <3>1
    <3>3. accepted' = accepted \/ accepted' = [accepted EXCEPT ![a] = uses]
      BY <1>4 DEF Accts!ConsumeAdminRecoveryCode
    <3> HIDE DEF uses
    <3> QED
      BY <2>1, <3>2, <3>3 DEF AccountsTyped
  <2> QED
    BY <1>4, <2>3, <2>4, <2>5 DEF Accts!ConsumeAdminRecoveryCode, Accts!identity, AccountsTyped
<1>5. CASE Accts!RecordAdminLoginFailure(c)
  <2>1. a \in Holders /\ signIns[c].failed + 1 \in Nat
    BY <1>5, SignInHolds DEF Accts!RecordAdminLoginFailure
  <2> QED
    BY <1>5, <2>1, SignInLeaves DEF Accts!RecordAdminLoginFailure, Accts!identity, AccountsTyped
<1>6. CASE Accts!ClearAdminLoginFailures(c)
  <2>1. [signIns[c] EXCEPT !.pc = "session"] \in SignInType
    BY <1>1, <1>6 DEF Accts!ClearAdminLoginFailures, SignInType
  <2>2. signIns' \in [Callers -> SignInType]
    BY <1>6, <2>1, SignInsTyped DEF Accts!ClearAdminLoginFailures, Accts!Goto
  <2> QED
    BY <1>6, <2>2, SignInHolds DEF Accts!ClearAdminLoginFailures, Accts!identity, AccountsTyped
<1>7. CASE Accts!CreateAdminSession(c)
  BY <1>7, SignInLeaves DEF Accts!CreateAdminSession, Accts!identity, Accts!credentials,
     AccountsTyped
<1>8. CASE Accts!ReplaceAdminAccountRoles(c)
  <2>1. a \in Holders
    BY <1>8, SignInHolds DEF Accts!ReplaceAdminAccountRoles
  <2>2. [signIns[c] EXCEPT !.pc = "revoke"] \in SignInType
    BY <1>1, <1>8 DEF Accts!ReplaceAdminAccountRoles, SignInType
  <2>3. signIns' \in [Callers -> SignInType]
    BY <1>8, <2>2, SignInsTyped, SignInLeaves DEF Accts!ReplaceAdminAccountRoles, Accts!Goto
  <2> QED
    BY <1>8, <2>1, <2>3 DEF Accts!ReplaceAdminAccountRoles, Accts!credentials, AccountsTyped
<1>9. CASE Accts!SetAdminAccountStatus(c)
  <2>1. a \in Holders /\ signIns[c].to \in {"active", "disabled"}
    BY <1>9, SignInHolds DEF Accts!SetAdminAccountStatus
  <2>2. [signIns[c] EXCEPT !.pc = "revoke"] \in SignInType
    BY <1>1, <1>9 DEF Accts!SetAdminAccountStatus, SignInType
  <2>3. signIns' \in [Callers -> SignInType]
    BY <1>9, <2>2, SignInsTyped, SignInLeaves DEF Accts!SetAdminAccountStatus, Accts!Goto
  <2> QED
    BY <1>9, <2>1, <2>3 DEF Accts!SetAdminAccountStatus, Accts!credentials, AccountsTyped
<1>10. CASE Accts!RevokeAdminAccountSessions(c)
  BY <1>10, SignInLeaves DEF Accts!RevokeAdminAccountSessions, Accts!identity,
     Accts!credentials, AccountsTyped
<1> QED
  BY <1>2, <1>3, <1>4, <1>5, <1>6, <1>7, <1>8, <1>9, <1>10 DEF Accts!Proceed

LEMMA AccountsStayTyped ==
  ASSUME AccountsTyped, [Accts!Next]_Accts!vars
  PROVE  AccountsTyped'
<1>1. ASSUME NEW c \in Callers, Accts!Crash(c) PROVE AccountsTyped'
  BY <1>1, SignInLeaves DEF Accts!Crash, Accts!identity, Accts!credentials, AccountsTyped
<1>2. ASSUME NEW a \in Holders, TimePasses(a)
      PROVE  AccountsTyped'
  BY <1>2 DEF TimePasses, Accts!SessionEnds, Accts!LockEnds, Accts!EnrollmentEnds,
     Accts!identity, Accts!credentials, AccountsTyped
<1>3. CASE UNCHANGED Accts!vars
  BY <1>3 DEF Accts!vars, Accts!identity, Accts!credentials, AccountsTyped
<1> QED
  BY <1>1, <1>2, <1>3, SignInBegins, SignInProceeds DEF TimePasses, Accts!Next

-----------------------------------------------------------------------------
(* Recovery codes.                                                           *)

\* The three steps that touch a status, a code or its use; every other leaves the
\* invariant alone.
LEMMA CodesKept ==
  ASSUME AccountsIInv, [Accts!Next]_Accts!vars
  PROVE  AccountsIInv'
<1>1. AccountsTyped'
  BY AccountsStayTyped DEF AccountsIInv
<1>2. CASE UNCHANGED <<status, codes, accepted>>
  BY <1>1, <1>2 DEF AccountsIInv, CodesComeLate, UsedUp, Accts!CodesOnce
<1>3. ASSUME NEW c \in Callers, NEW n \in Holders, Accts!CreateAdminAccount(c, n)
      PROVE  AccountsIInv'
  BY <1>1, <1>3 DEF Accts!CreateAdminAccount, Accts!Existing, Accts!credentials, AccountsIInv,
     AccountsTyped, CodesComeLate, UsedUp, Accts!CodesOnce
<1>4. ASSUME NEW c \in Callers, Accts!ConfirmAdminEnrollment(c),
             signIns[c].account \in enrollable, Accts!StillPending(signIns[c].account)
      PROVE  AccountsIInv'
  <2> DEFINE a == signIns[c].account
  <2>1. a \in Holders /\ status[a] = "pending" /\ status' = [status EXCEPT ![a] = "active"]
          /\ codes' = [codes EXCEPT ![a] = Codes] /\ UNCHANGED accepted
    BY <1>4, SignInHolds DEF Accts!ConfirmAdminEnrollment, Accts!StillPending, Accts!identity,
       AccountsIInv
  <2>2. \A r \in Codes : accepted[a][r] = 0
    BY <2>1 DEF AccountsIInv, CodesComeLate
  <2> HIDE DEF a
  <2> QED
    BY <1>1, <2>1, <2>2 DEF AccountsIInv, AccountsTyped, CodesComeLate, UsedUp, Accts!CodesOnce
<1>5. ASSUME NEW c \in Callers, Accts!ConsumeAdminRecoveryCode(c),
             Accts!Unused(signIns[c].account, signIns[c].code)
      PROVE  AccountsIInv'
  <2> DEFINE a == signIns[c].account
             r == signIns[c].code
  <2>1. /\ a \in Holders /\ r \in Codes /\ r \in codes[a] /\ UNCHANGED status
        /\ codes' = [codes EXCEPT ![a] = @ \ {r}]
        /\ accepted' = [accepted EXCEPT ![a][r] = @ + 1]
    BY <1>5, SignInHolds DEF Accts!ConsumeAdminRecoveryCode, Accts!Unused, Accts!identity,
       AccountsIInv
  <2>2. accepted[a][r] = 0 /\ status[a] \notin {"none", "pending"}
    BY <2>1 DEF AccountsIInv, UsedUp, CodesComeLate
  <2> HIDE DEF a, r
  <2>3. /\ accepted'[a][r] = 1 /\ r \notin codes'[a]
        /\ \A b \in Holders, q \in Codes : b # a \/ q # r =>
             accepted'[b][q] = accepted[b][q] /\ (q \in codes'[b] => q \in codes[b])
    BY <2>1, <2>2 DEF AccountsIInv, AccountsTyped
  <2>4. \A b \in Holders : b # a => codes'[b] = codes[b]
    BY <2>1 DEF AccountsIInv, AccountsTyped
  <2>5. CodesComeLate'
    BY <2>1, <2>2, <2>3, <2>4 DEF AccountsIInv, CodesComeLate
  <2>6. UsedUp' /\ Accts!CodesOnce'
    BY <2>1, <2>3 DEF AccountsIInv, UsedUp, Accts!CodesOnce
  <2> QED
    BY <1>1, <2>5, <2>6 DEF AccountsIInv
<1>6. ASSUME NEW c \in Callers, Accts!SetAdminAccountStatus(c) PROVE AccountsIInv'
  <2>1. signIns[c].to \in {"active", "disabled"} /\ UNCHANGED <<codes, accepted>>
    BY <1>6, SignInHolds DEF Accts!SetAdminAccountStatus, Accts!credentials, AccountsIInv
  <2>2. \A a \in Holders : status'[a] = status[a] \/ status'[a] \in {"active", "disabled"}
    BY <1>6, <2>1 DEF Accts!SetAdminAccountStatus, AccountsIInv, AccountsTyped
  <2> QED
    BY <1>1, <2>1, <2>2 DEF AccountsIInv, CodesComeLate, UsedUp, Accts!CodesOnce
<1>7. CASE UNCHANGED Accts!vars
  BY <1>2, <1>7 DEF Accts!vars, Accts!identity, Accts!credentials
<1>8. ASSUME NEW c \in Callers, Accts!Begin(c) PROVE AccountsIInv'
  BY <1>2, <1>8 DEF Accts!Begin, Accts!Bootstrap, Accts!CreateAccount, Accts!BeginConfirm,
     Accts!Login, Accts!BeginReplaceRoles, Accts!BeginSetStatus, Accts!identity,
     Accts!credentials
<1>9. ASSUME NEW c \in Callers, Accts!Proceed(c) PROVE AccountsIInv'
  <2>1. CASE Accts!ConfirmAdminEnrollment(c)
    BY <1>2, <1>4, <2>1 DEF Accts!ConfirmAdminEnrollment, Accts!identity, Accts!credentials
  <2>2. CASE Accts!ConsumeAdminRecoveryCode(c)
    BY <1>2, <1>5, <2>2 DEF Accts!ConsumeAdminRecoveryCode, Accts!identity
  <2>3. CASE \/ Accts!RecordAdminLoginFailure(c) \/ Accts!ClearAdminLoginFailures(c)
             \/ Accts!CreateAdminSession(c)
             \/ Accts!ReplaceAdminAccountRoles(c) \/ Accts!RevokeAdminAccountSessions(c)
    BY <1>2, <2>3 DEF Accts!RecordAdminLoginFailure, Accts!ClearAdminLoginFailures,
       Accts!CreateAdminSession, Accts!ReplaceAdminAccountRoles,
       Accts!RevokeAdminAccountSessions, Accts!identity, Accts!credentials
  <2> QED
    BY <1>3, <1>6, <1>9, <2>1, <2>2, <2>3 DEF Accts!Proceed
<1>10. ASSUME NEW c \in Callers, Accts!Crash(c) PROVE AccountsIInv'
  BY <1>2, <1>10 DEF Accts!Crash, Accts!identity, Accts!credentials
<1>11. ASSUME NEW a \in Holders, TimePasses(a)
       PROVE  AccountsIInv'
  BY <1>2, <1>11 DEF TimePasses, Accts!SessionEnds, Accts!LockEnds, Accts!EnrollmentEnds,
     Accts!identity, Accts!credentials
<1> QED
  BY <1>7, <1>8, <1>9, <1>10, <1>11 DEF TimePasses, Accts!Next

\* Rows and signIns keep their form; the codes of an account come with its enrollment,
\* before which none signs in, and one that has signed in is gone
\* (confirmAdminEnrollment, consumeAdminRecoveryCode).
THEOREM AccountsInvariant == Accts!Spec => []AccountsIInv
BY AccountsInit, CodesKept, PTL DEF Accts!Spec

\* No recovery code signs in twice, however many instances it is shown to at once.
THEOREM EachCodeOnce == Accts!Spec => []CodesOnce
<1>1. AccountsIInv => CodesOnce
  BY DEF AccountsIInv, CodesOnce
<1> QED
  BY <1>1, AccountsInvariant, PTL

-----------------------------------------------------------------------------
(* The last active super administrator.                                      *)

\* Only three steps take an account out of the active super administrators or put one
\* in, and what a call read when it began plays no part in them.
LEMMA SupersKept ==
  ASSUME AccountsTyped, [Accts!Next]_Accts!vars, Accts!ActiveSupers # {}
  PROVE  Accts!ActiveSupers' # {}
<1>1. CASE UNCHANGED <<status, super>>
  BY <1>1 DEF Accts!ActiveSupers
<1>2. ASSUME NEW c \in Callers, NEW n \in Holders, Accts!CreateAdminAccount(c, n)
      PROVE  Accts!ActiveSupers' # {}
  <2>1. status[n] = "none" /\ status' = [status EXCEPT ![n] = "pending"] /\ super \subseteq super'
    BY <1>2 DEF Accts!CreateAdminAccount, Accts!Existing
  <2>2. Accts!ActiveSupers \subseteq Accts!ActiveSupers'
    BY <2>1 DEF Accts!ActiveSupers, AccountsTyped
  <2> QED
    BY <2>2
<1>3. ASSUME NEW c \in Callers, Accts!ConfirmAdminEnrollment(c)
      PROVE  Accts!ActiveSupers' # {}
  <2>1. super' = super /\ \A a \in Holders : status[a] = "active" => status'[a] = "active"
    BY <1>3 DEF Accts!ConfirmAdminEnrollment, Accts!identity, AccountsTyped
  <2>2. Accts!ActiveSupers \subseteq Accts!ActiveSupers'
    BY <2>1 DEF Accts!ActiveSupers, AccountsTyped
  <2> QED
    BY <2>2
<1>4. ASSUME NEW c \in Callers, Accts!ReplaceAdminAccountRoles(c)
      PROVE  Accts!ActiveSupers' # {}
  <2> DEFINE a == signIns[c].account
  <2>1. UNCHANGED status
    BY <1>4 DEF Accts!ReplaceAdminAccountRoles
  <2>2. CASE UNCHANGED super
    BY <2>1, <2>2 DEF Accts!ActiveSupers
  <2>3. CASE super' = super \cup {a}
    BY <2>1, <2>3 DEF Accts!ActiveSupers
  <2>4. CASE super' = super \ {a} /\ a \notin Accts!ActiveSupers
    BY <2>1, <2>4 DEF Accts!ActiveSupers
  <2>5. CASE super' = super \ {a} /\ ~ Accts!NoAlternative(a)
    BY <2>1, <2>5 DEF Accts!ActiveSupers, Accts!NoAlternative
  <2> QED
    BY <1>4, <2>2, <2>3, <2>4, <2>5 DEF Accts!ReplaceAdminAccountRoles
<1>5. ASSUME NEW c \in Callers, Accts!SetAdminAccountStatus(c)
      PROVE  Accts!ActiveSupers' # {}
  <2> DEFINE a == signIns[c].account
  <2>1. UNCHANGED super
    BY <1>5 DEF Accts!SetAdminAccountStatus
  <2>2. CASE UNCHANGED status
    BY <2>1, <2>2 DEF Accts!ActiveSupers
  <2>3. CASE status' = [status EXCEPT ![a] = signIns[c].to] /\ signIns[c].to = "active"
    <3>1. Accts!ActiveSupers \subseteq Accts!ActiveSupers'
      BY <2>1, <2>3 DEF Accts!ActiveSupers, AccountsTyped
    <3> QED
      BY <3>1
  <2>4. CASE status' = [status EXCEPT ![a] = signIns[c].to] /\ a \notin Accts!ActiveSupers
    <3>1. Accts!ActiveSupers \subseteq Accts!ActiveSupers'
      BY <2>1, <2>4 DEF Accts!ActiveSupers, AccountsTyped
    <3> QED
      BY <3>1
  <2>5. CASE status' = [status EXCEPT ![a] = signIns[c].to] /\ ~ Accts!NoAlternative(a)
    <3>1. PICK b \in Accts!ActiveSupers : b # a
      BY <2>5 DEF Accts!NoAlternative
    <3> QED
      BY <2>1, <2>5, <3>1 DEF Accts!ActiveSupers, AccountsTyped
  <2> QED
    BY <1>5, <2>2, <2>3, <2>4, <2>5 DEF Accts!SetAdminAccountStatus
<1>6. CASE UNCHANGED Accts!vars
  BY <1>1, <1>6 DEF Accts!vars, Accts!identity
<1>7. ASSUME NEW c \in Callers, Accts!Begin(c) PROVE Accts!ActiveSupers' # {}
  BY <1>1, <1>7 DEF Accts!Begin, Accts!Bootstrap, Accts!CreateAccount, Accts!BeginConfirm,
     Accts!Login, Accts!BeginReplaceRoles, Accts!BeginSetStatus, Accts!identity
<1>8. ASSUME NEW c \in Callers, Accts!Proceed(c) PROVE Accts!ActiveSupers' # {}
  <2>1. CASE \/ Accts!RecordAdminLoginFailure(c) \/ Accts!ClearAdminLoginFailures(c)
             \/ Accts!CreateAdminSession(c)
             \/ Accts!ConsumeAdminRecoveryCode(c) \/ Accts!RevokeAdminAccountSessions(c)
    BY <1>1, <2>1 DEF Accts!RecordAdminLoginFailure, Accts!ClearAdminLoginFailures,
       Accts!CreateAdminSession, Accts!ConsumeAdminRecoveryCode,
       Accts!RevokeAdminAccountSessions, Accts!identity
  <2> QED
    BY <1>2, <1>3, <1>4, <1>5, <1>8, <2>1 DEF Accts!Proceed
<1>9. ASSUME NEW c \in Callers, Accts!Crash(c) PROVE Accts!ActiveSupers' # {}
  BY <1>1, <1>9 DEF Accts!Crash, Accts!identity
<1>10. ASSUME NEW a \in Holders, TimePasses(a)
       PROVE  Accts!ActiveSupers' # {}
  BY <1>1, <1>10 DEF TimePasses, Accts!SessionEnds, Accts!LockEnds, Accts!EnrollmentEnds,
     Accts!identity
<1> QED
  BY <1>6, <1>7, <1>8, <1>9, <1>10 DEF TimePasses, Accts!Next

\* Once there is an active super administrator there always is one, whatever signIns
\* change roles and statuses at once (setAdminAccountStatus,
\* replaceAdminAccountRoles).
THEOREM SuperStays == Accts!Spec => SuperPreserved
<1>1. AccountsIInv /\ [Accts!Next]_Accts!vars =>
        [Accts!ActiveSupers # {} => Accts!ActiveSupers' # {}]_Accts!vars
  BY SupersKept DEF AccountsIInv
<1> QED
  BY <1>1, AccountsInvariant, PTL DEF Accts!Spec, SuperPreserved, Accts!SuperPreserved
=============================================================================
