---------------------------- MODULE CreditLedger ----------------------------
(* The prepaid credit ledger of one enterprise account (one pair of          *)
(* customer and organization), as PostgresControlStore keeps it: the row of  *)
(* control_enterprise_credit_accounts, the rows of control_credit_holds and  *)
(* the append-only rows of control_credit_transactions.                      *)
(*                                                                           *)
(* Every operation of the store is one database transaction that holds the   *)
(* account row FOR UPDATE while it reads and writes, so each is one action.  *)
(* A transaction that rolls back, and a retry that finds the row of its own  *)
(* idempotency key and returns it, change nothing: they are stuttering       *)
(* steps.  `at' is the time the caller read from its own clock before the    *)
(* transaction began; several service instances share the database, so the   *)
(* readings reach the ledger in any order.                                   *)
(*                                                                           *)
(* An operator marked "Slip" is a variant of the one after it as a mistake   *)
(* would write it; no action uses it, and each property is known to notice   *)
(* one of them.                                                              *)
EXTENDS CreditTotals, Sequences

CONSTANTS
  Keys,         \* idempotency keys callers choose, which may be keys the service
                \* derives; also names holds, whose generated ids are one-to-one
                \* with the keys of their requests
  Receipts,     \* ids of signed execution receipts
  Refs,         \* what else a request identifies itself by when it is retried:
                \* deployment, module and referenceId
  Times,        \* clock readings
  MaxCredits,   \* the CHECK bound of every balance and the largest amount
  None          \* no hold, no reference

ASSUME KeysAssumption ==
  IsFiniteSet(Keys) /\ IsFiniteSet(Receipts) /\ None \notin Keys
ASSUME CreditsAssumption == MaxCredits \in Nat \ {0}
ASSUME TimesAssumption == Times \subseteq Int

VARIABLES
  account,      \* the balances
  holds,        \* [Keys -> hold], a hold per key of the request that created it
  ledger        \* the transaction rows, in commit order

vars == <<account, holds, ledger>>

Amounts == 1 .. MaxCredits

-----------------------------------------------------------------------------
\* The keys the service derives, from the hold it expires (`expiry:' and its
\* id) and the receipt it bills (`receipt:' and its id).  Nothing keeps callers
\* from using such a key themselves: the pattern of their keys allows it.
ExpiryKey(h) == <<"expiry", h>>
ReceiptKey(r) == <<"receipt", r>>

LedgerKeys ==
  Keys \cup {ExpiryKey(h) : h \in Keys} \cup {ReceiptKey(r) : r \in Receipts}

RowTypes == {"topup", "freeze", "capture", "release", "consume", "refund"}
ChargeTypes == {"consume", "capture"}

Account ==
  [available : 0 .. MaxCredits, frozen : 0 .. MaxCredits,
   toppedUp : 0 .. MaxCredits, consumed : 0 .. MaxCredits,
   refunded : 0 .. MaxCredits]

Hold ==
  [status : {"active", "captured", "released", "expired"},
   amount : Amounts, expiresAt : Int, ref : Refs]

NoSuchHold == [status |-> "none", amount |-> 0, expiresAt |-> 0, ref |-> None]

Row ==
  [type : RowTypes, key : LedgerKeys, availableDelta : Int, frozenDelta : Int,
   billed : 0 .. MaxCredits, availableAfter : 0 .. MaxCredits,
   frozenAfter : 0 .. MaxCredits, ref : Refs, hold : Keys \cup {None},
   related : Nat]

TypeOK ==
  /\ account \in Account
  /\ holds \in [Keys -> Hold \cup {NoSuchHold}]
  /\ ledger \in Seq(Row)

-----------------------------------------------------------------------------
Rows == 1 .. Len(ledger)

\* Slip: the key is not looked up.
UnusedUnchecked(key) == TRUE

\* No row of the account has this key: the lookup by idempotency key found
\* nothing, and the unique index will accept the row.
Unused(key) == \A i \in Rows : ledger[i].key # key

\* The CHECK constraints of the account table.
WithinLimits(acct) == acct \in Account

\* The row a transaction appends; its *After fields are the balances the
\* UPDATE of the account returned.
Entry(type, key, da, df, billed, ref, hold, related) ==
  [type |-> type, key |-> key, availableDelta |-> da, frozenDelta |-> df,
   billed |-> billed, availableAfter |-> account'.available,
   frozenAfter |-> account'.frozen, ref |-> ref, hold |-> hold,
   related |-> related]

\* SUM(billed_amount) of the refunds of row i.
RefundAmount(i) ==
  [j \in Rows |->
    IF ledger[j].type = "refund" /\ ledger[j].related = i THEN ledger[j].billed ELSE 0]
RefundedOf(i) == TotalOf(Rows, RefundAmount(i), MaxCredits)

\* Slip: earlier refunds of the charge are not counted.
RefundableAlone(i, amount) == amount <= ledger[i].billed

Refundable(i, amount) == RefundedOf(i) + amount <= ledger[i].billed

\* Slip: a released hold passes for an active one.
ActiveUnlessCaptured(h) == holds[h].status \notin {"none", "captured"}

Active(h) == holds[h].status = "active"

\* What a capture gives back of the held amount, or takes beyond it.
Remainder(held, amount) == held - amount

-----------------------------------------------------------------------------
Init ==
  /\ account = [available |-> 0, frozen |-> 0, toppedUp |-> 0,
                consumed |-> 0, refunded |-> 0]
  /\ holds = [k \in Keys |-> NoSuchHold]
  /\ ledger = <<>>

\* topUpCredits
TopUp(k, amount, ref) ==
  /\ Unused(k)
  /\ account' = [account EXCEPT !.available = @ + amount, !.toppedUp = @ + amount]
  /\ WithinLimits(account')
  /\ ledger' = Append(ledger,
       Entry("topup", k, amount, 0, 0, ref, None, 0))
  /\ UNCHANGED holds

\* createCreditHold: the lookup is by the key of a hold; a key some other row
\* has taken is refused by the unique index of the rows.
CreateHold(k, amount, ref, at, expiresAt) ==
  /\ expiresAt > at
  /\ holds[k] = NoSuchHold
  /\ account.available >= amount
  /\ Unused(k)
  /\ account' = [account EXCEPT !.available = @ - amount, !.frozen = @ + amount]
  /\ WithinLimits(account')
  /\ holds' = [holds EXCEPT ![k] =
       [status |-> "active", amount |-> amount, expiresAt |-> expiresAt, ref |-> ref]]
  /\ ledger' = Append(ledger,
       Entry("freeze", k, -amount, amount, 0, ref, k, 0))

\* captureCreditHold: the charge may be below the held amount, and the rest is
\* available again, or above it, and the excess comes from the available.
CaptureHold(h, k, amount, ref, at) ==
  LET held == holds[h].amount IN
  /\ Unused(k)
  /\ Active(h)
  /\ holds[h].expiresAt > at
  /\ account.available + Remainder(held, amount) >= 0
  /\ account' = [account EXCEPT !.available = @ + Remainder(held, amount),
                                !.frozen = @ - held,
                                !.consumed = @ + amount]
  /\ WithinLimits(account')
  /\ holds' = [holds EXCEPT ![h].status = "captured"]
  /\ ledger' = Append(ledger,
       Entry("capture", k, Remainder(held, amount), -held, amount, ref, h, 0))

\* releaseCreditHold, for both of its reasons.
ReleaseHold(h, key, reason) ==
  LET held == holds[h].amount IN
  /\ Unused(key)
  /\ Active(h)
  /\ account' = [account EXCEPT !.available = @ + held, !.frozen = @ - held]
  /\ WithinLimits(account')
  /\ holds' = [holds EXCEPT ![h].status = reason]
  /\ ledger' = Append(ledger,
       Entry("release", key, held, -held, 0, holds[h].ref, h, 0))

\* The deployment gives the hold up, before or after it expires.
Release(h, k) == ReleaseHold(h, k, "released")

\* The service returns a hold it listed as expired.
Expire(h, at) ==
  /\ holds[h].expiresAt <= at
  /\ ReleaseHold(h, ExpiryKey(h), "expired")

\* consumeCredits, and the debit of ingestExecutionReceipt: the same change
\* under a caller's key or under the receipt's.
Consume(key, amount, ref) ==
  /\ Unused(key)
  /\ account.available >= amount
  /\ account' = [account EXCEPT !.available = @ - amount, !.consumed = @ + amount]
  /\ WithinLimits(account')
  /\ ledger' = Append(ledger, Entry("consume", key, -amount, 0, amount, ref, None, 0))
  /\ UNCHANGED holds

\* refundCredits of the charge in row i.
Refund(i, k, amount, ref) ==
  /\ ledger[i].type \in ChargeTypes
  /\ Unused(k)
  /\ Refundable(i, amount)
  /\ account' = [account EXCEPT !.available = @ + amount, !.refunded = @ + amount]
  /\ WithinLimits(account')
  /\ ledger' = Append(ledger,
       Entry("refund", k, amount, 0, amount, ref, None, i))
  /\ UNCHANGED holds

\* The transactions of callers and of sweeps; the debits of receipts are the rest.
Bookings ==
  \/ \E k \in Keys, amount \in Amounts, ref \in Refs :
        \/ TopUp(k, amount, ref)
        \/ Consume(k, amount, ref)
        \/ \E at, expiresAt \in Times : CreateHold(k, amount, ref, at, expiresAt)
        \/ \E h \in Keys, at \in Times : CaptureHold(h, k, amount, ref, at)
        \/ \E i \in Rows : Refund(i, k, amount, ref)
  \/ \E h, k \in Keys : Release(h, k)
  \/ \E h \in Keys, at \in Times : Expire(h, at)

Next ==
  \/ Bookings
  \/ \E r \in Receipts, amount \in Amounts, ref \in Refs :
        Consume(ReceiptKey(r), amount, ref)

Spec == Init /\ [][Next]_vars

-----------------------------------------------------------------------------
\* Correctness.

\* The ledger is the source of truth (README, "Credits and billing"): each row
\* records the balances of the row before it changed by its own deltas, and
\* the balances kept in the account row for fast reads are those of the last.
AvailableBefore(i) == IF i = 1 THEN 0 ELSE ledger[i - 1].availableAfter
FrozenBefore(i) == IF i = 1 THEN 0 ELSE ledger[i - 1].frozenAfter

LedgerIsTruth ==
  /\ \A i \in Rows :
       /\ ledger[i].availableAfter = AvailableBefore(i) + ledger[i].availableDelta
       /\ ledger[i].frozenAfter = FrozenBefore(i) + ledger[i].frozenDelta
  /\ account.available = AvailableBefore(Len(ledger) + 1)
  /\ account.frozen = FrozenBefore(Len(ledger) + 1)

\* The five columns of the account agree: what is left is what was paid in,
\* less what was charged, plus what was given back.
TotalsReconcile ==
  account.available + account.frozen
    = account.toppedUp - account.consumed + account.refunded

\* The frozen balance is backed, credit for credit, by the active holds.
HeldAmount ==
  [k \in Keys |-> IF holds[k].status = "active" THEN holds[k].amount ELSE 0]

FrozenBacksHolds == account.frozen = TotalOf(Keys, HeldAmount, MaxCredits)

\* A hold is settled at most once, whichever of capture, release and the expiry
\* sweep gets to it first: while it is active no row settles it, and afterwards
\* exactly one does, of the type its status tells, for the whole held amount.
SettlesHold(i, h) == ledger[i].type \in {"capture", "release"} /\ ledger[i].hold = h

SettledOnce ==
  \A h \in Keys :
    /\ holds[h].status \in {"none", "active"} => \A i \in Rows : ~ SettlesHold(i, h)
    /\ holds[h].status \in {"captured", "released", "expired"} =>
         \E i \in Rows :
           /\ SettlesHold(i, h)
           /\ \A j \in Rows : SettlesHold(j, h) => j = i
           /\ ledger[i].frozenDelta = -holds[h].amount
           /\ ledger[i].type = IF holds[h].status = "captured" THEN "capture" ELSE "release"

\* "Cumulative refunds cannot exceed its billed amount" (README), whatever
\* number of refunds under whatever keys name the charge.
RefundsBounded ==
  \A i \in Rows : ledger[i].type \in ChargeTypes => RefundedOf(i) <= ledger[i].billed

\* The return of a held amount never breaks the limit of the available balance:
\* a transaction that did would fail on every attempt, and the expiry sweep
\* with it, which every read of the account runs first.
ReleaseNeverBlocked ==
  \A h \in Keys :
    holds[h].status = "active" => account.available + holds[h].amount <= MaxCredits

-----------------------------------------------------------------------------
\* The account as a client sees it: where each credit is.
HasCharge(key) == \E i \in Rows : ledger[i].key = key /\ ledger[i].type \in ChargeTypes
ChargeOf(key) == CHOOSE i \in Rows : ledger[i].key = key

Outstanding ==
  [key \in LedgerKeys |->
    IF HasCharge(key) THEN ledger[ChargeOf(key)].billed - RefundedOf(ChargeOf(key)) ELSE 0]

Prepaid == INSTANCE PrepaidAccount WITH
  Reservations <- Keys, Charges <- LedgerKeys,
  deposited <- account.toppedUp, free <- account.available,
  reserved <- HeldAmount, spent <- Outstanding

\* Every step of the ledger moves credits the way a prepaid account may: none
\* is created but by a top-up, and none is in two places.
PrepaidSpec == Prepaid!Spec
=============================================================================
