------------------------ MODULE BillingServiceProofs -------------------------
(* Theorems about CreditLedger and about BillingService over it, for every   *)
(* set of keys and callers, every limit, every order of clock readings and   *)
(* any number of crashes: first the ledger's own, then that the service      *)
(* implements the ledger and audits what it is to audit.                     *)
EXTENDS BillingService, FiniteSetTheorems, TLAPS

-----------------------------------------------------------------------------
(* The algebra of CreditTotals: what a sum is when all summands are zero,    *)
(* when one summand changes, and when a summand is added.                    *)

\* The parts of one summand are a copy of 1 .. f[x].
LEMMA ColumnSize ==
  ASSUME NEW x, NEW n \in Nat
  PROVE  IsFiniteSet({x} \X (1 .. n)) /\ Cardinality({x} \X (1 .. n)) = n
<1>1. IsFiniteSet({x}) /\ Cardinality({x}) = 1
  BY FS_Singleton
<1>2. IsFiniteSet(1 .. n) /\ Cardinality(1 .. n) = n
  BY FS_Interval
<1>3. /\ IsFiniteSet({x} \X (1 .. n))
      /\ Cardinality({x} \X (1 .. n)) = Cardinality({x}) * Cardinality(1 .. n)
  <2>1. ASSUME NEW T, IsFiniteSet(T)
        PROVE  /\ IsFiniteSet({x} \X T)
               /\ Cardinality({x} \X T) = Cardinality({x}) * Cardinality(T)
    BY <1>1, <2>1, FS_Product, Zenon
  <2> QED
    BY <1>2, <2>1, Zenon
<1>4. 1 * n = n
  OBVIOUS
<1> QED
  BY <1>1, <1>2, <1>3, <1>4, Zenon

\* A sum over a finite set is a natural number.
LEMMA PartsFinite ==
  ASSUME NEW S, IsFiniteSet(S), NEW max \in Nat, NEW f
  PROVE  IsFiniteSet(Parts(S, f, max)) /\ TotalOf(S, f, max) \in Nat
<1>0. IsFiniteSet(1 .. max)
  BY FS_Interval
<1>1. IsFiniteSet(S \X (1 .. max))
  BY <1>0, FS_Product, Zenon
<1>2. Parts(S, f, max) \in SUBSET (S \X (1 .. max))
  BY DEF Parts
<1>3. IsFiniteSet(Parts(S, f, max))
  BY <1>1, <1>2, FS_Subset
<1> QED
  BY <1>3, FS_CardinalityType DEF TotalOf

\* Nothing is counted where every summand is zero.
LEMMA TotalOfZero ==
  ASSUME NEW S, NEW max \in Nat, NEW f, \A s \in S : f[s] = 0
  PROVE  TotalOf(S, f, max) = 0
<1>1. Parts(S, f, max) = {}
  BY DEF Parts
<1> QED
  BY <1>1, FS_EmptySet DEF TotalOf

\* Functions that agree on S have the same sum.
LEMMA TotalOfSame ==
  ASSUME NEW S, NEW max \in Nat, NEW f, NEW g, \A s \in S : g[s] = f[s]
  PROVE  TotalOf(S, g, max) = TotalOf(S, f, max)
<1>1. Parts(S, g, max) = Parts(S, f, max)
  BY DEF Parts
<1> QED
  BY <1>1 DEF TotalOf

\* The sum over S and one more summand.
LEMMA TotalOfAdded ==
  ASSUME NEW S, IsFiniteSet(S), NEW max \in Nat, NEW f, NEW x, x \notin S,
         f[x] \in 0 .. max
  PROVE  TotalOf(S \cup {x}, f, max) = TotalOf(S, f, max) + f[x]
<1> DEFINE Column == {x} \X (1 .. f[x])
<1>1. Parts(S \cup {x}, f, max) = Parts(S, f, max) \cup Column
  <2>1. ASSUME NEW su \in (S \cup {x}) \X (1 .. max), su[2] <= f[su[1]]
        PROVE  su \in Parts(S, f, max) \cup Column
    <3>1. CASE su[1] \in S
      BY <2>1, <3>1 DEF Parts
    <3>2. CASE su[1] = x
      BY <2>1, <3>2
    <3> QED
      BY <2>1, <3>1, <3>2
  <2>2. ASSUME NEW su \in Column
        PROVE  su \in Parts(S \cup {x}, f, max)
    BY <2>2 DEF Parts
  <2>3. Parts(S, f, max) \subseteq Parts(S \cup {x}, f, max)
    BY DEF Parts
  <2> QED
    BY <2>1, <2>2, <2>3 DEF Parts
<1>2. Parts(S, f, max) \cap Column = {}
  BY DEF Parts
<1>3. IsFiniteSet(Column) /\ Cardinality(Column) = f[x]
  <2>1. f[x] \in Nat
    OBVIOUS
  <2> QED
    BY <2>1, ColumnSize
<1>4. IsFiniteSet(Parts(S, f, max)) /\ TotalOf(S, f, max) \in Nat
  BY PartsFinite
<1>5. Cardinality(Parts(S, f, max) \cup Column)
        = Cardinality(Parts(S, f, max)) + Cardinality(Column)
            - Cardinality(Parts(S, f, max) \cap Column)
  BY <1>3, <1>4, FS_Union
<1>6. Cardinality(Parts(S, f, max) \cap Column) = 0
  BY <1>2, FS_EmptySet
<1>7. TotalOf(S \cup {x}, f, max) = Cardinality(Parts(S, f, max) \cup Column)
  BY <1>1 DEF TotalOf
<1> HIDE DEF Column
<1> QED
  BY <1>3, <1>4, <1>5, <1>6, <1>7 DEF TotalOf

\* The sum after one summand changed.
LEMMA TotalOfChanged ==
  ASSUME NEW S, IsFiniteSet(S), NEW max \in Nat, NEW f, NEW g, NEW x \in S,
         f[x] \in 0 .. max, g[x] \in 0 .. max,
         \A s \in S \ {x} : g[s] = f[s]
  PROVE  TotalOf(S, g, max) = TotalOf(S, f, max) - f[x] + g[x]
<1> DEFINE R == S \ {x}
<1>1. IsFiniteSet(R) /\ x \notin R /\ R \cup {x} = S
  BY FS_RemoveElement
<1>2. TotalOf(R, g, max) = TotalOf(R, f, max)
  BY TotalOfSame
<1>3. TotalOf(S, f, max) = TotalOf(R, f, max) + f[x]
  BY <1>1, TotalOfAdded
<1>4. TotalOf(S, g, max) = TotalOf(R, g, max) + g[x]
  BY <1>1, TotalOfAdded
<1>5. TotalOf(R, f, max) \in Nat
  BY <1>1, PartsFinite
<1> QED
  BY <1>2, <1>3, <1>4, <1>5

\* No summand exceeds the sum.
LEMMA TotalOfBounds ==
  ASSUME NEW S, IsFiniteSet(S), NEW max \in Nat, NEW f, NEW x \in S,
         f[x] \in 0 .. max
  PROVE  f[x] <= TotalOf(S, f, max)
<1> DEFINE R == S \ {x}
<1>1. IsFiniteSet(R) /\ x \notin R /\ R \cup {x} = S
  BY FS_RemoveElement
<1>2. TotalOf(S, f, max) = TotalOf(R, f, max) + f[x]
  BY <1>1, TotalOfAdded
<1>3. TotalOf(R, f, max) \in Nat
  BY <1>1, PartsFinite
<1> QED
  BY <1>2, <1>3

-----------------------------------------------------------------------------
(* What every committed transaction does: it appends one row and changes the *)
(* balances by the row's deltas and the totals by the row's type.            *)

OnType(row, types, n) == IF row.type \in types THEN n ELSE 0

Posted(row) ==
  /\ row \in Row
  /\ account' \in Account
  /\ ledger' = Append(ledger, row)
  /\ Unused(row.key)
  /\ account'.available = account.available + row.availableDelta
  /\ account'.frozen = account.frozen + row.frozenDelta
  /\ row.availableAfter = account'.available
  /\ row.frozenAfter = account'.frozen
  /\ account'.toppedUp = account.toppedUp + OnType(row, {"topup"}, row.availableDelta)
  /\ account'.consumed = account.consumed + OnType(row, ChargeTypes, row.billed)
  /\ account'.refunded = account.refunded + OnType(row, {"refund"}, row.billed)
  /\ row.availableDelta + row.frozenDelta
       = OnType(row, {"topup"}, row.availableDelta) - OnType(row, ChargeTypes, row.billed)
           + OnType(row, {"refund"}, row.billed)

\* The four ways in which a row and the holds change together.
Moves(row) ==
  /\ row.type \in {"topup", "consume"} /\ row.hold = None /\ row.frozenDelta = 0
  /\ row.type = "topup" => row.availableDelta \in Amounts
  /\ holds' = holds

Freezes(row, k) ==
  /\ row.type = "freeze" /\ row.hold = k /\ row.key = k
  /\ holds[k] = NoSuchHold
  /\ row.frozenDelta \in Amounts
  /\ \E new \in Hold :
       new.status = "active" /\ new.amount = row.frozenDelta
         /\ holds' = [holds EXCEPT ![k] = new]

Settles(row, h) ==
  /\ row.type \in {"capture", "release"} /\ row.hold = h
  /\ holds[h].status = "active"
  /\ row.frozenDelta = -holds[h].amount
  /\ \E new \in Hold :
       /\ new.status \in {"captured", "released", "expired"}
       /\ new.amount = holds[h].amount
       /\ row.type = IF new.status = "captured" THEN "capture" ELSE "release"
       /\ holds' = [holds EXCEPT ![h] = new]

Refunds(row, i) ==
  /\ row.type = "refund" /\ row.hold = None /\ row.frozenDelta = 0 /\ row.related = i
  /\ ledger[i].type \in ChargeTypes
  /\ RefundedOf(i) + row.billed <= ledger[i].billed
  /\ holds' = holds

\* The rows after a row was appended.
LEMMA Appended ==
  ASSUME ledger \in Seq(Row), NEW row \in Row, ledger' = Append(ledger, row)
  PROVE  /\ ledger' \in Seq(Row)
         /\ Len(ledger) \in Nat
         /\ Len(ledger') = Len(ledger) + 1
         /\ \A i \in Rows : ledger'[i] = ledger[i]
         /\ ledger'[Len(ledger) + 1] = row
         /\ Rows' = Rows \cup {Len(ledger) + 1}
         /\ Len(ledger) + 1 \notin Rows
  BY DEF Rows

\* What is known of an active hold.
LEMMA HoldFacts ==
  ASSUME TypeOK, NEW h \in Keys, holds[h].status = "active"
  PROVE  /\ holds[h] \in Hold
         /\ holds[h].amount \in Amounts
         /\ holds[h].ref \in Refs
  BY DEF TypeOK, Hold, NoSuchHold

\* The row Entry makes, for arguments in range.
LEMMA EntryIsRow ==
  ASSUME account' \in Account,
         NEW type \in RowTypes, NEW key \in LedgerKeys, NEW da \in Int, NEW df \in Int,
         NEW billed \in 0 .. MaxCredits, NEW ref \in Refs, NEW hold \in Keys \cup {None},
         NEW related \in Nat
  PROVE  Entry(type, key, da, df, billed, ref, hold, related) \in Row
<1>1. account'.available \in 0 .. MaxCredits /\ account'.frozen \in 0 .. MaxCredits
  BY DEF Account
<1> QED
  BY <1>1 DEF Entry, Row

\* The keys of the rows, whoever chooses them.
LEMMA KeysAreLedgerKeys ==
  /\ \A k \in Keys : k \in LedgerKeys /\ ExpiryKey(k) \in LedgerKeys
  /\ \A r \in Receipts : ReceiptKey(r) \in LedgerKeys
  BY DEF LedgerKeys

\* A top-up posts its amount as available.
LEMMA TopUpPosts ==
  ASSUME TypeOK, NEW k \in Keys, NEW amount \in Amounts, NEW ref \in Refs,
         TopUp(k, amount, ref)
  PROVE  \E row : Posted(row) /\ Moves(row)
<1> DEFINE row == Entry("topup", k, amount, 0, 0,
                        ref, None, 0)
<1>1. account' \in Account
  BY DEF TopUp, WithinLimits
<1>2. /\ amount \in Int /\ -amount \in Int /\ amount \in 0 .. MaxCredits /\ 0 \in 0 .. MaxCredits
  BY CreditsAssumption DEF Amounts
<1>3. /\ account.available \in Int /\ account.frozen \in Int /\ account.toppedUp \in Int
      /\ account.consumed \in Int /\ account.refunded \in Int
  BY DEF TypeOK, Account
<1>4. row \in Row
  <2>1. /\ "topup" \in RowTypes /\ k \in LedgerKeys
        /\ None \in Keys \cup {None} /\ 0 \in Int /\ 0 \in Nat
    BY KeysAreLedgerKeys DEF RowTypes
  <2> QED
    BY <1>1, <1>2, <2>1, EntryIsRow
<1>5. /\ row.type = "topup" /\ row.key = k
      /\ row.availableDelta = amount /\ row.frozenDelta = 0
      /\ row.billed = 0
      /\ row.availableAfter = account'.available /\ row.frozenAfter = account'.frozen
      /\ row.hold = None /\ row.related = 0
  BY DEF Entry
<1>6. /\ account'.available = account.available + amount
      /\ account'.toppedUp = account.toppedUp + amount
      /\ account'.frozen = account.frozen + 0
      /\ account'.consumed = account.consumed + 0
      /\ account'.refunded = account.refunded + 0
  BY <1>2, <1>3 DEF TopUp, TypeOK, Account
<1>7. ledger' = Append(ledger, row) /\ Unused(row.key)
  BY <1>5 DEF TopUp
<1>8. Moves(row)
  BY <1>5 DEF TopUp, Moves
<1> HIDE DEF row
<1>9. Posted(row)
  BY <1>1, <1>2, <1>4, <1>5, <1>6, <1>3, <1>7 DEF Posted, OnType, ChargeTypes
<1> QED
  BY <1>9, <1>8

\* A new hold posts a freeze of its amount.
LEMMA CreateHoldPosts ==
  ASSUME TypeOK, NEW k \in Keys, NEW amount \in Amounts, NEW ref \in Refs,
         NEW at \in Times, NEW expiresAt \in Times,
         CreateHold(k, amount, ref, at, expiresAt)
  PROVE  \E row : Posted(row) /\ Freezes(row, k)
<1> DEFINE row == Entry("freeze", k, -amount, amount, 0,
                        ref, k, 0)
<1>1. account' \in Account
  BY DEF CreateHold, WithinLimits
<1>2. /\ amount \in Int /\ -amount \in Int /\ amount \in 0 .. MaxCredits /\ 0 \in 0 .. MaxCredits
  BY CreditsAssumption DEF Amounts
<1>3. /\ account.available \in Int /\ account.frozen \in Int /\ account.toppedUp \in Int
      /\ account.consumed \in Int /\ account.refunded \in Int
  BY DEF TypeOK, Account
<1>4. row \in Row
  <2>1. /\ "freeze" \in RowTypes /\ k \in LedgerKeys
        /\ k \in Keys \cup {None} /\ 0 \in Int /\ 0 \in Nat
    BY KeysAreLedgerKeys DEF RowTypes
  <2> QED
    BY <1>1, <1>2, <2>1, EntryIsRow
<1>5. /\ row.type = "freeze" /\ row.key = k
      /\ row.availableDelta = -amount /\ row.frozenDelta = amount
      /\ row.billed = 0
      /\ row.availableAfter = account'.available /\ row.frozenAfter = account'.frozen
      /\ row.hold = k /\ row.related = 0
  BY DEF Entry
<1>6. /\ account'.available = account.available + (-amount)
      /\ account'.toppedUp = account.toppedUp + 0
      /\ account'.frozen = account.frozen + amount
      /\ account'.consumed = account.consumed + 0
      /\ account'.refunded = account.refunded + 0
  BY <1>2, <1>3 DEF CreateHold, TypeOK, Account
<1>7. ledger' = Append(ledger, row) /\ Unused(row.key)
  BY <1>5 DEF CreateHold
<1>8. Freezes(row, k)
  <2> DEFINE new == [status |-> "active", amount |-> amount, expiresAt |-> expiresAt, ref |-> ref]
  <2>1. new \in Hold /\ new.status = "active" /\ new.amount = amount
    BY TimesAssumption DEF Hold
  <2>2. holds' = [holds EXCEPT ![k] = new] /\ holds[k] = NoSuchHold
    BY DEF CreateHold
  <2> HIDE DEF new
  <2> QED
    BY <1>5, <2>1, <2>2 DEF Freezes
<1> HIDE DEF row
<1>9. Posted(row)
  BY <1>1, <1>2, <1>4, <1>5, <1>6, <1>3, <1>7 DEF Posted, OnType, ChargeTypes
<1> QED
  BY <1>9, <1>8

\* A capture posts the charge, and unfreezes the whole held amount.
LEMMA CaptureHoldPosts ==
  ASSUME TypeOK, NEW h \in Keys, NEW k \in Keys, NEW amount \in Amounts, NEW ref \in Refs,
         NEW at \in Times,
         CaptureHold(h, k, amount, ref, at)
  PROVE  \E row : Posted(row) /\ Settles(row, h)
<1> DEFINE row == Entry("capture", k, holds[h].amount - amount, -holds[h].amount, amount,
                        ref, h, 0)
<1>1. account' \in Account
  BY DEF CaptureHold, WithinLimits
<1>2. holds[h] \in Hold /\ holds[h].amount \in Amounts /\ holds[h].ref \in Refs
  BY HoldFacts DEF CaptureHold, Active
<1>3. /\ holds[h].amount \in Int /\ -holds[h].amount \in Int /\ 0 \in 0 .. MaxCredits
  BY <1>2, CreditsAssumption DEF Amounts
<1>4. /\ amount \in Int /\ holds[h].amount - amount \in Int /\ amount \in 0 .. MaxCredits
  BY <1>2, CreditsAssumption DEF Amounts
<1>5. /\ account.available \in Int /\ account.frozen \in Int /\ account.toppedUp \in Int
      /\ account.consumed \in Int /\ account.refunded \in Int
  BY DEF TypeOK, Account
<1>6. row \in Row
  <2>1. /\ "capture" \in RowTypes /\ k \in LedgerKeys
        /\ h \in Keys \cup {None} /\ 0 \in Int /\ 0 \in Nat
    BY KeysAreLedgerKeys DEF RowTypes
  <2> QED
    BY <1>1, <1>3, <1>2, <1>4, <2>1, EntryIsRow
<1>7. /\ row.type = "capture" /\ row.key = k
      /\ row.availableDelta = holds[h].amount - amount /\ row.frozenDelta = -holds[h].amount
      /\ row.billed = amount
      /\ row.availableAfter = account'.available /\ row.frozenAfter = account'.frozen
      /\ row.hold = h /\ row.related = 0
  BY DEF Entry
<1>8. /\ account'.available = account.available + (holds[h].amount - amount)
      /\ account'.toppedUp = account.toppedUp + 0
      /\ account'.frozen = account.frozen + (-holds[h].amount)
      /\ account'.consumed = account.consumed + amount
      /\ account'.refunded = account.refunded + 0
  <2>1. PICK held, rest : held = holds[h].amount /\ rest = held - amount
    OBVIOUS
  <2>2. held \in Int /\ rest \in Int
    BY <1>3, <1>4, <2>1
  <2>3. account' = [account EXCEPT !.available = @ + rest, !.frozen = @ - held,
                                   !.consumed = @ + amount]
    BY <2>1 DEF CaptureHold, Remainder
  <2>4. /\ account'.available = account.available + rest
        /\ account'.toppedUp = account.toppedUp
        /\ account'.frozen = account.frozen - held
        /\ account'.consumed = account.consumed + amount
        /\ account'.refunded = account.refunded
    BY <2>3 DEF TypeOK, Account
  <2> QED
    BY <1>5, <2>1, <2>2, <2>4
<1>9. ledger' = Append(ledger, row) /\ Unused(row.key)
  BY <1>7 DEF CaptureHold, Remainder
<1>10. Settles(row, h)
  <2> DEFINE new == [holds[h] EXCEPT !.status = "captured"]
  <2>1. new \in Hold /\ new.status = "captured" /\ new.amount = holds[h].amount
    BY <1>2 DEF Hold
  <2>2. holds' = [holds EXCEPT ![h] = new] /\ holds[h].status = "active"
    BY DEF CaptureHold, Active
  <2> HIDE DEF new
  <2> QED
    BY <1>7, <2>1, <2>2 DEF Settles
<1> HIDE DEF row
<1>11. Posted(row)
  BY <1>1, <1>3, <1>4, <1>6, <1>7, <1>8, <1>5, <1>9 DEF Posted, OnType, ChargeTypes
<1> QED
  BY <1>11, <1>10

\* A release, for either reason, posts the return of the whole held amount.
LEMMA ReleaseHoldPosts ==
  ASSUME TypeOK, NEW h \in Keys, NEW key \in LedgerKeys, NEW reason \in {"released", "expired"},
         ReleaseHold(h, key, reason)
  PROVE  \E row : Posted(row) /\ Settles(row, h)
<1> DEFINE row == Entry("release", key, holds[h].amount, -holds[h].amount, 0,
                        holds[h].ref, h, 0)
<1>1. account' \in Account
  BY DEF ReleaseHold, WithinLimits
<1>2. holds[h] \in Hold /\ holds[h].amount \in Amounts /\ holds[h].ref \in Refs
  BY HoldFacts DEF ReleaseHold, Active
<1>3. /\ holds[h].amount \in Int /\ -holds[h].amount \in Int /\ 0 \in 0 .. MaxCredits
  BY <1>2, CreditsAssumption DEF Amounts
<1>4. /\ account.available \in Int /\ account.frozen \in Int /\ account.toppedUp \in Int
      /\ account.consumed \in Int /\ account.refunded \in Int
  BY DEF TypeOK, Account
<1>5. row \in Row
  <2>1. /\ "release" \in RowTypes /\ key \in LedgerKeys
        /\ h \in Keys \cup {None} /\ 0 \in Int /\ 0 \in Nat
    BY KeysAreLedgerKeys DEF RowTypes
  <2> QED
    BY <1>1, <1>3, <1>2, <2>1, EntryIsRow
<1>6. /\ row.type = "release" /\ row.key = key
      /\ row.availableDelta = holds[h].amount /\ row.frozenDelta = -holds[h].amount
      /\ row.billed = 0
      /\ row.availableAfter = account'.available /\ row.frozenAfter = account'.frozen
      /\ row.hold = h /\ row.related = 0
  BY DEF Entry
<1>7. /\ account'.available = account.available + holds[h].amount
      /\ account'.toppedUp = account.toppedUp + 0
      /\ account'.frozen = account.frozen + (-holds[h].amount)
      /\ account'.consumed = account.consumed + 0
      /\ account'.refunded = account.refunded + 0
  BY <1>3, <1>4 DEF ReleaseHold, TypeOK, Account
<1>8. ledger' = Append(ledger, row) /\ Unused(row.key)
  BY <1>6 DEF ReleaseHold
<1>9. Settles(row, h)
  <2> DEFINE new == [holds[h] EXCEPT !.status = reason]
  <2>1. new \in Hold /\ new.status = reason /\ new.amount = holds[h].amount
    BY <1>2 DEF Hold
  <2>2. holds' = [holds EXCEPT ![h] = new] /\ holds[h].status = "active"
    BY DEF ReleaseHold, Active
  <2> HIDE DEF new
  <2> QED
    BY <1>6, <2>1, <2>2 DEF Settles
<1> HIDE DEF row
<1>10. Posted(row)
  BY <1>1, <1>3, <1>5, <1>6, <1>7, <1>4, <1>8 DEF Posted, OnType, ChargeTypes
<1> QED
  BY <1>10, <1>9

\* A direct charge posts its amount.
LEMMA ConsumePosts ==
  ASSUME TypeOK, NEW key \in LedgerKeys, NEW amount \in Amounts, NEW ref \in Refs,
         Consume(key, amount, ref)
  PROVE  \E row : Posted(row) /\ Moves(row)
<1> DEFINE row == Entry("consume", key, -amount, 0, amount,
                        ref, None, 0)
<1>1. account' \in Account
  BY DEF Consume, WithinLimits
<1>2. /\ amount \in Int /\ -amount \in Int /\ amount \in 0 .. MaxCredits /\ 0 \in 0 .. MaxCredits
  BY CreditsAssumption DEF Amounts
<1>3. /\ account.available \in Int /\ account.frozen \in Int /\ account.toppedUp \in Int
      /\ account.consumed \in Int /\ account.refunded \in Int
  BY DEF TypeOK, Account
<1>4. row \in Row
  <2>1. /\ "consume" \in RowTypes /\ key \in LedgerKeys
        /\ None \in Keys \cup {None} /\ 0 \in Int /\ 0 \in Nat
    BY KeysAreLedgerKeys DEF RowTypes
  <2> QED
    BY <1>1, <1>2, <2>1, EntryIsRow
<1>5. /\ row.type = "consume" /\ row.key = key
      /\ row.availableDelta = -amount /\ row.frozenDelta = 0
      /\ row.billed = amount
      /\ row.availableAfter = account'.available /\ row.frozenAfter = account'.frozen
      /\ row.hold = None /\ row.related = 0
  BY DEF Entry
<1>6. /\ account'.available = account.available + (-amount)
      /\ account'.toppedUp = account.toppedUp + 0
      /\ account'.frozen = account.frozen + 0
      /\ account'.consumed = account.consumed + amount
      /\ account'.refunded = account.refunded + 0
  BY <1>2, <1>3 DEF Consume, TypeOK, Account
<1>7. ledger' = Append(ledger, row) /\ Unused(row.key)
  BY <1>5 DEF Consume
<1>8. Moves(row)
  BY <1>5 DEF Consume, Moves
<1> HIDE DEF row
<1>9. Posted(row)
  BY <1>1, <1>2, <1>4, <1>5, <1>6, <1>3, <1>7 DEF Posted, OnType, ChargeTypes
<1> QED
  BY <1>9, <1>8

\* A refund posts its amount against a charge that still covers it.
LEMMA RefundPosts ==
  ASSUME TypeOK, NEW i \in Rows, NEW k \in Keys, NEW amount \in Amounts, NEW ref \in Refs,
         Refund(i, k, amount, ref)
  PROVE  \E row : Posted(row) /\ Refunds(row, i)
<1> DEFINE row == Entry("refund", k, amount, 0, amount,
                        ref, None, i)
<1>1. account' \in Account
  BY DEF Refund, WithinLimits
<1>2. /\ amount \in Int /\ -amount \in Int /\ amount \in 0 .. MaxCredits /\ 0 \in 0 .. MaxCredits
  BY CreditsAssumption DEF Amounts
<1>3. /\ account.available \in Int /\ account.frozen \in Int /\ account.toppedUp \in Int
      /\ account.consumed \in Int /\ account.refunded \in Int
  BY DEF TypeOK, Account
<1>4. row \in Row
  <2>1. /\ "refund" \in RowTypes /\ k \in LedgerKeys
        /\ None \in Keys \cup {None} /\ 0 \in Int /\ i \in Nat
    BY KeysAreLedgerKeys DEF RowTypes, Rows
  <2> QED
    BY <1>1, <1>2, <2>1, EntryIsRow
<1>5. /\ row.type = "refund" /\ row.key = k
      /\ row.availableDelta = amount /\ row.frozenDelta = 0
      /\ row.billed = amount
      /\ row.availableAfter = account'.available /\ row.frozenAfter = account'.frozen
      /\ row.hold = None /\ row.related = i
  BY DEF Entry
<1>6. /\ account'.available = account.available + amount
      /\ account'.toppedUp = account.toppedUp + 0
      /\ account'.frozen = account.frozen + 0
      /\ account'.consumed = account.consumed + 0
      /\ account'.refunded = account.refunded + amount
  BY <1>2, <1>3 DEF Refund, TypeOK, Account
<1>7. ledger' = Append(ledger, row) /\ Unused(row.key)
  BY <1>5 DEF Refund
<1>8. Refunds(row, i)
  BY <1>5 DEF Refund, Refunds, Refundable
<1> HIDE DEF row
<1>9. Posted(row)
  BY <1>1, <1>2, <1>4, <1>5, <1>6, <1>3, <1>7 DEF Posted, OnType, ChargeTypes
<1> QED
  BY <1>9, <1>8

-----------------------------------------------------------------------------
\* Every step of the ledger posts one row, in one of the four ways.
LEMMA StepPosts ==
  ASSUME TypeOK, Next
  PROVE  \E row : /\ Posted(row)
                  /\ \/ Moves(row)
                     \/ \E k \in Keys : Freezes(row, k)
                     \/ \E h \in Keys : Settles(row, h)
                     \/ \E i \in Rows : Refunds(row, i)
<1>1. ASSUME NEW k \in Keys, NEW amount \in Amounts, NEW ref \in Refs, TopUp(k, amount, ref)
      PROVE  \E row : Posted(row) /\ Moves(row)
  BY <1>1, TopUpPosts
<1>2. ASSUME NEW k \in Keys, NEW amount \in Amounts, NEW ref \in Refs,
             NEW at \in Times, NEW expiresAt \in Times,
             CreateHold(k, amount, ref, at, expiresAt)
      PROVE  \E row : Posted(row) /\ Freezes(row, k)
  BY <1>2, CreateHoldPosts
<1>3. ASSUME NEW h \in Keys, NEW k \in Keys, NEW amount \in Amounts, NEW ref \in Refs,
             NEW at \in Times, CaptureHold(h, k, amount, ref, at)
      PROVE  \E row : Posted(row) /\ Settles(row, h)
  BY <1>3, CaptureHoldPosts
<1>4. ASSUME NEW h \in Keys, NEW k \in Keys, Release(h, k)
      PROVE  \E row : Posted(row) /\ Settles(row, h)
  <2>1. k \in LedgerKeys /\ "released" \in {"released", "expired"}
    BY KeysAreLedgerKeys
  <2> QED
    BY <1>4, <2>1, ReleaseHoldPosts DEF Release
<1>5. ASSUME NEW h \in Keys, NEW at \in Times, Expire(h, at)
      PROVE  \E row : Posted(row) /\ Settles(row, h)
  <2>1. ExpiryKey(h) \in LedgerKeys /\ "expired" \in {"released", "expired"}
    BY KeysAreLedgerKeys
  <2> QED
    BY <1>5, <2>1, ReleaseHoldPosts DEF Expire
<1>6. ASSUME NEW key \in LedgerKeys, NEW amount \in Amounts, NEW ref \in Refs,
             Consume(key, amount, ref)
      PROVE  \E row : Posted(row) /\ Moves(row)
  BY <1>6, ConsumePosts
<1>7. ASSUME NEW i \in Rows, NEW k \in Keys, NEW amount \in Amounts, NEW ref \in Refs,
             Refund(i, k, amount, ref)
      PROVE  \E row : Posted(row) /\ Refunds(row, i)
  BY <1>7, RefundPosts
<1> QED
  BY <1>1, <1>2, <1>3, <1>4, <1>5, <1>6, <1>7, KeysAreLedgerKeys DEF Next, Bookings

-----------------------------------------------------------------------------
(* The inductive invariant: what the runs check, and two facts that make it  *)
(* inductive.  A refund names an earlier charge, so a charge starts with no  *)
(* refunds; and what the charges have left, after refunds, is what the       *)
(* account has been charged and not given back.                              *)

RefundsNameCharges ==
  \A i \in Rows : ledger[i].type = "refund" => ledger[i].related \in 1 .. (i - 1)

NetCharge ==
  [i \in Rows |-> IF ledger[i].type \in ChargeTypes THEN ledger[i].billed - RefundedOf(i) ELSE 0]

ChargesOutstanding ==
  TotalOf(Rows, NetCharge, MaxCredits) = account.consumed - account.refunded

Inv ==
  /\ TypeOK
  /\ LedgerIsTruth
  /\ TotalsReconcile
  /\ FrozenBacksHolds
  /\ SettledOnce
  /\ RefundsNameCharges
  /\ RefundsBounded
  /\ ChargesOutstanding

\* Types and the rows' balances survive a posting that leaves the holds typed.
LEMMA PostingKeepsTypes ==
  ASSUME TypeOK, NEW row, Posted(row), holds' \in [Keys -> Hold \cup {NoSuchHold}]
  PROVE  TypeOK'
<1>1. ledger' \in Seq(Row)
  BY Appended DEF Posted, TypeOK
<1> QED
  BY <1>1 DEF Posted, TypeOK

\* Every row records what its own deltas made of the row before it, after a
\* posting too.
LEMMA PostingKeepsTruth ==
  ASSUME TypeOK, LedgerIsTruth, NEW row, Posted(row)
  PROVE  LedgerIsTruth'
<1>0. PICK n \in Nat : n = Len(ledger) + 1
  BY Appended DEF Posted, TypeOK
<1>1. /\ n >= 1 /\ Len(ledger') = n /\ ledger'[n] = row
      /\ Rows' = 1 .. n /\ Rows = 1 .. (n - 1)
      /\ \A i \in 1 .. (n - 1) : ledger'[i] = ledger[i]
  BY <1>0, Appended DEF Posted, TypeOK, Rows
<1>2. \A i \in 1 .. n : /\ AvailableBefore(i)' = AvailableBefore(i)
                        /\ FrozenBefore(i)' = FrozenBefore(i)
  <2> TAKE i \in 1 .. n
  <2>1. i # 1 => i - 1 \in 1 .. (n - 1)
    BY <1>1
  <2> QED
    BY <1>1, <2>1 DEF AvailableBefore, FrozenBefore
<1>3. AvailableBefore(n) = account.available /\ FrozenBefore(n) = account.frozen
  BY <1>0 DEF LedgerIsTruth
<1>4. ASSUME NEW i \in 1 .. n
      PROVE  /\ ledger'[i].availableAfter = AvailableBefore(i)' + ledger'[i].availableDelta
             /\ ledger'[i].frozenAfter = FrozenBefore(i)' + ledger'[i].frozenDelta
  <2>1. CASE i = n
    BY <1>1, <1>2, <1>3, <2>1 DEF Posted
  <2>2. CASE i \in 1 .. (n - 1)
    BY <1>1, <1>2, <2>2 DEF LedgerIsTruth
  <2> QED
    BY <1>1, <2>1, <2>2
<1>5. /\ AvailableBefore(Len(ledger) + 1)' = ledger'[n].availableAfter
      /\ FrozenBefore(Len(ledger) + 1)' = ledger'[n].frozenAfter
  <2>1. (Len(ledger') + 1) - 1 = n /\ Len(ledger') + 1 # 1
    BY <1>1
  <2> QED
    BY <2>1 DEF AvailableBefore, FrozenBefore
<1>6. /\ account'.available = AvailableBefore(Len(ledger) + 1)'
      /\ account'.frozen = FrozenBefore(Len(ledger) + 1)'
  BY <1>1, <1>5 DEF Posted
<1>7. \A i \in Rows' :
        /\ ledger'[i].availableAfter = AvailableBefore(i)' + ledger'[i].availableDelta
        /\ ledger'[i].frozenAfter = FrozenBefore(i)' + ledger'[i].frozenDelta
  BY <1>1, <1>4
<1> QED
  BY <1>6, <1>7 DEF LedgerIsTruth

\* The columns still agree after a posting.
LEMMA PostingKeepsTotals ==
  ASSUME TypeOK, TotalsReconcile, NEW row, Posted(row)
  PROVE  TotalsReconcile'
<1>1. /\ account.available \in Int /\ account.frozen \in Int /\ account.toppedUp \in Int
      /\ account.consumed \in Int /\ account.refunded \in Int
  BY DEF TypeOK, Account
<1>2. row.availableDelta \in Int /\ row.frozenDelta \in Int /\ row.billed \in Int
  BY CreditsAssumption DEF Posted, Row
<1>3. /\ OnType(row, {"topup"}, row.availableDelta) \in Int
      /\ OnType(row, ChargeTypes, row.billed) \in Int
      /\ OnType(row, {"refund"}, row.billed) \in Int
  BY <1>2 DEF OnType
<1>4. PICK t \in Int, c \in Int, r \in Int :
        /\ t = OnType(row, {"topup"}, row.availableDelta)
        /\ c = OnType(row, ChargeTypes, row.billed)
        /\ r = OnType(row, {"refund"}, row.billed)
  BY <1>3
<1>5. /\ account'.available = account.available + row.availableDelta
      /\ account'.frozen = account.frozen + row.frozenDelta
      /\ account'.toppedUp = account.toppedUp + t
      /\ account'.consumed = account.consumed + c
      /\ account'.refunded = account.refunded + r
      /\ row.availableDelta + row.frozenDelta = t - c + r
  BY <1>4 DEF Posted
<1>6. account'.available + account'.frozen
        = (account.available + account.frozen) + (row.availableDelta + row.frozenDelta)
  BY <1>1, <1>2, <1>5
<1>7. account'.toppedUp - account'.consumed + account'.refunded
        = (account.toppedUp - account.consumed + account.refunded) + (t - c + r)
  BY <1>1, <1>5
<1>8. account.available + account.frozen
        = account.toppedUp - account.consumed + account.refunded
  BY DEF TotalsReconcile
<1>9. account'.available + account'.frozen
        = account'.toppedUp - account'.consumed + account'.refunded
  BY <1>5, <1>6, <1>7, <1>8
<1> QED
  BY <1>9 DEF TotalsReconcile

-----------------------------------------------------------------------------
(* Holds.                                                                    *)

\* The held amounts after one hold changed.
LEMMA HeldStep ==
  ASSUME TypeOK, NEW k \in Keys, NEW new \in Hold, holds' = [holds EXCEPT ![k] = new]
  PROVE  /\ holds' \in [Keys -> Hold \cup {NoSuchHold}]
         /\ TotalOf(Keys, HeldAmount, MaxCredits)'
              = TotalOf(Keys, HeldAmount, MaxCredits) - HeldAmount[k]
                  + (IF new.status = "active" THEN new.amount ELSE 0)
<1>1. holds' \in [Keys -> Hold \cup {NoSuchHold}] /\ holds'[k] = new
  BY DEF TypeOK
<1> DEFINE held == HeldAmount
           heldAfter == HeldAmount'
<1>2. /\ held[k] \in 0 .. MaxCredits
      /\ heldAfter[k] = IF new.status = "active" THEN new.amount ELSE 0
      /\ heldAfter[k] \in 0 .. MaxCredits
  BY <1>1, CreditsAssumption, HoldFacts DEF HeldAmount, Hold, Amounts
<1>3. \A s \in Keys \ {k} : heldAfter[s] = held[s]
  BY <1>1 DEF HeldAmount, TypeOK
<1> HIDE DEF held, heldAfter
<1>4. MaxCredits \in Nat /\ IsFiniteSet(Keys)
  BY CreditsAssumption, KeysAssumption
<1>5. TotalOf(Keys, heldAfter, MaxCredits)
        = TotalOf(Keys, held, MaxCredits) - held[k] + heldAfter[k]
  BY <1>2, <1>3, <1>4, TotalOfChanged
<1> QED
  BY <1>1, <1>2, <1>5 DEF held, heldAfter

\* A posting that changes no hold leaves the frozen balance backed.
LEMMA SameHoldsBacked ==
  ASSUME TypeOK, FrozenBacksHolds, NEW row, Posted(row), row.frozenDelta = 0, holds' = holds
  PROVE  FrozenBacksHolds'
<1>1. account'.frozen = account.frozen
  BY DEF Posted, TypeOK, Account
<1>2. HeldAmount' = HeldAmount
  BY DEF HeldAmount
<1> QED
  BY <1>1, <1>2 DEF FrozenBacksHolds

\* A new hold is backed by what its creation froze.
LEMMA FreezeBacked ==
  ASSUME TypeOK, FrozenBacksHolds, NEW row, Posted(row), NEW k \in Keys, Freezes(row, k)
  PROVE  FrozenBacksHolds' /\ holds' \in [Keys -> Hold \cup {NoSuchHold}]
<1>1. PICK new \in Hold : /\ new.status = "active" /\ new.amount = row.frozenDelta
                          /\ holds' = [holds EXCEPT ![k] = new]
  BY DEF Freezes
<1>2. HeldAmount[k] = 0
  BY DEF Freezes, HeldAmount, NoSuchHold
<1>3. account'.frozen = account.frozen + row.frozenDelta
  BY DEF Posted
<1>4. account.frozen \in Int /\ row.frozenDelta \in Int
  BY DEF TypeOK, Account, Posted, Row
<1>5. TotalOf(Keys, HeldAmount, MaxCredits)'
        = TotalOf(Keys, HeldAmount, MaxCredits) - 0 + row.frozenDelta
  BY <1>1, <1>2, HeldStep
<1>6. account.frozen = TotalOf(Keys, HeldAmount, MaxCredits)
  BY DEF FrozenBacksHolds
<1>7. account'.frozen = TotalOf(Keys, HeldAmount, MaxCredits)'
  BY <1>3, <1>4, <1>5, <1>6
<1> QED
  BY <1>1, <1>7, HeldStep DEF FrozenBacksHolds

\* A settled hold takes its whole amount off the frozen balance.
LEMMA SettlementBacked ==
  ASSUME TypeOK, FrozenBacksHolds, NEW row, Posted(row), NEW h \in Keys, Settles(row, h)
  PROVE  FrozenBacksHolds' /\ holds' \in [Keys -> Hold \cup {NoSuchHold}]
<1>1. PICK new \in Hold : /\ new.status \in {"captured", "released", "expired"}
                          /\ holds' = [holds EXCEPT ![h] = new]
  BY DEF Settles
<1>2. HeldAmount[h] = holds[h].amount /\ row.frozenDelta = -holds[h].amount
  BY DEF Settles, HeldAmount
<1>3. account'.frozen = account.frozen + row.frozenDelta
  BY DEF Posted
<1>4. account.frozen \in Int /\ holds[h].amount \in Int
  BY HoldFacts, CreditsAssumption DEF TypeOK, Account, Settles, Amounts
<1>5. TotalOf(Keys, HeldAmount, MaxCredits)'
        = TotalOf(Keys, HeldAmount, MaxCredits) - holds[h].amount + 0
  <2>1. new.status # "active"
    BY <1>1
  <2> QED
    BY <1>1, <1>2, <2>1, HeldStep
<1>6. account.frozen = TotalOf(Keys, HeldAmount, MaxCredits)
  BY DEF FrozenBacksHolds
<1>7. account'.frozen = TotalOf(Keys, HeldAmount, MaxCredits)'
  BY <1>2, <1>3, <1>4, <1>5, <1>6
<1> QED
  BY <1>1, <1>7, HeldStep DEF FrozenBacksHolds

\* What SettledOnce says of one hold.
HoldSettledOnce(h) ==
  /\ holds[h].status \in {"none", "active"} => \A i \in Rows : ~ SettlesHold(i, h)
  /\ holds[h].status \in {"captured", "released", "expired"} =>
       \E i \in Rows :
         /\ SettlesHold(i, h)
         /\ \A j \in Rows : SettlesHold(j, h) => j = i
         /\ ledger[i].frozenDelta = -holds[h].amount
         /\ ledger[i].type = IF holds[h].status = "captured" THEN "capture" ELSE "release"

\* The rows that settle a hold are the old ones, but for the new row.
LEMMA SettlesHoldStep ==
  ASSUME TypeOK, NEW row, Posted(row), NEW h \in Keys
  PROVE  /\ \A i \in Rows : SettlesHold(i, h)' <=> SettlesHold(i, h)
         /\ \A i \in Rows : ledger'[i] = ledger[i]
         /\ \A i \in Rows' : i \in Rows \/ ledger'[i] = row
         /\ Rows \subseteq Rows'
  BY Appended DEF Posted, TypeOK, SettlesHold

\* A row that does not settle hold h leaves it as settled as it was.
LEMMA OtherRowsSettle ==
  ASSUME TypeOK, NEW row, Posted(row), NEW h \in Keys, HoldSettledOnce(h),
         row.type \notin {"capture", "release"} \/ row.hold # h,
         \/ holds'[h] = holds[h]
         \/ holds[h].status = "none" /\ holds'[h].status = "active"
  PROVE  HoldSettledOnce(h)'
<1>1. \A i \in Rows' : SettlesHold(i, h)' => i \in Rows
  BY SettlesHoldStep DEF SettlesHold
<1>2. CASE holds'[h] = holds[h]
  <2>1. CASE holds[h].status \in {"none", "active"}
    BY <1>1, <1>2, <2>1, SettlesHoldStep DEF HoldSettledOnce
  <2>2. CASE holds[h].status \in {"captured", "released", "expired"}
    <3>1. PICK i \in Rows :
             /\ SettlesHold(i, h)
             /\ \A j \in Rows : SettlesHold(j, h) => j = i
             /\ ledger[i].frozenDelta = -holds[h].amount
             /\ ledger[i].type = IF holds[h].status = "captured" THEN "capture" ELSE "release"
      BY <2>2 DEF HoldSettledOnce
    <3>2. /\ i \in Rows' /\ SettlesHold(i, h)'
          /\ \A j \in Rows' : SettlesHold(j, h)' => j = i
          /\ ledger'[i].frozenDelta = -holds'[h].amount
          /\ ledger'[i].type = IF holds'[h].status = "captured" THEN "capture" ELSE "release"
      BY <1>1, <1>2, <3>1, SettlesHoldStep
    <3> QED
      BY <1>2, <2>2, <3>2 DEF HoldSettledOnce
  <2> QED
    BY <1>2, <2>1, <2>2 DEF HoldSettledOnce
<1>3. CASE holds[h].status = "none" /\ holds'[h].status = "active"
  <2>1. \A i \in Rows : ~ SettlesHold(i, h)
    BY <1>3 DEF HoldSettledOnce
  <2>2. \A i \in Rows' : ~ SettlesHold(i, h)'
    BY <1>1, <2>1, SettlesHoldStep
  <2> QED
    BY <1>3, <2>2 DEF HoldSettledOnce
<1> QED
  BY <1>2, <1>3

\* The row that settles hold h is the only one: it was active, so no row did.
LEMMA OwnRowSettles ==
  ASSUME TypeOK, NEW row, Posted(row), NEW h \in Keys, Settles(row, h), HoldSettledOnce(h)
  PROVE  HoldSettledOnce(h)'
<1>1. PICK new \in Hold :
        /\ new.status \in {"captured", "released", "expired"}
        /\ new.amount = holds[h].amount
        /\ row.type = IF new.status = "captured" THEN "capture" ELSE "release"
        /\ holds' = [holds EXCEPT ![h] = new]
  BY DEF Settles
<1>2. holds'[h] = new
  BY <1>1 DEF TypeOK
<1>3. \A i \in Rows : ~ SettlesHold(i, h)
  BY DEF Settles, HoldSettledOnce
<1>4. PICK n : n \in Rows' /\ n \notin Rows /\ ledger'[n] = row
               /\ Rows' = Rows \cup {n}
  BY Appended DEF Posted, TypeOK
<1>5. SettlesHold(n, h)'
  BY <1>4 DEF SettlesHold, Settles
<1>6. \A j \in Rows' : SettlesHold(j, h)' => j = n
  BY <1>3, <1>4, SettlesHoldStep
<1>7. /\ ledger'[n].frozenDelta = -holds'[h].amount
      /\ ledger'[n].type = IF holds'[h].status = "captured" THEN "capture" ELSE "release"
  BY <1>1, <1>2, <1>4 DEF Settles
<1> QED
  BY <1>1, <1>2, <1>4, <1>5, <1>6, <1>7 DEF HoldSettledOnce

\* Whatever a step posts, every hold stays settled at most once.
LEMMA PostingKeepsSettled ==
  ASSUME TypeOK, SettledOnce, NEW row, Posted(row),
         \/ Moves(row)
         \/ \E k \in Keys : Freezes(row, k)
         \/ \E h \in Keys : Settles(row, h)
         \/ \E i \in Rows : Refunds(row, i)
  PROVE  SettledOnce'
<1>1. ASSUME NEW h \in Keys PROVE HoldSettledOnce(h)
  BY DEF SettledOnce, HoldSettledOnce
<1>2. ASSUME NEW h \in Keys PROVE HoldSettledOnce(h)'
  <2>1. CASE Moves(row) \/ \E i \in Rows : Refunds(row, i)
    <3>1. row.type \notin {"capture", "release"} /\ holds'[h] = holds[h]
      BY <2>1 DEF Moves, Refunds
    <3> QED
      BY <1>1, <3>1, OtherRowsSettle
  <2>2. ASSUME NEW k \in Keys, Freezes(row, k) PROVE HoldSettledOnce(h)'
    <3>1. row.type \notin {"capture", "release"}
      BY <2>2 DEF Freezes
    <3>2. \/ holds'[h] = holds[h]
          \/ holds[h].status = "none" /\ holds'[h].status = "active"
      BY <2>2 DEF Freezes, TypeOK, NoSuchHold
    <3> QED
      BY <1>1, <3>1, <3>2, OtherRowsSettle
  <2>3. ASSUME NEW g \in Keys, Settles(row, g) PROVE HoldSettledOnce(h)'
    <3>1. CASE g = h
      BY <1>1, <2>3, <3>1, OwnRowSettles
    <3>2. CASE g # h
      <4>1. row.hold # h /\ holds'[h] = holds[h]
        BY <2>3, <3>2 DEF Settles, TypeOK
      <4> QED
        BY <1>1, <4>1, OtherRowsSettle
    <3> QED
      BY <3>1, <3>2
  <2> QED
    BY <2>1, <2>2, <2>3
<1> QED
  BY <1>2 DEF SettledOnce, HoldSettledOnce

-----------------------------------------------------------------------------
(* Refunds.                                                                  *)

\* What the rows of a step are to the refunds: the old rows, and the new one
\* at the end.
LEMMA RowsStep ==
  ASSUME TypeOK, NEW row, Posted(row)
  PROVE  \E n \in Nat :
           /\ n = Len(ledger) + 1 /\ n \notin Rows /\ IsFiniteSet(Rows)
           /\ Rows = 1 .. (n - 1) /\ Rows' = 1 .. n /\ Rows' = Rows \cup {n}
           /\ ledger'[n] = row /\ \A j \in Rows : ledger'[j] = ledger[j]
           /\ \A j \in Rows' : ledger'[j] \in Row
<1>1. /\ Len(ledger) \in Nat /\ Len(ledger') = Len(ledger) + 1
      /\ Rows' = Rows \cup {Len(ledger) + 1} /\ Len(ledger) + 1 \notin Rows
      /\ ledger'[Len(ledger) + 1] = row /\ \A j \in Rows : ledger'[j] = ledger[j]
      /\ ledger' \in Seq(Row)
  BY Appended DEF Posted, TypeOK
<1>2. IsFiniteSet(Rows)
  BY <1>1, FS_Interval DEF Rows
<1>3. Rows = 1 .. ((Len(ledger) + 1) - 1) /\ Rows' = 1 .. (Len(ledger) + 1)
  BY <1>1 DEF Rows
<1>4. \A j \in Rows' : ledger'[j] \in Row
  BY <1>1 DEF Rows
<1> WITNESS Len(ledger) + 1 \in Nat
<1> QED
  BY <1>1, <1>2, <1>3, <1>4

\* A refund adds its amount to what is refunded of its charge, and to nothing
\* else.
LEMMA RefundedOfStep ==
  ASSUME TypeOK, NEW row, Posted(row), NEW i \in Nat
  PROVE  /\ RefundedOf(i) \in Nat
         /\ RefundedOf(i)' = RefundedOf(i)
              + (IF row.type = "refund" /\ row.related = i THEN row.billed ELSE 0)
<1>1. PICK n \in Nat :
        /\ n \notin Rows /\ IsFiniteSet(Rows) /\ Rows' = Rows \cup {n}
        /\ ledger'[n] = row /\ \A j \in Rows : ledger'[j] = ledger[j]
        /\ \A j \in Rows' : ledger'[j] \in Row
  BY RowsStep
<1> DEFINE before == RefundAmount(i)
           after == RefundAmount(i)'
<1>2. /\ \A j \in Rows : after[j] = before[j]
      /\ after[n] = IF row.type = "refund" /\ row.related = i THEN row.billed ELSE 0
      /\ after[n] \in 0 .. MaxCredits
  BY <1>1, CreditsAssumption DEF RefundAmount, Row
<1>3. RefundedOf(i) = TotalOf(Rows, before, MaxCredits)
  BY DEF RefundedOf
<1>4. RefundedOf(i)' = TotalOf(Rows \cup {n}, after, MaxCredits)
  BY <1>1 DEF RefundedOf
<1> HIDE DEF before, after
<1>5. MaxCredits \in Nat
  BY CreditsAssumption
<1>6. TotalOf(Rows, after, MaxCredits) = TotalOf(Rows, before, MaxCredits)
  BY <1>2, <1>5, TotalOfSame
<1>7. TotalOf(Rows \cup {n}, after, MaxCredits) = TotalOf(Rows, after, MaxCredits) + after[n]
  <2>1. IsFiniteSet(Rows) /\ n \notin Rows /\ after[n] \in 0 .. MaxCredits
    BY <1>1, <1>2
  <2> QED
    BY <1>5, <2>1, TotalOfAdded
<1>8. TotalOf(Rows, before, MaxCredits) \in Nat
  BY <1>1, <1>5, PartsFinite
<1> QED
  BY <1>2, <1>3, <1>4, <1>6, <1>7, <1>8

\* A charge that has just been posted has no refunds: they name earlier rows.
LEMMA NewChargeUnrefunded ==
  ASSUME TypeOK, RefundsNameCharges
  PROVE  RefundedOf(Len(ledger) + 1) = 0
<1>1. \A j \in Rows : RefundAmount(Len(ledger) + 1)[j] = 0
  BY DEF RefundsNameCharges, RefundAmount, Rows, TypeOK
<1>2. MaxCredits \in Nat
  BY CreditsAssumption
<1> QED
  BY <1>1, <1>2, TotalOfZero DEF RefundedOf

\* Refunds still name earlier rows.
LEMMA PostingKeepsNames ==
  ASSUME TypeOK, RefundsNameCharges, NEW row, Posted(row),
         row.type = "refund" => row.related \in Rows
  PROVE  RefundsNameCharges'
<1>1. PICK n \in Nat :
        /\ Rows = 1 .. (n - 1) /\ Rows' = 1 .. n
        /\ ledger'[n] = row /\ \A j \in Rows : ledger'[j] = ledger[j]
  BY RowsStep
<1>2. ASSUME NEW j \in Rows', ledger'[j].type = "refund"
      PROVE  ledger'[j].related \in 1 .. (j - 1)
  <2>1. CASE j = n
    BY <1>1, <1>2, <2>1
  <2>2. CASE j \in Rows
    BY <1>1, <1>2, <2>2 DEF RefundsNameCharges
  <2> QED
    BY <1>1, <2>1, <2>2
<1> QED
  BY <1>2 DEF RefundsNameCharges

\* A posting that is no refund, or a refund its charge still covers, keeps
\* every charge covering its refunds.
LEMMA PostingKeepsBound ==
  ASSUME TypeOK, RefundsNameCharges, RefundsBounded, NEW row, Posted(row),
         row.type # "refund" \/ \E i \in Rows : Refunds(row, i)
  PROVE  RefundsBounded'
<1>1. PICK n \in Nat :
        /\ n = Len(ledger) + 1 /\ n \notin Rows /\ Rows = 1 .. (n - 1)
        /\ Rows' = 1 .. n /\ Rows' = Rows \cup {n}
        /\ ledger'[n] = row /\ \A j \in Rows : ledger'[j] = ledger[j]
        /\ \A j \in Rows' : ledger'[j] \in Row
  BY RowsStep
<1>2. \A i \in Nat : /\ RefundedOf(i) \in Nat
                     /\ RefundedOf(i)' = RefundedOf(i)
                          + (IF row.type = "refund" /\ row.related = i THEN row.billed ELSE 0)
  BY RefundedOfStep
<1>3. ASSUME NEW i \in Rows', ledger'[i].type \in ChargeTypes
      PROVE  RefundedOf(i)' <= ledger'[i].billed
  <2>1. CASE i = n
    <3>1. row.type # "refund" /\ RefundedOf(n) = 0
      BY <1>1, <1>3, <2>1, NewChargeUnrefunded DEF ChargeTypes
    <3>2. RefundedOf(n)' = 0
      BY <1>2, <3>1
    <3> QED
      BY <1>1, <2>1, <3>2, CreditsAssumption DEF Row
  <2>2. CASE i \in Rows
    <3>1. RefundedOf(i) <= ledger[i].billed /\ i \in Nat
      BY <1>1, <1>3, <2>2 DEF RefundsBounded
    <3>2. CASE row.type = "refund" /\ row.related = i
      <4>1. RefundedOf(i)' = RefundedOf(i) + row.billed
        BY <1>2, <3>1, <3>2
      <4>2. RefundedOf(i) + row.billed <= ledger[i].billed
        BY <3>2 DEF Refunds
      <4>3. ledger'[i] = ledger[i]
        BY <1>1, <2>2
      <4> QED
        BY <4>1, <4>2, <4>3
    <3>3. CASE ~ (row.type = "refund" /\ row.related = i)
      <4>1. RefundedOf(i)' = RefundedOf(i) + 0 /\ RefundedOf(i) \in Nat
        BY <1>2, <3>1, <3>3
      <4>2. ledger'[i].billed = ledger[i].billed
        BY <1>1, <2>2
      <4> QED
        BY <3>1, <4>1, <4>2
    <3> QED
      BY <3>2, <3>3
  <2> QED
    BY <1>1, <2>1, <2>2
<1> QED
  BY <1>3 DEF RefundsBounded

\* What a charge still covers is never more than the largest amount.
LEMMA NetChargeRange ==
  ASSUME TypeOK, RefundsBounded, NEW i \in Rows, RefundedOf(i) \in Nat
  PROVE  NetCharge[i] \in 0 .. MaxCredits
<1>1. ledger[i] \in Row
  BY DEF TypeOK, Rows
<1>2. ledger[i].billed \in 0 .. MaxCredits
  BY <1>1 DEF Row
<1> QED
  BY <1>2, CreditsAssumption DEF NetCharge, RefundsBounded

\* The charges' remainders add up to what was charged and not given back,
\* after every posting.
LEMMA PostingKeepsOutstanding ==
  ASSUME TypeOK, RefundsNameCharges, RefundsBounded, ChargesOutstanding,
         NEW row, Posted(row), row.type # "refund" \/ \E i \in Rows : Refunds(row, i)
  PROVE  ChargesOutstanding'
<1>1. PICK n \in Nat :
        /\ n = Len(ledger) + 1 /\ n \notin Rows /\ IsFiniteSet(Rows)
        /\ Rows = 1 .. (n - 1) /\ Rows' = Rows \cup {n}
        /\ ledger'[n] = row /\ \A j \in Rows : ledger'[j] = ledger[j]
        /\ \A j \in Rows' : ledger'[j] \in Row
  BY RowsStep
<1>2. \A i \in Nat : /\ RefundedOf(i) \in Nat
                     /\ RefundedOf(i)' = RefundedOf(i)
                          + (IF row.type = "refund" /\ row.related = i THEN row.billed ELSE 0)
  BY RefundedOfStep
<1>3. MaxCredits \in Nat /\ row.billed \in 0 .. MaxCredits
  BY CreditsAssumption DEF Posted, Row
<1> DEFINE before == NetCharge
           after == NetCharge'
<1>4. \A j \in Rows : before[j] \in 0 .. MaxCredits
  BY <1>1, <1>2, NetChargeRange
<1>5. after[n] = IF row.type \in ChargeTypes THEN row.billed ELSE 0
  <2>1. CASE row.type \in ChargeTypes
    <3>1. RefundedOf(n) = 0 /\ row.type # "refund"
      BY <1>1, <2>1, NewChargeUnrefunded DEF ChargeTypes
    <3>2. RefundedOf(n)' = 0
      BY <1>2, <3>1
    <3> QED
      BY <1>1, <1>3, <2>1, <3>2 DEF NetCharge
  <2>2. CASE row.type \notin ChargeTypes
    BY <1>1, <2>2 DEF NetCharge
  <2> QED
    BY <2>1, <2>2
<1>6. \A j \in Rows :
        after[j] = IF row.type = "refund" /\ row.related = j /\ ledger[j].type \in ChargeTypes
                     THEN before[j] - row.billed ELSE before[j]
  <2> TAKE j \in Rows
  <2>1. j \in Nat /\ j \in Rows' /\ ledger[j].billed \in Int
    BY <1>1, CreditsAssumption DEF Row
  <2>2. after[j] = IF ledger[j].type \in ChargeTypes THEN ledger[j].billed - RefundedOf(j)' ELSE 0
    BY <1>1, <2>1 DEF NetCharge
  <2>3. before[j] = IF ledger[j].type \in ChargeTypes THEN ledger[j].billed - RefundedOf(j) ELSE 0
    BY DEF NetCharge
  <2> QED
    BY <1>2, <1>3, <2>1, <2>2, <2>3
<1>7. after[n] \in 0 .. MaxCredits
  BY <1>3, <1>5
<1>8. TotalOf(Rows', after, MaxCredits) = TotalOf(Rows, after, MaxCredits) + after[n]
  <2> HIDE DEF before, after
  <2>1. IsFiniteSet(Rows) /\ n \notin Rows /\ MaxCredits \in Nat
    BY <1>1, <1>3
  <2>2. TotalOf(Rows \cup {n}, after, MaxCredits) = TotalOf(Rows, after, MaxCredits) + after[n]
    BY ONLY <1>7, <2>1, TotalOfAdded
  <2> QED
    BY <1>1, <2>2
<1>9. /\ account.consumed \in Int /\ account.refunded \in Int
      /\ TotalOf(Rows, before, MaxCredits) = account.consumed - account.refunded
      /\ account'.consumed = account.consumed
           + (IF row.type \in ChargeTypes THEN row.billed ELSE 0)
      /\ account'.refunded = account.refunded
           + (IF row.type = "refund" THEN row.billed ELSE 0)
  BY DEF TypeOK, Account, ChargesOutstanding, Posted, OnType
<1>10. ChargesOutstanding' <=>
         TotalOf(Rows', after, MaxCredits) = account'.consumed - account'.refunded
  BY DEF ChargesOutstanding
<1>11. CASE row.type # "refund"
  <2>1. \A j \in Rows : after[j] = before[j]
    BY <1>6, <1>11
  <2> HIDE DEF before, after
  <2>2. TotalOf(Rows, after, MaxCredits) = TotalOf(Rows, before, MaxCredits)
    BY <1>3, <2>1, TotalOfSame
  <2> QED
    BY <1>3, <1>5, <1>8, <1>9, <1>10, <1>11, <2>2
<1>12. CASE row.type = "refund"
  <2>1. PICK i \in Rows : Refunds(row, i)
    BY <1>12
  <2>2. /\ row.related = i /\ ledger[i].type \in ChargeTypes /\ i \in Nat
        /\ RefundedOf(i) + row.billed <= ledger[i].billed
        /\ ledger[i].billed \in Int
    BY <1>1, <2>1, CreditsAssumption DEF Refunds, Row
  <2>3. before[i] = ledger[i].billed - RefundedOf(i)
    BY <2>2 DEF NetCharge
  <2>4. /\ after[i] = before[i] - row.billed
        /\ \A j \in Rows \ {i} : after[j] = before[j]
    BY <1>6, <1>12, <2>2
  <2>5. before[i] \in 0 .. MaxCredits /\ after[i] \in 0 .. MaxCredits
    <3>1. before[i] - row.billed >= 0
      BY <1>2, <1>3, <2>2, <2>3
    <3> QED
      BY <1>3, <1>4, <2>4, <3>1
  <2>6. row.type \notin ChargeTypes
    BY <1>12 DEF ChargeTypes
  <2> HIDE DEF before, after
  <2>7. TotalOf(Rows, after, MaxCredits)
          = TotalOf(Rows, before, MaxCredits) - before[i] + after[i]
    <3>1. IsFiniteSet(Rows) /\ MaxCredits \in Nat /\ i \in Rows
      BY <1>1, <1>3
    <3>2. before[i] \in 0 .. MaxCredits /\ after[i] \in 0 .. MaxCredits
      BY <2>5
    <3>3. \A j \in Rows \ {i} : after[j] = before[j]
      BY <2>4
    <3>4. ASSUME NEW f, NEW g, f[i] \in 0 .. MaxCredits, g[i] \in 0 .. MaxCredits,
                 \A j \in Rows \ {i} : g[j] = f[j]
          PROVE  TotalOf(Rows, g, MaxCredits) = TotalOf(Rows, f, MaxCredits) - f[i] + g[i]
      BY <3>1, <3>4, TotalOfChanged
    <3> QED
      BY <3>2, <3>3, <3>4
  <2>8. TotalOf(Rows, before, MaxCredits) \in Int
    BY <1>9
  <2> QED
    BY <1>3, <1>5, <1>8, <1>9, <1>10, <1>12, <2>4, <2>5, <2>6, <2>7, <2>8
<1> QED
  BY <1>11, <1>12

-----------------------------------------------------------------------------
(* The invariant, and what it implies.                                       *)

\* The empty account.
LEMMA InitInv ==
  ASSUME Init
  PROVE  Inv
<1>1. TypeOK
  BY CreditsAssumption DEF Init, TypeOK, Account
<1>2. Rows = {} /\ Len(ledger) = 0
  BY DEF Init, Rows
<1>3. LedgerIsTruth
  BY <1>2 DEF LedgerIsTruth, AvailableBefore, FrozenBefore, Init
<1>4. TotalsReconcile
  BY DEF TotalsReconcile, Init
<1>5. FrozenBacksHolds
  <2>1. \A k \in Keys : HeldAmount[k] = 0
    BY DEF HeldAmount, Init, NoSuchHold
  <2>2. TotalOf(Keys, HeldAmount, MaxCredits) = 0
    BY <2>1, CreditsAssumption, TotalOfZero
  <2> QED
    BY <2>2 DEF FrozenBacksHolds, Init
<1>6. SettledOnce
  BY <1>2 DEF SettledOnce, Init, NoSuchHold
<1>7. RefundsNameCharges /\ RefundsBounded
  BY <1>2 DEF RefundsNameCharges, RefundsBounded
<1>8. ChargesOutstanding
  <2>1. TotalOf(Rows, NetCharge, MaxCredits) = 0
    BY <1>2, CreditsAssumption, TotalOfZero
  <2> QED
    BY <2>1 DEF ChargesOutstanding, Init
<1> QED
  BY <1>1, <1>3, <1>4, <1>5, <1>6, <1>7, <1>8 DEF Inv

\* Every step of the ledger keeps the invariant.
LEMMA NextInv ==
  ASSUME Inv, Next
  PROVE  Inv'
<1> USE DEF Inv
<1>1. PICK row : /\ Posted(row)
                 /\ \/ Moves(row)
                    \/ \E k \in Keys : Freezes(row, k)
                    \/ \E h \in Keys : Settles(row, h)
                    \/ \E i \in Rows : Refunds(row, i)
  BY StepPosts
<1>2. FrozenBacksHolds' /\ holds' \in [Keys -> Hold \cup {NoSuchHold}]
  <2>1. CASE Moves(row) \/ \E i \in Rows : Refunds(row, i)
    <3>1. row.frozenDelta = 0 /\ holds' = holds
      BY <2>1 DEF Moves, Refunds
    <3> QED
      BY <1>1, <3>1, SameHoldsBacked DEF TypeOK
  <2>2. CASE \E k \in Keys : Freezes(row, k)
    BY <1>1, <2>2, FreezeBacked
  <2>3. CASE \E h \in Keys : Settles(row, h)
    BY <1>1, <2>3, SettlementBacked
  <2> QED
    BY <1>1, <2>1, <2>2, <2>3
<1>3. TypeOK'
  BY <1>1, <1>2, PostingKeepsTypes
<1>4. LedgerIsTruth'
  BY <1>1, PostingKeepsTruth
<1>5. TotalsReconcile'
  BY <1>1, PostingKeepsTotals
<1>6. SettledOnce'
  BY <1>1, PostingKeepsSettled
<1>7. row.type # "refund" \/ \E i \in Rows : Refunds(row, i)
  BY <1>1 DEF Moves, Freezes, Settles
<1>8. row.type = "refund" => row.related \in Rows
  BY <1>7 DEF Refunds
<1>9. RefundsNameCharges'
  BY <1>1, <1>8, PostingKeepsNames
<1>10. RefundsBounded'
  BY <1>1, <1>7, PostingKeepsBound
<1>11. ChargesOutstanding'
  BY <1>1, <1>7, PostingKeepsOutstanding
<1> QED
  BY <1>2, <1>3, <1>4, <1>5, <1>6, <1>9, <1>10, <1>11

\* A step that changes nothing keeps it too.
LEMMA StutterInv ==
  ASSUME Inv, UNCHANGED vars
  PROVE  Inv'
<1>1. account' = account /\ holds' = holds /\ ledger' = ledger
  BY DEF vars
<1>2. TypeOK' /\ LedgerIsTruth' /\ TotalsReconcile' /\ FrozenBacksHolds'
  BY <1>1 DEF Inv, TypeOK, LedgerIsTruth, AvailableBefore, FrozenBefore, Rows,
              TotalsReconcile, FrozenBacksHolds, HeldAmount
<1>3. SettledOnce' /\ RefundsNameCharges'
  BY <1>1 DEF Inv, SettledOnce, SettlesHold, RefundsNameCharges, Rows
<1>4. RefundsBounded' /\ ChargesOutstanding'
  BY <1>1 DEF Inv, RefundsBounded, RefundedOf, RefundAmount, Rows,
              ChargesOutstanding, NetCharge
<1> QED
  BY <1>2, <1>3, <1>4 DEF Inv

\* The invariant leaves room for the return of every held amount: what is held
\* is part of the frozen balance, the two balances together never exceed what
\* was topped up, and that is within the limit.
LEMMA InvNeverBlocks ==
  ASSUME Inv
  PROVE  ReleaseNeverBlocked
<1> SUFFICES ASSUME NEW h \in Keys, holds[h].status = "active"
             PROVE  account.available + holds[h].amount <= MaxCredits
  BY DEF ReleaseNeverBlocked
<1>1. /\ account.available \in Nat /\ account.frozen \in Nat
      /\ account.toppedUp \in 0 .. MaxCredits
      /\ account.consumed \in Nat /\ account.refunded \in Nat /\ MaxCredits \in Nat
  BY CreditsAssumption DEF Inv, TypeOK, Account
<1>2. account.refunded <= account.consumed
  <2>1. IsFiniteSet(Rows)
    BY FS_Interval DEF Rows, Inv, TypeOK
  <2>2. TotalOf(Rows, NetCharge, MaxCredits) \in Nat
    BY <1>1, <2>1, PartsFinite
  <2> QED
    BY <1>1, <2>2 DEF Inv, ChargesOutstanding
<1>3. holds[h].amount \in Nat /\ holds[h].amount <= account.frozen
  <2>1. holds[h].amount \in 0 .. MaxCredits /\ HeldAmount[h] = holds[h].amount
    BY HoldFacts, CreditsAssumption DEF Inv, HeldAmount, Amounts
  <2>2. HeldAmount[h] <= TotalOf(Keys, HeldAmount, MaxCredits)
    BY <1>1, <2>1, KeysAssumption, TotalOfBounds
  <2> QED
    BY <2>1, <2>2 DEF Inv, FrozenBacksHolds
<1>4. account.available + account.frozen
        = account.toppedUp - account.consumed + account.refunded
  BY DEF Inv, TotalsReconcile
<1> QED
  BY <1>1, <1>2, <1>3, <1>4

\* The ledger keeps its invariant in every behaviour, for every set of keys,
\* every limit and every order of clock readings.
THEOREM LedgerInvariant == Spec => []Inv
<1>1. Init => Inv
  BY InitInv
<1>2. Inv /\ [Next]_vars => Inv'
  BY NextInv, StutterInv
<1> QED
  BY <1>1, <1>2, PTL DEF Spec

\* Balances stay within the CHECK constraints and rows keep their types.
THEOREM TypeCorrect == Spec => []TypeOK
<1>1. Inv => TypeOK
  BY DEF Inv
<1> QED
  BY <1>1, LedgerInvariant, PTL

\* The cached balances are those of the immutable ledger, and its columns
\* reconcile.
THEOREM LedgerTruth == Spec => [](LedgerIsTruth /\ TotalsReconcile)
<1>1. Inv => LedgerIsTruth /\ TotalsReconcile
  BY DEF Inv
<1> QED
  BY <1>1, LedgerInvariant, PTL

\* The frozen balance is the sum of the active holds.
THEOREM FrozenBacked == Spec => []FrozenBacksHolds
<1>1. Inv => FrozenBacksHolds
  BY DEF Inv
<1> QED
  BY <1>1, LedgerInvariant, PTL

\* No hold is settled twice, by captures, releases and sweeps in any order.
THEOREM HoldsSettledOnce == Spec => []SettledOnce
<1>1. Inv => SettledOnce
  BY DEF Inv
<1> QED
  BY <1>1, LedgerInvariant, PTL

\* The refunds of a charge never exceed it.
THEOREM RefundsStayBounded == Spec => []RefundsBounded
<1>1. Inv => RefundsBounded
  BY DEF Inv
<1> QED
  BY <1>1, LedgerInvariant, PTL

\* A hold can be released at any time: its amount always fits the account.
THEOREM ReleaseAlwaysFits == Spec => []ReleaseNeverBlocked
<1>1. Inv => ReleaseNeverBlocked
  BY InvNeverBlocks
<1> QED
  BY <1>1, LedgerInvariant, PTL

-----------------------------------------------------------------------------
(* The ledger implements the prepaid account.                                *)

\* No two rows have one key, so a key names a charge.
KeysUnique == \A i, j \in Rows : ledger[i].key = ledger[j].key => i = j

LEMMA PostingKeepsUnique ==
  ASSUME TypeOK, KeysUnique, NEW row, Posted(row)
  PROVE  KeysUnique'
<1>1. PICK n \in Nat :
        /\ n \notin Rows /\ Rows' = Rows \cup {n}
        /\ ledger'[n] = row /\ \A j \in Rows : ledger'[j] = ledger[j]
  BY RowsStep
<1>2. \A j \in Rows : ledger[j].key # row.key
  BY DEF Posted, Unused
<1> QED
  BY <1>1, <1>2 DEF KeysUnique

\* What a charge has left is what its row has left, and a key that is no charge's
\* has nothing.
LEMMA OutstandingOfRow ==
  ASSUME KeysUnique, NEW i \in Rows, NEW key \in LedgerKeys, ledger[i].key = key
  PROVE  Outstanding[key] = NetCharge[i]
<1>1. ChargeOf(key) \in Rows /\ ledger[ChargeOf(key)].key = key
  BY DEF ChargeOf
<1>2. ChargeOf(key) = i
  BY <1>1 DEF KeysUnique
<1>3. HasCharge(key) <=> ledger[i].type \in ChargeTypes
  BY DEF HasCharge, KeysUnique
<1> QED
  BY <1>2, <1>3 DEF Outstanding, NetCharge

LEMMA OutstandingOfNone ==
  ASSUME NEW key \in LedgerKeys, \A i \in Rows : ledger[i].key # key
  PROVE  Outstanding[key] = 0
  BY DEF Outstanding, HasCharge

\* Both hold after a step as before it.
LEMMA OutstandingOfRowNext ==
  ASSUME KeysUnique', NEW i \in Rows', NEW key \in LedgerKeys, ledger'[i].key = key
  PROVE  Outstanding'[key] = NetCharge'[i]
<1>1. ChargeOf(key)' \in Rows' /\ ledger'[ChargeOf(key)'].key = key
  BY DEF ChargeOf
<1>2. ChargeOf(key)' = i
  BY <1>1 DEF KeysUnique
<1>3. HasCharge(key)' <=> ledger'[i].type \in ChargeTypes
  BY DEF HasCharge, KeysUnique
<1> QED
  BY <1>2, <1>3 DEF Outstanding, NetCharge

LEMMA OutstandingOfNoneNext ==
  ASSUME NEW key \in LedgerKeys, \A i \in Rows' : ledger'[i].key # key
  PROVE  Outstanding'[key] = 0
  BY DEF Outstanding, HasCharge

\* What a row has left changes with its refunds only, and a row starts with what it
\* bills.
LEMMA NetChargeStep ==
  ASSUME TypeOK, RefundsNameCharges, NEW row, Posted(row)
  PROVE  \E n \in Nat :
           /\ n \notin Rows /\ Rows' = Rows \cup {n} /\ ledger'[n] = row
           /\ \A j \in Rows : ledger'[j] = ledger[j]
           /\ NetCharge'[n] = IF row.type \in ChargeTypes THEN row.billed ELSE 0
           /\ \A j \in Rows :
                NetCharge'[j] = IF row.type = "refund" /\ row.related = j
                                     /\ ledger[j].type \in ChargeTypes
                                  THEN NetCharge[j] - row.billed ELSE NetCharge[j]
<1>1. PICK n \in Nat :
        /\ n = Len(ledger) + 1 /\ n \notin Rows
        /\ Rows = 1 .. (n - 1) /\ Rows' = Rows \cup {n}
        /\ ledger'[n] = row /\ \A j \in Rows : ledger'[j] = ledger[j]
        /\ \A j \in Rows' : ledger'[j] \in Row
  BY RowsStep
<1>2. \A i \in Nat : /\ RefundedOf(i) \in Nat
                     /\ RefundedOf(i)' = RefundedOf(i)
                          + (IF row.type = "refund" /\ row.related = i THEN row.billed ELSE 0)
  BY RefundedOfStep
<1>3. row.billed \in Int
  BY CreditsAssumption DEF Posted, Row
<1>4. NetCharge'[n] = IF row.type \in ChargeTypes THEN row.billed ELSE 0
  <2>1. CASE row.type \in ChargeTypes
    <3>1. RefundedOf(n)' = 0
      BY <1>1, <1>2, <2>1, NewChargeUnrefunded DEF ChargeTypes
    <3> QED
      BY <1>1, <1>3, <2>1, <3>1 DEF NetCharge
  <2>2. CASE row.type \notin ChargeTypes
    BY <1>1, <2>2 DEF NetCharge
  <2> QED
    BY <2>1, <2>2
<1>5. ASSUME NEW j \in Rows
      PROVE  NetCharge'[j] = IF row.type = "refund" /\ row.related = j
                                  /\ ledger[j].type \in ChargeTypes
                               THEN NetCharge[j] - row.billed ELSE NetCharge[j]
  <2>1. j \in Nat /\ j \in Rows' /\ ledger[j].billed \in Int /\ ledger'[j] = ledger[j]
    <3>1. j \in Rows' /\ ledger'[j] = ledger[j] /\ ledger'[j] \in Row
      BY <1>1
    <3>2. j \in Nat
      BY <1>1
    <3>3. ledger[j].billed \in 0 .. MaxCredits
      BY <3>1 DEF Row
    <3> QED
      BY <3>1, <3>2, <3>3, CreditsAssumption
  <2>2. NetCharge'[j] = IF ledger[j].type \in ChargeTypes THEN ledger[j].billed - RefundedOf(j)' ELSE 0
    BY <2>1 DEF NetCharge
  <2>3. NetCharge[j] = IF ledger[j].type \in ChargeTypes THEN ledger[j].billed - RefundedOf(j) ELSE 0
    BY DEF NetCharge
  <2> QED
    BY <1>2, <1>3, <2>1, <2>2, <2>3
<1> QED
  BY <1>1, <1>4, <1>5

\* A posting changes what one charge has left: a new charge has what it bills, and a
\* refund takes from the charge it names.
LEMMA OutstandingStep ==
  ASSUME TypeOK, RefundsNameCharges, KeysUnique, NEW row, Posted(row)
  PROVE  /\ row.key \in LedgerKeys /\ Outstanding[row.key] = 0
         /\ row.type # "refund" => Outstanding' =
              [Outstanding EXCEPT ![row.key] = IF row.type \in ChargeTypes THEN row.billed ELSE 0]
         /\ \A i \in Rows : Refunds(row, i) =>
              /\ ledger[i].key \in LedgerKeys /\ Outstanding[ledger[i].key] = NetCharge[i]
              /\ Outstanding' = [Outstanding EXCEPT ![ledger[i].key] = NetCharge[i] - row.billed]
<1>1. PICK n \in Nat :
        /\ n \notin Rows /\ Rows' = Rows \cup {n} /\ ledger'[n] = row
        /\ \A j \in Rows : ledger'[j] = ledger[j]
        /\ NetCharge'[n] = IF row.type \in ChargeTypes THEN row.billed ELSE 0
        /\ \A j \in Rows :
             NetCharge'[j] = IF row.type = "refund" /\ row.related = j
                                  /\ ledger[j].type \in ChargeTypes
                               THEN NetCharge[j] - row.billed ELSE NetCharge[j]
  BY NetChargeStep
<1>2. KeysUnique'
  BY PostingKeepsUnique
<1>3. row.key \in LedgerKeys /\ \A j \in Rows : ledger[j].key \in LedgerKeys /\ ledger[j].key # row.key
  <2>1. row \in Row /\ \A j \in Rows : ledger[j] \in Row /\ ledger[j].key # row.key
    BY DEF Posted, Unused, TypeOK, Rows
  <2> QED
    BY <2>1 DEF Row
<1>4. Outstanding[row.key] = 0
  BY <1>3, OutstandingOfNone
<1>5. Outstanding'[row.key] = IF row.type \in ChargeTypes THEN row.billed ELSE 0
  BY <1>1, <1>2, <1>3, OutstandingOfRowNext
<1>6. ASSUME NEW j \in Rows
      PROVE  /\ Outstanding[ledger[j].key] = NetCharge[j]
             /\ Outstanding'[ledger[j].key] = NetCharge'[j]
  BY <1>1, <1>2, <1>3, OutstandingOfRow, OutstandingOfRowNext
<1>7. ASSUME NEW key \in LedgerKeys, key # row.key, \A j \in Rows : ledger[j].key # key
      PROVE  Outstanding'[key] = Outstanding[key]
  <2>1. Outstanding[key] = 0
    BY <1>7, OutstandingOfNone
  <2>2. \A j \in Rows' : ledger'[j].key # key
    BY <1>1, <1>7
  <2> QED
    BY <2>1, <2>2, OutstandingOfNoneNext
<1>8. /\ Outstanding = [key \in LedgerKeys |-> Outstanding[key]]
      /\ Outstanding' = [key \in LedgerKeys |-> Outstanding'[key]]
  BY DEF Outstanding
<1>9. ASSUME row.type # "refund"
      PROVE  Outstanding' =
        [Outstanding EXCEPT ![row.key] = IF row.type \in ChargeTypes THEN row.billed ELSE 0]
  <2>1. \A j \in Rows : NetCharge'[j] = NetCharge[j]
    BY <1>1, <1>9
  <2>2. \A key \in LedgerKeys : key # row.key => Outstanding'[key] = Outstanding[key]
    BY <1>6, <1>7, <2>1
  <2> QED
    BY <1>3, <1>5, <1>8, <2>2
<1>10. ASSUME NEW i \in Rows, Refunds(row, i)
       PROVE  Outstanding' = [Outstanding EXCEPT ![ledger[i].key] = NetCharge[i] - row.billed]
  <2>1. /\ NetCharge'[i] = NetCharge[i] - row.billed
        /\ \A j \in Rows : j # i => NetCharge'[j] = NetCharge[j]
    BY <1>1, <1>10 DEF Refunds
  <2>2. \A j \in Rows : j # i => ledger[j].key # ledger[i].key
    BY DEF KeysUnique
  <2>3. row.type \notin ChargeTypes
    BY <1>10 DEF Refunds, ChargeTypes
  <2>4. \A key \in LedgerKeys : key # ledger[i].key => Outstanding'[key] = Outstanding[key]
    BY <1>4, <1>5, <1>6, <1>7, <2>1, <2>3
  <2>5. Outstanding'[ledger[i].key] = NetCharge[i] - row.billed /\ ledger[i].key \in LedgerKeys
    BY <1>3, <1>6, <2>1
  <2> QED
    BY <1>8, <2>4, <2>5
<1> QED
  BY <1>3, <1>4, <1>6, <1>9, <1>10

\* What a hold sets aside, and gives back.
LEMMA HeldAmountStep ==
  ASSUME TypeOK, NEW row
  PROVE  /\ \A k \in Keys : Freezes(row, k) =>
              HeldAmount[k] = 0 /\ HeldAmount' = [HeldAmount EXCEPT ![k] = row.frozenDelta]
         /\ \A h \in Keys : Settles(row, h) =>
              /\ HeldAmount[h] = holds[h].amount /\ holds[h].amount \in Amounts
              /\ HeldAmount' = [HeldAmount EXCEPT ![h] = 0]
<1>1. ASSUME NEW k \in Keys, Freezes(row, k)
      PROVE  HeldAmount[k] = 0 /\ HeldAmount' = [HeldAmount EXCEPT ![k] = row.frozenDelta]
  <2>1. PICK new \in Hold :
          new.status = "active" /\ new.amount = row.frozenDelta /\ holds' = [holds EXCEPT ![k] = new]
    BY <1>1 DEF Freezes
  <2>2. HeldAmount[k] = 0
    BY <1>1 DEF Freezes, HeldAmount, NoSuchHold
  <2>3. HeldAmount' = [HeldAmount EXCEPT ![k] = row.frozenDelta]
    BY <2>1 DEF HeldAmount, TypeOK
  <2> QED
    BY <2>2, <2>3
<1>2. ASSUME NEW h \in Keys, Settles(row, h)
      PROVE  /\ HeldAmount[h] = holds[h].amount /\ holds[h].amount \in Amounts
             /\ HeldAmount' = [HeldAmount EXCEPT ![h] = 0]
  <2>1. PICK new \in Hold :
          new.status # "active" /\ holds' = [holds EXCEPT ![h] = new]
    BY <1>2 DEF Settles
  <2>2. holds[h].status = "active" /\ holds[h].amount \in Amounts
    BY <1>2, HoldFacts DEF Settles
  <2> QED
    BY <2>1, <2>2 DEF HeldAmount, TypeOK
<1> QED
  BY <1>1, <1>2

\* The balances of a posting, by what it posts.
LEMMA PostedMoves ==
  ASSUME TypeOK, NEW row, Posted(row)
  PROVE  /\ row.availableDelta \in Int /\ row.frozenDelta \in Int /\ row.billed \in 0 .. MaxCredits
         /\ account.available \in Nat /\ account.toppedUp \in Nat
         /\ account'.available \in Nat /\ account'.toppedUp \in 0 .. MaxCredits
         /\ MaxCredits \in Nat
         /\ account'.available = account.available + row.availableDelta
         /\ account'.toppedUp = account.toppedUp
              + (IF row.type = "topup" THEN row.availableDelta ELSE 0)
         /\ row.type # "topup" =>
              row.availableDelta + row.frozenDelta
                = (IF row.type = "refund" THEN row.billed ELSE 0)
                    - (IF row.type \in ChargeTypes THEN row.billed ELSE 0)
<1>1. row \in Row /\ account \in Account /\ account' \in Account /\ MaxCredits \in Nat
  BY CreditsAssumption DEF Posted, TypeOK
<1>2. /\ row.availableDelta \in Int /\ row.frozenDelta \in Int /\ row.billed \in 0 .. MaxCredits
      /\ account.available \in Nat /\ account.toppedUp \in Nat
      /\ account'.available \in Nat /\ account'.toppedUp \in 0 .. MaxCredits
  BY <1>1 DEF Row, Account
<1> QED
  BY <1>1, <1>2 DEF Posted, OnType, ChargeTypes

\* Each of the four ways in which a row is posted is a step of the prepaid account,
\* or none if it posts no credits.
LEMMA MovesPrepaid ==
  ASSUME Inv, KeysUnique, NEW row, Posted(row), Moves(row)
  PROVE  Prepaid!Next \/ UNCHANGED Prepaid!prepaid
<1>1. TypeOK /\ RefundsNameCharges
  BY DEF Inv
<1>2. HeldAmount' = HeldAmount
  BY DEF Moves, HeldAmount
<1>3. /\ row.key \in LedgerKeys /\ Outstanding[row.key] = 0
      /\ Outstanding' = [Outstanding EXCEPT ![row.key] =
           IF row.type \in ChargeTypes THEN row.billed ELSE 0]
  BY <1>1, OutstandingStep DEF Moves
<1>4. Outstanding = [key \in LedgerKeys |-> Outstanding[key]]
  BY DEF Outstanding
<1>5. CASE row.type = "topup"
  <2>1. Outstanding' = Outstanding
    BY <1>3, <1>4, <1>5 DEF ChargeTypes
  <2>2. row.availableDelta \in Prepaid!Credits /\ row.frozenDelta = 0
    BY <1>5 DEF Moves, Amounts, Prepaid!Credits
  <2>3. Prepaid!Deposit(row.availableDelta)
    BY <1>1, <1>2, <1>5, <2>1, <2>2, PostedMoves DEF Prepaid!Deposit
  <2> QED
    BY <2>2, <2>3 DEF Prepaid!Next
<1>6. CASE row.type = "consume"
  <2>1. /\ account'.available = account.available - row.billed /\ row.billed \in 0 .. MaxCredits
        /\ account'.available \in Nat /\ account.available \in Nat
        /\ account'.toppedUp = account.toppedUp
    BY <1>1, <1>6, PostedMoves DEF Moves, ChargeTypes
  <2>2. Outstanding' = [Outstanding EXCEPT ![row.key] = row.billed]
    BY <1>3, <1>6 DEF ChargeTypes
  <2>3. CASE row.billed = 0
    <3>1. Outstanding' = Outstanding
      BY <1>3, <1>4, <2>2, <2>3
    <3> QED
      BY <1>2, <2>1, <2>3, <3>1 DEF Prepaid!prepaid
  <2>4. CASE row.billed # 0
    <3>1. row.billed \in Prepaid!Credits
      BY <2>1, <2>4, CreditsAssumption DEF Prepaid!Credits
    <3>2. row.billed <= account.available
      BY <2>1
    <3>3. Prepaid!Charge(row.key, row.billed)
      BY <1>2, <1>3, <2>1, <2>2, <3>2 DEF Prepaid!Charge
    <3> QED
      BY <1>3, <3>1, <3>3 DEF Prepaid!Next
  <2> QED
    BY <2>3, <2>4
<1> QED
  BY <1>5, <1>6 DEF Moves

LEMMA FreezesPrepaid ==
  ASSUME Inv, KeysUnique, NEW row, Posted(row), NEW k \in Keys, Freezes(row, k)
  PROVE  Prepaid!Next
<1>1. TypeOK /\ RefundsNameCharges /\ row.type = "freeze"
  BY DEF Inv, Freezes
<1>2. HeldAmount[k] = 0 /\ HeldAmount' = [HeldAmount EXCEPT ![k] = row.frozenDelta]
  BY <1>1, HeldAmountStep
<1>3. Outstanding' = Outstanding
  <2>1. Outstanding[row.key] = 0 /\ Outstanding' = [Outstanding EXCEPT ![row.key] = 0]
    BY <1>1, OutstandingStep DEF ChargeTypes
  <2>2. Outstanding = [key \in LedgerKeys |-> Outstanding[key]]
    BY DEF Outstanding
  <2> QED
    BY <2>1, <2>2
<1>4. row.frozenDelta \in Prepaid!Credits
  BY DEF Freezes, Amounts, Prepaid!Credits
<1>5. /\ account'.available = account.available - row.frozenDelta
      /\ row.frozenDelta <= account.available /\ account'.toppedUp = account.toppedUp
  BY <1>1, PostedMoves DEF ChargeTypes
<1>6. Prepaid!Reserve(k, row.frozenDelta)
  BY <1>2, <1>3, <1>5 DEF Prepaid!Reserve
<1> QED
  BY <1>4, <1>6 DEF Prepaid!Next

LEMMA SettlesPrepaid ==
  ASSUME Inv, KeysUnique, NEW row, Posted(row), NEW h \in Keys, Settles(row, h)
  PROVE  Prepaid!Next
<1>1. TypeOK /\ RefundsNameCharges /\ row.type \in {"capture", "release"}
  BY DEF Inv, Settles
<1> DEFINE held == holds[h].amount
           charged == IF row.type = "capture" THEN row.billed ELSE 0
<1>2. /\ HeldAmount[h] = held /\ HeldAmount' = [HeldAmount EXCEPT ![h] = 0]
      /\ held \in 1 .. MaxCredits /\ row.frozenDelta = - held
  <2>1. /\ HeldAmount[h] = held /\ HeldAmount' = [HeldAmount EXCEPT ![h] = 0]
        /\ held \in Amounts
    BY <1>1, HeldAmountStep
  <2>2. row.frozenDelta = - held
    BY DEF Settles
  <2> QED
    BY <2>1, <2>2 DEF Amounts
<1>3. /\ row.key \in LedgerKeys /\ Outstanding[row.key] = 0
      /\ Outstanding' = [Outstanding EXCEPT ![row.key] = charged]
  BY <1>1, OutstandingStep DEF ChargeTypes
<1>4. charged \in 0 .. MaxCredits /\ MaxCredits \in Nat
  BY <1>1, PostedMoves
<1>5. /\ account'.available = account.available + held - charged
      /\ account'.available \in Nat /\ account.available \in Nat
      /\ account'.toppedUp = account.toppedUp
  <2>1. row.availableDelta + row.frozenDelta = 0 - charged
    BY <1>1, PostedMoves DEF ChargeTypes
  <2>2. row.availableDelta = held - charged
    BY <1>1, <1>2, <1>4, <2>1, PostedMoves
  <2> QED
    BY <1>1, <1>2, <1>4, <2>2, PostedMoves
<1> HIDE DEF held, charged
<1>6. CASE charged = 0
  <2>1. Outstanding' = Outstanding
    <3>1. Outstanding = [key \in LedgerKeys |-> Outstanding[key]]
      BY DEF Outstanding
    <3> QED
      BY <1>3, <1>6, <3>1
  <2>2. Prepaid!Return(h)
    BY <1>2, <1>5, <1>6, <2>1 DEF Prepaid!Return
  <2>3. 1 \in Prepaid!Credits
    BY CreditsAssumption DEF Prepaid!Credits
  <2> QED
    BY <2>2, <2>3 DEF Prepaid!Next
<1>7. CASE charged # 0
  <2>1. charged \in Prepaid!Credits
    BY <1>4, <1>7 DEF Prepaid!Credits
  <2>2. charged <= account.available + HeldAmount[h]
    BY <1>2, <1>4, <1>5
  <2>3. Prepaid!Settle(h, row.key, charged)
    BY <1>2, <1>3, <1>5, <2>2 DEF Prepaid!Settle
  <2> QED
    BY <1>3, <2>1, <2>3 DEF Prepaid!Next
<1> QED
  BY <1>6, <1>7

LEMMA RefundsPrepaid ==
  ASSUME Inv, KeysUnique, NEW row, Posted(row), NEW i \in Rows, Refunds(row, i)
  PROVE  Prepaid!Next \/ UNCHANGED Prepaid!prepaid
<1>1. TypeOK /\ RefundsNameCharges /\ row.type = "refund"
  BY DEF Inv, Refunds
<1> DEFINE key == ledger[i].key
<1>2. HeldAmount' = HeldAmount
  BY DEF Refunds, HeldAmount
<1>3. /\ key \in LedgerKeys /\ Outstanding[key] = NetCharge[i]
      /\ Outstanding' = [Outstanding EXCEPT ![key] = NetCharge[i] - row.billed]
  BY <1>1, OutstandingStep
<1>4. /\ account'.available = account.available + row.billed /\ row.billed \in 0 .. MaxCredits
      /\ account.available \in Nat /\ account'.toppedUp = account.toppedUp
  BY <1>1, PostedMoves DEF Refunds, ChargeTypes
<1>5. row.billed <= NetCharge[i] /\ NetCharge[i] \in Int
  <2>1. i \in Nat /\ ledger[i] \in Row
    BY <1>1 DEF TypeOK, Rows
  <2>2. RefundedOf(i) \in Nat /\ ledger[i].billed \in Int
    BY <1>1, <2>1, RefundedOfStep, CreditsAssumption DEF Row
  <2> QED
    BY <1>4, <2>2 DEF Refunds, NetCharge
<1> HIDE DEF key
<1>6. CASE row.billed = 0
  <2>1. Outstanding' = Outstanding
    <3>1. Outstanding = [o \in LedgerKeys |-> Outstanding[o]]
      BY DEF Outstanding
    <3> QED
      BY <1>3, <1>5, <1>6, <3>1
  <2> QED
    BY <1>2, <1>4, <1>6, <2>1 DEF Prepaid!prepaid
<1>7. CASE row.billed # 0
  <2>1. row.billed \in Prepaid!Credits
    BY <1>4, <1>7, CreditsAssumption DEF Prepaid!Credits
  <2>2. Prepaid!Refund(key, row.billed)
    BY <1>2, <1>3, <1>4, <1>5 DEF Prepaid!Refund
  <2> QED
    BY <1>3, <2>1, <2>2 DEF Prepaid!Next
<1> QED
  BY <1>6, <1>7

LEMMA InitPrepaid ==
  ASSUME Init
  PROVE  Prepaid!Init
<1>1. Rows = {}
  BY DEF Init, Rows
<1>2. HeldAmount = [k \in Keys |-> 0]
  BY DEF Init, HeldAmount, NoSuchHold
<1>3. Outstanding = [key \in LedgerKeys |-> 0]
  BY <1>1 DEF Outstanding, HasCharge
<1> QED
  BY <1>2, <1>3 DEF Init, Prepaid!Init

LEMMA StepPrepaid ==
  ASSUME Inv, KeysUnique, [Next]_vars
  PROVE  [Prepaid!Next]_Prepaid!prepaid
<1>1. CASE UNCHANGED vars
  BY <1>1 DEF vars, Prepaid!prepaid, HeldAmount, Outstanding, HasCharge, ChargeOf, RefundedOf,
     RefundAmount, Rows
<1>2. CASE Next
  <2>1. PICK row : /\ Posted(row)
                   /\ \/ Moves(row)
                      \/ \E k \in Keys : Freezes(row, k)
                      \/ \E h \in Keys : Settles(row, h)
                      \/ \E i \in Rows : Refunds(row, i)
    BY <1>2, StepPosts DEF Inv
  <2> QED
    BY <2>1, MovesPrepaid, FreezesPrepaid, SettlesPrepaid, RefundsPrepaid
<1> QED
  BY <1>1, <1>2

LEMMA UniqueKept ==
  ASSUME Inv, KeysUnique, [Next]_vars
  PROVE  KeysUnique'
<1>1. CASE UNCHANGED vars
  BY <1>1 DEF vars, KeysUnique, Rows
<1>2. CASE Next
  <2>1. PICK row : Posted(row)
    BY <1>2, StepPosts DEF Inv
  <2> QED
    BY <2>1, PostingKeepsUnique DEF Inv
<1> QED
  BY <1>1, <1>2

\* Every behaviour of the ledger is one of the prepaid account: whatever holds,
\* captures, refunds and sweeps do, credits come with top-ups only, and each is free,
\* reserved for one hold or spent on one charge.
THEOREM LedgerIsPrepaid == Spec => PrepaidSpec
<1>1. Init => Prepaid!Init /\ KeysUnique
  BY InitPrepaid DEF Init, KeysUnique, Rows
<1>2. Inv /\ KeysUnique /\ [Next]_vars => KeysUnique' /\ [Prepaid!Next]_Prepaid!prepaid
  BY StepPrepaid, UniqueKept
<1> QED
  BY <1>1, <1>2, LedgerInvariant, PTL DEF Spec, PrepaidSpec, Prepaid!Spec

-----------------------------------------------------------------------------
(* The service: the inductive invariant.                                     *)

Rates == [unitSize : Nat \ {0}, creditsPerUnit : Nat \ {0}]

RequestType ==
  [op : Kinds \cup {"none"}, key : Keys \cup {None}, target : Keys \cup {None} \cup Nat \cup Rates,
   units : Nat, ref : Refs \cup {None}]

CallType ==
  [pc : {"idle", "list", "sweep", "lookup", "price", "store", "rate", "audit"},
   request : RequestType, price : Nat, at : Int, todo : SUBSET Keys]

ServiceTypeOK ==
  /\ workload \in Workloads /\ rate \in Rates
  /\ calls \in [Callers -> CallType]
  /\ audit \in Seq([op : {"topup", "refund", "rate"}, of : Nat])
  /\ crashes \in Nat /\ rateChanges \in Nat

\* The clock, and what expires when it is read now, are readings.
ClockSound == now \in Nat /\ now \in Times /\ now + HoldTime \in Times
                /\ (now = 0 \/ now + HoldTime <= workload.until)

Priced == {"hold", "consume", "capture"}

RequestSound(r, rows) ==
  /\ r.op \in Priced \cup Audited \cup {"release"} => r.key \in Keys
  /\ r.op \in Priced \cup Audited => r.ref \in Refs /\ r.units \in Nat \ {0}
  /\ r.op = "refund" => r.target \in rows
  /\ r.op \in {"capture", "release"} => r.target \in Keys
  /\ r.op = "rate" => r.target \in Rates

\* What a call has read is fit for the transaction it is on the way to.
CallSound(call, rows) ==
  /\ RequestSound(call.request, rows)
  /\ call.pc \in {"list", "sweep"} => call.request.op \in Sweeping
  /\ call.pc = "sweep" => call.at \in Times
  /\ call.pc = "lookup" => call.request.op \in {"capture", "release"}
  /\ call.pc = "price" => call.request.op \in Priced
  /\ call.pc = "store" =>
       /\ call.request.op \in Priced \cup Audited \cup {"release"}
       /\ call.request.op \in Priced =>
            call.price \in Amounts /\ call.at \in Times /\ call.at + HoldTime \in Times
  /\ call.pc = "rate" => call.request.op = "rate"

CallsSound == \A c \in Callers : CallSound(calls[c], Rows)

\* The event a call is still to append.
Pending(c) == calls[c].pc = "audit"
Event(c) == [op |-> calls[c].request.op, of |-> calls[c].at]

\* An event is of its own row or change of the rate.
EventOf(e) ==
  IF e.op = "rate" THEN e.of \in 1 .. rateChanges
  ELSE e.op \in Audited /\ e.of \in Rows /\ ledger[e.of].type = e.op

EventsSound == \A n \in DOMAIN audit : EventOf(audit[n])
EventsDiffer == \A m, n \in DOMAIN audit : audit[m] = audit[n] => m = n

PendingSound == \A c \in Callers : Pending(c) => EventOf(Event(c))
PendingDiffer ==
  /\ \A c, d \in Callers : Pending(c) /\ Pending(d) /\ Event(c) = Event(d) => c = d
  /\ \A c \in Callers, n \in DOMAIN audit : Pending(c) => audit[n] # Event(c)

Recorded(e) ==
  (\E n \in DOMAIN audit : audit[n] = e) \/ (\E c \in Callers : Pending(c) /\ Event(c) = e)

\* The rows whose event was lost with the instance that was to append it.
RowEvent(i) == [op |-> ledger[i].type, of |-> i]
Lost == {i \in Rows : ledger[i].type \in Audited /\ ~ Recorded(RowEvent(i))}
FewLost == Cardinality(Lost) <= crashes

Events == EventsSound /\ EventsDiffer /\ PendingSound /\ PendingDiffer /\ FewLost

ServiceInv == Inv /\ ServiceTypeOK /\ ClockSound /\ CallsSound /\ Events

-----------------------------------------------------------------------------
(* A unit begun costs something.                                             *)
LEMMA QuotientPositive ==
  ASSUME NEW a \in Nat, NEW b \in Nat \ {0}, a >= b
  PROVE  a \div b \in Nat \ {0}
  OBVIOUS

LEMMA ProductPositive ==
  ASSUME NEW a \in Nat \ {0}, NEW b \in Nat \ {0}
  PROVE  a * b \in Nat \ {0}
  OBVIOUS

LEMMA PricePositive ==
  ASSUME NEW r \in Rates, NEW units \in Nat \ {0}
  PROVE  Price(r, units) \in Nat \ {0}
<1>1. r.unitSize \in Nat \ {0} /\ r.creditsPerUnit \in Nat \ {0}
  BY DEF Rates
<1>2. units + r.unitSize - 1 \in Nat /\ units + r.unitSize - 1 >= r.unitSize
  BY <1>1
<1>3. (units + r.unitSize - 1) \div r.unitSize \in Nat \ {0}
  BY <1>1, <1>2, QuotientPositive
<1> QED
  BY <1>1, <1>3, ProductPositive DEF Price

-----------------------------------------------------------------------------
(* The ledger's side of a step.                                              *)

\* The rows there were are still there, as they were.
Grows == Len(ledger') \in Nat /\ Rows \subseteq Rows' /\ \A i \in Rows : ledger'[i] = ledger[i]

LEMMA AppendGrows ==
  ASSUME ledger \in Seq(Row), NEW row \in Row, ledger' = Append(ledger, row)
  PROVE  Grows /\ Rows' \ Rows = {Len(ledger) + 1} /\ ledger'[Len(ledger) + 1] = row
<1>1. /\ Len(ledger') = Len(ledger) + 1 /\ Len(ledger) \in Nat
      /\ \A i \in Rows : ledger'[i] = ledger[i]
      /\ ledger'[Len(ledger) + 1] = row
      /\ Rows' = Rows \cup {Len(ledger) + 1} /\ Len(ledger) + 1 \notin Rows
  BY Appended
<1>2. Len(ledger') \in Nat
  BY <1>1
<1>3. Rows \subseteq Rows'
  BY <1>1
<1>4. Rows' \ Rows = {Len(ledger) + 1}
  BY <1>1
<1> QED
  BY <1>1, <1>2, <1>3, <1>4 DEF Grows

\* What is appended comes last, whatever it is.
LEMMA AppendLast ==
  ASSUME NEW S, NEW s \in Seq(S), NEW e
  PROVE  Append(s, e)[Len(s) + 1] = e
<1>1. s \in Seq(S \cup {e})
  OBVIOUS
<1> QED
  BY <1>1

LEMMA SameGrows ==
  ASSUME ledger \in Seq(Row), UNCHANGED ledger
  PROVE  Grows /\ Rows' = Rows
  BY DEF Grows, Rows

\* The type of a row that is appended.
LEMMA EntryType ==
  ASSUME ledger \in Seq(Row), NEW row \in Row, ledger' = Append(ledger, row),
         NEW type, NEW key, NEW da, NEW df, NEW billed, NEW ref, NEW hold, NEW related,
         ledger' = Append(ledger, Entry(type, key, da, df, billed, ref, hold, related))
  PROVE  row.type = type
<1> DEFINE entry == Entry(type, key, da, df, billed, ref, hold, related)
<1>1. entry.type = type
  BY DEF Entry
<1> HIDE DEF entry
<1>2. ledger'[Len(ledger) + 1] = entry
  BY AppendLast DEF entry
<1>3. ledger'[Len(ledger) + 1] = row
  BY Appended
<1> QED
  BY <1>1, <1>2, <1>3

\* Whatever a call has come to store, the transaction is one the ledger may make.
LEMMA StoreIsLedgerStep ==
  ASSUME Inv, CallsSound, NEW c \in Callers, StoreCommit(c)
  PROVE  Next
<1> DEFINE call == calls[c]
           r == call.request
<1>1. call.pc = "store" /\ Transaction(call)
  BY DEF StoreCommit
<1>2. /\ r.op \in Priced \cup Audited \cup {"release"} /\ r.key \in Keys
      /\ r.op \in Priced \cup Audited => r.ref \in Refs /\ r.units \in Nat \ {0}
      /\ r.op = "refund" => r.target \in Rows
      /\ r.op \in {"capture", "release"} => r.target \in Keys
      /\ r.op \in Priced => call.price \in Amounts /\ call.at \in Times /\ call.at + HoldTime \in Times
  BY <1>1 DEF CallsSound, CallSound, RequestSound
<1>3. MaxCredits \in Nat /\ account \in Account /\ account.available \in Nat
  BY CreditsAssumption DEF Inv, TypeOK, Account
<1> HIDE DEF call, r
<1>4. CASE r.op = "topup"
  <2>1. TopUp(r.key, r.units, r.ref)
    BY <1>1, <1>4 DEF Transaction, r, call
  <2>2. r.units \in Amounts
    <3>1. account'.available = account.available + r.units
      BY <1>3, <2>1 DEF TopUp, Account
    <3>2. account'.available \in 0 .. MaxCredits
      BY <2>1 DEF TopUp, WithinLimits, Account
    <3> QED
      BY <1>2, <1>3, <1>4, <3>1, <3>2 DEF Amounts, Audited
  <2> QED
    BY <1>2, <1>4, <2>1, <2>2 DEF Next, Bookings, Audited
<1>5. CASE r.op = "refund"
  <2>1. Refund(r.target, r.key, r.units, r.ref)
    BY <1>1, <1>5 DEF Transaction, r, call
  <2>2. r.units \in Amounts
    <3>1. account'.available = account.available + r.units
      BY <1>3, <2>1 DEF Refund, Account
    <3>2. account'.available \in 0 .. MaxCredits
      BY <2>1 DEF Refund, WithinLimits, Account
    <3> QED
      BY <1>2, <1>3, <1>5, <3>1, <3>2 DEF Amounts, Audited
  <2> QED
    BY <1>2, <1>5, <2>1, <2>2 DEF Next, Bookings, Audited
<1>6. CASE r.op = "hold"
  <2>1. CreateHold(r.key, call.price, r.ref, call.at, call.at + HoldTime)
    BY <1>1, <1>6 DEF Transaction, r
  <2> QED
    BY <1>2, <1>6, <2>1 DEF Next, Bookings, Priced
<1>7. CASE r.op = "capture"
  <2>1. CaptureHold(r.target, r.key, call.price, r.ref, call.at)
    BY <1>1, <1>7 DEF Transaction, r
  <2> QED
    BY <1>2, <1>7, <2>1 DEF Next, Bookings, Priced
<1>8. CASE r.op = "release"
  <2>1. Release(r.target, r.key)
    BY <1>1, <1>8 DEF Transaction, r
  <2> QED
    BY <1>2, <1>8, <2>1 DEF Next, Bookings
<1>9. CASE r.op = "consume"
  <2>1. Consume(r.key, call.price, r.ref)
    BY <1>1, <1>9 DEF Transaction, r
  <2> QED
    BY <1>2, <1>9, <2>1 DEF Next, Bookings, Priced
<1> QED
  BY <1>2, <1>4, <1>5, <1>6, <1>7, <1>8, <1>9 DEF Priced, Audited

\* The row it appends is of the call's operation, as far as audits tell them apart.
LEMMA StoreAppends ==
  ASSUME Inv, CallsSound, NEW c \in Callers, StoreCommit(c)
  PROVE  /\ Grows /\ Rows' \ Rows = {Len(ledger) + 1}
         /\ IF calls[c].request.op \in Audited
              THEN ledger'[Len(ledger) + 1].type = calls[c].request.op
              ELSE ledger'[Len(ledger) + 1].type \notin Audited
<1> DEFINE op == calls[c].request.op
<1>1. PICK row : row \in Row /\ ledger' = Append(ledger, row)
  BY StoreIsLedgerStep, StepPosts DEF Posted, Inv
<1>2. Grows /\ Rows' \ Rows = {Len(ledger) + 1} /\ ledger'[Len(ledger) + 1] = row
  BY <1>1, AppendGrows DEF Inv, TypeOK
<1>3. op \in Priced \cup Audited \cup {"release"} /\ Transaction(calls[c])
  BY DEF StoreCommit, CallsSound, CallSound
<1> DEFINE r == calls[c].request
           price == calls[c].price
<1>4. CASE op = "topup"
  <2>1. ledger' = Append(ledger,
          Entry("topup", r.key, r.units, 0, 0, r.ref, None, 0))
    BY <1>3, <1>4 DEF Transaction, TopUp
  <2> QED
    BY <1>1, <1>2, <1>4, <2>1, EntryType DEF Inv, TypeOK, Audited
<1>5. CASE op = "refund"
  <2>1. ledger' = Append(ledger,
          Entry("refund", r.key, r.units, 0, r.units, r.ref, None, r.target))
    BY <1>3, <1>5 DEF Transaction, Refund
  <2> QED
    BY <1>1, <1>2, <1>5, <2>1, EntryType DEF Inv, TypeOK, Audited
<1>6. CASE op = "hold"
  <2>1. ledger' = Append(ledger,
          Entry("freeze", r.key, -price, price, 0, r.ref, r.key, 0))
    BY <1>3, <1>6 DEF Transaction, CreateHold
  <2>2. row.type = "freeze"
    BY <1>1, <2>1, EntryType DEF Inv, TypeOK
  <2> QED
    BY <1>2, <1>6, <2>2 DEF Audited
<1>7. CASE op = "capture"
  <2> DEFINE held == holds[r.target].amount
  <2>1. ledger' = Append(ledger, Entry("capture", r.key, Remainder(held, price), -held,
                                       price, r.ref, r.target, 0))
    BY <1>3, <1>7 DEF Transaction, CaptureHold
  <2>2. row.type = "capture"
    BY <1>1, <2>1, EntryType DEF Inv, TypeOK
  <2> QED
    BY <1>2, <1>7, <2>2 DEF Audited
<1>8. CASE op = "release"
  <2> DEFINE held == holds[r.target].amount
  <2>1. ledger' = Append(ledger, Entry("release", r.key, held, -held, 0,
                                       holds[r.target].ref, r.target, 0))
    BY <1>3, <1>8 DEF Transaction, Release, ReleaseHold
  <2>2. row.type = "release"
    BY <1>1, <2>1, EntryType DEF Inv, TypeOK
  <2> QED
    BY <1>2, <1>8, <2>2 DEF Audited
<1>9. CASE op = "consume"
  <2>1. ledger' = Append(ledger,
          Entry("consume", r.key, -price, 0, price, r.ref, None, 0))
    BY <1>3, <1>9 DEF Transaction, Consume
  <2>2. row.type = "consume"
    BY <1>1, <2>1, EntryType DEF Inv, TypeOK
  <2> QED
    BY <1>2, <1>9, <2>2 DEF Audited
<1> QED
  BY <1>3, <1>4, <1>5, <1>6, <1>7, <1>8, <1>9 DEF Priced, Audited

\* So is the return of a hold that a sweep makes.
LEMMA SweepIsLedgerStep ==
  ASSUME Inv, CallsSound, NEW c \in Callers, NEW h \in Keys, SweepOne(c, h)
  PROVE  Next \/ UNCHANGED vars
<1>1. calls[c].at \in Times
  BY DEF SweepOne, CallsSound, CallSound
<1> QED
  BY <1>1 DEF SweepOne, Next, Bookings

LEMMA SweepAppends ==
  ASSUME Inv, CallsSound, NEW c \in Callers, NEW h \in Keys, SweepOne(c, h)
  PROVE  Grows /\ \A i \in Rows' \ Rows : ledger'[i].type \notin Audited
<1>1. CASE UNCHANGED vars
  BY <1>1, SameGrows DEF vars, Inv, TypeOK
<1>2. CASE Expire(h, calls[c].at)
  <2>1. calls[c].at \in Times
    BY DEF SweepOne, CallsSound, CallSound
  <2>2. Next
    BY <1>2, <2>1 DEF Next, Bookings
  <2>3. PICK row : row \in Row /\ ledger' = Append(ledger, row)
    BY <2>2, StepPosts DEF Posted, Inv
  <2>4. Grows /\ Rows' \ Rows = {Len(ledger) + 1} /\ ledger'[Len(ledger) + 1] = row
    BY <2>3, AppendGrows DEF Inv, TypeOK
  <2>5. ledger' = Append(ledger, Entry("release", ExpiryKey(h), holds[h].amount, -holds[h].amount,
                                       0, holds[h].ref, h, 0))
    BY <1>2 DEF Expire, ReleaseHold
  <2>6. row.type = "release"
    BY <2>3, <2>5, EntryType DEF Inv, TypeOK
  <2> QED
    BY <2>4, <2>6 DEF Audited
<1> QED
  BY <1>1, <1>2 DEF SweepOne

-----------------------------------------------------------------------------
(* The calls' side of a step.                                                *)

LEMMA ServiceInit0 ==
  ASSUME ServiceInit
  PROVE  ServiceInv
<1>1. Inv
  BY InitInv DEF ServiceInit
<1>2. Idle \in CallType /\ \A rows : CallSound(Idle, rows)
  BY DEF Idle, At, NoRequest, Request, CallType, RequestType, CallSound, RequestSound, Priced,
     Audited, Sweeping
<1>3. workload \in Workloads /\ workload.rates \subseteq Rates /\ workload.until \in Nat
        /\ 0 .. workload.until \subseteq Times /\ HoldTime \in Times /\ HoldTime \in Nat
  BY ServiceAssumption DEF ServiceInit, Rates
<1>4. ServiceTypeOK
  BY <1>2, <1>3 DEF ServiceInit, ServiceTypeOK
<1>5. ClockSound
  BY <1>3 DEF ServiceInit, ClockSound
<1>6. CallsSound
  BY <1>2 DEF ServiceInit, CallsSound
<1>7. \A c \in Callers : ~ Pending(c)
  BY DEF ServiceInit, Pending, Idle, At
<1>8. Rows = {} /\ DOMAIN audit = {}
  BY DEF ServiceInit, Init, Rows
<1>9. Lost = {}
  BY <1>8 DEF Lost
<1>10. FewLost
  BY <1>9, FS_EmptySet DEF FewLost, ServiceInit
<1>11. EventsSound /\ EventsDiffer /\ PendingSound /\ PendingDiffer
  BY <1>7, <1>8 DEF EventsSound, EventsDiffer, PendingSound, PendingDiffer
<1> QED
  BY <1>1, <1>4, <1>5, <1>6, <1>10, <1>11 DEF ServiceInv, Events

\* A call takes its step, and the others stay where they are.
LEMMA CallMoves ==
  ASSUME calls \in [Callers -> CallType], NEW c \in Callers, NEW call \in CallType,
         calls' = [calls EXCEPT ![c] = call]
  PROVE  /\ calls' \in [Callers -> CallType]
         /\ calls'[c] = call
         /\ \A d \in Callers : d # c => calls'[d] = calls[d]
  OBVIOUS

LEMMA SoundStays ==
  ASSUME NEW call, NEW rows, NEW more, rows \subseteq more, CallSound(call, rows)
  PROVE  CallSound(call, more)
  BY DEF CallSound, RequestSound

LEMMA CallsStaySound ==
  ASSUME CallsSound, Grows, calls \in [Callers -> CallType],
         NEW c \in Callers, NEW call \in CallType, CallSound(call, Rows'),
         calls' = [calls EXCEPT ![c] = call]
  PROVE  CallsSound'
<1> SUFFICES ASSUME NEW d \in Callers PROVE CallSound(calls'[d], Rows')
  BY DEF CallsSound
<1>1. Rows \subseteq Rows'
  BY DEF Grows
<1>2. CASE d = c
  BY <1>2, CallMoves
<1>3. CASE d # c
  <2>1. calls'[d] = calls[d] /\ CallSound(calls[d], Rows)
    BY <1>3, CallMoves DEF CallsSound
  <2> QED
    BY <1>1, <2>1, SoundStays
<1> QED
  BY <1>2, <1>3

\* What is recorded and of its own row stays so.
LEMMA EventOfStays ==
  ASSUME Grows, rateChanges \in Nat, rateChanges' \in Nat, rateChanges <= rateChanges',
         NEW e, EventOf(e)
  PROVE  EventOf(e)'
  BY DEF EventOf, Grows

LEMMA FewLostStays ==
  ASSUME Inv, crashes \in Nat, FewLost, Lost' \subseteq Lost, UNCHANGED crashes
  PROVE  FewLost'
<1>1. IsFiniteSet(Rows)
  BY FS_Interval DEF Rows, Inv, TypeOK
<1>2. IsFiniteSet(Lost)
  BY <1>1, FS_Subset DEF Lost
<1>3. Cardinality(Lost') <= Cardinality(Lost) /\ Cardinality(Lost) \in Nat
        /\ Cardinality(Lost') \in Nat
  BY <1>2, FS_Subset, FS_CardinalityType
<1> QED
  BY <1>3 DEF FewLost

\* A row was lost before if it is now, unless its event has gone.
LEMMA LostBefore ==
  ASSUME Grows,
         \A i \in Rows' \ Rows : ledger'[i].type \in Audited => Recorded(RowEvent(i))',
         \A i \in Rows : Recorded(RowEvent(i)) => Recorded(RowEvent(i))'
  PROVE  Lost' \subseteq Lost
<1>1. \A i \in Rows : i \in Lost' => i \in Lost
  BY DEF Lost, Grows
<1> QED
  BY <1>1 DEF Lost

LEMMA LostFinite ==
  ASSUME Inv
  PROVE  IsFiniteSet(Lost)
<1>1. IsFiniteSet(Rows)
  BY FS_Interval DEF Rows, Inv, TypeOK
<1> QED
  BY <1>1, FS_Subset DEF Lost

\* A step after which the same calls are to append the same events.
LEMMA EventsStay ==
  ASSUME Inv, ServiceTypeOK, Events, Grows,
         \A i \in Rows' \ Rows : ledger'[i].type \notin Audited,
         \A d \in Callers : (Pending(d)' <=> Pending(d)) /\ (Pending(d) => Event(d)' = Event(d)),
         UNCHANGED <<audit, crashes, rateChanges>>
  PROVE  Events'
<1>1. \A e : EventOf(e) => EventOf(e)'
  BY EventOfStays DEF ServiceTypeOK
<1>2. EventsSound' /\ EventsDiffer'
  BY <1>1 DEF Events, EventsSound, EventsDiffer
<1>3. PendingSound'
  BY <1>1 DEF Events, PendingSound
<1>4. PendingDiffer'
  BY DEF Events, PendingDiffer
<1>5. ASSUME NEW i \in Rows, Recorded(RowEvent(i)) PROVE Recorded(RowEvent(i))'
  <2>1. RowEvent(i)' = RowEvent(i)
    BY DEF RowEvent, Grows
  <2> QED
    BY <1>5, <2>1 DEF Recorded
<1>6. Lost' \subseteq Lost
  BY <1>5, LostBefore
<1>7. FewLost'
  BY <1>6, FewLostStays DEF Events, ServiceTypeOK
<1> QED
  BY <1>2, <1>3, <1>4, <1>7 DEF Events

\* A call that has an event e to append, of what its transaction has just done.
LEMMA EventPends ==
  ASSUME Inv, ServiceTypeOK, Events, Grows, NEW c \in Callers, ~ Pending(c),
         NEW e, Pending(c)', Event(c)' = e, ~ EventOf(e), EventOf(e)',
         \A i \in Rows' \ Rows : ledger'[i].type \in Audited => RowEvent(i)' = e,
         \A d \in Callers \ {c} : calls'[d] = calls[d],
         rateChanges' \in Nat, rateChanges <= rateChanges', UNCHANGED <<audit, crashes>>
  PROVE  Events'
<1>1. \A f : EventOf(f) => EventOf(f)'
  BY EventOfStays DEF ServiceTypeOK
<1>2. EventsSound' /\ EventsDiffer'
  BY <1>1 DEF Events, EventsSound, EventsDiffer
<1>3. \A d \in Callers \ {c} : (Pending(d)' <=> Pending(d)) /\ Event(d)' = Event(d)
  BY DEF Pending, Event
<1>4. PendingSound'
  BY <1>1, <1>3 DEF Events, PendingSound
<1>5. /\ \A d \in Callers : Pending(d) => Event(d) # e
      /\ \A n \in DOMAIN audit : audit[n] # e
  BY DEF Events, PendingSound, EventsSound
<1>6. PendingDiffer'
  <2>1. \A d \in Callers, f \in Callers :
          Pending(d)' /\ Pending(f)' /\ Event(d)' = Event(f)' => d = f
    BY <1>3, <1>5 DEF Events, PendingDiffer
  <2>2. \A d \in Callers, n \in DOMAIN audit : Pending(d)' => audit[n] # Event(d)'
    BY <1>3, <1>5 DEF Events, PendingDiffer
  <2> QED
    BY <2>1, <2>2 DEF PendingDiffer
<1>7. ASSUME NEW i \in Rows, Recorded(RowEvent(i)) PROVE Recorded(RowEvent(i))'
  <2>1. RowEvent(i)' = RowEvent(i)
    BY DEF RowEvent, Grows
  <2>2. \A d \in Callers : Pending(d) /\ Event(d) = RowEvent(i) => Pending(d)' /\ Event(d)' = Event(d)
    BY <1>3
  <2> QED
    BY <1>7, <2>1, <2>2 DEF Recorded
<1>8. \A i \in Rows' \ Rows : ledger'[i].type \in Audited => Recorded(RowEvent(i))'
  BY DEF Recorded
<1>9. Lost' \subseteq Lost
  BY <1>7, <1>8, LostBefore
<1>10. FewLost'
  BY <1>9, FewLostStays DEF Events, ServiceTypeOK
<1> QED
  BY <1>2, <1>4, <1>6, <1>10 DEF Events

\* A call takes a step that has nothing to do with events.
LEMMA QuietStep ==
  ASSUME ServiceInv, Grows, \A i \in Rows' \ Rows : ledger'[i].type \notin Audited,
         NEW c \in Callers, NEW call \in CallType, CallSound(call, Rows'),
         calls[c].pc # "audit", call.pc # "audit",
         calls' = [calls EXCEPT ![c] = call],
         UNCHANGED <<workload, now, rate, audit, crashes, rateChanges>>
  PROVE  ServiceTypeOK' /\ ClockSound' /\ CallsSound' /\ Events'
<1>1. calls \in [Callers -> CallType]
  BY DEF ServiceInv, ServiceTypeOK
<1>2. /\ calls' \in [Callers -> CallType] /\ calls'[c] = call
      /\ \A d \in Callers : d # c => calls'[d] = calls[d]
  BY <1>1, CallMoves
<1>3. ServiceTypeOK'
  BY <1>2 DEF ServiceInv, ServiceTypeOK
<1>4. ClockSound'
  BY DEF ServiceInv, ClockSound
<1>5. CallsSound'
  BY <1>1, CallsStaySound DEF ServiceInv
<1>6. \A d \in Callers : (Pending(d)' <=> Pending(d)) /\ (Pending(d) => Event(d)' = Event(d))
  BY <1>2 DEF Pending, Event
<1>7. Events'
  BY <1>6, EventsStay DEF ServiceInv
<1> QED
  BY <1>3, <1>4, <1>5, <1>7

\* A call is answered, or refused, that has no event to append.
LEMMA IdleSound == Idle \in CallType /\ \A rows : CallSound(Idle, rows)
  BY DEF Idle, At, NoRequest, Request, CallType, RequestType, CallSound, RequestSound, Priced,
     Audited, Sweeping

LEMMA LeaveQuietly ==
  ASSUME ServiceInv, Grows, \A i \in Rows' \ Rows : ledger'[i].type \notin Audited,
         NEW c \in Callers, calls[c].pc # "audit", Leave(c),
         UNCHANGED <<workload, now, rate, audit, crashes, rateChanges>>
  PROVE  ServiceTypeOK' /\ ClockSound' /\ CallsSound' /\ Events'
<1>1. Idle.pc # "audit"
  BY DEF Idle, At
<1> QED
  BY <1>1, IdleSound, QuietStep DEF Leave

-----------------------------------------------------------------------------
(* One lemma for each action of the service.                                 *)

\* What is asked for is of a key, a hold and a row there are.
LEMMA RequestsSound ==
  ASSUME ServiceInv, NEW request \in Requests, request.op \in Ops
  PROVE  /\ request \in RequestType
         /\ RequestSound(request, Rows)
         /\ request.op \in Priced \cup Audited \cup {"release", "account", "rate"}
<1>1. \A op : Keyed(op) \subseteq Keys
  BY ServiceAssumption DEF Keyed, Ops, ServiceInv, ServiceTypeOK
<1>2. Units \subseteq Nat \ {0} /\ workload.rates \subseteq Rates /\ Rows \subseteq Nat
  BY ServiceAssumption DEF ServiceInv, ServiceTypeOK, Rates, Rows
<1> DEFINE Sound(r) == /\ r \in RequestType
                       /\ RequestSound(r, Rows)
                       /\ r.op \in Priced \cup Audited \cup {"release", "account", "rate"}
<1>3. Sound(ReadAccount)
  BY DEF ReadAccount, Request, RequestType, RequestSound, Priced, Audited, Kinds
<1>4. ASSUME NEW k \in Keys, NEW u \in Units, NEW r \in Refs
      PROVE  /\ Sound(Request("topup", k, None, u, r))
             /\ Sound(Request("hold", k, None, u, r))
             /\ Sound(Request("consume", k, None, u, r))
  BY <1>2 DEF Request, RequestType, RequestSound, Priced, Audited, Kinds
<1>5. ASSUME NEW k \in Keys, NEW i \in Rows, NEW u \in Units, NEW r \in Refs
      PROVE  Sound(Request("refund", k, i, u, r))
  BY <1>2 DEF Request, RequestType, RequestSound, Priced, Audited, Kinds
<1>6. ASSUME NEW k \in Keys, NEW h \in Keys, NEW u \in Units, NEW r \in Refs
      PROVE  Sound(Request("capture", k, h, u, r))
  BY <1>2 DEF Request, RequestType, RequestSound, Priced, Audited, Kinds
<1>7. ASSUME NEW k \in Keys, NEW h \in Keys
      PROVE  Sound(Request("release", k, h, 0, None))
  BY <1>2 DEF Request, RequestType, RequestSound, Priced, Audited, Kinds
<1>8. ASSUME NEW r \in workload.rates
      PROVE  Sound(Request("rate", None, r, 0, None))
  BY <1>2 DEF Request, RequestType, RequestSound, Priced, Audited, Kinds
<1> HIDE DEF Sound
<1>9. Sound(request)
  BY <1>1, <1>3, <1>4, <1>5, <1>6, <1>7, <1>8 DEF Requests
<1> QED
  BY <1>9 DEF Sound

LEMMA BeginKeeps ==
  ASSUME ServiceInv, NEW c \in Callers, NEW request \in Requests, Begin(c, request)
  PROVE  ServiceInv'
<1> DEFINE call == At(FirstStep(request.op), request)
<1>1. /\ request \in RequestType /\ RequestSound(request, Rows)
      /\ request.op \in Priced \cup Audited \cup {"release", "account", "rate"}
  BY RequestsSound DEF Begin
<1>2. /\ call.pc = FirstStep(request.op) /\ call.request = request
      /\ call \in CallType
  BY <1>1 DEF At, FirstStep, CallType
<1>3. CallSound(call, Rows)
  BY <1>1, <1>2 DEF CallSound, FirstStep, Priced, Audited, Sweeping
<1>4. call.pc # "audit"
  BY <1>2 DEF FirstStep
<1>5. Grows /\ Rows' = Rows
  BY SameGrows DEF ServiceInv, Inv, TypeOK, Begin, vars
<1>6. calls[c].pc # "audit"
  BY DEF Begin, Idle, At
<1>7. ServiceTypeOK' /\ ClockSound' /\ CallsSound' /\ Events'
  <2> HIDE DEF call
  <2>1. calls' = [calls EXCEPT ![c] = call]
    BY DEF Begin, call
  <2> QED
    BY <1>2, <1>3, <1>4, <1>5, <1>6, <2>1, QuietStep DEF Begin
<1>8. Inv'
  BY StutterInv DEF ServiceInv, Begin
<1> QED
  BY <1>7, <1>8 DEF ServiceInv

\* A call reads something and goes on, and the ledger is as it was.
LEMMA ReadingKeeps ==
  ASSUME ServiceInv, NEW c \in Callers, NEW call \in CallType, CallSound(call, Rows),
         calls[c].pc # "audit", call.pc # "audit",
         calls' = [calls EXCEPT ![c] = call],
         UNCHANGED <<vars, workload, now, rate, audit, crashes, rateChanges>>
  PROVE  ServiceInv'
<1>1. Inv'
  BY StutterInv DEF ServiceInv
<1>2. Grows /\ Rows' = Rows
  BY SameGrows DEF ServiceInv, Inv, TypeOK, vars
<1>3. ServiceTypeOK' /\ ClockSound' /\ CallsSound' /\ Events'
  BY <1>2, QuietStep
<1> QED
  BY <1>1, <1>3 DEF ServiceInv

LEMMA LeavingKeeps ==
  ASSUME ServiceInv, NEW c \in Callers, calls[c].pc # "audit", Leave(c),
         UNCHANGED <<vars, workload, now, rate, audit, crashes, rateChanges>>
  PROVE  ServiceInv'
<1>1. Idle.pc # "audit"
  BY DEF Idle, At
<1> QED
  BY <1>1, IdleSound, ReadingKeeps DEF Leave

LEMMA ListExpiredKeeps ==
  ASSUME ServiceInv, NEW c \in Callers, ListExpired(c)
  PROVE  ServiceInv'
<1>1. PICK listed \in SUBSET Keys :
        calls' = [calls EXCEPT ![c] = [@ EXCEPT !.pc = "sweep", !.at = now, !.todo = listed]]
  BY DEF ListExpired
<1> DEFINE call == [calls[c] EXCEPT !.pc = "sweep", !.at = now, !.todo = listed]
<1>2. calls[c] \in CallType /\ CallSound(calls[c], Rows) /\ now \in Times /\ now \in Int
  BY TimesAssumption DEF ServiceInv, ServiceTypeOK, CallsSound, ClockSound
<1>3. call \in CallType /\ call.pc = "sweep" /\ call.request = calls[c].request /\ call.at = now
  BY <1>2 DEF CallType
<1>4. calls[c].pc = "list"
  BY DEF ListExpired
<1> HIDE DEF call
<1>5. CallSound(call, Rows)
  BY <1>2, <1>3, <1>4 DEF CallSound
<1>6. calls' = [calls EXCEPT ![c] = call]
  BY <1>1 DEF call
<1> QED
  BY <1>3, <1>4, <1>5, <1>6, ReadingKeeps DEF ListExpired

LEMMA SweepOneKeeps ==
  ASSUME ServiceInv, NEW c \in Callers, NEW h \in Keys, SweepOne(c, h)
  PROVE  ServiceInv'
<1>1. Inv'
  BY SweepIsLedgerStep, NextInv, StutterInv DEF ServiceInv
<1>2. Grows /\ \A i \in Rows' \ Rows : ledger'[i].type \notin Audited
  BY SweepAppends DEF ServiceInv
<1>3. /\ calls[c].pc = "sweep"
      /\ UNCHANGED <<workload, now, rate, audit, crashes, rateChanges>>
  BY DEF SweepOne
<1>4. CASE Leave(c)
  BY <1>1, <1>2, <1>3, <1>4, LeaveQuietly DEF ServiceInv
<1>5. CASE calls' = [calls EXCEPT ![c].todo = @ \ {h}]
  <2> DEFINE call == [calls[c] EXCEPT !.todo = @ \ {h}]
  <2>1. calls[c] \in CallType /\ CallSound(calls[c], Rows)
    BY DEF ServiceInv, ServiceTypeOK, CallsSound
  <2>2. /\ call \in CallType /\ call.pc = calls[c].pc /\ call.request = calls[c].request
        /\ call.at = calls[c].at
    BY <2>1 DEF CallType
  <2> HIDE DEF call
  <2>3. CallSound(call, Rows)
    BY <1>3, <2>1, <2>2 DEF CallSound
  <2>4. CallSound(call, Rows')
    BY <1>2, <2>3, SoundStays DEF Grows
  <2>5. calls' = [calls EXCEPT ![c] = call]
    BY <1>5 DEF call
  <2>6. ServiceTypeOK' /\ ClockSound' /\ CallsSound' /\ Events'
    BY <1>2, <1>3, <2>2, <2>4, <2>5, QuietStep
  <2> QED
    BY <1>1, <2>6 DEF ServiceInv
<1> QED
  BY <1>4, <1>5 DEF SweepOne

\* A call goes on to its next step with what it has.
LEMMA StepKeeps ==
  ASSUME ServiceInv, NEW c \in Callers, NEW pc \in {"price", "store"},
         calls[c].pc \in {"sweep", "lookup"}, Step(c, pc),
         pc = "price" => calls[c].request.op \in Priced,
         pc = "store" => calls[c].request.op = "release",
         UNCHANGED <<vars, workload, now, rate, audit, crashes, rateChanges>>
  PROVE  ServiceInv'
<1> DEFINE call == [calls[c] EXCEPT !.pc = pc]
<1>1. calls[c] \in CallType /\ CallSound(calls[c], Rows)
  BY DEF ServiceInv, ServiceTypeOK, CallsSound
<1>2. call \in CallType /\ call.pc = pc /\ call.request = calls[c].request
  BY <1>1 DEF CallType
<1> HIDE DEF call
<1>3. CallSound(call, Rows)
  BY <1>1, <1>2 DEF CallSound, Priced
<1>4. calls' = [calls EXCEPT ![c] = call]
  BY DEF Step, call
<1> QED
  BY <1>2, <1>3, <1>4, ReadingKeeps

LEMMA SweepDoneKeeps ==
  ASSUME ServiceInv, NEW c \in Callers, SweepDone(c)
  PROVE  ServiceInv'
<1>1. calls[c].pc = "sweep" /\ calls[c].request.op \in Sweeping
  BY DEF SweepDone, ServiceInv, CallsSound, CallSound
<1>2. CASE calls[c].request.op = "account"
  BY <1>1, <1>2, LeavingKeeps DEF SweepDone
<1>3. CASE calls[c].request.op # "account"
  <2>1. calls[c].request.op \in Priced
    BY <1>1, <1>3 DEF Sweeping, Priced
  <2> QED
    BY <1>1, <1>3, <2>1, StepKeeps DEF SweepDone
<1> QED
  BY <1>2, <1>3

LEMMA LookupKeeps ==
  ASSUME ServiceInv, NEW c \in Callers, Lookup(c)
  PROVE  ServiceInv'
<1>1. calls[c].pc = "lookup" /\ calls[c].request.op \in {"capture", "release"}
  BY DEF Lookup, ServiceInv, CallsSound, CallSound
<1>2. CASE Leave(c)
  BY <1>1, <1>2, LeavingKeeps DEF Lookup
<1>3. CASE calls[c].request.op = "capture" /\ Step(c, "price")
  BY <1>1, <1>3, StepKeeps DEF Lookup, Priced
<1>4. CASE calls[c].request.op = "release" /\ Step(c, "store")
  BY <1>1, <1>4, StepKeeps DEF Lookup
<1> QED
  BY <1>1, <1>2, <1>3, <1>4 DEF Lookup

LEMMA ReadPriceKeeps ==
  ASSUME ServiceInv, NEW c \in Callers, ReadPrice(c)
  PROVE  ServiceInv'
<1> DEFINE price == Price(rate, calls[c].request.units)
           call == [calls[c] EXCEPT !.pc = "store", !.price = price, !.at = now]
<1>1. /\ calls[c] \in CallType /\ CallSound(calls[c], Rows) /\ calls[c].pc = "price"
      /\ rate \in Rates
  BY DEF ServiceInv, ServiceTypeOK, CallsSound, ReadPrice
<1>2. now \in Times /\ now + HoldTime \in Times /\ now \in Int
  BY DEF ServiceInv, ClockSound
<1>3. calls[c].request.op \in Priced /\ calls[c].request.units \in Nat \ {0}
  BY <1>1 DEF CallSound, RequestSound
<1>4. price \in Nat \ {0}
  BY <1>1, <1>3, PricePositive
<1>5. CASE price > MaxCredits
  BY <1>1, <1>5, LeavingKeeps DEF ReadPrice
<1>6. CASE ~ (price > MaxCredits)
  <2> HIDE DEF price
  <2>1. price \in Amounts
    BY <1>4, <1>6, CreditsAssumption DEF Amounts
  <2>2. /\ call \in CallType /\ call.pc = "store" /\ call.request = calls[c].request
        /\ call.price = price /\ call.at = now
    BY <1>1, <1>2, <1>4 DEF CallType
  <2>3. calls' = [calls EXCEPT ![c] = call]
    BY <1>6 DEF ReadPrice, price
  <2> HIDE DEF call
  <2>4. CallSound(call, Rows)
    BY <1>1, <1>2, <1>3, <2>1, <2>2 DEF CallSound
  <2> QED
    BY <1>1, <2>2, <2>3, <2>4, ReadingKeeps DEF ReadPrice
<1> QED
  BY <1>5, <1>6

LEMMA StoreEndsKeep ==
  ASSUME ServiceInv, NEW c \in Callers, StoreFound(c) \/ StoreRefuses(c)
  PROVE  ServiceInv'
<1>1. calls[c].pc = "store" /\ Leave(c)
  BY DEF StoreFound, StoreRefuses, AnswerReplay
<1>2. UNCHANGED <<vars, workload, now, rate, audit, crashes, rateChanges>>
  BY DEF StoreFound, StoreRefuses
<1> QED
  BY <1>1, <1>2, LeavingKeeps

\* A call comes to append the event numbered x.
LEMMA ToAudit ==
  ASSUME NEW old \in CallType, NEW x \in Int
  PROVE  LET call == [old EXCEPT !.pc = "audit", !.at = x] IN
         call \in CallType /\ call.pc = "audit" /\ call.request = old.request /\ call.at = x
  BY DEF CallType

LEMMA EventType ==
  ASSUME NEW e, EventOf(e), rateChanges \in Nat
  PROVE  e.op \in {"topup", "refund", "rate"} /\ e.of \in Nat
<1>1. CASE e.op = "rate"
  BY <1>1 DEF EventOf
<1>2. CASE e.op # "rate"
  <2>1. e.op \in Audited /\ e.of \in Rows
    BY <1>2 DEF EventOf
  <2> QED
    BY <2>1 DEF Audited, Rows
<1> QED
  BY <1>1, <1>2

LEMMA StoreCommitKeeps ==
  ASSUME ServiceInv, NEW c \in Callers, StoreCommit(c)
  PROVE  ServiceInv'
<1> DEFINE op == calls[c].request.op
           row == Len(ledger) + 1
           call == [calls[c] EXCEPT !.pc = "audit", !.at = row]
<1>1. Inv'
  BY StoreIsLedgerStep, NextInv DEF ServiceInv
<1>2. /\ Grows /\ Rows' \ Rows = {row}
      /\ IF op \in Audited THEN ledger'[row].type = op ELSE ledger'[row].type \notin Audited
  BY StoreAppends DEF ServiceInv
<1>3. /\ calls[c] \in CallType /\ CallSound(calls[c], Rows) /\ calls[c].pc = "store"
      /\ calls \in [Callers -> CallType]
      /\ UNCHANGED <<workload, now, rate, audit, crashes, rateChanges>>
      /\ rateChanges \in Nat /\ row \in Nat
  BY DEF ServiceInv, ServiceTypeOK, CallsSound, StoreCommit, Inv, TypeOK
<1>4. CASE op \notin Audited
  <2>1. \A i \in Rows' \ Rows : ledger'[i].type \notin Audited
    BY <1>2, <1>4
  <2> QED
    BY <1>1, <1>2, <1>3, <1>4, <2>1, LeaveQuietly DEF ServiceInv, StoreCommit
<1>5. CASE op \in Audited
  <2>1. /\ call \in CallType /\ call.pc = "audit" /\ call.request = calls[c].request
        /\ call.at = row
    <3>1. row \in Int
      BY <1>3
    <3> HIDE DEF row
    <3> QED
      BY <1>3, <3>1, ToAudit
  <2>2. calls' = [calls EXCEPT ![c] = call]
    BY <1>5 DEF StoreCommit
  <2> HIDE DEF call
  <2>3. CallSound(call, Rows')
    <3>1. CallSound(call, Rows)
      BY <1>3, <2>1 DEF CallSound
    <3> QED
      BY <1>2, <3>1, SoundStays DEF Grows
  <2>4. /\ calls' \in [Callers -> CallType] /\ calls'[c] = call
        /\ \A d \in Callers : d # c => calls'[d] = calls[d]
    BY <1>3, <2>1, <2>2, CallMoves
  <2>5. ServiceTypeOK' /\ ClockSound'
    BY <1>3, <2>4 DEF ServiceInv, ServiceTypeOK, ClockSound
  <2>6. CallsSound'
    BY <1>2, <1>3, <2>1, <2>2, <2>3, CallsStaySound DEF ServiceInv
  <2>e. PICK e : e = [op |-> op, of |-> row]
    OBVIOUS
  <2>7. ~ Pending(c) /\ Pending(c)' /\ Event(c)' = e
    BY <1>3, <2>1, <2>4, <2>e DEF Pending, Event
  <2>8. e.op = op /\ e.of = row /\ op # "rate"
    BY <1>5, <2>e DEF Audited
  <2>9. \A i \in Rows' \ Rows : RowEvent(i)' = e
    BY <1>2, <1>5, <2>e DEF RowEvent
  <2>10. ~ EventOf(e) /\ EventOf(e)'
    <3>1. row \notin Rows /\ row \in Rows' /\ ledger'[row].type = op
      BY <1>2, <1>5
    <3> HIDE DEF row, op
    <3> QED
      BY <1>5, <2>8, <3>1 DEF EventOf
  <2>11. Events'
    <3>1. rateChanges' \in Nat /\ rateChanges <= rateChanges' /\ UNCHANGED <<audit, crashes>>
      BY <1>3
    <3>2. \A d \in Callers \ {c} : calls'[d] = calls[d]
      BY <2>4
    <3> QED
      BY <1>2, <2>7, <2>9, <2>10, <3>1, <3>2, EventPends DEF ServiceInv
  <2> QED
    BY <1>1, <2>5, <2>6, <2>11 DEF ServiceInv
<1> QED
  BY <1>4, <1>5

LEMMA StoreRateKeeps ==
  ASSUME ServiceInv, NEW c \in Callers, StoreRate(c)
  PROVE  ServiceInv'
<1> DEFINE call == [calls[c] EXCEPT !.pc = "audit", !.at = rateChanges']
<1>1. Inv'
  BY StutterInv DEF ServiceInv, StoreRate
<1>2. Grows /\ Rows' = Rows
  BY SameGrows DEF ServiceInv, Inv, TypeOK, vars, StoreRate
<1>3. /\ calls[c] \in CallType /\ CallSound(calls[c], Rows) /\ calls[c].pc = "rate"
      /\ calls \in [Callers -> CallType]
      /\ rateChanges \in Nat /\ rateChanges' = rateChanges + 1
      /\ UNCHANGED <<workload, now, audit, crashes>>
  BY DEF ServiceInv, ServiceTypeOK, CallsSound, StoreRate
<1>4. calls[c].request.op = "rate" /\ calls[c].request.target \in Rates
  BY <1>3 DEF CallSound, RequestSound
<1>5. /\ call \in CallType /\ call.pc = "audit" /\ call.request = calls[c].request
      /\ call.at = rateChanges'
  <2>1. PICK x \in Int : x = rateChanges'
    BY <1>3
  <2>2. call = [calls[c] EXCEPT !.pc = "audit", !.at = x]
    BY <2>1
  <2> HIDE DEF call
  <2>3. PICK old : old = calls[c]
    OBVIOUS
  <2>4. call = [old EXCEPT !.pc = "audit", !.at = x] /\ old \in CallType
    BY <1>3, <2>2, <2>3
  <2>5. call \in CallType /\ call.pc = "audit" /\ call.request = old.request /\ call.at = x
    BY <2>1, <2>4, ToAudit
  <2> QED
    BY <2>1, <2>3, <2>5
<1>6. calls' = [calls EXCEPT ![c] = call]
  BY DEF StoreRate
<1> HIDE DEF call
<1>7. CallSound(call, Rows')
  BY <1>2, <1>3, <1>5 DEF CallSound
<1>8. /\ calls' \in [Callers -> CallType] /\ calls'[c] = call
      /\ \A d \in Callers : d # c => calls'[d] = calls[d]
  BY <1>3, <1>5, <1>6, CallMoves
<1>9. ServiceTypeOK' /\ ClockSound'
  BY <1>3, <1>4, <1>8 DEF ServiceInv, ServiceTypeOK, ClockSound, StoreRate
<1>10. CallsSound'
  BY <1>2, <1>3, <1>5, <1>6, <1>7, CallsStaySound DEF ServiceInv
<1>e. PICK e : e = [op |-> "rate", of |-> rateChanges + 1]
  OBVIOUS
<1>11. ~ Pending(c) /\ Pending(c)' /\ Event(c)' = e
  BY <1>3, <1>4, <1>5, <1>8, <1>e DEF Pending, Event
<1>12. e.op = "rate" /\ e.of = rateChanges + 1
  BY <1>e
<1>13. ~ EventOf(e) /\ EventOf(e)'
  BY <1>3, <1>12 DEF EventOf
<1>14. Events'
  <2>1. rateChanges' \in Nat /\ rateChanges <= rateChanges' /\ UNCHANGED <<audit, crashes>>
    BY <1>3
  <2>2. \A d \in Callers \ {c} : calls'[d] = calls[d]
    BY <1>8
  <2> QED
    BY <1>2, <1>11, <1>13, <2>1, <2>2, EventPends DEF ServiceInv
<1> QED
  BY <1>1, <1>9, <1>10, <1>14 DEF ServiceInv

\* The event that was pending is appended; that a call has an event at all
\* makes it of a kind there is.
LEMMA AppendAuditKeeps ==
  ASSUME ServiceInv, NEW c \in Callers, AppendAudit(c)
  PROVE  ServiceInv'
<1> DEFINE e == Event(c)
<1>1. Inv'
  BY StutterInv DEF ServiceInv, AppendAudit
<1>2. Grows /\ Rows' = Rows /\ UNCHANGED ledger
  BY SameGrows DEF ServiceInv, Inv, TypeOK, vars, AppendAudit
<1>3. /\ calls \in [Callers -> CallType] /\ calls' = [calls EXCEPT ![c] = Idle]
      /\ audit' = Append(audit, e) /\ Pending(c)
      /\ UNCHANGED <<workload, now, rate, crashes, rateChanges>>
      /\ rateChanges \in Nat /\ crashes \in Nat
      /\ audit \in Seq([op : {"topup", "refund", "rate"}, of : Nat])
  BY DEF ServiceInv, ServiceTypeOK, AppendAudit, Leave, Event, Pending
<1>4. EventOf(e) /\ Events
  BY <1>3 DEF ServiceInv, Events, PendingSound
<1>5. e \in [op : {"topup", "refund", "rate"}, of : Nat]
  <2>1. e = [op |-> calls[c].request.op, of |-> calls[c].at] /\ Rows \subseteq Nat
    BY DEF Event, Rows
  <2>2. e.op \in {"topup", "refund", "rate"} /\ e.of \in Nat
    <3> HIDE DEF e
    <3> QED
      BY <1>3, <1>4, EventType
  <2> QED
    BY <2>1, <2>2
<1>6. /\ calls' \in [Callers -> CallType] /\ calls'[c] = Idle
      /\ \A d \in Callers : d # c => calls'[d] = calls[d]
  BY <1>3, IdleSound, CallMoves
<1> HIDE DEF e
<1>7. /\ audit' \in Seq([op : {"topup", "refund", "rate"}, of : Nat])
      /\ DOMAIN audit' = DOMAIN audit \cup {Len(audit) + 1}
      /\ Len(audit) + 1 \notin DOMAIN audit
      /\ audit'[Len(audit) + 1] = e
      /\ \A n \in DOMAIN audit : audit'[n] = audit[n]
  BY <1>3, <1>5
<1>8. ServiceTypeOK' /\ ClockSound'
  BY <1>3, <1>6, <1>7 DEF ServiceInv, ServiceTypeOK, ClockSound
<1>9. CallsSound'
  BY <1>2, <1>3, IdleSound, CallsStaySound DEF ServiceInv
<1>10. /\ ~ Pending(c)'
       /\ \A d \in Callers \ {c} : (Pending(d)' <=> Pending(d)) /\ Event(d)' = Event(d)
  BY <1>6 DEF Pending, Event, Idle, At
<1>11. \A f : EventOf(f) <=> EventOf(f)'
  BY <1>2, <1>3 DEF EventOf
<1>12. \A n \in DOMAIN audit : audit[n] # e
  BY <1>3, <1>4 DEF Events, PendingDiffer, e
<1>13. \A d \in Callers \ {c} : Pending(d) => Event(d) # e
  BY <1>3, <1>4 DEF Events, PendingDiffer, e
<1>14. EventsSound' /\ EventsDiffer'
  <2>1. EventsSound'
    BY <1>4, <1>7, <1>11 DEF Events, EventsSound
  <2>2. EventsDiffer'
    BY <1>4, <1>7, <1>12 DEF Events, EventsDiffer
  <2> QED
    BY <2>1, <2>2
<1>15. PendingSound' /\ PendingDiffer'
  <2>1. PendingSound'
    BY <1>4, <1>10, <1>11 DEF Events, PendingSound
  <2>2. \A d, f \in Callers : Pending(d)' /\ Pending(f)' /\ Event(d)' = Event(f)' => d = f
    BY <1>4, <1>10 DEF Events, PendingDiffer
  <2>3. \A d \in Callers, n \in DOMAIN audit' : Pending(d)' => audit'[n] # Event(d)'
    BY <1>4, <1>7, <1>10, <1>13 DEF Events, PendingDiffer
  <2> QED
    BY <2>1, <2>2, <2>3 DEF PendingDiffer
<1>16. ASSUME NEW i \in Rows, Recorded(RowEvent(i)) PROVE Recorded(RowEvent(i))'
  <2>1. RowEvent(i)' = RowEvent(i)
    BY <1>2 DEF RowEvent
  <2>2. CASE \E n \in DOMAIN audit : audit[n] = RowEvent(i)
    BY <1>7, <2>1, <2>2 DEF Recorded
  <2>3. CASE RowEvent(i) = e
    BY <1>7, <2>1, <2>3 DEF Recorded
  <2>4. CASE \E d \in Callers \ {c} : Pending(d) /\ Event(d) = RowEvent(i)
    BY <1>10, <2>1, <2>4 DEF Recorded
  <2> QED
    BY <1>16, <2>2, <2>3, <2>4 DEF Recorded, e
<1>17. Lost' \subseteq Lost
  BY <1>2, <1>16, LostBefore
<1>18. FewLost'
  BY <1>3, <1>4, <1>17, FewLostStays DEF ServiceInv, Events
<1> QED
  BY <1>1, <1>8, <1>9, <1>14, <1>15, <1>18 DEF ServiceInv, Events

\* A crash may lose one event, and is counted.
LEMMA CrashKeeps ==
  ASSUME ServiceInv, NEW c \in Callers, Crash(c)
  PROVE  ServiceInv'
<1>1. Inv'
  BY StutterInv DEF ServiceInv, Crash
<1>2. Grows /\ Rows' = Rows /\ UNCHANGED ledger
  BY SameGrows DEF ServiceInv, Inv, TypeOK, vars, Crash
<1>3. /\ calls \in [Callers -> CallType] /\ calls' = [calls EXCEPT ![c] = Idle]
      /\ UNCHANGED <<workload, now, rate, audit, rateChanges>>
      /\ crashes \in Nat /\ crashes' = crashes + 1 /\ Events
  BY DEF ServiceInv, ServiceTypeOK, Crash, Leave
<1>4. /\ calls' \in [Callers -> CallType] /\ calls'[c] = Idle
      /\ \A d \in Callers : d # c => calls'[d] = calls[d]
  BY <1>3, IdleSound, CallMoves
<1>5. ServiceTypeOK' /\ ClockSound'
  BY <1>3, <1>4 DEF ServiceInv, ServiceTypeOK, ClockSound
<1>6. CallsSound'
  BY <1>2, <1>3, IdleSound, CallsStaySound DEF ServiceInv
<1>7. /\ ~ Pending(c)'
      /\ \A d \in Callers \ {c} : (Pending(d)' <=> Pending(d)) /\ Event(d)' = Event(d)
  BY <1>4 DEF Pending, Event, Idle, At
<1>8. \A f : EventOf(f) <=> EventOf(f)'
  BY <1>2, <1>3 DEF EventOf
<1>9. EventsSound' /\ EventsDiffer'
  BY <1>3, <1>8 DEF Events, EventsSound, EventsDiffer
<1>10. PendingSound' /\ PendingDiffer'
  <2>1. PendingSound'
    BY <1>3, <1>7, <1>8 DEF Events, PendingSound
  <2>2. PendingDiffer'
    BY <1>3, <1>7 DEF Events, PendingDiffer
  <2> QED
    BY <2>1, <2>2
<1> DEFINE it == Event(c).of
<1>11. Lost' \subseteq Lost \cup {it}
  <2> SUFFICES ASSUME NEW i \in Lost', i # it PROVE i \in Lost
    OBVIOUS
  <2>1. i \in Rows /\ ledger[i].type \in Audited /\ RowEvent(i)' = RowEvent(i)
    BY <1>2 DEF Lost, RowEvent
  <2>2. ~ Recorded(RowEvent(i))'
    BY DEF Lost
  <2>3. RowEvent(i) # Event(c)
    BY DEF RowEvent
  <2>4. ~ Recorded(RowEvent(i))
    BY <1>3, <1>7, <2>1, <2>2, <2>3 DEF Recorded
  <2> QED
    BY <2>1, <2>4 DEF Lost
<1>12. IsFiniteSet(Lost) /\ Cardinality(Lost) \in Nat /\ Cardinality(Lost) <= crashes
  BY <1>3, LostFinite, FS_CardinalityType DEF ServiceInv, Events, FewLost
<1>13. /\ IsFiniteSet(Lost \cup {it})
       /\ Cardinality(Lost \cup {it}) \in {Cardinality(Lost), Cardinality(Lost) + 1}
  BY <1>12, FS_AddElement
<1>14. Cardinality(Lost') <= Cardinality(Lost \cup {it}) /\ Cardinality(Lost') \in Nat
  BY <1>11, <1>13, FS_Subset, FS_CardinalityType
<1>15. FewLost'
  BY <1>3, <1>12, <1>13, <1>14 DEF FewLost
<1> QED
  BY <1>1, <1>5, <1>6, <1>9, <1>10, <1>15 DEF ServiceInv, Events

LEMMA TickKeeps ==
  ASSUME ServiceInv, Tick
  PROVE  ServiceInv'
<1>1. Inv'
  BY StutterInv DEF ServiceInv, Tick
<1>2. Grows /\ Rows' = Rows
  BY SameGrows DEF ServiceInv, Inv, TypeOK, vars, Tick
<1>3. UNCHANGED <<workload, rate, calls, audit, crashes, rateChanges>>
  BY DEF Tick
<1>4. ServiceTypeOK'
  BY <1>3 DEF ServiceInv, ServiceTypeOK
<1>5. ClockSound'
  <2>1. /\ now \in Nat /\ now' = now + 1 /\ now + 1 + HoldTime <= workload.until
        /\ HoldTime \in Nat /\ workload.until \in Nat /\ 0 .. workload.until \subseteq Times
    BY <1>3, ServiceAssumption DEF Tick, ServiceInv, ClockSound, ServiceTypeOK
  <2>2. now' \in 0 .. workload.until /\ now' + HoldTime \in 0 .. workload.until
    BY <2>1
  <2> QED
    BY <1>3, <2>1, <2>2 DEF ClockSound
<1>6. CallsSound'
  BY <1>2, <1>3 DEF ServiceInv, CallsSound, CallSound, RequestSound
<1>7. \A d \in Callers : (Pending(d)' <=> Pending(d)) /\ (Pending(d) => Event(d)' = Event(d))
  BY <1>3 DEF Pending, Event
<1>8. Events'
  BY <1>2, <1>3, <1>7, EventsStay DEF ServiceInv
<1> QED
  BY <1>1, <1>4, <1>5, <1>6, <1>8 DEF ServiceInv

LEMMA ServiceStutter ==
  ASSUME ServiceInv, UNCHANGED allVars
  PROVE  ServiceInv'
<1>1. /\ UNCHANGED vars /\ UNCHANGED ledger
      /\ UNCHANGED <<workload, now, rate, calls, audit, crashes, rateChanges>>
  BY DEF allVars, vars, serviceVars
<1>2. Inv'
  BY <1>1, StutterInv DEF ServiceInv
<1>3. Grows /\ Rows' = Rows
  BY <1>1, SameGrows DEF ServiceInv, Inv, TypeOK
<1>4. ServiceTypeOK' /\ ClockSound'
  BY <1>1 DEF ServiceInv, ServiceTypeOK, ClockSound
<1>5. CallsSound'
  BY <1>1, <1>3 DEF ServiceInv, CallsSound, CallSound, RequestSound
<1>6. \A d \in Callers : (Pending(d)' <=> Pending(d)) /\ (Pending(d) => Event(d)' = Event(d))
  BY <1>1 DEF Pending, Event
<1>7. Events'
  BY <1>1, <1>3, <1>6, EventsStay DEF ServiceInv
<1> QED
  BY <1>2, <1>4, <1>5, <1>7 DEF ServiceInv

LEMMA ServiceStep ==
  ASSUME ServiceInv, [ServiceNext]_allVars
  PROVE  ServiceInv'
<1>1. CASE UNCHANGED allVars
  BY <1>1, ServiceStutter
<1>2. CASE Tick
  BY <1>2, TickKeeps
<1>3. ASSUME NEW c \in Callers, Proceed(c) PROVE ServiceInv'
  BY <1>3, ListExpiredKeeps, SweepOneKeeps, SweepDoneKeeps, LookupKeeps, ReadPriceKeeps,
     StoreCommitKeeps, StoreEndsKeep, StoreRateKeeps, AppendAuditKeeps DEF Proceed
<1>4. ASSUME NEW c \in Callers, Crash(c) PROVE ServiceInv'
  BY <1>4, CrashKeeps
<1>5. ASSUME NEW c \in Callers, NEW request \in Requests, Begin(c, request) PROVE ServiceInv'
  BY <1>5, BeginKeeps
<1> QED
  BY <1>1, <1>2, <1>3, <1>4, <1>5 DEF ServiceNext

\* Whatever was read before a transaction, it is one the ledger may make.
LEMMA ServiceLedgerStep ==
  ASSUME ServiceInv, [ServiceNext]_allVars
  PROVE  [Next]_vars
<1> SUFFICES ASSUME ~ UNCHANGED vars PROVE Next
  OBVIOUS
<1>1. PICK c \in Callers : Proceed(c)
  BY DEF ServiceNext, allVars, Begin, Crash, Tick
<1>2. StoreCommit(c) \/ \E h \in Keys : SweepOne(c, h)
  BY <1>1 DEF Proceed, ListExpired, SweepDone, Lookup, ReadPrice, StoreFound, StoreRefuses,
     StoreRate, AppendAudit
<1> QED
  BY <1>2, StoreIsLedgerStep, SweepIsLedgerStep DEF ServiceInv

LEMMA EventsAuditSound ==
  ASSUME ServiceInv
  PROVE  AuditSound
<1> DEFINE missing == {i \in Rows :
           /\ ledger[i].type \in Audited
           /\ \A n \in DOMAIN audit : audit[n] # [op |-> ledger[i].type, of |-> i]
           /\ \A c \in Callers : <<calls[c].pc, calls[c].at>> # <<"audit", i>>}
<1>1. missing \subseteq Lost
  BY DEF Lost, Recorded, RowEvent, Pending, Event
<1>2. IsFiniteSet(Lost) /\ Cardinality(Lost) \in Nat /\ Cardinality(Lost) <= crashes /\ crashes \in Nat
  BY LostFinite, FS_CardinalityType DEF ServiceInv, ServiceTypeOK, Events, FewLost
<1>3. Cardinality(missing) <= crashes
  BY <1>1, <1>2, FS_Subset, FS_CardinalityType
<1>4. \A n \in DOMAIN audit :
        IF audit[n].op = "rate" THEN audit[n].of \in 1 .. rateChanges
        ELSE audit[n].of \in Rows /\ ledger[audit[n].of].type = audit[n].op
  BY DEF ServiceInv, Events, EventsSound, EventOf
<1>5. EventsDiffer
  BY DEF ServiceInv, Events
<1> QED
  BY <1>3, <1>4, <1>5 DEF AuditSound, EventsDiffer

-----------------------------------------------------------------------------
(* The theorems of the service.                                              *)

\* What a call has read stays fit for what it is on the way to, and what is to
\* be audited is recorded once, pending, or lost with a crash, at any time, of
\* any number of calls, sweeps, changes of the rate and crashes.
THEOREM ServiceInvariant == ServiceSpec => []ServiceInv
<1>1. ServiceInit => ServiceInv
  BY ServiceInit0
<1>2. ServiceInv /\ [ServiceNext]_allVars => ServiceInv'
  BY ServiceStep
<1> QED
  BY <1>1, <1>2, PTL DEF ServiceSpec

\* Each event of the audit chain is of its own row or rate change, and a row
\* has none only while its call goes on or if its instance stopped.
THEOREM EventsOnce == ServiceSpec => []AuditSound
<1>1. ServiceInv => AuditSound
  BY EventsAuditSound
<1> QED
  BY <1>1, ServiceInvariant, PTL

\* The service changes the ledger only as the ledger's specification says,
\* whatever happened between a reading of the clock, the rate or a hold and the
\* transaction that used it.
THEOREM ServiceKeepsLedger == ServiceSpec => LedgerSteps
<1>1. ServiceInv /\ [ServiceNext]_allVars => [vars' # vars => Next]_vars
  BY ServiceLedgerStep
<1> QED
  BY <1>1, ServiceInvariant, PTL DEF ServiceSpec, LedgerSteps

\* The service implements the ledger, and with it the prepaid account.
THEOREM ServiceIsLedger == ServiceSpec => Spec /\ PrepaidSpec
<1>1. ServiceInit => Init
  BY DEF ServiceInit
<1>2. ServiceInv /\ [ServiceNext]_allVars => [Next]_vars
  BY ServiceLedgerStep
<1>3. ServiceSpec => Spec
  BY <1>1, <1>2, ServiceInvariant, PTL DEF ServiceSpec, Spec
<1> QED
  BY <1>3, LedgerIsPrepaid, PTL

\* So what the ledger's own theorems say of it, they say of the service's.
THEOREM ServiceKeepsPromises ==
  ServiceSpec =>
    [](LedgerIsTruth /\ TotalsReconcile /\ FrozenBacksHolds /\ SettledOnce /\ RefundsBounded
       /\ ReleaseNeverBlocked)
<1>1. ServiceSpec => Spec
  BY ServiceIsLedger
<1> QED
  BY <1>1, LedgerTruth, FrozenBacked, HoldsSettledOnce, RefundsStayBounded, ReleaseAlwaysFits,
     PTL
=============================================================================
