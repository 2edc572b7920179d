--------------------------- MODULE PrepaidAccount ---------------------------
(* What the billing ledger promises for one enterprise account: every credit *)
(* that was ever deposited is at every moment in exactly one place.  It is   *)
(* free, or reserved for one piece of running work, or spent on one charge.  *)
(* Nothing here knows of rows, balances, idempotency keys or expiry; those   *)
(* are how CreditLedger keeps the promise.                                   *)
EXTENDS CreditTotals

CONSTANTS
  Reservations,   \* names of pieces of work credits can be reserved for
  Charges,        \* names of charges
  MaxCredits      \* the largest number of credits the account may ever take

VARIABLES
  deposited,      \* credits paid in so far
  free,           \* credits that can be spent or reserved
  reserved,       \* credits set aside for each reservation
  spent           \* credits each charge keeps, after refunds

prepaid == <<deposited, free, reserved, spent>>

Credits == 1 .. MaxCredits

Init ==
  /\ deposited = 0
  /\ free = 0
  /\ reserved = [r \in Reservations |-> 0]
  /\ spent = [c \in Charges |-> 0]

Deposit(n) ==
  /\ deposited + n <= MaxCredits
  /\ deposited' = deposited + n
  /\ free' = free + n
  /\ UNCHANGED <<reserved, spent>>

Reserve(r, n) ==
  /\ reserved[r] = 0
  /\ n <= free
  /\ free' = free - n
  /\ reserved' = [reserved EXCEPT ![r] = n]
  /\ UNCHANGED <<deposited, spent>>

\* The work is done: it costs n, paid from the reservation first and from the
\* free credits beyond it; what the reservation does not need is free again.
Settle(r, c, n) ==
  /\ reserved[r] > 0
  /\ spent[c] = 0
  /\ n <= free + reserved[r]
  /\ free' = free + reserved[r] - n
  /\ reserved' = [reserved EXCEPT ![r] = 0]
  /\ spent' = [spent EXCEPT ![c] = n]
  /\ UNCHANGED deposited

Return(r) ==
  /\ reserved[r] > 0
  /\ free' = free + reserved[r]
  /\ reserved' = [reserved EXCEPT ![r] = 0]
  /\ UNCHANGED <<deposited, spent>>

Charge(c, n) ==
  /\ spent[c] = 0
  /\ n <= free
  /\ free' = free - n
  /\ spent' = [spent EXCEPT ![c] = n]
  /\ UNCHANGED <<deposited, reserved>>

Refund(c, n) ==
  /\ n <= spent[c]
  /\ free' = free + n
  /\ spent' = [spent EXCEPT ![c] = @ - n]
  /\ UNCHANGED <<deposited, reserved>>

Next ==
  \E n \in Credits :
    \/ Deposit(n)
    \/ \E r \in Reservations : Reserve(r, n)
    \/ \E r \in Reservations, c \in Charges : Settle(r, c, n)
    \/ \E r \in Reservations : Return(r)
    \/ \E c \in Charges : Charge(c, n)
    \/ \E c \in Charges : Refund(c, n)

Spec == Init /\ [][Next]_prepaid
=============================================================================
