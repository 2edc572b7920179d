-------------------------- MODULE MCBillingService --------------------------
(* Small instances of BillingService.                                        *)
EXTENDS BillingService, TLC

CONSTANTS k1, k2, k3, c1, c2

MCCallers == {c1, c2}

\* Callers have three keys, and the key under which the hold of k2 expires.
MCKeys == {k1, k2, k3, ExpiryKey(k2)}

\* Two holds that expire while calls sweep them; the top-up may have taken the
\* key of one of them.
ExpiringKeys ==
  [op \in {"topup", "hold", "account"} |->
    CASE op = "topup" -> {k1, ExpiryKey(k2)} [] op = "hold" -> {k2, k3} [] op = "account" -> {}]

\* A hold that is captured, released and swept, under one key.
SettledKeys ==
  [op \in {"topup", "hold", "capture", "release", "account"} |->
    CASE op = "topup" -> {k1} [] op = "hold" -> {k2} [] op = "account" -> {} [] OTHER -> {k3}]

\* Requests repeated after a crash, or after the rate has changed.
RepeatedKeys ==
  [op \in {"topup", "hold", "consume", "rate"} |->
    CASE op = "topup" -> {k1} [] op = "hold" -> {k2} [] op = "consume" -> {k3} [] op = "rate" -> {}]

\* Refunds of a charge, repeated or under another key.
RefundKeys ==
  [op \in {"topup", "consume", "refund"} |->
    CASE op = "topup" -> {k1} [] op = "consume" -> {k3} [] op = "refund" -> {k2, ExpiryKey(k2)}]

\* Three units are one unit begun, for one credit, or two once the price changes.
OldRate == [unitSize |-> 4, creditsPerUnit |-> 1]
NewRate == [unitSize |-> 4, creditsPerUnit |-> 2]

\* Three units take all the credits of a top-up, and can be refunded.
FullRate == [unitSize |-> 4, creditsPerUnit |-> 3]

MCTimes == 0 .. 2

MCWorkloads ==
  {[keys |-> ExpiringKeys, rates |-> {OldRate}, until |-> 2],
   [keys |-> SettledKeys, rates |-> {OldRate}, until |-> 2],
   [keys |-> RefundKeys, rates |-> {FullRate}, until |-> 0],
   [keys |-> RepeatedKeys, rates |-> {OldRate, NewRate}, until |-> 1]}
=============================================================================
