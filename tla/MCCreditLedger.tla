--------------------------- MODULE MCCreditLedger ---------------------------
(* A small instance of CreditLedger: three requests' keys, of which one is   *)
(* the key under which the hold of another expires, and a receipt's key.     *)
EXTENDS CreditLedger, TLC

CONSTANTS k1, k2, k3, r1, e1

MCKeys == {k1, k2, k3, ExpiryKey(k1)}
MCTimes == 0 .. 1

KeySymmetry == Permutations({k2, k3})
=============================================================================
