-------------------------- MODULE MCAdministration --------------------------
(* Approvals: two of one operation, three administrators, two calls.         *)
(* Accounts: two with a recovery code each, and two calls.                   *)
(* A behaviour is one of the approvals or one of the accounts.               *)
EXTENDS Administration, TLC

CONSTANTS a1, a2, a3, i1, i2, c1, c2, b1, b2, r1

VARIABLE subject

MCAdministrators == {a1, a2, a3}
MCIds == {i1, i2}
MCCallers == {c1, c2}
MCHolders == {b1, b2}

Symmetry ==
  Permutations(MCAdministrators) \cup Permutations(MCIds) \cup Permutations(MCCallers)
    \cup Permutations(MCHolders)

AdministrationInit == Init /\ Accts!Init /\ subject \in {"approvals", "accounts"}

AdministrationNext ==
  /\ UNCHANGED subject
  /\ \/ subject = "approvals" /\ Next /\ UNCHANGED accountVars
     \/ subject = "accounts" /\ Accts!Next /\ UNCHANGED vars

AdministrationSpec ==
  AdministrationInit /\ [][AdministrationNext]_<<vars, accountVars, subject>>
=============================================================================
