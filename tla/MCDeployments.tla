--------------------------- MODULE MCDeployments ----------------------------
(* Leases: the license of deployment d1 on m1, which may move to d2 on m2 or *)
(* to m3; both have one customer and organization.  Receipts: a top-up, two  *)
(* credits, receipts that compete for a sequence number and for a task, two  *)
(* keys and two calls.  A behaviour is one of the leases or of the receipts. *)
EXTENDS Enforcement, TLC

CONSTANTS l1, d1, d2, m1, m2, m3, c1, c2, n1, r1, e1, e2, e3, s1, s2, topup

VARIABLE subject

MCFirstMachine == d1 :> m1 @@ d2 :> m2
MCOwner == d1 :> "acme" @@ d2 :> "acme"

MCCallers == {c1, c2}

\* The two deployments are alike, with their machines.
MCSymmetry ==
  {callers @@ deployments :
     callers \in Permutations(MCCallers),
     deployments \in {d1 :> d1 @@ d2 :> d2 @@ m1 :> m1 @@ m2 :> m2,
                       d1 :> d2 @@ d2 :> d1 @@ m1 :> m2 @@ m2 :> m1}}

\* A caller may use the key of the receipt e1 (ReceiptKey) before it is billed.
MCKeys == {topup, <<"receipt", e1>>}

Signed(id, task, sequence, key) ==
  [id |-> id, task |-> task, sequence |-> sequence, key |-> key, ref |-> r1]

MCEnvelopes == {Signed(e1, "A", 1, s1), Signed(e2, "A", 2, s2), Signed(e3, "B", 2, s1)}

DeploymentsInit == Init /\ Billing!ReceiptsInit /\ subject \in {"leases", "receipts"}

DeploymentsNext ==
  /\ UNCHANGED subject
  /\ \/ subject = "leases" /\ Next /\ UNCHANGED billingVars
     \/ subject = "receipts" /\ Billing!ReceiptsNext /\ UNCHANGED vars

DeploymentsSpec == DeploymentsInit /\ [][DeploymentsNext]_<<vars, billingVars, subject>>
=============================================================================
