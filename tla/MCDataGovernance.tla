-------------------------- MODULE MCDataGovernance --------------------------
(* A customer with one deployment; a hold on everything without end, and one *)
(* on telemetry that expires; an erasure and an export.                      *)
EXTENDS DataGovernance, TLC

CONSTANTS h1, h2, r1, r2, c1, c2

MCScope == h1 :> {"all"} @@ h2 :> {"health_telemetry", "billing_ledger"}
MCUntil == h1 :> MaxTime + 1 @@ h2 :> 2

MCType == r1 :> "customer_erasure" @@ r2 :> "customer_export"

MCCallers == {c1, c2}
=============================================================================
