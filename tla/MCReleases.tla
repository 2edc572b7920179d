----------------------------- MODULE MCReleases -----------------------------
(* Rollout: two releases of the stable channel, of which one registers a      *)
(* manifest more than it references, and two calls.  Uploads: two artifacts  *)
(* of one release in two versions, two tickets, two PUTs and two calls.      *)
(* A behaviour is one of the rollout or one of the uploads.                  *)
EXTENDS Publishing, TLC

CONSTANTS r1, r2, c1, c2

VARIABLE subject

MCCallers == {c1, c2}
MCStable == r1 :> "stable" @@ r2 :> "stable"
MCKinds == r1 :> {"exe", "full", "incremental"} @@ r2 :> {"exe", "full"}
MCReferenced == r1 :> {"full"} @@ r2 :> {"full"}

CallerSymmetry == Permutations(MCCallers)

ReleasesInit == Init /\ Uploads!Init /\ subject \in {"rollout", "uploads"}

ReleasesNext ==
  /\ UNCHANGED subject
  /\ \/ subject = "rollout" /\ Next /\ UNCHANGED uploadVars
     \/ subject = "uploads" /\ Uploads!Next /\ UNCHANGED vars

ReleasesSpec == ReleasesInit /\ [][ReleasesNext]_<<vars, uploadVars, subject>>
=============================================================================
