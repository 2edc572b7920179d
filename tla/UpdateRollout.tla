--------------------------- MODULE UpdateRollout ----------------------------
(* The update releases of one distribution and their signed artifacts: what  *)
(* publishers activate, pause, roll back and revoke, and what the            *)
(* deployments that ask for their update policy meanwhile are offered.  The  *)
(* gate of a release is checked before the transaction that activates or     *)
(* restores it, over several reads.                                          *)
(*                                                                           *)
(* A transaction of a release locks the release, then the distribution: one  *)
(* action.  Two of them that wait for each other are a deadlock to the       *)
(* database, which rolls one back, as Fail does.  A request whose signature, *)
(* nonce, license or assignment does not hold is refused without a change.   *)
EXTENDS Naturals, FiniteSets

CONSTANTS
  Releases,
  ChannelOf,    \* [Releases -> channels]
  Installers,   \* kinds of artifacts that install
  Manifests,    \* kinds a release may reference; each platform is a kind here
  KindsOf,      \* [Releases -> kinds that may be registered for it]
  Referenced,   \* [Releases -> the manifests it references]
  Callers,      \* calls in flight at once
  None

Channels == {"required", "stable", "canary"}
Kinds == Installers \cup Manifests

ASSUME RolloutAssumption ==
  /\ ChannelOf \in [Releases -> Channels]
  /\ None \notin Releases
  /\ Installers \cap Manifests = {}
  /\ \A r \in Releases :
       /\ KindsOf[r] \subseteq Kinds
       /\ Referenced[r] # {} /\ Referenced[r] \subseteq KindsOf[r] \cap Manifests

VARIABLES
  release,      \* rows of control_update_releases
  artifact,     \* [Releases -> [Kinds -> state]]
  calls,        \* [Callers -> call]
  policy        \* the latest policy signed that offers a release: [release, kinds]

vars == <<release, artifact, calls, policy>>

NoRelease == [state |-> "none", previous |-> None, published |-> FALSE]

\* A call: the release it is about, and the one whose gate it is to check.
Call(pc, about, gate) == [pc |-> pc, about |-> about, gate |-> gate]
Idle == Call("idle", None, None)
Become(c, call) == calls' = [calls EXCEPT ![c] = call]
Leave(c) == Become(c, Idle)

Init ==
  /\ release = [r \in Releases |-> NoRelease]
  /\ artifact = [r \in Releases |-> [k \in Kinds |-> "none"]]
  /\ calls = [c \in Callers |-> Idle]
  /\ policy = None

KindsIn(r, state) == {k \in Kinds : artifact[r][k] = state}
Published(channel) ==
  {r \in Releases : release[r].state = "active" /\ ChannelOf[r] = channel}

\* assertReleaseReady: an installer and every manifest it references.
Ready(r) ==
  /\ KindsIn(r, "active") \cap Installers # {}
  /\ Referenced[r] \subseteq KindsIn(r, "active")

-----------------------------------------------------------------------------
\* createRelease
Create(r) ==
  /\ release[r] = NoRelease
  /\ release' = [release EXCEPT ![r].state = "draft"]
  /\ UNCHANGED <<artifact, calls, policy>>

\* register and completeUpload: the release is a draft when it is read, the
\* artifact is signed, and stored.
BeginArtifact(c, r) ==
  /\ calls[c] = Idle
  /\ release[r].state = "draft"
  /\ Become(c, Call("store", r, None))
  /\ UNCHANGED <<release, artifact, policy>>

\* Slip: an artifact that was revoked may be replaced.
VacantOrRevoked(r, k) == artifact[r][k] \in {"none", "revoked"}

\* UNIQUE (release_id, kind, platform)
Vacant(r, k) == artifact[r][k] = "none"

StoreArtifact(c, k) ==
  LET r == calls[c].about IN
  /\ calls[c].pc = "store"
  /\ k \in KindsOf[r]
  /\ artifact' = IF Vacant(r, k) THEN [artifact EXCEPT ![r][k] = "active"] ELSE artifact
  /\ Leave(c)
  /\ UNCHANGED <<release, policy>>

\* revokeReleaseArtifact, with the pause of its release.
RevokeArtifact(r, k) ==
  /\ artifact[r][k] = "active"
  /\ artifact' = [artifact EXCEPT ![r][k] = "revoked"]
  /\ release' = IF release[r].state = "active"
                  THEN [release EXCEPT ![r].state = "paused"] ELSE release
  /\ UNCHANGED <<calls, policy>>

-----------------------------------------------------------------------------
\* activateRelease reads the release, and rollbackRelease the one before it too,
\* whose gate is to be checked if there is one.
BeginActivate(c, r) ==
  /\ calls[c] = Idle
  /\ release[r].state \in {"draft", "paused"}
  /\ Become(c, Call("check to activate", r, r))
  /\ UNCHANGED <<release, artifact, policy>>

BeginRollback(c, r) ==
  /\ calls[c] = Idle
  /\ release[r].state \in {"active", "paused"}
  /\ Become(c, Call(IF release[r].previous = None THEN "rollback" ELSE "check to rollback",
                    r, release[r].previous))
  /\ UNCHANGED <<release, artifact, policy>>

AfterCheck(pc) ==
  CASE pc = "check to activate" -> "activate"
    [] pc = "check to rollback" -> "rollback"
    [] pc = "check to offer"    -> "offer"

Check(c) ==
  /\ calls[c].pc \in {"check to activate", "check to rollback", "check to offer"}
  /\ IF Ready(calls[c].gate)
       THEN Become(c, [calls[c] EXCEPT !.pc = AfterCheck(@)])
       ELSE Leave(c)
  /\ UNCHANGED <<release, artifact, policy>>

Pausing(rows, paused) ==
  [r \in Releases |-> IF r \in paused THEN [rows[r] EXCEPT !.state = "paused"] ELSE rows[r]]

\* What an activation displaces.
Displaced(r) == Published(ChannelOf[r]) \ {r}

\* activateUpdateRelease
Activate(c) ==
  LET r == calls[c].about IN
  /\ calls[c].pc = "activate"
  /\ IF release[r].state \in {"draft", "paused"}
       THEN \E previous \in IF Displaced(r) = {} THEN {None} ELSE Displaced(r) :
              release' = [Pausing(release, {previous}) EXCEPT ![r] =
                [state |-> "active", previous |-> previous, published |-> TRUE]]
       ELSE UNCHANGED release
  /\ Leave(c)
  /\ UNCHANGED <<artifact, policy>>

\* pauseUpdateRelease
Pause(r) ==
  /\ release[r].state = "active"
  /\ release' = [release EXCEPT ![r].state = "paused"]
  /\ UNCHANGED <<artifact, calls, policy>>

\* rollbackUpdateRelease: the release before is the one it has now, in whatever
\* state that is.
Rollback(c) ==
  LET r == calls[c].about
      withdrawn == [release EXCEPT ![r].state = "rolled_back"] IN
  /\ calls[c].pc = "rollback"
  /\ IF release[r].state \notin {"active", "paused"} THEN UNCHANGED release
     ELSE IF release[r].previous = None THEN release' = withdrawn
     ELSE release' = [Pausing(withdrawn, Published(ChannelOf[r]) \ {r})
                        EXCEPT ![release[r].previous].state = "active"]
  /\ Leave(c)
  /\ UNCHANGED <<artifact, policy>>

-----------------------------------------------------------------------------
\* resolve: of the published releases, those that suit the deployment are newer
\* than what it runs and, on the canary channel, meant for its cohort.  The first
\* in the order of the channels is offered.
Rank(r) == CASE ChannelOf[r] = "required" -> 1 [] ChannelOf[r] = "stable" -> 2 [] OTHER -> 3

BeginResolve(c, suitable) ==
  LET published == {r \in suitable : release[r].state = "active"} IN
  /\ calls[c] = Idle
  /\ \E r \in published :
       /\ \A q \in published : Rank(r) <= Rank(q)
       /\ Become(c, Call("check to offer", r, r))
  /\ UNCHANGED <<release, artifact, policy>>

\* activeEnvelopes reads the artifacts once more.
Envelopes(r) == KindsIn(r, "active")

Offer(c) ==
  LET r == calls[c].about IN
  /\ calls[c].pc = "offer"
  /\ policy' = [release |-> r, kinds |-> Envelopes(r)]
  /\ Leave(c)
  /\ UNCHANGED <<release, artifact>>

\* The instance stops, or a query, the object store or the signer fails.
Fail(c) ==
  /\ calls[c] # Idle
  /\ Leave(c)
  /\ UNCHANGED <<release, artifact, policy>>

Next ==
  \/ \E r \in Releases :
       \/ Create(r) \/ Pause(r)
       \/ \E k \in Kinds : RevokeArtifact(r, k)
  \/ \E c \in Callers :
       \/ \E r \in Releases : BeginArtifact(c, r) \/ BeginActivate(c, r) \/ BeginRollback(c, r)
       \/ \E suitable \in SUBSET Releases : BeginResolve(c, suitable)
       \/ \E k \in Kinds : StoreArtifact(c, k)
       \/ Check(c) \/ Activate(c) \/ Rollback(c) \/ Offer(c)
       \/ Fail(c)

Spec == Init /\ [][Next]_vars

-----------------------------------------------------------------------------
\* Correctness.

\* The revocation of an artifact that a release cannot do without is final: no
\* artifact registered by then or later makes the release pass its gate.
NeverReadyAgain ==
  [][\A r \in Releases :
       (KindsIn(r, "revoked") \cap Referenced[r] # {}
           \/ KindsOf[r] \cap Installers \subseteq KindsIn(r, "revoked"))
         => ~ Ready(r)']_vars
=============================================================================
