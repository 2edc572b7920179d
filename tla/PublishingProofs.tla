-------------------------- MODULE PublishingProofs ---------------------------
(* Theorems about UpdateRollout and about ManagedArtifacts, for all          *)
(* releases, kinds of artifacts, slots, digests and calls, and any number of *)
(* tickets and uploads.                                                      *)
EXTENDS Publishing, Sequences, WellFoundedInduction, TLAPS

-----------------------------------------------------------------------------
(* The rollout.                                                              *)

\* An artifact is of a kind that its release has.
ArtifactsKnown ==
  /\ artifact \in [Releases -> [Kinds -> {"none", "active", "revoked"}]]
  /\ \A r \in Releases, k \in Kinds : artifact[r][k] # "none" => k \in KindsOf[r]

RevokedStay ==
  \A r \in Releases, k \in Kinds : artifact[r][k] = "revoked" => artifact'[r][k] = "revoked"

LEMMA RolloutInit ==
  ASSUME Init
  PROVE  ArtifactsKnown
  BY DEF Init, ArtifactsKnown

\* The artifacts change in two of the actions.
LEMMA ArtifactsChange ==
  ASSUME [Next]_vars
  PROVE  \/ UNCHANGED artifact
         \/ \E c \in Callers, k \in Kinds : StoreArtifact(c, k)
         \/ \E r \in Releases, k \in Kinds : RevokeArtifact(r, k)
  BY DEF Next, vars, Create, Pause, BeginArtifact, BeginActivate, BeginRollback, BeginResolve,
     Check, Activate, Rollback, Offer, Fail

LEMMA StoreArtifactKeeps ==
  ASSUME ArtifactsKnown, NEW c \in Callers, NEW k \in Kinds, StoreArtifact(c, k)
  PROVE  ArtifactsKnown' /\ RevokedStay
<1> DEFINE r == calls[c].about
<1>1. k \in KindsOf[r]
  BY DEF StoreArtifact
<1>2. CASE UNCHANGED artifact
  BY <1>2 DEF ArtifactsKnown, RevokedStay
<1>3. CASE Vacant(r, k) /\ artifact' = [artifact EXCEPT ![r][k] = "active"]
  BY <1>1, <1>3 DEF ArtifactsKnown, RevokedStay, Vacant
<1> QED
  BY <1>2, <1>3 DEF StoreArtifact

LEMMA RevokeArtifactKeeps ==
  ASSUME ArtifactsKnown, NEW r \in Releases, NEW k \in Kinds, RevokeArtifact(r, k)
  PROVE  ArtifactsKnown' /\ RevokedStay
  BY DEF RevokeArtifact, ArtifactsKnown, RevokedStay

LEMMA RolloutStep ==
  ASSUME ArtifactsKnown, [Next]_vars
  PROVE  ArtifactsKnown' /\ RevokedStay
<1>1. CASE UNCHANGED artifact
  BY <1>1 DEF ArtifactsKnown, RevokedStay
<1> QED
  BY <1>1, ArtifactsChange, StoreArtifactKeeps, RevokeArtifactKeeps

\* What a gate cannot do without, and is revoked, is missing from then on.
LEMMA GateStaysShut ==
  ASSUME ArtifactsKnown, ArtifactsKnown', RevokedStay, NEW r \in Releases,
         \/ KindsIn(r, "revoked") \cap Referenced[r] # {}
         \/ KindsOf[r] \cap Installers \subseteq KindsIn(r, "revoked")
  PROVE  ~ Ready(r)'
<1>1. ASSUME NEW k \in KindsIn(r, "revoked")
      PROVE  k \notin KindsIn(r, "active")' /\ k \in KindsOf[r]
  BY <1>1 DEF KindsIn, RevokedStay, ArtifactsKnown
<1>2. KindsIn(r, "active")' \subseteq KindsOf[r]
  BY DEF KindsIn, ArtifactsKnown
<1>3. CASE KindsIn(r, "revoked") \cap Referenced[r] # {}
  BY <1>1, <1>3 DEF Ready
<1>4. CASE KindsOf[r] \cap Installers \subseteq KindsIn(r, "revoked")
  BY <1>1, <1>2, <1>4 DEF Ready
<1> QED
  BY <1>3, <1>4

\* The artifacts stored are of the kinds their releases have, at any time.
THEOREM RolloutInvariant == Spec => []ArtifactsKnown
<1>1. Init => ArtifactsKnown
  BY RolloutInit
<1>2. ArtifactsKnown /\ [Next]_vars => ArtifactsKnown'
  BY RolloutStep
<1> QED
  BY <1>1, <1>2, PTL DEF Spec

\* The revocation of an artifact that a release cannot do without is final, for
\* any number of releases, platforms and calls: what a call in flight had read of
\* the draft or of the gate does not bring it back.
THEOREM RevocationsShutGates == Spec => NeverReadyAgain
<1>1. ArtifactsKnown /\ ArtifactsKnown' /\ [Next]_vars =>
        [\A r \in Releases :
           (KindsIn(r, "revoked") \cap Referenced[r] # {}
               \/ KindsOf[r] \cap Installers \subseteq KindsIn(r, "revoked"))
             => ~ Ready(r)']_vars
  BY RolloutStep, GateStaysShut
<1> QED
  BY <1>1, RolloutInvariant, PTL DEF Spec, NeverReadyAgain

-----------------------------------------------------------------------------
(* The version of an object that is current.                                 *)

\* A set of numbers up to n has a greatest one.
LEMMA GreatestExists ==
  ASSUME NEW n \in Nat, NEW S, S \subseteq 0 .. n, S # {}
  PROVE  \E x \in S : \A y \in S : x >= y
<1> DEFINE T == {n - x : x \in S}
<1>1. T \subseteq Nat /\ T # {}
  <2>1. \A x \in S : n - x \in Nat
    OBVIOUS
  <2> QED
    BY <2>1
<1>2. PICK t \in T : \A u \in T : <<u, t>> \notin OpToRel(<, Nat)
  BY <1>1, NatLessThanWellFounded, WFMin
<1>3. PICK x \in S : t = n - x
  BY <1>2
<1>4. ASSUME NEW y \in S PROVE x >= y
  <2>1. n - y \in T /\ n - y \in Nat /\ t \in Nat
    BY <1>1, <1>2
  <2>2. ~ (n - y < t)
    BY <1>2, <2>1 DEF OpToRel
  <2> QED
    BY <1>3, <2>2
<1> QED
  BY <1>4

Versions(key) == {v \in DOMAIN puts : puts[v].key = key}

\* HEAD answers for a version of the key it asks for, or there is none.
LEMMA CurrentIsVersion ==
  ASSUME Len(puts) \in Nat, DOMAIN puts = 1 .. Len(puts), NEW key
  PROVE  /\ Uploads!Current(key) \in Versions(key) \cup {0}
         /\ \A v \in Versions(key) : Uploads!Current(key) >= v
<1> DEFINE S == {0} \cup Versions(key)
<1>1. S \subseteq 0 .. Len(puts) /\ S # {}
  BY DEF Versions
<1>2. \E x \in S : \A y \in S : x >= y
  BY <1>1, GreatestExists
<1>3. Uploads!Current(key) = Uploads!Max(S)
  BY DEF Uploads!Current, Versions
<1>4. Uploads!Max(S) \in S /\ \A y \in S : Uploads!Max(S) >= y
  BY <1>2 DEF Uploads!Max
<1> QED
  BY <1>3, <1>4

LEMMA CurrentOfSome ==
  ASSUME Len(puts) \in Nat, DOMAIN puts = 1 .. Len(puts), NEW key, Versions(key) # {}
  PROVE  Uploads!Current(key) \in Versions(key)
<1>1. PICK v \in Versions(key) : Uploads!Current(key) >= v
  BY CurrentIsVersion
<1>2. v >= 1 /\ v \in Nat
  BY <1>1 DEF Versions
<1>3. Uploads!Current(key) # 0
  BY <1>1, <1>2
<1> QED
  BY <1>3, CurrentIsVersion

-----------------------------------------------------------------------------
(* The uploads: the inductive invariant.                                     *)

Tickets == [slot : Slots, digest : Digests, open : BOOLEAN]
Objects == Slots \X Digests
Puts == [key : Objects, digest : Digests]
Artifacts == [slot : Slots, digest : Digests, version : Nat, active : BOOLEAN]
RequestType ==
  [pc : {"idle"}]
    \cup [pc : {"release", "look up", "inspect", "insert", "serve", "activate"},
          about : Nat \cup Slots \cup {None}, version : Nat]

UploadsTypeOK ==
  /\ draft \in BOOLEAN
  /\ tickets \in Seq(Tickets)
  /\ puts \in Seq(Puts)
  /\ row \in [Slots -> Artifacts \cup {None}]
  /\ requests \in [Callers -> RequestType]

\* An object has versions of one digest, that of its name.
NamedForBytes == \A v \in DOMAIN puts : puts[v].key[2] = puts[v].digest

\* An artifact is of bytes that were uploaded to the object of its name.
Uploaded(slot, digest, v) == v \in DOMAIN puts /\ puts[v].key = <<slot, digest>>
RowsUploaded ==
  \A s \in Slots : row[s] # None => Uploaded(row[s].slot, row[s].digest, row[s].version)

Completion == {"release", "look up", "inspect", "insert"}
Completing(c) == requests[c].pc \in Completion

RequestsSound ==
  \A c \in Callers :
    /\ Completing(c) => requests[c].about \in DOMAIN tickets
    /\ requests[c].pc = "insert" =>
         LET t == tickets[requests[c].about] IN Uploaded(t.slot, t.digest, requests[c].version)
    /\ requests[c].pc = "serve" => requests[c].about \in Slots /\ row[requests[c].about] # None

\* A URL is of an artifact's object, of which there is a version.
UrlsSound == \A u \in urls : u.key[2] = u.artifact /\ Versions(u.key) # {}

UploadsInv == UploadsTypeOK /\ NamedForBytes /\ RowsUploaded /\ RequestsSound /\ UrlsSound

\* A request that is not known to be of an artifact's is answered, or goes on.
LEMMA RequestMoves ==
  ASSUME requests \in [Callers -> RequestType], NEW c \in Callers, NEW call \in RequestType,
         requests' = [requests EXCEPT ![c] = call]
  PROVE  /\ requests' \in [Callers -> RequestType] /\ requests'[c] = call
         /\ \A d \in Callers : d # c => requests'[d] = requests[d]
  OBVIOUS

Fine(call) ==
  /\ call.pc \in Completion => call.about \in DOMAIN tickets
  /\ call.pc = "insert" =>
       LET t == tickets[call.about] IN Uploaded(t.slot, t.digest, call.version)
  /\ call.pc = "serve" => call.about \in Slots /\ row[call.about] # None

LEMMA FineIsSound == RequestsSound <=> \A c \in Callers : Fine(requests[c])
  BY DEF RequestsSound, Fine, Completing, Completion

\* A request takes a step, and nothing else changes but perhaps what it serves.
LEMMA RequestStep ==
  ASSUME UploadsInv, NEW c \in Callers, NEW call \in RequestType, Fine(call),
         requests' = [requests EXCEPT ![c] = call], draft' \in BOOLEAN,
         UNCHANGED <<tickets, puts, row, urls>>
  PROVE  UploadsInv'
<1>1. requests \in [Callers -> RequestType]
  BY DEF UploadsInv, UploadsTypeOK
<1>2. /\ requests' \in [Callers -> RequestType] /\ requests'[c] = call
      /\ \A d \in Callers : d # c => requests'[d] = requests[d]
  BY <1>1, RequestMoves
<1>3. UploadsTypeOK'
  BY <1>2 DEF UploadsInv, UploadsTypeOK
<1>4. NamedForBytes' /\ RowsUploaded' /\ UrlsSound'
  BY DEF UploadsInv, NamedForBytes, RowsUploaded, UrlsSound, Uploaded, Versions
<1>5. \A d \in Callers : Fine(requests[d])
  BY FineIsSound DEF UploadsInv
<1>6. \A d \in Callers : Fine(requests'[d])
  BY <1>2, <1>5
<1>7. RequestsSound'
  BY <1>6 DEF RequestsSound, Fine, Completing, Completion, Uploaded
<1> QED
  BY <1>3, <1>4, <1>7 DEF UploadsInv

LEMMA IdleFine == Uploads!Idle \in RequestType /\ Fine(Uploads!Idle)
  BY DEF Uploads!Idle, RequestType, Fine, Completion

LEMMA UploadsInit ==
  ASSUME Uploads!Init
  PROVE  UploadsInv
<1>1. UploadsTypeOK
  BY IdleFine DEF Uploads!Init, UploadsTypeOK
<1>2. RequestsSound
  BY FineIsSound, IdleFine DEF Uploads!Init
<1>3. NamedForBytes /\ RowsUploaded /\ UrlsSound
  BY DEF Uploads!Init, NamedForBytes, RowsUploaded, UrlsSound
<1> QED
  BY <1>1, <1>2, <1>3 DEF UploadsInv

-----------------------------------------------------------------------------
(* One lemma for each action of the uploads.                                 *)

LEMMA TypesOf ==
  ASSUME UploadsInv
  PROVE  /\ tickets \in Seq(Tickets) /\ puts \in Seq(Puts)
         /\ Len(puts) \in Nat /\ DOMAIN puts = 1 .. Len(puts)
         /\ Len(tickets) \in Nat /\ DOMAIN tickets = 1 .. Len(tickets)
         /\ row \in [Slots -> Artifacts \cup {None}]
         /\ requests \in [Callers -> RequestType]
  BY DEF UploadsInv, UploadsTypeOK

\* The tickets there were keep their slot and digest, and so the objects they name.
TicketsKept ==
  /\ DOMAIN tickets \subseteq DOMAIN tickets'
  /\ \A t \in DOMAIN tickets :
       tickets'[t].slot = tickets[t].slot /\ tickets'[t].digest = tickets[t].digest

LEMMA TicketsStep ==
  ASSUME UploadsInv, tickets' \in Seq(Tickets), TicketsKept,
         UNCHANGED <<draft, puts, row, requests, urls>>
  PROVE  UploadsInv'
<1>1. UploadsTypeOK'
  BY DEF UploadsInv, UploadsTypeOK
<1>2. NamedForBytes' /\ RowsUploaded' /\ UrlsSound'
  BY DEF UploadsInv, NamedForBytes, RowsUploaded, UrlsSound, Uploaded, Versions
<1>3. RequestsSound'
  BY DEF UploadsInv, RequestsSound, Completing, Completion, Uploaded, TicketsKept
<1> QED
  BY <1>1, <1>2, <1>3 DEF UploadsInv

LEMMA CreateUploadKeeps ==
  ASSUME UploadsInv, NEW slot \in Slots, NEW digest \in Digests,
         Uploads!CreateUpload(slot, digest)
  PROVE  UploadsInv'
<1> DEFINE ticket == [slot |-> slot, digest |-> digest, open |-> TRUE]
<1>1. tickets' = Append(tickets, ticket) /\ ticket \in Tickets
  BY DEF Uploads!CreateUpload, Tickets
<1> HIDE DEF ticket
<1>2. tickets' \in Seq(Tickets) /\ TicketsKept
  BY <1>1, TypesOf DEF TicketsKept
<1> QED
  BY <1>2, TicketsStep DEF Uploads!CreateUpload

LEMMA ExpireKeeps ==
  ASSUME UploadsInv, NEW t \in DOMAIN tickets, Uploads!Expire(t)
  PROVE  UploadsInv'
<1>1. tickets' = [tickets EXCEPT ![t].open = FALSE] /\ tickets \in Seq(Tickets)
  BY TypesOf DEF Uploads!Expire
<1>2. tickets[t] \in Tickets
  BY <1>1
<1>3. [tickets[t] EXCEPT !.open = FALSE] \in Tickets
  BY <1>2 DEF Tickets
<1>4. tickets' \in Seq(Tickets) /\ DOMAIN tickets' = DOMAIN tickets
  BY <1>1, <1>3
<1>5. TicketsKept
  BY <1>1, <1>2, <1>4 DEF TicketsKept, Tickets
<1> QED
  BY <1>4, <1>5, TicketsStep DEF Uploads!Expire

\* A version is added, of the digest its key is named for.
LEMMA PutKeeps ==
  ASSUME UploadsInv, NEW t \in DOMAIN tickets, Uploads!Put(t)
  PROVE  UploadsInv'
<1> DEFINE put == [key |-> <<tickets[t].slot, tickets[t].digest>>, digest |-> tickets[t].digest]
<1>1. tickets[t] \in Tickets
  BY TypesOf
<1>2. puts' = Append(puts, put)
  BY DEF Uploads!Put, Uploads!ObjectKey
<1>3. put \in Puts /\ put.key[2] = put.digest
  BY <1>1 DEF Puts, Objects, Tickets
<1> HIDE DEF put
<1>4. /\ puts' \in Seq(Puts) /\ DOMAIN puts' = DOMAIN puts \cup {Len(puts) + 1}
      /\ puts'[Len(puts) + 1] = put
      /\ \A v \in DOMAIN puts : puts'[v] = puts[v]
  BY <1>2, <1>3, TypesOf
<1>5. UNCHANGED <<draft, tickets, row, requests, urls>>
  BY DEF Uploads!Put
<1>6. UploadsTypeOK'
  BY <1>4, <1>5 DEF UploadsInv, UploadsTypeOK
<1>7. NamedForBytes'
  BY <1>3, <1>4 DEF UploadsInv, NamedForBytes
<1>8. \A slot, digest, v : Uploaded(slot, digest, v) => Uploaded(slot, digest, v)'
  BY <1>4 DEF Uploaded
<1>9. RowsUploaded' /\ RequestsSound'
  <2>1. RowsUploaded'
    BY <1>5, <1>8 DEF UploadsInv, RowsUploaded
  <2>2. RequestsSound'
    BY <1>5, <1>8 DEF UploadsInv, RequestsSound, Completing, Completion
  <2> QED
    BY <2>1, <2>2
<1>10. UrlsSound'
  BY <1>4, <1>5 DEF UploadsInv, UrlsSound, Versions
<1> QED
  BY <1>6, <1>7, <1>9, <1>10 DEF UploadsInv

\* Where requests are, and that they leave.
LEMMA AboutFine ==
  ASSUME UploadsInv, NEW c \in Callers
  PROVE  requests[c] \in RequestType /\ Fine(requests[c])
  BY TypesOf, FineIsSound DEF UploadsInv

LEMMA LeavesKeep ==
  ASSUME UploadsInv, NEW c \in Callers, Uploads!Leave(c), draft' \in BOOLEAN,
         UNCHANGED <<tickets, puts, row, urls>>
  PROVE  UploadsInv'
  BY IdleFine, RequestStep DEF Uploads!Leave, Uploads!Become

LEMMA BeginCompleteKeeps ==
  ASSUME UploadsInv, NEW c \in Callers, NEW t \in DOMAIN tickets, Uploads!BeginComplete(c, t)
  PROVE  UploadsInv'
<1> DEFINE call == Uploads!Call("release", t)
<1>1. draft \in BOOLEAN /\ t \in Nat
  BY TypesOf DEF UploadsInv, UploadsTypeOK
<1>2. call \in RequestType /\ Fine(call)
  BY <1>1 DEF Uploads!Call, RequestType, Fine, Completion
<1> HIDE DEF call
<1>3. requests' = [requests EXCEPT ![c] = call]
  BY DEF Uploads!BeginComplete, Uploads!Become, call
<1> QED
  BY <1>1, <1>2, <1>3, RequestStep DEF Uploads!BeginComplete

\* A completion goes on, or leaves.
LEMMA GoesOnKeeps ==
  ASSUME UploadsInv, NEW c \in Callers, NEW before \in {"release", "look up"},
         NEW after \in {"look up", "inspect"}, requests[c].pc = before,
         Uploads!Leave(c) \/ Uploads!Become(c, [requests[c] EXCEPT !.pc = after]),
         UNCHANGED <<draft, tickets, puts, row, urls>>
  PROVE  UploadsInv'
<1>1. draft \in BOOLEAN
  BY DEF UploadsInv, UploadsTypeOK
<1>2. CASE Uploads!Leave(c)
  BY <1>1, <1>2, LeavesKeep
<1>3. CASE Uploads!Become(c, [requests[c] EXCEPT !.pc = after])
  <2> DEFINE call == [requests[c] EXCEPT !.pc = after]
  <2>1. call \in RequestType /\ Fine(call)
    BY AboutFine DEF RequestType, Fine, Completion
  <2> HIDE DEF call
  <2>2. requests' = [requests EXCEPT ![c] = call]
    BY <1>3 DEF Uploads!Become, call
  <2> QED
    BY <1>1, <2>1, <2>2, RequestStep
<1> QED
  BY <1>2, <1>3

LEMMA CheckReleaseKeeps ==
  ASSUME UploadsInv, NEW c \in Callers, Uploads!CheckRelease(c)
  PROVE  UploadsInv'
  BY GoesOnKeeps DEF Uploads!CheckRelease

LEMMA LookUpKeeps ==
  ASSUME UploadsInv, NEW c \in Callers, Uploads!LookUp(c)
  PROVE  UploadsInv'
  BY GoesOnKeeps DEF Uploads!LookUp

\* What is found at the name of a ticket's object was uploaded with its digest.
LEMMA InspectKeeps ==
  ASSUME UploadsInv, NEW c \in Callers, Uploads!Inspect(c)
  PROVE  UploadsInv'
<1> DEFINE t == tickets[requests[c].about]
           version == Uploads!Current(Uploads!ObjectKey(t.slot, t.digest))
<1>1. draft \in BOOLEAN /\ UNCHANGED <<draft, tickets, puts, row, urls>>
        /\ requests[c].pc = "inspect"
  BY DEF UploadsInv, UploadsTypeOK, Uploads!Inspect
<1>2. CASE Uploads!Leave(c)
  BY <1>1, <1>2, LeavesKeep
<1>3. CASE version # 0 /\ Uploads!Become(c, [requests[c] EXCEPT !.pc = "insert", !.version = version])
  <2> DEFINE call == [requests[c] EXCEPT !.pc = "insert", !.version = version]
  <2>1. version \in Versions(<<t.slot, t.digest>>) \cup {0}
    BY TypesOf, CurrentIsVersion DEF Uploads!ObjectKey
  <2>2. version # 0
    BY <1>3
  <2>3. call.pc = "insert" /\ requests' = [requests EXCEPT ![c] = call]
    BY <1>1, <1>3, AboutFine DEF Uploads!Become, RequestType
  <2> HIDE DEF version
  <2>4. Uploaded(t.slot, t.digest, version) /\ version \in Nat
    BY <2>1, <2>2, TypesOf DEF Versions, Uploaded
  <2>5. call \in RequestType /\ Fine(call)
    BY <1>1, <2>4, AboutFine DEF RequestType, Fine, Completion
  <2> HIDE DEF call
  <2> QED
    BY <1>1, <2>3, <2>5, RequestStep
<1> QED
  BY <1>2, <1>3 DEF Uploads!Inspect

\* An artifact is registered, or none is: a row there was stays.
LEMMA RowsStep ==
  ASSUME UploadsInv, NEW s \in Slots, NEW a \in Artifacts, Uploaded(a.slot, a.digest, a.version),
         row' = [row EXCEPT ![s] = a],
         requests' \in [Callers -> RequestType],
         \A d \in Callers : requests'[d] \in {requests[d], Uploads!Idle},
         UNCHANGED <<draft, tickets, puts, urls>>
  PROVE  UploadsInv'
<1>1. row \in [Slots -> Artifacts \cup {None}] /\ requests \in [Callers -> RequestType]
  BY TypesOf
<1>2. /\ row' \in [Slots -> Artifacts \cup {None}] /\ row'[s] = a /\ a # None
      /\ \A q \in Slots : q # s => row'[q] = row[q]
  BY <1>1, ArtifactAssumption DEF Artifacts
<1>4. UploadsTypeOK'
  BY <1>2 DEF UploadsInv, UploadsTypeOK
<1>5. NamedForBytes' /\ UrlsSound'
  BY DEF UploadsInv, NamedForBytes, UrlsSound, Versions
<1>6. RowsUploaded'
  BY <1>2 DEF UploadsInv, RowsUploaded, Uploaded
<1>7. RequestsSound'
  <2> SUFFICES ASSUME NEW d \in Callers PROVE Fine(requests[d])'
    BY DEF RequestsSound, Fine, Completing, Completion
  <2>1. CASE requests'[d] = Uploads!Idle
    BY <2>1 DEF Fine, Completion, Uploads!Idle
  <2>2. CASE requests'[d] = requests[d]
    BY <1>2, <2>2, AboutFine DEF Fine, Completion, Uploaded
  <2> QED
    BY <2>1, <2>2
<1> QED
  BY <1>4, <1>5, <1>6, <1>7 DEF UploadsInv

LEMMA InsertKeeps ==
  ASSUME UploadsInv, NEW c \in Callers, Uploads!Insert(c)
  PROVE  UploadsInv'
<1> DEFINE t == tickets[requests[c].about]
           a == [slot |-> t.slot, digest |-> t.digest, version |-> requests[c].version,
                 active |-> TRUE]
<1>1. /\ draft \in BOOLEAN /\ UNCHANGED <<draft, tickets, puts, urls>>
      /\ requests[c].pc = "insert" /\ Uploads!Leave(c)
  BY DEF UploadsInv, UploadsTypeOK, Uploads!Insert
<1>2. CASE row' = row
  BY <1>1, <1>2, LeavesKeep
<1>3. CASE row' = [row EXCEPT ![t.slot] = a]
  <2>1. /\ requests[c].about \in DOMAIN tickets
        /\ Uploaded(t.slot, t.digest, requests[c].version)
        /\ requests[c] \in RequestType
    BY <1>1, AboutFine DEF Fine, Completion
  <2>2. t \in Tickets
    BY <2>1, TypesOf
  <2>3. t.slot \in Slots /\ t.digest \in Digests /\ requests[c].version \in Nat
    BY <1>1, <2>1, <2>2 DEF Tickets, RequestType
  <2>4. a \in Artifacts /\ a.slot = t.slot /\ a.digest = t.digest
          /\ a.version = requests[c].version
    BY <2>3 DEF Artifacts
  <2>5. Uploaded(a.slot, a.digest, a.version)
    BY <2>1, <2>4
  <2> HIDE DEF a
  <2>6. requests' = [requests EXCEPT ![c] = Uploads!Idle] /\ requests \in [Callers -> RequestType]
    BY <1>1, TypesOf DEF Uploads!Leave, Uploads!Become
  <2>7. /\ requests' \in [Callers -> RequestType]
        /\ \A d \in Callers : requests'[d] \in {requests[d], Uploads!Idle}
    BY <2>6, IdleFine, RequestMoves
  <2> QED
    BY <1>1, <1>3, <2>3, <2>4, <2>5, <2>7, RowsStep
<1> QED
  BY <1>2, <1>3 DEF Uploads!Insert

LEMMA RevokeKeeps ==
  ASSUME UploadsInv, NEW slot \in Slots, Uploads!Revoke(slot)
  PROVE  UploadsInv'
<1> DEFINE a == [row[slot] EXCEPT !.active = FALSE]
<1>1. /\ row[slot] # None /\ row' = [row EXCEPT ![slot].active = FALSE]
      /\ UNCHANGED <<draft, tickets, puts, requests, urls>>
  BY DEF Uploads!Revoke
<1>2. row[slot] \in Artifacts /\ Uploaded(row[slot].slot, row[slot].digest, row[slot].version)
  BY <1>1, TypesOf DEF UploadsInv, RowsUploaded
<1>3. a \in Artifacts /\ Uploaded(a.slot, a.digest, a.version)
  BY <1>2 DEF Artifacts
<1>4. row' = [row EXCEPT ![slot] = a]
  BY <1>1
<1> HIDE DEF a
<1>5. /\ requests' \in [Callers -> RequestType]
      /\ \A d \in Callers : requests'[d] \in {requests[d], Uploads!Idle}
  BY <1>1, TypesOf
<1> QED
  BY <1>1, <1>3, <1>4, <1>5, RowsStep

LEMMA BeginDownloadKeeps ==
  ASSUME UploadsInv, NEW c \in Callers, NEW slot \in Slots, Uploads!BeginDownload(c, slot)
  PROVE  UploadsInv'
<1> DEFINE call == Uploads!Call("serve", slot)
<1>1. draft \in BOOLEAN /\ row[slot] # None
  BY DEF UploadsInv, UploadsTypeOK, Uploads!BeginDownload
<1>2. call \in RequestType /\ Fine(call)
  BY <1>1 DEF Uploads!Call, RequestType, Fine, Completion
<1> HIDE DEF call
<1>3. requests' = [requests EXCEPT ![c] = call]
  BY DEF Uploads!BeginDownload, Uploads!Become, call
<1> QED
  BY <1>1, <1>2, <1>3, RequestStep DEF Uploads!BeginDownload

\* A URL is handed out for the object of an artifact, which was uploaded.
LEMMA ServeKeeps ==
  ASSUME UploadsInv, NEW c \in Callers, Uploads!Serve(c)
  PROVE  UploadsInv'
<1> DEFINE a == row[requests[c].about]
           url == [key |-> Uploads!ObjectKey(a.slot, a.digest), artifact |-> a.digest]
<1>1. /\ draft \in BOOLEAN /\ UNCHANGED <<draft, tickets, puts, row>>
      /\ requests[c].pc = "serve" /\ Uploads!Leave(c)
      /\ urls' \in {urls, urls \cup {url}}
  BY DEF UploadsInv, UploadsTypeOK, Uploads!Serve
<1>2. a # None /\ Uploaded(a.slot, a.digest, a.version)
  BY <1>1, AboutFine DEF Fine, UploadsInv, RowsUploaded
<1>3. url.key[2] = url.artifact /\ Versions(url.key) # {}
  BY <1>2 DEF Uploaded, Versions, Uploads!ObjectKey
<1> HIDE DEF url, a
<1>4. requests \in [Callers -> RequestType] /\ requests' = [requests EXCEPT ![c] = Uploads!Idle]
  BY <1>1, TypesOf DEF Uploads!Leave, Uploads!Become
<1>5. /\ requests' \in [Callers -> RequestType] /\ requests'[c] = Uploads!Idle
      /\ \A d \in Callers : d # c => requests'[d] = requests[d]
  BY <1>4, IdleFine, RequestMoves
<1>6. UploadsTypeOK'
  BY <1>1, <1>5 DEF UploadsInv, UploadsTypeOK
<1>7. NamedForBytes' /\ RowsUploaded'
  BY <1>1 DEF UploadsInv, NamedForBytes, RowsUploaded, Uploaded
<1>8. UrlsSound'
  BY <1>1, <1>3 DEF UploadsInv, UrlsSound, Versions
<1>9. RequestsSound'
  <2>1. \A d \in Callers : Fine(requests'[d])
    BY <1>5, AboutFine, IdleFine
  <2> QED
    BY <1>1, <2>1 DEF RequestsSound, Fine, Completing, Completion, Uploaded
<1> QED
  BY <1>6, <1>7, <1>8, <1>9 DEF UploadsInv

LEMMA ActivationKeeps ==
  ASSUME UploadsInv, NEW c \in Callers, Uploads!BeginActivate(c) \/ Uploads!Activate(c)
  PROVE  UploadsInv'
<1>1. CASE Uploads!BeginActivate(c)
  <2> DEFINE call == Uploads!Call("activate", None)
  <2>1. draft \in BOOLEAN
    BY DEF UploadsInv, UploadsTypeOK
  <2>2. call \in RequestType /\ Fine(call)
    BY <2>1 DEF Uploads!Call, RequestType, Fine, Completion
  <2> HIDE DEF call
  <2>3. requests' = [requests EXCEPT ![c] = call]
    BY <1>1 DEF Uploads!BeginActivate, Uploads!Become, call
  <2> QED
    BY <1>1, <2>1, <2>2, <2>3, RequestStep DEF Uploads!BeginActivate
<1>2. CASE Uploads!Activate(c)
  BY <1>2, LeavesKeep DEF Uploads!Activate
<1> QED
  BY <1>1, <1>2

LEMMA UploadsStep ==
  ASSUME UploadsInv, [Uploads!Next]_Uploads!vars
  PROVE  UploadsInv'
<1>1. CASE UNCHANGED Uploads!vars
  <2>1. UNCHANGED <<draft, tickets, puts, row, requests, urls>>
    BY <1>1 DEF Uploads!vars
  <2>2. UploadsTypeOK'
    BY <2>1 DEF UploadsInv, UploadsTypeOK
  <2>3. NamedForBytes' /\ RowsUploaded' /\ UrlsSound'
    BY <2>1 DEF UploadsInv, NamedForBytes, RowsUploaded, UrlsSound, Uploaded, Versions
  <2>4. RequestsSound'
    BY <2>1 DEF UploadsInv, RequestsSound, Uploaded, Completing, Completion
  <2> QED
    BY <2>2, <2>3, <2>4 DEF UploadsInv
<1>2. ASSUME NEW c \in Callers, Uploads!Fail(c) PROVE UploadsInv'
  BY <1>2, LeavesKeep DEF Uploads!Fail, UploadsInv, UploadsTypeOK
<1>3. ASSUME NEW slot \in Slots, Uploads!Revoke(slot) PROVE UploadsInv'
  BY <1>3, RevokeKeeps
<1> QED
  BY <1>1, <1>2, <1>3, CreateUploadKeeps, PutKeeps, ExpireKeeps, BeginCompleteKeeps,
     CheckReleaseKeeps,
     LookUpKeeps, InspectKeeps, InsertKeeps, BeginDownloadKeeps, ServeKeeps, ActivationKeeps DEF
     Uploads!Next

-----------------------------------------------------------------------------
(* The theorems of the uploads.                                              *)

THEOREM UploadsInvariant == Uploads!Spec => []UploadsInv
<1>1. Uploads!Init => UploadsInv
  BY UploadsInit
<1>2. UploadsInv /\ [Uploads!Next]_Uploads!vars => UploadsInv'
  BY UploadsStep
<1> QED
  BY <1>1, <1>2, PTL DEF Uploads!Spec

\* Whatever is uploaded with tickets that are still open, and whenever a URL is
\* used that was handed out, the bytes it gets are those of the signed artifact.
THEOREM DownloadsAreSigned == Uploads!Spec => []BytesAreSigned
<1>1. UploadsInv => BytesAreSigned
  <2> SUFFICES ASSUME UploadsInv, NEW u \in urls
               PROVE  puts[Uploads!Current(u.key)].digest = u.artifact
    BY DEF BytesAreSigned, Uploads!BytesAreSigned
  <2>1. u.key[2] = u.artifact /\ Versions(u.key) # {}
    BY DEF UploadsInv, UrlsSound
  <2>2. Uploads!Current(u.key) \in Versions(u.key)
    BY <2>1, TypesOf, CurrentOfSome
  <2> QED
    BY <2>1, <2>2 DEF Versions, UploadsInv, NamedForBytes
<1> QED
  BY <1>1, UploadsInvariant, PTL
=============================================================================
