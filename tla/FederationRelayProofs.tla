------------------------ MODULE FederationRelayProofs ------------------------
(* Theorems about FederationRelay, for all deployments, keys, envelopes,     *)
(* grants and attachments, and any number of gateways, claims and changes.   *)
EXTENDS FederationRelay, FiniteSetTheorems, TLAPS

-----------------------------------------------------------------------------
(* The inductive invariant.                                                  *)

CallType ==
  [pc : {"idle"}]
    \cup [pc : {"enqueue", "insert"}, id : Ids, at : Nat]
    \cup [pc : {"forget", "purge", "files"}, at : Nat]
    \cup [pc : {"remove"}, attachments : SUBSET Attachments]

TypeOK ==
  /\ now \in Nat
  /\ status \in [Deployments -> Statuses]
  /\ key \in [Deployments \X Keys -> {"none", "active", "revoked"}]
  /\ blocks \subseteq Deployments \X Deployments
  /\ changes \in Nat
  /\ grant \in [Grants -> GrantRows \cup {None}]
  /\ attachment \in [Attachments -> AttachmentRows \cup {None}]
  /\ objects \subseteq Attachments
  /\ nonces \subseteq Ids
  /\ envelope \in [Ids -> Envelopes \cup {None}]
  /\ message \in [Ids -> MessageRows \cup {None}]
  /\ tokens \in [Ids -> Nat]
  /\ calls \in [Callers -> CallType]

\* What a call remembers is still so: a clock reading is past, what was validated was
\* signed, and what is being removed has expired.
Sound(call) ==
  /\ call.pc \in {"enqueue", "insert"} => call.at <= now /\ envelope[call.id] # None
  /\ call.pc \in {"forget", "purge", "files"} => call.at <= now
  /\ call.pc = "remove" =>
       \A a \in call.attachments : attachment[a] # None /\ attachment[a].status = "expired"

CallsSound == \A c \in Callers : Sound(calls[c])

\* A message in the table, or one that has been claimed and purged since.
Accepted(m) == message[m] # None \/ tokens[m] > 0

\* An accepted message has an envelope, of which the nonce is remembered while it is valid.
NoncesHold ==
  \A m \in Ids : Accepted(m) =>
    envelope[m] # None /\ (m \in nonces \/ envelope[m].expiresAt <= now)

InboxesBounded ==
  \A d \in Deployments : IsFiniteSet(Inbox(d)) /\ Cardinality(Inbox(d)) <= MaxPending

\* Only what is ready has an object to rely on, and only what is over has expired.
RowsSound ==
  \A a \in Attachments : attachment[a] # None =>
    /\ attachment[a].status = "ready" => a \in objects
    /\ attachment[a].status = "expired" => attachment[a].expiresAt <= now

\* The attachment of what was validated has been ready, and is one until the envelope
\* is over.
Covered(e) ==
  e.attachment # None =>
    LET row == attachment[e.attachment] IN
    row # None /\ row.status # "pending" /\ row.expiresAt >= e.expiresAt

EnvelopesCovered == \A m \in Ids : envelope[m] # None => Covered(envelope[m])

IInv ==
  /\ TypeOK /\ CallsSound /\ LiveOnOpenRoutes /\ NoncesHold /\ InboxesBounded
  /\ RowsSound /\ EnvelopesCovered

-----------------------------------------------------------------------------
LEMMA InitEstablishes == Init => IInv
<1> SUFFICES ASSUME Init
             PROVE  IInv
  OBVIOUS
<1>1. TypeOK
  BY RelayAssumption DEF Init, TypeOK, CallType, Idle
<1>2. CallsSound
  BY DEF Init, CallsSound, Sound, Idle
<1>3. \A m \in Ids : ~ Live(m) /\ ~ Accepted(m)
  BY DEF Init, Live, Accepted
<1>4. \A d \in Deployments : Inbox(d) = {}
  BY <1>3 DEF Inbox
<1>5. InboxesBounded
  BY <1>4, FS_EmptySet, RelayAssumption DEF InboxesBounded
<1> QED
  BY <1>1, <1>2, <1>3, <1>5
  DEF Init, IInv, LiveOnOpenRoutes, NoncesHold, RowsSound, EnvelopesCovered

-----------------------------------------------------------------------------
(* What most steps leave alone, and what follows from it.                    *)

\* What was signed under an id stays so.
EnvelopesKept == \A m \in Ids : envelope[m] # None => envelope'[m] = envelope[m]

\* No message arrives, and none is accepted.
NoArrival == \A m \in Ids : (Live(m)' => Live(m)) /\ (Accepted(m)' => Accepted(m))

NoncesKept ==
  \A m \in nonces : envelope[m] # None => m \in nonces' \/ envelope[m].expiresAt <= now

AttachmentsKept ==
  \A a \in Attachments : attachment[a] # None =>
    /\ attachment'[a] # None
    /\ attachment'[a].expiresAt = attachment[a].expiresAt
    /\ attachment[a].status # "pending" => attachment'[a].status # "pending"
    /\ attachment[a].status = "expired" => attachment'[a].status = "expired"

Later == now' \in Nat /\ now <= now'

LEMMA RoutesStay ==
  ASSUME IInv, EnvelopesKept, NoArrival, UNCHANGED routing
  PROVE  LiveOnOpenRoutes'
<1> SUFFICES ASSUME NEW m \in Ids, Live(m)'
             PROVE  (/\ Open(envelope[m].sender, envelope[m].recipient)
                     /\ key[<<envelope[m].sender, envelope[m].key>>] = "active")'
  BY DEF LiveOnOpenRoutes
<1>1. Live(m) /\ envelope'[m] = envelope[m]
  BY DEF EnvelopesKept, NoArrival, IInv, NoncesHold, Accepted, Live
<1> QED
  BY <1>1 DEF IInv, LiveOnOpenRoutes, Open, Active, IsBlocked, routing

LEMMA InboxesStay ==
  ASSUME IInv, EnvelopesKept, NoArrival
  PROVE  InboxesBounded'
<1> SUFFICES ASSUME NEW d \in Deployments
             PROVE  (IsFiniteSet(Inbox(d)) /\ Cardinality(Inbox(d)) <= MaxPending)'
  BY DEF InboxesBounded
<1>1. \A m \in Ids : Live(m)' => Live(m) /\ envelope'[m] = envelope[m]
  BY DEF EnvelopesKept, NoArrival, IInv, NoncesHold, Accepted, Live
<1>2. Inbox(d)' \in SUBSET Inbox(d)
  BY <1>1 DEF Inbox
<1>3. IsFiniteSet(Inbox(d)) /\ Cardinality(Inbox(d)) <= MaxPending
  BY DEF IInv, InboxesBounded
<1>4. IsFiniteSet(Inbox(d)') /\ Cardinality(Inbox(d)') <= Cardinality(Inbox(d))
  BY <1>2, <1>3, FS_Subset
<1>5. Cardinality(Inbox(d)') \in Nat /\ Cardinality(Inbox(d)) \in Nat /\ MaxPending \in Nat
  BY <1>3, <1>4, FS_CardinalityType, RelayAssumption
<1> QED
  BY <1>3, <1>4, <1>5

LEMMA NoncesStay ==
  ASSUME IInv, TypeOK', Later, EnvelopesKept, NoArrival, NoncesKept
  PROVE  NoncesHold'
<1> SUFFICES ASSUME NEW m \in Ids, Accepted(m)'
             PROVE  envelope'[m] # None /\ (m \in nonces' \/ envelope'[m].expiresAt <= now')
  BY DEF NoncesHold
<1>1. envelope[m] # None /\ (m \in nonces \/ envelope[m].expiresAt <= now)
  BY DEF NoArrival, IInv, NoncesHold
<1>2. envelope'[m] = envelope[m] /\ envelope[m].expiresAt \in Nat
  BY <1>1 DEF EnvelopesKept, IInv, TypeOK, Envelopes
<1>3. m \in nonces' \/ envelope[m].expiresAt <= now
  BY <1>1 DEF NoncesKept
<1> QED
  BY <1>1, <1>2, <1>3 DEF Later, IInv, TypeOK

LEMMA CallsStay ==
  ASSUME IInv, Later, EnvelopesKept, AttachmentsKept, NEW call \in CallType, Sound(call)
  PROVE  Sound(call)'
  BY DEF Later, EnvelopesKept, AttachmentsKept, CallType, Sound, IInv, TypeOK

LEMMA CoverStays ==
  ASSUME IInv, EnvelopesKept, AttachmentsKept, NEW m \in Ids, envelope[m] # None
  PROVE  envelope'[m] = envelope[m] /\ Covered(envelope[m])'
<1>1. envelope'[m] = envelope[m] /\ envelope[m] \in Envelopes /\ Covered(envelope[m])
  BY DEF EnvelopesKept, IInv, EnvelopesCovered, TypeOK
<1>2. envelope[m].attachment # None => envelope[m].attachment \in Attachments
  BY <1>1 DEF Envelopes
<1> QED
  BY <1>1, <1>2 DEF AttachmentsKept, Covered

LEMMA FilesStay ==
  ASSUME IInv, Later, UNCHANGED files
  PROVE  AttachmentsKept /\ RowsSound'
<1>1. attachment' = attachment /\ objects' = objects
  BY DEF files
<1>2. AttachmentsKept
  BY <1>1 DEF AttachmentsKept
<1>3. \A a \in Attachments : attachment[a] # None => attachment[a].expiresAt \in Nat
  BY DEF IInv, TypeOK, AttachmentRows
<1> QED
  BY <1>1, <1>2, <1>3 DEF RowsSound, Later, IInv, TypeOK

LEMMA CallsSame ==
  ASSUME IInv, Later, EnvelopesKept, AttachmentsKept, UNCHANGED calls
  PROVE  CallsSound'
<1>1. \A c \in Callers : calls[c] \in CallType /\ Sound(calls[c])
  BY DEF IInv, CallsSound, TypeOK
<1>2. \A c \in Callers : Sound(calls[c])'
  BY <1>1, CallsStay
<1> QED
  BY <1>2 DEF CallsSound

LEMMA CallChanges ==
  ASSUME IInv, Later, EnvelopesKept, AttachmentsKept,
         NEW c \in Callers, NEW call \in CallType, Become(c, call),
         Sound(call) \/ Sound(call)'
  PROVE  CallsSound' /\ calls' \in [Callers -> CallType]
<1>1. /\ calls' \in [Callers -> CallType] /\ calls'[c] = call
      /\ \A o \in Callers : o # c => calls'[o] = calls[o]
  BY DEF Become, IInv, TypeOK
<1>2. Sound(call)'
  BY CallsStay
<1>3. ASSUME NEW o \in Callers
      PROVE  Sound(calls[o])'
  <2>1. CASE o = c
    BY <1>1, <1>2, <2>1
  <2>2. CASE o # c
    <3>1. calls[o] \in CallType /\ Sound(calls[o])
      BY DEF IInv, CallsSound, TypeOK
    <3> QED
      BY <1>1, <2>2, <3>1, CallsStay
  <2> QED
    BY <2>1, <2>2
<1> QED
  BY <1>1, <1>3 DEF CallsSound

LEMMA IdleIsSound == Idle \in CallType /\ Sound(Idle) /\ Idle.pc = "idle"
  BY DEF Idle, CallType, Sound

\* A step at which nothing is validated and nothing is accepted.
LEMMA QuietStep ==
  ASSUME IInv, TypeOK', Later, UNCHANGED envelope, NoArrival, NoncesKept, AttachmentsKept,
         RowsSound', LiveOnOpenRoutes', CallsSound'
  PROVE  IInv'
<1>1. EnvelopesKept
  BY DEF EnvelopesKept
<1>2. NoncesHold' /\ InboxesBounded'
  BY <1>1, InboxesStay, NoncesStay
<1>3. EnvelopesCovered'
  <2> SUFFICES ASSUME NEW m \in Ids, (envelope[m] # None)'
               PROVE  Covered(envelope[m])'
    BY DEF EnvelopesCovered
  <2> QED
    BY <1>1, CoverStays
<1> QED
  BY <1>2, <1>3 DEF IInv

-----------------------------------------------------------------------------
(* Administrators.                                                           *)

LEMMA ExpireStep ==
  ASSUME TypeOK, NEW M, ExpireLive(M)
  PROVE  /\ message' \in [Ids -> MessageRows \cup {None}]
         /\ \A m \in Ids : (message'[m] # None <=> message[m] # None) /\ (Live(m)' => Live(m) /\ m \notin M)
<1>1. ASSUME NEW row \in MessageRows
      PROVE  Expired(row) \in MessageRows /\ Expired(row).status = "expired"
  BY DEF Expired, MessageRows
<1>2. \A m \in Ids : message[m] \in MessageRows \cup {None}
  BY DEF TypeOK
<1>3. \A m \in Ids : message'[m] = IF m \in M /\ Live(m) THEN Expired(message[m]) ELSE message[m]
  BY DEF ExpireLive
<1>4. \A m \in Ids : m \in M /\ Live(m) =>
        message'[m] \in MessageRows /\ message'[m].status = "expired"
  BY <1>1, <1>2, <1>3 DEF Live
<1>5. message' \in [Ids -> MessageRows \cup {None}]
  BY <1>2, <1>3, <1>4 DEF ExpireLive
<1>6. \A m \in Ids : message'[m] # None <=> message[m] # None
  BY <1>3, <1>4, NoneAssumption DEF Live
<1>7. \A m \in Ids : Live(m)' => Live(m) /\ m \notin M
  BY <1>3, <1>4 DEF Live
<1> QED
  BY <1>5, <1>6, <1>7

\* What an administrator does to the routes, with the messages that expire with it.
LEMMA AdministratorStep ==
  ASSUME IInv, UNCHANGED <<now, grant, files, nonces, envelope, tokens, calls>>,
         message' \in [Ids -> MessageRows \cup {None}],
         \A m \in Ids : (message'[m] # None <=> message[m] # None) /\ (Live(m)' => Live(m)),
         status' \in [Deployments -> Statuses],
         key' \in [Deployments \X Keys -> {"none", "active", "revoked"}],
         blocks' \subseteq Deployments \X Deployments, changes' \in Nat,
         LiveOnOpenRoutes'
  PROVE  IInv'
<1>1. TypeOK'
  BY DEF IInv, TypeOK, files
<1>2. Later
  BY DEF Later, IInv, TypeOK
<1>3. EnvelopesKept /\ NoArrival /\ NoncesKept
  BY DEF EnvelopesKept, NoArrival, NoncesKept, Accepted
<1>4. AttachmentsKept /\ RowsSound'
  BY <1>2, FilesStay
<1>5. CallsSound'
  BY <1>2, <1>3, <1>4, CallsSame
<1> QED
  BY <1>1, <1>2, <1>3, <1>4, <1>5, QuietStep

\* The fields of an envelope that says something.
LEMMA EnvelopeFields ==
  ASSUME TypeOK, NEW m \in Ids, envelope[m] # None
  PROVE  /\ envelope[m] \in Envelopes
         /\ envelope[m].sender \in Deployments /\ envelope[m].recipient \in Deployments
         /\ envelope[m].key \in Keys /\ envelope[m].expiresAt \in Nat
         /\ envelope[m].attachment \in Attachments \cup {None}
<1>1. envelope[m] \in Envelopes
  BY DEF TypeOK
<1> QED
  BY <1>1 DEF Envelopes

LEMMA LiveIsSigned ==
  ASSUME IInv, NEW m \in Ids, Live(m)
  PROVE  envelope[m] # None
  BY DEF IInv, NoncesHold, Accepted, Live

LEMMA RegisterKeyStep ==
  ASSUME IInv, NEW d \in Deployments, NEW k \in Keys, RegisterKey(d, k)
  PROVE  IInv'
<1>1. key' \in [Deployments \X Keys -> {"none", "active", "revoked"}]
      /\ \A x \in Deployments \X Keys : key[x] = "active" => key'[x] = "active"
  BY DEF RegisterKey, IInv, TypeOK
<1>2. /\ UNCHANGED <<now, grant, files, nonces, envelope, tokens, calls>>
      /\ UNCHANGED <<status, blocks, changes, message>>
  BY DEF RegisterKey, mail
<1>3. LiveOnOpenRoutes'
  <2> SUFFICES ASSUME NEW m \in Ids, Live(m)'
               PROVE  (/\ Open(envelope[m].sender, envelope[m].recipient)
                       /\ key[<<envelope[m].sender, envelope[m].key>>] = "active")'
    BY DEF LiveOnOpenRoutes
  <2>1. Live(m)
    BY <1>2 DEF Live
  <2>2. envelope[m].sender \in Deployments /\ envelope[m].key \in Keys
    BY <2>1, LiveIsSigned, EnvelopeFields DEF IInv
  <2>3. /\ Open(envelope[m].sender, envelope[m].recipient)
        /\ key[<<envelope[m].sender, envelope[m].key>>] = "active"
    BY <2>1 DEF IInv, LiveOnOpenRoutes
  <2> QED
    BY <1>1, <1>2, <2>2, <2>3 DEF Open, Active, IsBlocked
<1>4. \A m \in Ids : (message'[m] # None <=> message[m] # None) /\ (Live(m)' => Live(m))
  BY <1>2 DEF Live
<1> QED
  BY <1>1, <1>2, <1>3, <1>4, AdministratorStep DEF IInv, TypeOK

LEMMA RevokeKeyStep ==
  ASSUME IInv, NEW d \in Deployments, NEW k \in Keys, RevokeKey(d, k)
  PROVE  IInv'
<1>1. key' \in [Deployments \X Keys -> {"none", "active", "revoked"}]
      /\ \A x \in Deployments \X Keys : x # <<d, k>> => key'[x] = key[x]
  BY DEF RevokeKey, IInv, TypeOK
<1>2. /\ UNCHANGED <<now, grant, files, nonces, envelope, tokens, calls>>
      /\ UNCHANGED <<status, blocks>> /\ ExpireLive(SignedWith(d, k)) /\ changes' = changes + 1
  BY DEF RevokeKey, StepIn
<1>3. /\ message' \in [Ids -> MessageRows \cup {None}]
      /\ \A m \in Ids : (message'[m] # None <=> message[m] # None)
                          /\ (Live(m)' => Live(m) /\ m \notin SignedWith(d, k))
  BY <1>2, ExpireStep DEF IInv
<1>4. LiveOnOpenRoutes'
  <2> SUFFICES ASSUME NEW m \in Ids, Live(m)'
               PROVE  (/\ Open(envelope[m].sender, envelope[m].recipient)
                       /\ key[<<envelope[m].sender, envelope[m].key>>] = "active")'
    BY DEF LiveOnOpenRoutes
  <2>1. Live(m) /\ m \notin SignedWith(d, k)
    BY <1>3
  <2>2. envelope[m] # None /\ envelope[m].sender \in Deployments /\ envelope[m].key \in Keys
    BY <2>1, LiveIsSigned, EnvelopeFields DEF IInv
  <2>3. /\ Open(envelope[m].sender, envelope[m].recipient)
        /\ key[<<envelope[m].sender, envelope[m].key>>] = "active"
    BY <2>1 DEF IInv, LiveOnOpenRoutes
  <2>4. <<envelope[m].sender, envelope[m].key>> # <<d, k>>
    BY <2>1, <2>2 DEF SignedWith
  <2> QED
    BY <1>1, <1>2, <2>2, <2>3, <2>4 DEF Open, Active, IsBlocked
<1> QED
  BY <1>1, <1>2, <1>3, <1>4, AdministratorStep DEF IInv, TypeOK

LEMMA SetStatusStep ==
  ASSUME IInv, NEW d \in Deployments, NEW s \in Statuses, SetDeploymentStatus(d, s)
  PROVE  IInv'
<1>1. status' = [status EXCEPT ![d] = s] /\ status' \in [Deployments -> Statuses]
  BY DEF SetDeploymentStatus, IInv, TypeOK
<1>2. /\ UNCHANGED <<now, grant, files, nonces, envelope, tokens, calls>>
      /\ UNCHANGED <<key, blocks>> /\ changes' = changes + 1
      /\ IF s # "active" THEN ExpireLive(OfDeployment(d)) ELSE UNCHANGED message
  BY DEF SetDeploymentStatus, StepIn
<1>3. /\ message' \in [Ids -> MessageRows \cup {None}]
      /\ \A m \in Ids : (message'[m] # None <=> message[m] # None)
                          /\ (Live(m)' => Live(m) /\ (s # "active" => m \notin OfDeployment(d)))
  <2>1. CASE s # "active"
    BY <1>2, <2>1, ExpireStep DEF IInv
  <2>2. CASE s = "active"
    BY <1>2, <2>2 DEF IInv, TypeOK, Live
  <2> QED
    BY <2>1, <2>2
<1>4. LiveOnOpenRoutes'
  <2> SUFFICES ASSUME NEW m \in Ids, Live(m)'
               PROVE  (/\ Open(envelope[m].sender, envelope[m].recipient)
                       /\ key[<<envelope[m].sender, envelope[m].key>>] = "active")'
    BY DEF LiveOnOpenRoutes
  <2>1. Live(m) /\ (s # "active" => m \notin OfDeployment(d))
    BY <1>3
  <2>2. /\ envelope[m] # None
        /\ envelope[m].sender \in Deployments /\ envelope[m].recipient \in Deployments
    BY <2>1, LiveIsSigned, EnvelopeFields DEF IInv
  <2>3. /\ Open(envelope[m].sender, envelope[m].recipient)
        /\ key[<<envelope[m].sender, envelope[m].key>>] = "active"
    BY <2>1 DEF IInv, LiveOnOpenRoutes
  <2>4. s # "active" => d \notin {envelope[m].sender, envelope[m].recipient}
    BY <2>1, <2>2 DEF OfDeployment
  <2>5. status'[envelope[m].sender] = "active" /\ status'[envelope[m].recipient] = "active"
    BY <1>1, <2>2, <2>3, <2>4 DEF Open, Active, IInv, TypeOK
  <2> QED
    BY <1>2, <2>3, <2>5 DEF Open, Active, IsBlocked
<1> QED
  BY <1>1, <1>2, <1>3, <1>4, AdministratorStep DEF IInv, TypeOK

LEMMA SetBlockStep ==
  ASSUME IInv, NEW q \in Quarrels, SetBlock(q[1], q[2])
  PROVE  IInv'
<1>1. q \in Deployments \X Deployments /\ q[1] \in Deployments /\ q[2] \in Deployments
  BY RelayAssumption
<1>2. /\ UNCHANGED <<now, grant, files, nonces, envelope, tokens, calls>>
      /\ UNCHANGED <<status, key>> /\ changes' = changes + 1
      /\ blocks' = blocks \cup {<<q[1], q[2]>>} /\ ExpireLive(Between(q[1], q[2]))
  BY DEF SetBlock, StepIn
<1>3. /\ message' \in [Ids -> MessageRows \cup {None}]
      /\ \A m \in Ids : (message'[m] # None <=> message[m] # None)
                          /\ (Live(m)' => Live(m) /\ m \notin Between(q[1], q[2]))
  BY <1>2, ExpireStep DEF IInv
<1>4. LiveOnOpenRoutes'
  <2> SUFFICES ASSUME NEW m \in Ids, Live(m)'
               PROVE  (/\ Open(envelope[m].sender, envelope[m].recipient)
                       /\ key[<<envelope[m].sender, envelope[m].key>>] = "active")'
    BY DEF LiveOnOpenRoutes
  <2>1. Live(m) /\ m \notin Between(q[1], q[2])
    BY <1>3
  <2>2. envelope[m] # None
    BY <2>1, LiveIsSigned
  <2>3. /\ Open(envelope[m].sender, envelope[m].recipient)
        /\ key[<<envelope[m].sender, envelope[m].key>>] = "active"
    BY <2>1 DEF IInv, LiveOnOpenRoutes
  <2>4. {envelope[m].sender, envelope[m].recipient} # {q[1], q[2]}
    BY <2>1, <2>2 DEF Between
  <2>5. ~ IsBlocked(envelope[m].sender, envelope[m].recipient)'
    BY <1>2, <2>3, <2>4 DEF Open, IsBlocked
  <2> QED
    BY <1>2, <2>3, <2>5 DEF Open, Active
<1>5. blocks' \subseteq Deployments \X Deployments
  BY <1>1, <1>2 DEF IInv, TypeOK
<1> QED
  BY <1>2, <1>3, <1>4, <1>5, AdministratorStep DEF IInv, TypeOK

LEMMA RemoveBlockStep ==
  ASSUME IInv, NEW q, RemoveBlock(q[1], q[2])
  PROVE  IInv'
<1>1. /\ UNCHANGED <<now, grant, files, nonces, envelope, tokens, calls>>
      /\ UNCHANGED <<status, key, changes, message>> /\ blocks' \subseteq blocks
  BY DEF RemoveBlock, mail
<1>2. LiveOnOpenRoutes'
  <2> SUFFICES ASSUME NEW m \in Ids, Live(m)'
               PROVE  (/\ Open(envelope[m].sender, envelope[m].recipient)
                       /\ key[<<envelope[m].sender, envelope[m].key>>] = "active")'
    BY DEF LiveOnOpenRoutes
  <2>1. Live(m)
    BY <1>1 DEF Live
  <2>2. /\ Open(envelope[m].sender, envelope[m].recipient)
        /\ key[<<envelope[m].sender, envelope[m].key>>] = "active"
    BY <2>1 DEF IInv, LiveOnOpenRoutes
  <2>3. ~ IsBlocked(envelope[m].sender, envelope[m].recipient)'
    BY <1>1, <2>2 DEF Open, IsBlocked
  <2> QED
    BY <1>1, <2>2, <2>3 DEF Open, Active
<1>3. \A m \in Ids : (message'[m] # None <=> message[m] # None) /\ (Live(m)' => Live(m))
  BY <1>1 DEF Live
<1> QED
  BY <1>1, <1>2, <1>3, AdministratorStep DEF IInv, TypeOK

-----------------------------------------------------------------------------
(* Signed requests.                                                          *)

LEMMA NoncesRemembered ==
  ASSUME TypeOK, NEW at \in Nat, at <= now, nonces' = Remembered(at)
  PROVE  nonces' \subseteq Ids /\ NoncesKept
<1>1. \A m \in nonces : envelope[m] # None => envelope[m].expiresAt \in Nat
  BY EnvelopeFields DEF TypeOK
<1> QED
  BY <1>1 DEF Remembered, NoncesKept, TypeOK

\* A step of a deployment that is neither a message validated nor one accepted.
LEMMA RequestStep ==
  ASSUME IInv, UNCHANGED <<now, routing, envelope, calls>>,
         nonces' = Remembered(now) \/ nonces' = nonces,
         grant' \in [Grants -> GrantRows \cup {None}],
         attachment' \in [Attachments -> AttachmentRows \cup {None}],
         objects' \subseteq Attachments,
         message' \in [Ids -> MessageRows \cup {None}], tokens' \in [Ids -> Nat],
         NoArrival, AttachmentsKept, RowsSound'
  PROVE  IInv'
<1>1. nonces' \subseteq Ids /\ NoncesKept
  <2>1. CASE nonces' = Remembered(now)
    BY <2>1, NoncesRemembered DEF IInv, TypeOK
  <2>2. CASE nonces' = nonces
    BY <2>2 DEF NoncesKept, IInv, TypeOK
  <2> QED
    BY <2>1, <2>2
<1>2. TypeOK'
  BY <1>1 DEF IInv, TypeOK, routing
<1>3. Later /\ EnvelopesKept
  BY DEF Later, EnvelopesKept, IInv, TypeOK
<1>4. LiveOnOpenRoutes' /\ CallsSound'
  BY <1>3, RoutesStay, CallsSame
<1> QED
  BY <1>1, <1>2, <1>3, <1>4, QuietStep

LEMMA ClaimStep ==
  ASSUME IInv, NEW d \in Deployments, Claim(d)
  PROVE  IInv'
<1>1. PICK M \in SUBSET {m \in Claimable(d) : tokens[m] < MaxClaims} :
        /\ message' = [m \in Ids |-> IF m \in M THEN Claimed(m) ELSE message[m]]
        /\ tokens' = [m \in Ids |-> IF m \in M THEN tokens[m] + 1 ELSE tokens[m]]
  BY DEF Claim
<1>2. /\ nonces' = Remembered(now)
      /\ UNCHANGED <<now, routing, grant, files, envelope, calls>>
  BY DEF Claim
<1>3. \A m \in Ids : message[m] \in MessageRows \cup {None} /\ tokens[m] \in Nat
  BY DEF IInv, TypeOK
<1>4. \A m \in Ids : m \in M => Live(m)
  BY DEF Claimable, Inbox
<1>5. \A m \in Ids : m \in M => Claimed(m) \in MessageRows
  <2> SUFFICES ASSUME NEW m \in Ids, m \in M
               PROVE  Claimed(m) \in MessageRows
    OBVIOUS
  <2>1. message[m] \in MessageRows /\ tokens[m] + 1 \in Nat
    BY <1>3, <1>4 DEF Live
  <2>2. now + ClaimTtl \in Nat
    BY RelayAssumption DEF IInv, TypeOK
  <2> QED
    BY <2>1, <2>2 DEF Claimed, MessageRows
<1>6. message' \in [Ids -> MessageRows \cup {None}] /\ tokens' \in [Ids -> Nat]
  BY <1>1, <1>3, <1>5
<1>7. NoArrival
  BY <1>1, <1>4 DEF NoArrival, Live, Accepted
<1>8. Later
  BY <1>2 DEF Later, IInv, TypeOK
<1>9. AttachmentsKept /\ RowsSound'
  BY <1>2, <1>8, FilesStay
<1> QED
  BY <1>2, <1>6, <1>7, <1>9, RequestStep DEF IInv, TypeOK, files

LEMMA AcknowledgeStep ==
  ASSUME IInv, NEW d \in Deployments, NEW m \in Ids, NEW t, Acknowledge(d, m, t)
  PROVE  IInv'
<1> DEFINE claimed == [message[m] EXCEPT !.status = "delivered"]
           free == [claimed EXCEPT !.until = None]
           spent == [free EXCEPT !.token = None]
           row == [spent EXCEPT !.deliveredAt = now]
<1>1. /\ message' = [message EXCEPT ![m] = row]
      /\ message[m] # None /\ message[m].status = "claimed"
  BY DEF Acknowledge
<1>2. /\ nonces' = Remembered(now)
      /\ UNCHANGED <<now, routing, grant, files, envelope, tokens, calls>>
  BY DEF Acknowledge
<1>3. message[m] \in MessageRows /\ now \in Nat
  BY <1>1 DEF IInv, TypeOK
<1>4. claimed \in MessageRows /\ claimed.status = "delivered"
  BY <1>3 DEF MessageRows
<1> HIDE DEF claimed
<1>5. free \in MessageRows /\ free.status = "delivered"
  BY <1>4 DEF MessageRows
<1> HIDE DEF free
<1>6. spent \in MessageRows /\ spent.status = "delivered"
  BY <1>5 DEF MessageRows
<1> HIDE DEF spent
<1>7. row \in MessageRows /\ row.status = "delivered"
  BY <1>3, <1>6 DEF MessageRows
<1> HIDE DEF row
<1>8. message' \in [Ids -> MessageRows \cup {None}]
  BY <1>1, <1>7 DEF IInv, TypeOK
<1>9. NoArrival
  BY <1>1, <1>2, <1>7 DEF NoArrival, Live, Accepted, IInv, TypeOK
<1>10. Later
  BY <1>2 DEF Later, IInv, TypeOK
<1>11. AttachmentsKept /\ RowsSound'
  BY <1>2, <1>10, FilesStay
<1> QED
  BY <1>2, <1>8, <1>9, <1>11, RequestStep DEF IInv, TypeOK, files

LEMMA GrantStep ==
  ASSUME IInv,
         \/ \E g \in Grants, d, e \in Deployments, t \in GrantEnds : CreateGrant(g, d, e, t)
         \/ \E g \in Grants, d \in Deployments : RevokeGrant(d, g)
  PROVE  IInv'
<1>1. /\ nonces' = Remembered(now)
      /\ UNCHANGED <<now, routing, files, envelope, message, tokens, calls>>
  BY DEF CreateGrant, RevokeGrant
<1>2. grant' \in [Grants -> GrantRows \cup {None}]
  <2>1. ASSUME NEW g \in Grants, NEW d \in Deployments, NEW e \in Deployments,
               NEW t \in GrantEnds, CreateGrant(g, d, e, t)
        PROVE  grant' \in [Grants -> GrantRows \cup {None}]
    <3>1. t \in Nat /\ 0 \in 0 .. Uses
      BY RelayAssumption
    <3>2. NewGrant(d, e, t) \in GrantRows
      BY <3>1 DEF NewGrant, GrantRows
    <3> QED
      BY <2>1, <3>2 DEF CreateGrant, IInv, TypeOK
  <2>2. ASSUME NEW g \in Grants, NEW d \in Deployments, RevokeGrant(d, g)
        PROVE  grant' \in [Grants -> GrantRows \cup {None}]
    <3> DEFINE row == [grant[g] EXCEPT !.revoked = TRUE]
    <3>1. grant[g] \in GrantRows
      BY <2>2 DEF RevokeGrant, Revocable, IInv, TypeOK
    <3>2. row \in GrantRows
      BY <3>1 DEF GrantRows
    <3>3. grant' = [grant EXCEPT ![g] = row]
      BY <2>2 DEF RevokeGrant
    <3> HIDE DEF row
    <3> QED
      BY <3>2, <3>3 DEF IInv, TypeOK
  <2> QED
    BY <2>1, <2>2
<1>3. NoArrival
  BY <1>1 DEF NoArrival, Live, Accepted
<1>4. Later
  BY <1>1 DEF Later, IInv, TypeOK
<1>5. AttachmentsKept /\ RowsSound'
  BY <1>1, <1>4, FilesStay
<1> QED
  BY <1>1, <1>2, <1>3, <1>5, RequestStep DEF IInv, TypeOK, files

-----------------------------------------------------------------------------
(* Attachments.                                                              *)

LEMMA CreateAttachmentStep ==
  ASSUME IInv, NEW a \in Attachments, NEW d \in Deployments, NEW e \in Deployments,
         NEW t \in FileEnds, CreateAttachment(a, d, e, t)
  PROVE  IInv'
<1>1. /\ nonces' = Remembered(now) /\ attachment[a] = None
      /\ attachment' = [attachment EXCEPT ![a] = NewAttachment(d, e, t)]
      /\ UNCHANGED <<now, routing, grant, objects, envelope, message, tokens, calls>>
  BY DEF CreateAttachment
<1>2. NewAttachment(d, e, t) \in AttachmentRows /\ NewAttachment(d, e, t).status = "pending"
  BY RelayAssumption DEF NewAttachment, AttachmentRows
<1>3. /\ attachment' \in [Attachments -> AttachmentRows \cup {None}]
      /\ attachment'[a] = NewAttachment(d, e, t)
      /\ \A b \in Attachments : b # a => attachment'[b] = attachment[b]
  BY <1>1, <1>2 DEF IInv, TypeOK
<1>4. AttachmentsKept
  BY <1>1, <1>3 DEF AttachmentsKept
<1>5. RowsSound'
  BY <1>1, <1>2, <1>3 DEF RowsSound, IInv
<1>6. NoArrival
  BY <1>1 DEF NoArrival, Live, Accepted
<1> QED
  BY <1>1, <1>3, <1>4, <1>5, <1>6, RequestStep DEF IInv, TypeOK

LEMMA PutObjectStep ==
  ASSUME IInv, NEW a \in Attachments, PutObject(a)
  PROVE  IInv'
<1>1. /\ objects' = objects \cup {a}
      /\ UNCHANGED <<now, routing, grant, attachment, nonces, envelope, message, tokens, calls>>
  BY DEF PutObject, mail
<1>2. AttachmentsKept /\ RowsSound'
  BY <1>1 DEF AttachmentsKept, RowsSound, IInv
<1>3. NoArrival
  BY <1>1 DEF NoArrival, Live, Accepted
<1> QED
  BY <1>1, <1>2, <1>3, RequestStep DEF IInv, TypeOK

LEMMA CompleteStep ==
  ASSUME IInv, NEW a \in Attachments, CompleteAttachment(a)
  PROVE  IInv'
<1> DEFINE row == [attachment[a] EXCEPT !.status = "ready"]
<1>1. /\ nonces' = Remembered(now) /\ attachment[a] # None /\ a \in objects
      /\ attachment[a].status = "pending"
      /\ attachment' = [attachment EXCEPT ![a] = row]
      /\ UNCHANGED <<now, routing, grant, objects, envelope, message, tokens, calls>>
  BY DEF CompleteAttachment, Completable
<1>2. attachment[a] \in AttachmentRows
  BY <1>1 DEF IInv, TypeOK
<1>3. row \in AttachmentRows /\ row.status = "ready" /\ row.expiresAt = attachment[a].expiresAt
  BY <1>2 DEF AttachmentRows
<1> HIDE DEF row
<1>4. /\ attachment' \in [Attachments -> AttachmentRows \cup {None}]
      /\ attachment'[a] = row /\ row # None
      /\ \A b \in Attachments : b # a => attachment'[b] = attachment[b]
  BY <1>1, <1>3, NoneAssumption DEF IInv, TypeOK
<1>5. AttachmentsKept
  BY <1>1, <1>3, <1>4 DEF AttachmentsKept
<1>6. RowsSound'
  BY <1>1, <1>3, <1>4 DEF RowsSound, IInv
<1>7. NoArrival
  BY <1>1 DEF NoArrival, Live, Accepted
<1> QED
  BY <1>1, <1>4, <1>5, <1>6, <1>7, RequestStep DEF IInv, TypeOK

-----------------------------------------------------------------------------
(* Cleaning up, and time.                                                    *)

LEMMA CallFields ==
  ASSUME IInv, NEW c \in Callers
  PROVE  /\ calls[c] \in CallType /\ Sound(calls[c]) /\ now \in Nat
         /\ calls[c].pc \in {"enqueue", "insert"} => calls[c].id \in Ids
         /\ calls[c].pc \in {"enqueue", "insert", "forget", "purge", "files"} =>
              calls[c].at \in Nat /\ calls[c].at <= now
         /\ calls[c].pc = "remove" => calls[c].attachments \in SUBSET Attachments
<1>1. calls[c] \in CallType /\ Sound(calls[c]) /\ now \in Nat
  BY DEF IInv, TypeOK, CallsSound
<1> QED
  BY <1>1 DEF CallType, Sound

\* A call goes on or ends, and nothing is validated or accepted.
LEMMA CallStep ==
  ASSUME IInv, UNCHANGED <<now, routing, grant, envelope, tokens>>,
         NEW c \in Callers, NEW call \in CallType, Become(c, call), Sound(call) \/ Sound(call)',
         nonces' \subseteq Ids, NoncesKept,
         message' \in [Ids -> MessageRows \cup {None}], NoArrival,
         attachment' \in [Attachments -> AttachmentRows \cup {None}],
         objects' \subseteq Attachments, AttachmentsKept, RowsSound'
  PROVE  IInv'
<1>1. Later /\ EnvelopesKept
  BY DEF Later, EnvelopesKept, IInv, TypeOK
<1>2. CallsSound' /\ calls' \in [Callers -> CallType]
  BY <1>1, CallChanges
<1>3. TypeOK'
  BY <1>2 DEF IInv, TypeOK, routing
<1>4. LiveOnOpenRoutes'
  BY <1>1, RoutesStay
<1> QED
  BY <1>1, <1>2, <1>3, <1>4, QuietStep

LEMMA SameFiles ==
  ASSUME IInv, UNCHANGED <<now, files>>
  PROVE  /\ attachment' \in [Attachments -> AttachmentRows \cup {None}]
         /\ objects' \subseteq Attachments /\ AttachmentsKept /\ RowsSound'
<1>1. Later
  BY DEF Later, IInv, TypeOK
<1> QED
  BY <1>1, FilesStay DEF files, IInv, TypeOK

LEMMA SameMessages ==
  ASSUME IInv, UNCHANGED <<message, tokens>>
  PROVE  message' \in [Ids -> MessageRows \cup {None}] /\ NoArrival
  BY DEF NoArrival, Live, Accepted, IInv, TypeOK

LEMMA SameNonces ==
  ASSUME IInv, UNCHANGED nonces
  PROVE  nonces' \subseteq Ids /\ NoncesKept
  BY DEF NoncesKept, IInv, TypeOK

\* A call ends without an effect.
LEMMA LeaveStep ==
  ASSUME IInv, NEW c \in Callers, Leave(c), UNCHANGED <<now, routing, grant, files, mail>>
  PROVE  IInv'
<1>1. UNCHANGED <<now, routing, grant, envelope, tokens, nonces, message>>
  BY DEF mail
<1>2. Become(c, Idle)
  BY DEF Leave
<1> QED
  BY <1>1, <1>2, IdleIsSound, SameFiles, SameMessages, SameNonces, CallStep

LEMMA ExpireMessagesStep ==
  ASSUME IInv, NEW c \in Callers, ExpireMessages(c)
  PROVE  IInv'
<1> DEFINE M == {m \in Ids : envelope[m] # None /\ envelope[m].expiresAt <= now}
<1>1. /\ ExpireLive(M) /\ Become(c, [pc |-> "forget", at |-> now])
      /\ UNCHANGED <<now, routing, grant, files, nonces, envelope, tokens>>
  BY DEF ExpireMessages
<1>2. message' \in [Ids -> MessageRows \cup {None}] /\ NoArrival
  <2> HIDE DEF M
  <2> QED
    BY <1>1, ExpireStep DEF NoArrival, Accepted, IInv
<1>3. PICK at \in Nat : at = now
  BY DEF IInv, TypeOK
<1>4. [pc |-> "forget", at |-> at] \in CallType /\ Sound([pc |-> "forget", at |-> at])
  BY <1>3 DEF CallType, Sound
<1> QED
  BY <1>1, <1>2, <1>3, <1>4, SameFiles, SameNonces, CallStep

LEMMA ForgetStep ==
  ASSUME IInv, NEW c \in Callers, ForgetNonces(c)
  PROVE  IInv'
<1>1. /\ calls[c].pc = "forget" /\ nonces' = Remembered(calls[c].at)
      /\ Become(c, [calls[c] EXCEPT !.pc = "purge"])
      /\ UNCHANGED <<now, routing, grant, files, envelope, message, tokens>>
  BY DEF ForgetNonces
<1>2. calls[c].at \in Nat /\ calls[c].at <= now
  BY <1>1, CallFields
<1>3. nonces' \subseteq Ids /\ NoncesKept
  BY <1>1, <1>2, NoncesRemembered DEF IInv
<1>4. PICK call \in CallType : call = [calls[c] EXCEPT !.pc = "purge"] /\ Sound(call)
  <2>1. [calls[c] EXCEPT !.pc = "purge"] \in CallType
    BY <1>1, <1>2, CallFields DEF CallType
  <2>2. Sound([calls[c] EXCEPT !.pc = "purge"])
    BY <1>1, <1>2, CallFields DEF CallType, Sound
  <2> QED
    BY <2>1, <2>2
<1> QED
  BY <1>1, <1>3, <1>4, SameFiles, SameMessages, CallStep

LEMMA PurgeStep ==
  ASSUME IInv, NEW c \in Callers, Purge(c)
  PROVE  IInv'
<1>1. /\ calls[c].pc = "purge"
      /\ message' = [m \in Ids |->
           IF Outdated(m, calls[c].at - Retention) THEN None ELSE message[m]]
      /\ Become(c, [calls[c] EXCEPT !.pc = "files"])
      /\ UNCHANGED <<now, routing, grant, files, nonces, envelope, tokens>>
  BY DEF Purge
<1>2. message' \in [Ids -> MessageRows \cup {None}]
  BY <1>1 DEF IInv, TypeOK
<1>3. \A m \in Ids : message'[m] # None => message'[m] = message[m]
  BY <1>1
<1>4. NoArrival
  BY <1>1, <1>3 DEF NoArrival, Live, Accepted
<1>5. PICK call \in CallType : call = [calls[c] EXCEPT !.pc = "files"] /\ Sound(call)
  <2>1. calls[c].at \in Nat /\ calls[c].at <= now
    BY <1>1, CallFields
  <2>2. [calls[c] EXCEPT !.pc = "files"] \in CallType
    BY <1>1, <2>1, CallFields DEF CallType
  <2>3. Sound([calls[c] EXCEPT !.pc = "files"])
    BY <1>1, <2>1, CallFields DEF CallType, Sound
  <2> QED
    BY <2>2, <2>3
<1> QED
  BY <1>1, <1>2, <1>4, <1>5, SameFiles, SameNonces, CallStep

LEMMA ExpireAttachmentsStep ==
  ASSUME IInv, NEW c \in Callers, ExpireAttachments(c)
  PROVE  IInv'
<1>1. PICK A \in SUBSET Attachments :
        /\ A = {a \in Attachments : /\ attachment[a] # None
                                    /\ attachment[a].status # "expired"
                                    /\ attachment[a].expiresAt <= calls[c].at}
        /\ attachment' = [a \in Attachments |->
             IF a \in A THEN [attachment[a] EXCEPT !.status = "expired"] ELSE attachment[a]]
        /\ Become(c, [pc |-> "remove", attachments |-> A])
  BY DEF ExpireAttachments
<1>2. calls[c].pc = "files" /\ UNCHANGED <<now, routing, grant, objects, mail>>
  BY DEF ExpireAttachments
<1>3. calls[c].at \in Nat /\ calls[c].at <= now /\ now \in Nat
  BY <1>2, CallFields
<1>4. \A a \in Attachments : attachment[a] # None => attachment[a] \in AttachmentRows
  BY DEF IInv, TypeOK
<1>5. \A a \in A : /\ attachment'[a] \in AttachmentRows /\ attachment'[a] # None
                   /\ attachment'[a].status = "expired"
                   /\ attachment'[a].expiresAt = attachment[a].expiresAt
                   /\ attachment[a].expiresAt <= now
  <2> SUFFICES ASSUME NEW a \in A
               PROVE  /\ attachment'[a] \in AttachmentRows /\ attachment'[a] # None
                      /\ attachment'[a].status = "expired"
                      /\ attachment'[a].expiresAt = attachment[a].expiresAt
                      /\ attachment[a].expiresAt <= now
    OBVIOUS
  <2>1. attachment[a] \in AttachmentRows /\ attachment[a].expiresAt <= calls[c].at
    BY <1>1, <1>4
  <2>2. attachment'[a] = [attachment[a] EXCEPT !.status = "expired"]
    BY <1>1
  <2>3. attachment'[a] \in AttachmentRows /\ attachment'[a].status = "expired"
        /\ attachment'[a].expiresAt = attachment[a].expiresAt /\ attachment[a].expiresAt \in Nat
    BY <2>1, <2>2 DEF AttachmentRows
  <2> QED
    BY <1>3, <2>1, <2>3, NoneAssumption
<1>6. \A a \in Attachments : a \notin A => attachment'[a] = attachment[a]
  BY <1>1
<1>7. attachment' \in [Attachments -> AttachmentRows \cup {None}]
  BY <1>1, <1>5, <1>6 DEF IInv, TypeOK
<1>8. AttachmentsKept
  BY <1>5, <1>6 DEF AttachmentsKept
<1>9. RowsSound'
  BY <1>2, <1>5, <1>6 DEF RowsSound, IInv
<1>10. [pc |-> "remove", attachments |-> A] \in CallType
       /\ Sound([pc |-> "remove", attachments |-> A])'
  BY <1>5 DEF CallType, Sound
<1>11. UNCHANGED <<message, tokens, nonces, envelope>> /\ objects' \subseteq Attachments
  BY <1>2 DEF mail, IInv, TypeOK
<1> QED
  BY <1>1, <1>2, <1>7, <1>8, <1>9, <1>10, <1>11, SameMessages, SameNonces, CallStep

LEMMA RemoveObjectsStep ==
  ASSUME IInv, NEW c \in Callers, RemoveObjects(c)
  PROVE  IInv'
<1>1. PICK A \in SUBSET calls[c].attachments : objects' = objects \ A
  BY DEF RemoveObjects
<1>2. /\ calls[c].pc = "remove" /\ Become(c, Idle)
      /\ UNCHANGED <<now, routing, grant, attachment, message, tokens, nonces, envelope>>
  BY DEF RemoveObjects, Leave, mail
<1>3. \A a \in A : attachment[a] # None /\ attachment[a].status = "expired"
  BY <1>1, <1>2, CallFields DEF Sound
<1>4. AttachmentsKept /\ RowsSound'
  BY <1>1, <1>2, <1>3 DEF AttachmentsKept, RowsSound, IInv
<1>5. /\ attachment' \in [Attachments -> AttachmentRows \cup {None}]
      /\ objects' \subseteq Attachments
  BY <1>1, <1>2 DEF IInv, TypeOK
<1> QED
  BY <1>2, <1>4, <1>5, IdleIsSound, SameMessages, SameNonces, CallStep

LEMMA TickStep ==
  ASSUME IInv, Tick
  PROVE  IInv'
<1>1. now' = now + 1 /\ UNCHANGED <<routing, grant, files, nonces, envelope, message, tokens, calls>>
  BY DEF Tick, mail
<1>2. TypeOK' /\ Later
  BY <1>1 DEF IInv, TypeOK, Later, routing, files
<1>3. EnvelopesKept /\ NoArrival /\ NoncesKept
  BY <1>1 DEF EnvelopesKept, NoArrival, NoncesKept, Live, Accepted
<1>4. AttachmentsKept /\ RowsSound'
  BY <1>1, <1>2, FilesStay
<1>5. LiveOnOpenRoutes' /\ CallsSound'
  BY <1>1, <1>2, <1>3, <1>4, RoutesStay, CallsSame
<1> QED
  BY <1>1, <1>2, <1>3, <1>4, <1>5, QuietStep

-----------------------------------------------------------------------------
(* Enqueuing.                                                                *)

LEMMA SendableEnvelope ==
  ASSUME TypeOK, NEW m \in Ids, NEW e \in Sendable(m)
  PROVE  e \in Envelopes /\ (envelope[m] # None => e = envelope[m])
<1>1. CASE envelope[m] # None
  BY <1>1 DEF Sendable, TypeOK
<1>2. CASE envelope[m] = None
  <2>1. PICK s \in Shapes, k \in Keys, t \in Ends :
          e = [kind |-> s.kind, sender |-> s.sender, recipient |-> s.recipient,
               attachment |-> s.attachment, grant |-> s.grant, inReplyTo |-> s.inReplyTo,
               key |-> k, expiresAt |-> t]
    BY <1>2 DEF Sendable
  <2>2. s \in Contents /\ t \in Nat
    BY RelayAssumption
  <2> QED
    BY <1>2, <2>1, <2>2 DEF Contents, Envelopes
<1> QED
  BY <1>1, <1>2

LEMMA ValidateStep ==
  ASSUME IInv, NEW c \in Callers, NEW m \in Ids, NEW e \in Sendable(m), Validate(c, m, e)
  PROVE  IInv'
<1>1. /\ AttachmentFits(e) /\ envelope' = [envelope EXCEPT ![m] = e]
      /\ Become(c, [pc |-> "enqueue", id |-> m, at |-> now])
      /\ UNCHANGED <<now, routing, grant, files, nonces, message, tokens>>
  BY DEF Validate
<1>2. e \in Envelopes /\ e # None /\ (envelope[m] # None => e = envelope[m])
  BY SendableEnvelope, NoneAssumption DEF IInv
<1>3. /\ envelope' \in [Ids -> Envelopes \cup {None}] /\ envelope'[m] = e
      /\ \A x \in Ids : x # m => envelope'[x] = envelope[x]
  BY <1>1, <1>2 DEF IInv, TypeOK
<1>4. EnvelopesKept
  BY <1>2, <1>3 DEF EnvelopesKept
<1>5. Later
  BY <1>1 DEF Later, IInv, TypeOK
<1>6. NoArrival /\ NoncesKept
  BY <1>1, SameMessages, SameNonces
<1>7. AttachmentsKept /\ RowsSound'
  BY <1>1, <1>5, FilesStay
<1>8. CallsSound' /\ calls' \in [Callers -> CallType]
  <2>1. PICK call \in CallType : call = [pc |-> "enqueue", id |-> m, at |-> now] /\ Sound(call)'
    <3>1. PICK at \in Nat : at = now
      BY DEF IInv, TypeOK
    <3>2. [pc |-> "enqueue", id |-> m, at |-> at] \in CallType
      BY DEF CallType
    <3>3. Sound([pc |-> "enqueue", id |-> m, at |-> at])'
      BY <1>1, <1>2, <1>3, <3>1 DEF Sound
    <3> QED
      BY <3>1, <3>2, <3>3
  <2> QED
    BY <1>1, <1>4, <1>5, <1>7, <2>1, CallChanges
<1>9. TypeOK'
  BY <1>1, <1>3, <1>8 DEF IInv, TypeOK, routing, files
<1>10. EnvelopesCovered'
  <2> SUFFICES ASSUME NEW x \in Ids, (envelope[x] # None)'
               PROVE  Covered(envelope[x])'
    BY DEF EnvelopesCovered
  <2>1. CASE x = m
    <3>1. attachment' = attachment
      BY <1>1 DEF files
    <3>2. e.attachment # None =>
            /\ e.attachment \in Attachments /\ attachment[e.attachment] # None
            /\ attachment[e.attachment].status = "ready"
            /\ attachment[e.attachment].expiresAt >= e.expiresAt
      BY <1>1, <1>2 DEF AttachmentFits, LastsAsLong, Envelopes
    <3> QED
      BY <1>3, <2>1, <3>1, <3>2 DEF Covered
  <2>2. CASE x # m
    BY <1>3, <1>4, <1>7, <2>2, CoverStays
  <2> QED
    BY <2>1, <2>2
<1>11. LiveOnOpenRoutes' /\ InboxesBounded' /\ NoncesHold'
  BY <1>1, <1>4, <1>5, <1>6, <1>9, RoutesStay, InboxesStay, NoncesStay
<1> QED
  BY <1>7, <1>8, <1>9, <1>10, <1>11 DEF IInv

LEMMA LookStep ==
  ASSUME IInv, NEW c \in Callers, LookForDuplicate(c)
  PROVE  IInv'
<1>1. calls[c].pc = "enqueue" /\ UNCHANGED <<now, routing, grant, files, mail>>
  BY DEF LookForDuplicate
<1>2. CASE Leave(c)
  BY <1>1, <1>2, LeaveStep
<1>3. CASE Become(c, [calls[c] EXCEPT !.pc = "insert"])
  <2>1. UNCHANGED <<now, routing, grant, files, envelope, tokens, nonces, message>>
    BY <1>1 DEF mail
  <2>2. PICK call \in CallType : call = [calls[c] EXCEPT !.pc = "insert"] /\ Sound(call)
    <3>1. calls[c].id \in Ids /\ calls[c].at \in Nat /\ calls[c].at <= now
      BY <1>1, CallFields
    <3>2. [calls[c] EXCEPT !.pc = "insert"] \in CallType
      BY <1>1, <3>1, CallFields DEF CallType
    <3>3. Sound([calls[c] EXCEPT !.pc = "insert"])
      BY <1>1, <3>1, CallFields DEF CallType, Sound
    <3> QED
      BY <3>2, <3>3
  <2> QED
    BY <1>3, <2>1, <2>2, SameFiles, SameMessages, SameNonces, CallStep
<1> QED
  BY <1>2, <1>3 DEF LookForDuplicate

LEMMA SpentType ==
  ASSUME TypeOK, NEW e \in Envelopes, NEW at, Authorized(e, at)
  PROVE  Spent(e) \in [Grants -> GrantRows \cup {None}]
<1>1. CASE e.kind = "a2a.request" /\ e.grant \in Grants
  <2> DEFINE row == [grant[e.grant] EXCEPT !.used = @ + 1]
  <2>1. grant[e.grant] \in GrantRows /\ grant[e.grant].used < Uses
    BY <1>1 DEF Authorized, GrantUsable, TypeOK
  <2>2. grant[e.grant].used + 1 \in 0 .. Uses
    BY <2>1, RelayAssumption DEF GrantRows
  <2>3. row \in GrantRows
    BY <2>1, <2>2 DEF GrantRows
  <2>4. Spent(e) = [grant EXCEPT ![e.grant] = row]
    BY <1>1 DEF Spent
  <2> HIDE DEF row
  <2> QED
    BY <2>3, <2>4 DEF TypeOK
<1>2. CASE e.kind = "a2a.request" /\ e.grant \notin Grants
  BY <1>2 DEF Spent, TypeOK
<1>3. CASE e.kind # "a2a.request"
  BY <1>3 DEF Spent, TypeOK
<1> QED
  BY <1>1, <1>2, <1>3

\* One message more, for its recipient only.
LEMMA InboxGrows ==
  ASSUME IInv, NEW m \in Ids, UNCHANGED envelope, envelope[m] \in Envelopes,
         message' = [message EXCEPT ![m] = Pending],
         Cardinality(Inbox(envelope[m].recipient)) < MaxPending
  PROVE  InboxesBounded'
<1>1. \A x \in Ids : x # m => message'[x] = message[x]
  BY DEF IInv, TypeOK
<1> SUFFICES ASSUME NEW d \in Deployments
             PROVE  (IsFiniteSet(Inbox(d)) /\ Cardinality(Inbox(d)) <= MaxPending)'
  BY DEF InboxesBounded
<1>2. IsFiniteSet(Inbox(d)) /\ Cardinality(Inbox(d)) <= MaxPending
  BY DEF IInv, InboxesBounded
<1>3. CASE d = envelope[m].recipient
  <2>1. Inbox(d)' \in SUBSET (Inbox(d) \cup {m})
    BY <1>1 DEF Inbox, Live
  <2>2. /\ IsFiniteSet(Inbox(d) \cup {m}) /\ Cardinality(Inbox(d)) \in Nat
        /\ Cardinality(Inbox(d) \cup {m}) <= Cardinality(Inbox(d)) + 1
    <3>1. Cardinality(Inbox(d)) \in Nat
      BY <1>2, FS_CardinalityType
    <3>2. /\ IsFiniteSet(Inbox(d) \cup {m})
          /\ Cardinality(Inbox(d) \cup {m}) =
               IF m \in Inbox(d) THEN Cardinality(Inbox(d)) ELSE Cardinality(Inbox(d)) + 1
      BY <1>2, FS_AddElement
    <3> QED
      BY <3>1, <3>2
  <2>3. IsFiniteSet(Inbox(d)') /\ Cardinality(Inbox(d)') <= Cardinality(Inbox(d) \cup {m})
    BY <2>1, <2>2, FS_Subset
  <2>4. Cardinality(Inbox(d) \cup {m}) \in Nat /\ Cardinality(Inbox(d)') \in Nat
        /\ MaxPending \in Nat
    BY <2>2, <2>3, FS_CardinalityType, RelayAssumption
  <2> QED
    BY <1>3, <2>2, <2>3, <2>4
<1>4. CASE d # envelope[m].recipient
  <2>1. Inbox(d)' = Inbox(d)
    BY <1>1, <1>4 DEF Inbox, Live
  <2> QED
    BY <1>2, <2>1
<1> QED
  BY <1>3, <1>4

LEMMA InsertStep ==
  ASSUME IInv, NEW c \in Callers, Insert(c)
  PROVE  IInv'
<1>1. calls[c].pc = "insert" /\ calls[c].id \in Ids /\ envelope[calls[c].id] # None
  BY CallFields DEF Insert, Sound
<1>2. PICK m \in Ids : m = calls[c].id
  BY <1>1
<1>3. envelope[m] \in Envelopes
  BY <1>1, <1>2, EnvelopeFields DEF IInv
<1>4. /\ RouteOpen(envelope[m]) /\ Cardinality(Inbox(envelope[m].recipient)) < MaxPending
      /\ Authorized(envelope[m], calls[c].at)
  BY <1>2 DEF Insert, Acceptable
<1>5. /\ nonces' = nonces \cup {m} /\ grant' = Spent(envelope[m])
      /\ message' = [message EXCEPT ![m] = Pending] /\ Become(c, Idle)
      /\ UNCHANGED <<now, routing, files, envelope, tokens>>
  BY <1>2 DEF Insert, Leave
<1>6. Pending \in MessageRows
  BY DEF Pending, MessageRows
<1>7. /\ message' \in [Ids -> MessageRows \cup {None}]
      /\ \A x \in Ids : x # m => message'[x] = message[x]
  BY <1>5, <1>6 DEF IInv, TypeOK
<1>8. Later /\ EnvelopesKept
  BY <1>5 DEF Later, EnvelopesKept, IInv, TypeOK
<1>9. AttachmentsKept /\ RowsSound'
  BY <1>5, <1>8, FilesStay
<1>10. CallsSound' /\ calls' \in [Callers -> CallType]
  BY <1>5, <1>8, <1>9, IdleIsSound, CallChanges
<1>11. TypeOK'
  <2>1. grant' \in [Grants -> GrantRows \cup {None}]
    BY <1>3, <1>4, <1>5, SpentType DEF IInv
  <2> QED
    BY <1>5, <1>7, <1>10, <2>1 DEF IInv, TypeOK, routing, files
<1>12. LiveOnOpenRoutes'
  <2> SUFFICES ASSUME NEW x \in Ids, Live(x)'
               PROVE  (/\ Open(envelope[x].sender, envelope[x].recipient)
                       /\ key[<<envelope[x].sender, envelope[x].key>>] = "active")'
    BY DEF LiveOnOpenRoutes
  <2>1. /\ Open(envelope[x].sender, envelope[x].recipient)
        /\ key[<<envelope[x].sender, envelope[x].key>>] = "active"
    <3>1. CASE x = m
      BY <1>4, <3>1 DEF RouteOpen, HasKey
    <3>2. CASE x # m
      BY <1>7, <3>2 DEF Live, IInv, LiveOnOpenRoutes
    <3> QED
      BY <3>1, <3>2
  <2> QED
    BY <1>5, <2>1 DEF Open, Active, IsBlocked, routing
<1>13. NoncesHold'
  BY <1>1, <1>2, <1>5, <1>7 DEF NoncesHold, Accepted, IInv
<1>14. InboxesBounded'
  BY <1>3, <1>4, <1>5, InboxGrows
<1>15. EnvelopesCovered'
  <2> SUFFICES ASSUME NEW x \in Ids, (envelope[x] # None)'
               PROVE  Covered(envelope[x])'
    BY DEF EnvelopesCovered
  <2> QED
    BY <1>5, <1>8, <1>9, CoverStays
<1> QED
  BY <1>9, <1>10, <1>11, <1>12, <1>13, <1>14, <1>15 DEF IInv

-----------------------------------------------------------------------------
(* Every step.                                                               *)

LEMMA NextPreserves ==
  ASSUME IInv, [Next]_vars
  PROVE  IInv'
<1>1. CASE UNCHANGED vars
  <2>1. UNCHANGED <<now, routing, grant, files, mail, calls>>
    BY <1>1 DEF vars
  <2>2. nonces' = nonces /\ UNCHANGED <<envelope, message, tokens>>
    BY <2>1 DEF mail
  <2>3. Later
    BY <2>1 DEF Later, IInv, TypeOK
  <2> QED
    BY <2>1, <2>2, <2>3, FilesStay, SameMessages, RequestStep DEF IInv, TypeOK, files
<1>2. CASE Tick
  BY <1>2, TickStep
<1>3. CASE Administration
  <2>1. ASSUME NEW q \in Quarrels, SetBlock(q[1], q[2]) \/ RemoveBlock(q[1], q[2])
        PROVE  IInv'
    BY <2>1, SetBlockStep, RemoveBlockStep
  <2> QED
    BY <1>3, <2>1, RegisterKeyStep, RevokeKeyStep, SetStatusStep DEF Administration
<1>4. CASE Preparation
  <2>1. ASSUME NEW s \in Shapes, s.grant # None, NEW t \in GrantEnds,
               CreateGrant(s.grant, s.recipient, s.sender, t)
        PROVE  IInv'
    <3>1. s.grant \in Grants /\ s.recipient \in Deployments /\ s.sender \in Deployments
      BY <2>1, RelayAssumption DEF Contents
    <3> QED
      BY <2>1, <3>1, GrantStep
  <2>2. ASSUME NEW s \in Shapes, s.attachment # None, NEW t \in FileEnds,
               CreateAttachment(s.attachment, s.sender, s.recipient, t)
        PROVE  IInv'
    <3>1. s.attachment \in Attachments /\ s.recipient \in Deployments /\ s.sender \in Deployments
      BY <2>2, RelayAssumption DEF Contents
    <3> QED
      BY <2>2, <3>1, CreateAttachmentStep
  <2> QED
    BY <1>4, <2>1, <2>2, GrantStep, PutObjectStep, CompleteStep DEF Preparation
<1>5. CASE Delivery
  BY <1>5, ClaimStep, AcknowledgeStep DEF Delivery
<1>6. ASSUME NEW c \in Callers,
             \/ \E m \in Ids : \E e \in Sendable(m) : Validate(c, m, e)
             \/ LookForDuplicate(c) \/ Insert(c) \/ Reject(c)
             \/ ExpireMessages(c) \/ ForgetNonces(c) \/ Purge(c)
             \/ ExpireAttachments(c) \/ RemoveObjects(c)
             \/ Fail(c)
      PROVE  IInv'
  <2>1. CASE Reject(c) \/ Fail(c)
    BY <2>1, LeaveStep DEF Reject, Fail
  <2> QED
    BY <1>6, <2>1, ValidateStep, LookStep, InsertStep, ExpireMessagesStep, ForgetStep, PurgeStep,
       ExpireAttachmentsStep, RemoveObjectsStep
<1> QED
  BY <1>1, <1>2, <1>3, <1>4, <1>5, <1>6 DEF Next

LEMMA OnlyInsertAccepts ==
  ASSUME IInv, [Next]_vars, NEW m \in Ids, message[m] = None, message'[m] # None
  PROVE  \E c \in Callers : Insert(c) /\ calls[c].id = m
<1>1. ~ Live(m)
  BY DEF Live
<1>2. ASSUME NEW M, ExpireLive(M)
      PROVE  FALSE
  BY <1>1, <1>2 DEF ExpireLive
<1>3. ~ UNCHANGED message
  OBVIOUS
<1>4. ~ UNCHANGED vars /\ ~ Tick
  BY <1>3 DEF vars, mail, Tick
<1>5. ~ Administration
  BY <1>2, <1>3 DEF Administration, RegisterKey, RevokeKey, SetDeploymentStatus, SetBlock,
                    RemoveBlock, mail
<1>6. ~ Preparation
  BY <1>3 DEF Preparation, CreateGrant, RevokeGrant, CreateAttachment, PutObject,
              CompleteAttachment, mail
<1>7. ~ Delivery
  <2>1. ASSUME NEW d \in Deployments, Claim(d)
        PROVE  FALSE
    <3>1. PICK M \in SUBSET {x \in Claimable(d) : tokens[x] < MaxClaims} :
            message' = [x \in Ids |-> IF x \in M THEN Claimed(x) ELSE message[x]]
      BY <2>1 DEF Claim
    <3>2. m \notin M
      BY <1>1 DEF Claimable, Inbox
    <3> QED
      BY <3>1, <3>2
  <2>2. ASSUME NEW d \in Deployments, NEW x \in Ids, NEW t, Acknowledge(d, x, t)
        PROVE  FALSE
    <3>1. x # m /\ \A y \in Ids : y # x => message'[y] = message[y]
      BY <2>2 DEF Acknowledge, IInv, TypeOK
    <3> QED
      BY <3>1
  <2> QED
    BY <2>1, <2>2 DEF Delivery
<1>8. ASSUME NEW c \in Callers,
             \/ \E x \in Ids : \E e \in Sendable(x) : Validate(c, x, e)
             \/ LookForDuplicate(c) \/ Reject(c)
             \/ ExpireMessages(c) \/ ForgetNonces(c) \/ Purge(c)
             \/ ExpireAttachments(c) \/ RemoveObjects(c)
             \/ Fail(c)
      PROVE  FALSE
  <2>1. ~ ExpireMessages(c)
    BY <1>2 DEF ExpireMessages
  <2>2. ~ Purge(c)
    BY DEF Purge
  <2> QED
    BY <1>3, <1>8, <2>1, <2>2 DEF Validate, LookForDuplicate, Reject, ForgetNonces,
       ExpireAttachments, RemoveObjects, Fail, mail
<1>9. PICK c \in Callers : Insert(c)
  BY <1>4, <1>5, <1>6, <1>7, <1>8 DEF Next
<1>10. calls[c].id = m
  BY <1>9 DEF Insert, IInv, TypeOK
<1> QED
  BY <1>9, <1>10

-----------------------------------------------------------------------------
(* The theorems.                                                             *)

\* Types, what calls remember, live messages on open routes only, a nonce for whatever
\* was accepted, bounded inboxes, and attachments that last
\* (FederationService, PostgresFederationStore).
THEOREM RelayInvariant == Spec => []IInv
<1>1. IInv /\ [Next]_vars => IInv'
  BY NextPreserves
<1> QED
  BY <1>1, InitEstablishes, PTL DEF Spec

\* No message is on its way over a route that was closed, whatever was validated before
\* (enqueueMessage, setBlock, setDeploymentStatus, revokeKey).
THEOREM RoutesOfLiveMessages == Spec => []LiveOnOpenRoutes
<1>1. IInv => LiveOnOpenRoutes
  BY DEF IInv
<1> QED
  BY <1>1, RelayInvariant, PTL

\* However many gateways enqueue at once, no inbox has more than it may (enqueueMessage).
THEOREM InboxCapacity == Spec => []WithinCapacity
<1>1. IInv => WithinCapacity
  BY DEF IInv, InboxesBounded, WithinCapacity, Inbox
<1> QED
  BY <1>1, RelayInvariant, PTL

\* A message that can be claimed has its attachment, though cleaning up and claiming go
\* on at the same time (enqueueMessage, expire, createAttachmentDownload).
THEOREM AttachmentsThere == Spec => []AttachmentsLast
<1>1. ASSUME IInv
      PROVE  AttachmentsLast
  <2> SUFFICES ASSUME NEW m \in Ids, Live(m), envelope[m].expiresAt > now,
                      envelope[m].attachment # None
               PROVE  Downloadable(envelope[m].attachment)
    BY DEF AttachmentsLast
  <2>1. envelope[m] # None /\ envelope[m].expiresAt \in Nat
        /\ envelope[m].attachment \in Attachments
    BY <1>1, LiveIsSigned, EnvelopeFields DEF IInv
  <2> DEFINE row == attachment[envelope[m].attachment]
  <2>2. row # None /\ row.status # "pending" /\ row.expiresAt >= envelope[m].expiresAt
    BY <1>1, <2>1 DEF IInv, EnvelopesCovered, Covered
  <2>3. row.status \in {"pending", "ready", "expired"} /\ row.expiresAt \in Nat /\ now \in Nat
    BY <1>1, <2>1, <2>2 DEF IInv, TypeOK, AttachmentRows
  <2>4. /\ row.status = "ready" => envelope[m].attachment \in objects
        /\ row.status = "expired" => row.expiresAt <= now
    BY <1>1, <2>1, <2>2 DEF IInv, RowsSound
  <2> QED
    BY <2>1, <2>2, <2>3, <2>4 DEF Downloadable
<1> QED
  BY <1>1, RelayInvariant, PTL

\* An envelope is accepted once while it is valid, though its message be purged and any
\* number of gateways be sent it again (enqueueMessage, expire).
THEOREM NoReplay == Spec => ReplaysRefused
<1>1. ASSUME IInv, [Next]_vars
      PROVE  [\A m \in Ids :
               message[m] = None /\ message'[m] # None /\ tokens[m] > 0 =>
                 envelope[m].expiresAt <= now]_vars
  <2> SUFFICES ASSUME NEW m \in Ids, message[m] = None, message'[m] # None, tokens[m] > 0
               PROVE  envelope[m].expiresAt <= now
    OBVIOUS
  <2>1. PICK c \in Callers : Insert(c) /\ calls[c].id = m
    BY <1>1, OnlyInsertAccepts
  <2>2. m \notin nonces
    BY <2>1 DEF Insert, Acceptable
  <2>3. m \in nonces \/ envelope[m].expiresAt <= now
    BY <1>1 DEF IInv, NoncesHold, Accepted
  <2> QED
    BY <2>2, <2>3
<1>2. IInv /\ [Next]_vars => [\A m \in Ids :
               message[m] = None /\ message'[m] # None /\ tokens[m] > 0 =>
                 envelope[m].expiresAt <= now]_vars
  BY <1>1
<1> QED
  BY <1>2, RelayInvariant, PTL DEF Spec, ReplaysRefused
=============================================================================
