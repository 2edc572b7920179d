--------------------------- MODULE FederationRelay ---------------------------
(* The relay between deployments of different customers: signed envelopes    *)
(* are enqueued for a deployment, which claims and acknowledges them.        *)
(* Several gateways share one database.  A call checks what it was sent      *)
(* before its transaction, which locks both deployments and checks again     *)
(* what may have changed.  The clock is read before what it is read for, and  *)
(* where other steps come between the two it is what was read that counts.   *)
(*                                                                           *)
(* Signatures are valid and requests are well formed: the others are refused *)
(* without a change.  An envelope is sent again unchanged.  Rate windows may *)
(* refuse any call and are left out, keys have no expiry, and one clock      *)
(* serves all gateways.                                                      *)
EXTENDS Integers, FiniteSets

CONSTANTS
  Deployments,
  Keys,          \* key ids, of each deployment
  Registered,    \* <<deployment, key>>: those registered long ago
  Ids,           \* message ids; an id stands for the nonce of its envelope, too
  Shapes,        \* what deployments send each other, under which id
  Statuses,      \* of deployments
  Quarrels,      \* <<blocker, blocked>>: the blocks administrators may set
  Grants,
  Uses,          \* how often a grant may be used
  Attachments,
  Callers,       \* calls in flight at once
  MaxTtl,        \* maximumEnvelopeTtlMs
  Ends,          \* times at which envelopes expire
  GrantEnds,     \* and grants
  FileEnds,      \* and attachments
  Retention,     \* deliveredRetentionMs
  ClaimTtl,
  MaxPending,    \* maxPendingMessages of every deployment
  MaxClaims,     \* how often a message is claimed
  MaxChanges,    \* how often administrators step in
  MaxTime,
  None

Kinds == {"chat.message", "chat.receipt", "a2a.request", "a2a.response"}

\* What an envelope must name is checked before anything else.
WellFormed(s) ==
  /\ s.sender # s.recipient /\ s.inReplyTo # s.id
  /\ s.kind = "a2a.request" => s.grant \in Grants
  /\ s.kind \in {"a2a.response", "chat.receipt"} => s.inReplyTo \in Ids

\* What a sender decides on.
Contents ==
  [id : Ids, kind : Kinds, sender : Deployments, recipient : Deployments,
   attachment : Attachments \cup {None}, grant : Grants \cup {None}, inReplyTo : Ids \cup {None}]

ASSUME RelayAssumption ==
  /\ Shapes \subseteq Contents
  /\ \A s \in Shapes : WellFormed(s)
  /\ {Uses, MaxTtl, ClaimTtl, MaxPending} \subseteq Nat \ {0}
  /\ {Retention, MaxClaims, MaxChanges, MaxTime} \subseteq Nat
  /\ \A q \in Quarrels : q \in Deployments \X Deployments /\ q[1] # q[2]
  /\ "active" \in Statuses /\ Statuses \subseteq {"active", "blocked", "disabled"}
  /\ Ends \cup GrantEnds \cup FileEnds \subseteq Nat
  /\ None \notin Ids \cup Grants \cup Attachments

VARIABLES
  now,
  status,       \* control_federation_deployments
  key,          \* control_federation_keys
  blocks,       \* control_federation_blocks: <<blocker, blocked>>
  changes,      \* how often administrators have stepped in
  grant,        \* control_federation_a2a_grants
  attachment,   \* control_federation_attachments
  objects,      \* attachments whose ciphertext is in the object store
  nonces,       \* control_federation_nonces, by message id
  envelope,     \* what was signed under a message id
  message,      \* control_federation_messages
  tokens,       \* how many claim tokens were made for a message, none like another
  calls         \* [Callers -> call]

routing == <<status, key, blocks, changes>>
mail == <<nonces, envelope, message, tokens>>
files == <<attachment, objects>>
vars == <<now, routing, grant, files, mail, calls>>

Idle == [pc |-> "idle"]
Become(c, call) == calls' = [calls EXCEPT ![c] = call]
Leave(c) == Become(c, Idle)

MessageRows ==
  [status : {"pending", "claimed", "delivered", "expired"}, until : Nat \cup {None},
   token : Nat \cup {None}, deliveredAt : Nat \cup {None}]

GrantRows ==
  [owner : Deployments, requester : Deployments, used : 0 .. Uses, revoked : BOOLEAN, expiresAt : Nat]

AttachmentRows ==
  [sender : Deployments, recipient : Deployments, status : {"pending", "ready", "expired"}, expiresAt : Nat]

\* What a sender signs.
Envelopes ==
  [kind : Kinds, sender : Deployments, recipient : Deployments, attachment : Attachments \cup {None},
   grant : Grants \cup {None}, inReplyTo : Ids \cup {None}, key : Keys, expiresAt : Nat]

ASSUME NoneAssumption == None \notin MessageRows \cup GrantRows \cup AttachmentRows \cup Envelopes

Init ==
  /\ now = 0
  /\ status = [d \in Deployments |-> "active"]
  /\ key = [dk \in Deployments \X Keys |-> IF dk \in Registered THEN "active" ELSE "none"]
  /\ blocks = {}
  /\ changes = 0
  /\ grant = [g \in Grants |-> None]
  /\ attachment = [a \in Attachments |-> None]
  /\ objects = {}
  /\ nonces = {}
  /\ envelope = [m \in Ids |-> None]
  /\ message = [m \in Ids |-> None]
  /\ tokens = [m \in Ids |-> 0]
  /\ calls = [c \in Callers |-> Idle]

-----------------------------------------------------------------------------
\* What administrators do.  A message that is on its way is live.
Live(m) == message[m] # None /\ message[m].status \in {"pending", "claimed"}

Expired(row) == [row EXCEPT !.status = "expired", !.until = None, !.token = None]

\* The messages of a set expire if they are live.
ExpireLive(M) ==
  message' = [m \in Ids |-> IF m \in M /\ Live(m) THEN Expired(message[m]) ELSE message[m]]

StepIn == changes < MaxChanges /\ changes' = changes + 1

\* A revoked key stays revoked.
Registrable(d, k) == key[<<d, k>>] = "none"

RegisterKey(d, k) ==
  /\ Registrable(d, k)
  /\ key' = [key EXCEPT ![<<d, k>>] = "active"]
  /\ UNCHANGED <<now, status, blocks, changes, grant, files, mail, calls>>

HasKey(d, k) == key[<<d, k>>] = "active"

SignedWith(d, k) == {m \in Ids : envelope[m] # None /\ envelope[m].sender = d /\ envelope[m].key = k}

RevokeKey(d, k) ==
  /\ StepIn
  /\ HasKey(d, k)
  /\ key' = [key EXCEPT ![<<d, k>>] = "revoked"]
  /\ ExpireLive(SignedWith(d, k))
  /\ UNCHANGED <<now, status, blocks, grant, files, nonces, envelope, tokens, calls>>

\* The live messages between two deployments, or all that one sends and gets.
Between(d, e) ==
  {m \in Ids : envelope[m] # None /\ {envelope[m].sender, envelope[m].recipient} = {d, e}}

OfDeployment(d) ==
  {m \in Ids : envelope[m] # None /\ d \in {envelope[m].sender, envelope[m].recipient}}

SetDeploymentStatus(d, s) ==
  /\ StepIn
  /\ status[d] # s
  /\ status' = [status EXCEPT ![d] = s]
  /\ IF s # "active" THEN ExpireLive(OfDeployment(d)) ELSE UNCHANGED message
  /\ UNCHANGED <<now, key, blocks, grant, files, nonces, envelope, tokens, calls>>

SetBlock(blocker, blocked) ==
  /\ StepIn
  /\ blocks' = blocks \cup {<<blocker, blocked>>}
  /\ ExpireLive(Between(blocker, blocked))
  /\ UNCHANGED <<now, status, key, grant, files, nonces, envelope, tokens, calls>>

RemoveBlock(blocker, blocked) ==
  /\ <<blocker, blocked>> \in blocks
  /\ blocks' = blocks \ {<<blocker, blocked>>}
  /\ UNCHANGED <<now, status, key, changes, grant, files, mail, calls>>

-----------------------------------------------------------------------------
\* Enqueuing.
IsBlocked(d, e) == {<<d, e>>, <<e, d>>} \cap blocks # {}

Active(d) == status[d] = "active"

Open(d, e) == Active(d) /\ Active(e) /\ ~ IsBlocked(d, e)

InTimeWindow(expiresAt) == expiresAt > now /\ expiresAt <= now + MaxTtl

\* Slip: an attachment has to last until the message is sent.
LastsUntilSent(a, expiresAt) == attachment[a].expiresAt > now

LastsAsLong(a, expiresAt) == attachment[a].expiresAt >= expiresAt

\* The attachment of an envelope is ready, for this route.
AttachmentFits(e) ==
  e.attachment # None =>
    LET row == attachment[e.attachment] IN
    /\ row # None
    /\ row.status = "ready"
    /\ row.sender = e.sender /\ row.recipient = e.recipient
    /\ LastsAsLong(e.attachment, e.expiresAt)

\* What a deployment may send as message m: what it has signed before under
\* that id, or something new.
Sendable(m) ==
  IF envelope[m] # None THEN {envelope[m]}
  ELSE {[kind |-> s.kind, sender |-> s.sender, recipient |-> s.recipient, attachment |-> s.attachment,
         grant |-> s.grant, inReplyTo |-> s.inReplyTo, key |-> k, expiresAt |-> t] :
          s \in {s \in Shapes : s.id = m}, k \in Keys, t \in {t \in Ends : InTimeWindow(t)}}

\* enqueue, the checks before the transaction.
Validate(c, m, e) ==
  /\ calls[c] = Idle
  /\ Open(e.sender, e.recipient)
  /\ e.expiresAt > now
  /\ AttachmentFits(e)
  /\ HasKey(e.sender, e.key)
  /\ envelope' = [envelope EXCEPT ![m] = e]
  /\ Become(c, [pc |-> "enqueue", id |-> m, at |-> now])
  /\ UNCHANGED <<now, routing, grant, files, nonces, message, tokens>>

\* A message with this id is looked for first, before any lock is taken: if there
\* is one the call answers that it is a duplicate.
LookForDuplicate(c) ==
  /\ calls[c].pc = "enqueue"
  /\ IF message[calls[c].id] # None THEN Leave(c)
     ELSE Become(c, [calls[c] EXCEPT !.pc = "insert"])
  /\ UNCHANGED <<now, routing, grant, files, mail>>

\* Slip: claimed messages have left the inbox.
PendingOf(d) == {m \in Ids : Live(m) /\ message[m].status = "pending" /\ envelope[m].recipient = d}

Inbox(d) == {m \in Ids : Live(m) /\ envelope[m].recipient = d}

\* The grant a request names is for it and not used up, at a time.
GrantUsable(e, at) ==
  LET row == grant[e.grant] IN
  /\ row # None
  /\ row.owner = e.recipient /\ row.requester = e.sender
  /\ ~ row.revoked
  /\ row.expiresAt > at
  /\ row.used < Uses

\* A reply goes back to where the message it names came from.
RepliesTo(e, kind) ==
  LET m == e.inReplyTo IN
  /\ message[m] # None
  /\ envelope[m].kind = kind
  /\ envelope[m].sender = e.recipient /\ envelope[m].recipient = e.sender

Authorized(e, at) ==
  /\ e.kind = "a2a.request" => GrantUsable(e, at)
  /\ e.kind = "a2a.response" => RepliesTo(e, "a2a.request")
  /\ e.kind = "chat.receipt" => RepliesTo(e, "chat.message")

\* Slip: the route was found open before.
RouteAsValidated(e) == HasKey(e.sender, e.key)

\* Under the locks of both deployments and of the key.
RouteOpen(e) == Open(e.sender, e.recipient) /\ HasKey(e.sender, e.key)

Acceptable(m, at) ==
  LET e == envelope[m] IN
  /\ RouteOpen(e)
  /\ Cardinality(Inbox(e.recipient)) < MaxPending
  /\ m \notin nonces
  /\ Authorized(e, at)
  /\ message[m] = None

Spent(e) ==
  IF e.kind = "a2a.request" THEN [grant EXCEPT ![e.grant].used = @ + 1] ELSE grant

Pending == [status |-> "pending", until |-> None, token |-> None, deliveredAt |-> None]

\* enqueueMessage, from the locks to the commit.
Insert(c) ==
  LET m == calls[c].id IN
  /\ calls[c].pc = "insert"
  /\ Acceptable(m, calls[c].at)
  /\ nonces' = nonces \cup {m}
  /\ grant' = Spent(envelope[m])
  /\ message' = [message EXCEPT ![m] = Pending]
  /\ Leave(c)
  /\ UNCHANGED <<now, routing, files, envelope, tokens>>

\* The transaction is rolled back: forbidden, over capacity or a conflict.
Reject(c) ==
  /\ calls[c].pc = "insert"
  /\ ~ Acceptable(calls[c].id, calls[c].at)
  /\ Leave(c)
  /\ UNCHANGED <<now, routing, grant, files, mail>>

-----------------------------------------------------------------------------
\* Slip: a nonce is kept as long as its message.
RememberedWithMessage(at) == {m \in nonces : message[m] # None}

\* Requests that are signed on their own: with the nonce of the request, which is
\* new, those that have expired are deleted.
Remembered(at) == {m \in nonces : envelope[m].expiresAt > at}

Signs(d) == Active(d) /\ \E k \in Keys : HasKey(d, k)

\* claim: some of the messages that are there to be claimed, rows that others
\* have locked being skipped and the batch being bounded.
Claimable(d) ==
  {m \in Inbox(d) : /\ envelope[m].expiresAt > now
                    /\ message[m].status = "claimed" => message[m].until <= now}

Claimed(m) == [message[m] EXCEPT !.status = "claimed", !.until = now + ClaimTtl, !.token = tokens[m] + 1]

Claim(d) ==
  /\ Signs(d)
  /\ \E M \in SUBSET {m \in Claimable(d) : tokens[m] < MaxClaims} :
       /\ M # {}
       /\ message' = [m \in Ids |-> IF m \in M THEN Claimed(m) ELSE message[m]]
       /\ tokens' = [m \in Ids |-> IF m \in M THEN tokens[m] + 1 ELSE tokens[m]]
  /\ nonces' = Remembered(now)
  /\ UNCHANGED <<now, routing, grant, files, envelope, calls>>

OfThisClaim(m, token) == message[m].until > now /\ message[m].token = token

\* acknowledge, with a token the deployment was given before.
Acknowledge(d, m, token) ==
  /\ Signs(d)
  /\ envelope[m].recipient = d
  /\ message[m] # None
  /\ message[m].status = "claimed"
  /\ OfThisClaim(m, token)
  /\ message' = [message EXCEPT ![m].status = "delivered", ![m].until = None, ![m].token = None,
                                ![m].deliveredAt = now]
  /\ nonces' = Remembered(now)
  /\ UNCHANGED <<now, routing, grant, files, envelope, tokens, calls>>

NewGrant(owner, requester, expiresAt) ==
  [owner |-> owner, requester |-> requester, used |-> 0, revoked |-> FALSE, expiresAt |-> expiresAt]

\* createA2aGrant, by the deployment that will be asked, for one that will ask.
\* What is checked here is checked again for every message, so that this and what
\* is done to attachments are one step each.
CreateGrant(g, owner, requester, expiresAt) ==
  /\ grant[g] = None
  /\ owner # requester /\ Open(owner, requester)
  /\ Signs(owner)
  /\ expiresAt > now
  /\ grant' = [grant EXCEPT ![g] = NewGrant(owner, requester, expiresAt)]
  /\ nonces' = Remembered(now)
  /\ UNCHANGED <<now, routing, files, envelope, message, tokens, calls>>

Revocable(d, g) == grant[g] # None /\ grant[g].owner = d /\ ~ grant[g].revoked

\* revokeA2aGrant
RevokeGrant(d, g) ==
  /\ Revocable(d, g)
  /\ Signs(d)
  /\ grant' = [grant EXCEPT ![g].revoked = TRUE]
  /\ nonces' = Remembered(now)
  /\ UNCHANGED <<now, routing, files, envelope, message, tokens, calls>>

-----------------------------------------------------------------------------
\* Attachments: a row, then the ciphertext in the object store, then the row is
\* marked ready when the object was found to be what the row says.
NewAttachment(sender, recipient, expiresAt) ==
  [sender |-> sender, recipient |-> recipient, status |-> "pending", expiresAt |-> expiresAt]

CreateAttachment(a, sender, recipient, expiresAt) ==
  /\ attachment[a] = None
  /\ sender # recipient /\ Open(sender, recipient)
  /\ Signs(sender)
  /\ InTimeWindow(expiresAt)
  /\ attachment' = [attachment EXCEPT ![a] = NewAttachment(sender, recipient, expiresAt)]
  /\ nonces' = Remembered(now)
  /\ UNCHANGED <<now, routing, grant, objects, envelope, message, tokens, calls>>

\* The address to upload to expires with the attachment, or earlier.
PutObject(a) ==
  /\ attachment[a] # None
  /\ attachment[a].expiresAt > now
  /\ objects' = objects \cup {a}
  /\ UNCHANGED <<now, routing, grant, attachment, mail, calls>>

Completable(a) == attachment[a].status = "pending" /\ attachment[a].expiresAt > now

CompleteAttachment(a) ==
  /\ attachment[a] # None
  /\ Signs(attachment[a].sender)
  /\ a \in objects
  /\ Completable(a)
  /\ attachment' = [attachment EXCEPT ![a].status = "ready"]
  /\ nonces' = Remembered(now)
  /\ UNCHANGED <<now, routing, grant, objects, envelope, message, tokens, calls>>

\* createAttachmentDownload grants an address, and the object is there.
Downloadable(a) ==
  /\ attachment[a] # None
  /\ attachment[a].status = "ready" /\ attachment[a].expiresAt > now
  /\ a \in objects

-----------------------------------------------------------------------------
\* expire, which each gateway runs from time to time: statements of their own, for
\* the time read at first.  Here only one of them at a time does.
ExpireMessages(c) ==
  /\ \A o \in Callers : calls[o].pc \notin {"forget", "purge", "files", "remove"}
  /\ calls[c] = Idle
  /\ ExpireLive({m \in Ids : envelope[m] # None /\ envelope[m].expiresAt <= now})
  /\ Become(c, [pc |-> "forget", at |-> now])
  /\ UNCHANGED <<now, routing, grant, files, nonces, envelope, tokens>>

ForgetNonces(c) ==
  /\ calls[c].pc = "forget"
  /\ nonces' = Remembered(calls[c].at)
  /\ Become(c, [calls[c] EXCEPT !.pc = "purge"])
  /\ UNCHANGED <<now, routing, grant, files, envelope, message, tokens>>

\* What was delivered, or expired, before the retention.
Outdated(m, before) ==
  /\ message[m] # None
  /\ \/ message[m].status = "delivered" /\ message[m].deliveredAt <= before
     \/ message[m].status = "expired" /\ envelope[m].expiresAt <= before

Purge(c) ==
  /\ calls[c].pc = "purge"
  /\ message' = [m \in Ids |-> IF Outdated(m, calls[c].at - Retention) THEN None ELSE message[m]]
  /\ Become(c, [calls[c] EXCEPT !.pc = "files"])
  /\ UNCHANGED <<now, routing, grant, files, nonces, envelope, tokens>>

ExpireAttachments(c) ==
  LET A == {a \in Attachments : /\ attachment[a] # None
                                /\ attachment[a].status # "expired"
                                /\ attachment[a].expiresAt <= calls[c].at} IN
  /\ calls[c].pc = "files"
  /\ attachment' = [a \in Attachments |->
       IF a \in A THEN [attachment[a] EXCEPT !.status = "expired"] ELSE attachment[a]]
  /\ Become(c, [pc |-> "remove", attachments |-> A])
  /\ UNCHANGED <<now, routing, grant, objects, mail>>

\* Objects are removed one by one, and some may fail to be.
RemoveObjects(c) ==
  /\ calls[c].pc = "remove"
  /\ \E A \in SUBSET calls[c].attachments : objects' = objects \ A
  /\ Leave(c)
  /\ UNCHANGED <<now, routing, grant, attachment, mail>>

-----------------------------------------------------------------------------
\* The gateway stops, or a query fails.
Fail(c) ==
  /\ calls[c] # Idle
  /\ Leave(c)
  /\ UNCHANGED <<now, routing, grant, files, mail>>

Tick ==
  /\ now < MaxTime
  /\ now' = now + 1
  /\ UNCHANGED <<routing, grant, files, mail, calls>>

Administration ==
  \/ \E d \in Deployments :
       \/ \E k \in Keys : RegisterKey(d, k) \/ RevokeKey(d, k)
       \/ \E s \in Statuses : SetDeploymentStatus(d, s)
  \/ \E q \in Quarrels : SetBlock(q[1], q[2]) \/ RemoveBlock(q[1], q[2])

\* Deployments prepare what they are going to send.
Preparation ==
  \/ \E s \in Shapes :
       \/ s.grant # None /\ \E t \in GrantEnds : CreateGrant(s.grant, s.recipient, s.sender, t)
       \/ s.attachment # None /\ \E t \in FileEnds : CreateAttachment(s.attachment, s.sender, s.recipient, t)
  \/ \E d \in Deployments, g \in Grants : RevokeGrant(d, g)
  \/ \E a \in Attachments : PutObject(a) \/ CompleteAttachment(a)

Delivery ==
  \E d \in Deployments :
    \/ Claim(d)
    \/ \E m \in Ids : \E t \in 1 .. tokens[m] : Acknowledge(d, m, t)

Next ==
  \/ Tick
  \/ Administration
  \/ Preparation
  \/ Delivery
  \/ \E c \in Callers :
       \/ \E m \in Ids : \E e \in Sendable(m) : Validate(c, m, e)
       \/ LookForDuplicate(c) \/ Insert(c) \/ Reject(c)
       \/ ExpireMessages(c) \/ ForgetNonces(c) \/ Purge(c)
       \/ ExpireAttachments(c) \/ RemoveObjects(c)
       \/ Fail(c)

Spec == Init /\ [][Next]_vars

-----------------------------------------------------------------------------
\* Correctness.

\* A block, a status or a revoked key takes hold of what is on its way and of what
\* was validated before: no message can be claimed between deployments that are
\* not both active, between which there is a block, or under a revoked key.
LiveOnOpenRoutes ==
  \A m \in Ids : Live(m) =>
    /\ Open(envelope[m].sender, envelope[m].recipient)
    /\ key[<<envelope[m].sender, envelope[m].key>>] = "active"

\* "Concurrent gateway instances cannot collectively exceed the deployment's
\* pending-message limit" (postgres-store.ts).
WithinCapacity ==
  \A d \in Deployments : Cardinality({m \in Ids : Live(m) /\ envelope[m].recipient = d}) <= MaxPending

\* Whoever claims a message finds its attachment, however long ago that was
\* validated: it is there as long as the message.
AttachmentsLast ==
  \A m \in Ids : Live(m) /\ envelope[m].expiresAt > now /\ envelope[m].attachment # None =>
    Downloadable(envelope[m].attachment)

\* An envelope that has been accepted is not accepted again as long as it is
\* valid, even after its message was delivered and purged and whatever gateways
\* enqueue it again at the same time.
ReplaysRefused ==
  [][\A m \in Ids :
       message[m] = None /\ message'[m] # None /\ tokens[m] > 0 => envelope[m].expiresAt <= now]_vars
=============================================================================
