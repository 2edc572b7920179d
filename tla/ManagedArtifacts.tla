-------------------------- MODULE ManagedArtifacts ---------------------------
(* The uploads of one release to the managed object store: a signed ticket   *)
(* and a presigned PUT for each, the completion that verifies the stored     *)
(* object and registers the artifact, the redirects to downloads, and the    *)
(* release leaving its draft meanwhile.  UpdateRollout has the gate and the  *)
(* later life of releases.                                                   *)
(*                                                                           *)
(* A PUT may be repeated, each time a new version of the object, as long as  *)
(* its ticket is open: the presigned URL expires with the ticket.  An object *)
(* that misses encryption or its lock, a bad attestation and a revoked key   *)
(* refuse a request without a change, as Fail does.                          *)
EXTENDS Naturals, Sequences, FiniteSetsExt

CONSTANTS
  Slots,        \* a kind and a platform: an artifact each
  Digests,
  Callers,      \* requests in flight at once
  MaxTickets,
  MaxPuts,
  None

VARIABLES
  draft,        \* the release has not been activated
  tickets,      \* Seq of the tickets issued
  puts,         \* Seq of the uploads to the bucket: the index is the version id
  row,          \* [Slots -> None or the artifact with its evidence]
  calls,        \* [Callers -> request]
  urls          \* the download URLs handed out

vars == <<draft, tickets, puts, row, calls, urls>>

Call(pc, about) == [pc |-> pc, about |-> about, version |-> 0]
Idle == [pc |-> "idle"]
Become(c, call) == calls' = [calls EXCEPT ![c] = call]
Leave(c) == Become(c, Idle)

Init ==
  /\ draft = TRUE
  /\ tickets = << >>
  /\ puts = << >>
  /\ row = [s \in Slots |-> None]
  /\ calls = [c \in Callers |-> Idle]
  /\ urls = {}

\* Slip: the object is named for its kind and platform alone.
NamedForSlot(slot, digest) == <<slot>>

\* objectKey, within the release.
ObjectKey(slot, digest) == <<slot, digest>>

\* inspect: HEAD answers for the latest version, 0 if there is none.
Current(key) == Max({0} \cup {v \in DOMAIN puts : puts[v].key = key})

\* assertManagedArtifact: what is stored is still the version that was verified.
Unchanged(a) == Current(ObjectKey(a.slot, a.digest)) = a.version

-----------------------------------------------------------------------------
\* createUpload
CreateUpload(slot, digest) ==
  /\ draft /\ Len(tickets) < MaxTickets
  /\ tickets' = Append(tickets, [slot |-> slot, digest |-> digest, open |-> TRUE])
  /\ UNCHANGED <<draft, puts, row, calls, urls>>

\* The checksum is a signed header of the PUT: the bytes are the ticket's.
Put(t) ==
  /\ tickets[t].open /\ Len(puts) < MaxPuts
  /\ puts' = Append(puts, [key |-> ObjectKey(tickets[t].slot, tickets[t].digest),
                           digest |-> tickets[t].digest])
  /\ UNCHANGED <<draft, tickets, row, calls, urls>>

Expire(t) ==
  /\ tickets[t].open
  /\ tickets' = [tickets EXCEPT ![t].open = FALSE]
  /\ UNCHANGED <<draft, puts, row, calls, urls>>

\* verifyUploadTicket: the clock is read, and then the release.
BeginComplete(c, t) ==
  /\ calls[c] = Idle
  /\ tickets[t].open
  /\ Become(c, Call("release", t))
  /\ UNCHANGED <<draft, tickets, puts, row, urls>>

CheckRelease(c) ==
  /\ calls[c].pc = "release"
  /\ IF draft THEN Become(c, [calls[c] EXCEPT !.pc = "look up"]) ELSE Leave(c)
  /\ UNCHANGED <<draft, tickets, puts, row, urls>>

\* completeUpload goes on if the slot is free; a repeated one is answered from
\* the artifact it registered, and any other is refused.
LookUp(c) ==
  /\ calls[c].pc = "look up"
  /\ IF row[tickets[calls[c].about].slot] = None
       THEN Become(c, [calls[c] EXCEPT !.pc = "inspect"])
       ELSE Leave(c)
  /\ UNCHANGED <<draft, tickets, puts, row, urls>>

\* assertStoredObject: of the ticket's checksum.
Inspect(c) ==
  LET t == tickets[calls[c].about]
      version == Current(ObjectKey(t.slot, t.digest)) IN
  /\ calls[c].pc = "inspect"
  /\ IF version # 0 /\ puts[version].digest = t.digest
       THEN Become(c, [calls[c] EXCEPT !.pc = "insert", !.version = version])
       ELSE Leave(c)
  /\ UNCHANGED <<draft, tickets, puts, row, urls>>

\* createManagedReleaseArtifact, with its evidence; UNIQUE (release_id, kind,
\* platform) refuses a second one.
Insert(c) ==
  LET t == tickets[calls[c].about] IN
  /\ calls[c].pc = "insert"
  /\ row' = IF row[t.slot] # None THEN row
            ELSE [row EXCEPT ![t.slot] =
              [slot |-> t.slot, digest |-> t.digest, version |-> calls[c].version,
               active |-> TRUE]]
  /\ Leave(c)
  /\ UNCHANGED <<draft, tickets, puts, urls>>

-----------------------------------------------------------------------------
\* resolveDownload: the artifact is read, then what is stored.
BeginDownload(c, slot) ==
  /\ calls[c] = Idle
  /\ row[slot] # None /\ row[slot].active
  /\ Become(c, Call("serve", slot))
  /\ UNCHANGED <<draft, tickets, puts, row, urls>>

\* createDownloadUrl: of the object, in whatever version it has when it is fetched.
Serve(c) ==
  LET a == row[calls[c].about] IN
  /\ calls[c].pc = "serve"
  /\ urls' = IF Unchanged(a)
               THEN urls \cup {[key |-> ObjectKey(a.slot, a.digest), artifact |-> a.digest]}
               ELSE urls
  /\ Leave(c)
  /\ UNCHANGED <<draft, tickets, puts, row>>

\* revokeReleaseArtifact
Revoke(slot) ==
  /\ row[slot] # None /\ row[slot].active
  /\ row' = [row EXCEPT ![slot].active = FALSE]
  /\ UNCHANGED <<draft, tickets, puts, calls, urls>>

\* assertReleaseReady: the active artifacts are as they were verified.
BeginActivate(c) ==
  LET active == {s \in Slots : row[s] # None /\ row[s].active} IN
  /\ calls[c] = Idle /\ draft
  /\ active # {} /\ \A s \in active : Unchanged(row[s])
  /\ Become(c, Call("activate", None))
  /\ UNCHANGED <<draft, tickets, puts, row, urls>>

Activate(c) ==
  /\ calls[c].pc = "activate"
  /\ draft' = FALSE
  /\ Leave(c)
  /\ UNCHANGED <<tickets, puts, row, urls>>

\* The instance stops, or the request is refused.
Fail(c) ==
  /\ calls[c] # Idle
  /\ Leave(c)
  /\ UNCHANGED <<draft, tickets, puts, row, urls>>

Next ==
  \/ \E slot \in Slots, digest \in Digests : CreateUpload(slot, digest)
  \/ \E t \in DOMAIN tickets : Put(t) \/ Expire(t)
  \/ \E slot \in Slots : Revoke(slot)
  \/ \E c \in Callers :
       \/ \E t \in DOMAIN tickets : BeginComplete(c, t)
       \/ CheckRelease(c) \/ LookUp(c) \/ Inspect(c) \/ Insert(c)
       \/ \E slot \in Slots : BeginDownload(c, slot)
       \/ Serve(c)
       \/ BeginActivate(c) \/ Activate(c)
       \/ Fail(c)

Spec == Init /\ [][Next]_vars

-----------------------------------------------------------------------------
\* Correctness.

\* A download URL names no version and outlives the check before it, and tickets
\* that are still open write to the bucket: the bytes fetched are nonetheless
\* those of the signed artifact, because an object only ever has versions of one
\* digest (objectKey and the signed checksum header).
BytesAreSigned ==
  \A u \in urls : puts[Current(u.key)].digest = u.artifact
=============================================================================
