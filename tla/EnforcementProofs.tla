--------------------------- MODULE EnforcementProofs --------------------------
(* Theorems about Enforcement: first about LicenseLifecycle, for all         *)
(* licenses, machines, deployments, calls and durations and any number of    *)
(* changes of a license, then about ExecutionReceipts, for all envelopes,    *)
(* keys and calls and whatever else happens to the account.                  *)
EXTENDS Enforcement, TLAPS

-----------------------------------------------------------------------------
(* The inductive invariant.                                                  *)

Change == [before : Terms, after : Terms, at : Nat]
Usage == [seats : Nat, start : Nat \cup {None}]
LeaseType ==
  [license : Licenses, revision : Nat, machine : Machines, version : Nat, expiresAt : Nat,
   delay : Nat]

ChangeKinds == {"renew", "resize", "transfer", "rebind"}
LeaseSteps == {"clock", "nonce", "lease"}

CallType ==
  [pc : {"idle"}] \cup [pc : {"create"}, license : Licenses, terms : Terms]
    \cup [pc : ChangeKinds \cup {"resized"}, license : Licenses, read : Rows, terms : Terms]
    \cup [pc : {"recount"}, license : Licenses, terms : Terms, seats : Nat]
    \cup [pc : {"revoke"}, license : Licenses, at : Nat]
    \cup [pc : LeaseSteps, license : Licenses, read : Rows, nonce : Nonces,
          seats : Reports \cup {None}, at : Nat, delay : Nat]

TypeOK ==
  /\ now \in Nat
  /\ machine \in [Deployments -> Machines]
  /\ license \in [Licenses -> Rows \cup {None}]
  /\ history \in [Licenses -> Seq(Change)]
  /\ usage \in [Licenses -> Usage \cup {None}]
  /\ lease \in LeaseType \cup {None}
  /\ revocations \subseteq [license : Licenses, revision : Nat, at : Nat]
  /\ calls \in [Callers -> CallType]

Existing(l) == license[l] # None

\* The terms of a license at a revision it has had.
TermsAt(l, r) == IF r <= Len(history[l]) THEN history[l][r].before ELSE license[l].terms
Revisions(l) == 1 .. Len(history[l]) + 1

\* Terms that may come after others: another machine has later credentials.
Follows(s, t) == s.version < t.version \/ (s.version = t.version /\ s.machine = t.machine)

\* A license and its changes: every one leads from the one before to the next, and
\* credentials never go back.
RowSound(l) ==
  /\ ~ Existing(l) => history[l] = <<>>
  /\ Existing(l) =>
       /\ license[l].revision = Len(history[l]) + 1
       /\ \A r \in Revisions(l) : Follows(TermsAt(l, r), license[l].terms)
       /\ \A n \in DOMAIN history[l] : \A r \in 1 .. n :
            Follows(TermsAt(l, r), history[l][n].after)

\* A call works from a revision the license has had.
Reads(call) ==
  /\ call.read.revision \in Revisions(call.license)
  /\ call.read.terms = TermsAt(call.license, call.read.revision)

\* A lease in the making is as old as its clock reading, and that is no later than
\* whatever happened to the license since it was read, but for the delay between the
\* two.
InTime(call) ==
  LET l == call.license IN
  /\ call.at <= now
  /\ \A n \in DOMAIN history[l] :
       call.read.revision <= n => call.at <= history[l][n].at + call.delay
  /\ \A r \in revocations :
       r.license = l /\ call.read.revokedAt = None /\ call.read.revision <= r.revision =>
         call.at <= r.at + call.delay

CallSound(call) ==
  /\ call.pc = "create" => ~ Existing(call.license)
  /\ call.pc \notin {"idle", "create"} => Existing(call.license)
  /\ call.pc \in ChangeKinds => Reads(call) /\ Follows(call.read.terms, call.terms)
  /\ call.pc \in LeaseSteps => Reads(call) /\ InTime(call)
  /\ call.pc = "clock" => call.delay = 0
  /\ call.pc \in {"nonce", "lease"} => call.read.revokedAt = None

CreatorsAlone ==
  \A c, d \in Callers :
    calls[c].pc = "create" /\ calls[d].pc # "idle" /\ calls[c].license = calls[d].license => c = d

\* A revision that has been revoked stays so until a change replaces it.
RevocationsSound ==
  \A r \in revocations :
    /\ Existing(r.license)
    /\ \/ r.revision < license[r.license].revision
       \/ /\ r.revision = license[r.license].revision
          /\ license[r.license].revokedAt # None

LeaseSound ==
  LET l == lease.license IN
  lease # None =>
    /\ Existing(l)
    /\ lease.revision \in Revisions(l)
    /\ lease.machine = TermsAt(l, lease.revision).machine
    /\ lease.version = TermsAt(l, lease.revision).version
    /\ lease.expiresAt <= now + LeaseDuration
    /\ \A n \in DOMAIN history[l] :
         lease.revision <= n => lease.expiresAt <= history[l][n].at + LeaseDuration + lease.delay

IInv ==
  /\ TypeOK
  /\ \A l \in Licenses : RowSound(l)
  /\ \A c \in Callers : CallSound(calls[c])
  /\ CreatorsAlone
  /\ RevocationsSound
  /\ LeaseSound
  /\ RevokedLeasesRunOut

-----------------------------------------------------------------------------
LEMMA InitEstablishes == Init => IInv
<1> SUFFICES ASSUME Init
             PROVE  IInv
  OBVIOUS
<1>1. TypeOK
  BY LicenseAssumption DEF Init, TypeOK, Idle, CallType
<1>2. \A l \in Licenses : RowSound(l)
  BY DEF Init, RowSound, Existing
<1>3. \A c \in Callers : calls[c].pc = "idle"
  BY DEF Init, Idle
<1> QED
  BY <1>1, <1>2, <1>3
  DEF IInv, Init, CallSound, CreatorsAlone, RevocationsSound, LeaseSound, RevokedLeasesRunOut,
      ChangeKinds, LeaseSteps

-----------------------------------------------------------------------------
(* The lease that is granted.                                                *)

LEMMA EarliestOfThree ==
  ASSUME NEW x \in Nat, NEW y \in Nat, NEW z \in Nat
  PROVE  Earliest({x, y, z}) \in Nat /\ Earliest({x, y, z}) <= x
<1>1. \E t \in {x, y, z} : \A u \in {x, y, z} : t <= u
  <2>1. CASE x <= y /\ x <= z
    BY <2>1
  <2>2. CASE y <= x /\ y <= z
    BY <2>2
  <2>3. CASE z <= x /\ z <= y
    BY <2>3
  <2> QED
    BY <2>1, <2>2, <2>3
<1>2. Earliest({x, y, z}) \in {x, y, z} /\ \A u \in {x, y, z} : Earliest({x, y, z}) <= u
  BY <1>1 DEF Earliest
<1> QED
  BY <1>2

\* Whatever graces apply, a lease ends within one duration of the call's reading of
\* the clock, and carries what the call has read of the license.
LEMMA LeaseOf ==
  ASSUME NEW call, call.license \in Licenses, call.read \in Rows, call.at \in Nat,
         call.delay \in Nat, NEW start \in Nat \cup {None}
  PROVE  /\ Lease(call, start) \in LeaseType
         /\ Lease(call, start).license = call.license
         /\ Lease(call, start).revision = call.read.revision
         /\ Lease(call, start).machine = call.read.terms.machine
         /\ Lease(call, start).version = call.read.terms.version
         /\ Lease(call, start).delay = call.delay
         /\ Lease(call, start).expiresAt <= call.at + LeaseDuration
<1> DEFINE terms == call.read.terms
           over == terms.expiresAt + Grace
           used == start + Grace
           deadlines == (IF call.at >= terms.expiresAt THEN {over} ELSE {})
                          \cup (IF start # None THEN {used} ELSE {})
           end == call.at + LeaseDuration
           times == {end} \cup IF deadlines = {} THEN {terms.expiresAt} ELSE deadlines
<1>1. /\ terms \in Terms /\ terms.expiresAt \in Nat /\ over \in Nat /\ end \in Nat
      /\ terms.machine \in Machines /\ terms.version \in Nat /\ call.read.revision \in Nat
  BY LicenseAssumption DEF Rows, Terms
<1>2. start # None => used \in Nat
  BY LicenseAssumption
<1>3. \E y, z \in Nat : times = {end, y, z}
  <2> HIDE DEF terms, over, used, end
  <2>1. CASE call.at >= terms.expiresAt /\ start # None
    <3>1. times = {end, over, used}
      BY <2>1
    <3> QED
      BY <1>1, <1>2, <2>1, <3>1
  <2>2. CASE call.at >= terms.expiresAt /\ start = None
    <3>1. times = {end, over, over}
      BY <2>2
    <3> QED
      BY <1>1, <3>1
  <2>3. CASE ~ (call.at >= terms.expiresAt) /\ start # None
    <3>1. times = {end, used, used}
      BY <2>3
    <3> QED
      BY <1>2, <2>3, <3>1
  <2>4. CASE ~ (call.at >= terms.expiresAt) /\ start = None
    <3>1. times = {end, terms.expiresAt, terms.expiresAt}
      BY <2>4
    <3> QED
      BY <1>1, <3>1
  <2> QED
    BY <2>1, <2>2, <2>3, <2>4
<1>4. Earliest(times) \in Nat /\ Earliest(times) <= end
  <2> HIDE DEF times, end
  <2> QED
    BY <1>1, <1>3, EarliestOfThree
<1>5. Lease(call, start) =
        [license |-> call.license, revision |-> call.read.revision, machine |-> terms.machine,
         version |-> terms.version, delay |-> call.delay, expiresAt |-> Earliest(times)]
  BY DEF Lease
<1> HIDE DEF times, end, terms
<1>6. /\ Lease(call, start) \in LeaseType
      /\ Lease(call, start).license = call.license
      /\ Lease(call, start).revision = call.read.revision
      /\ Lease(call, start).machine = terms.machine
      /\ Lease(call, start).version = terms.version
      /\ Lease(call, start).delay = call.delay
      /\ Lease(call, start).expiresAt = Earliest(times)
  BY <1>1, <1>4, <1>5 DEF LeaseType
<1> QED
  BY <1>4, <1>6 DEF terms, end

-----------------------------------------------------------------------------
(* Steps that leave the licenses alone.                                      *)

LEMMA IdleIsCall == Idle \in CallType /\ Idle.pc = "idle" /\ (IInv => CallSound(Idle))
  BY DEF Idle, CallType, CallSound, ChangeKinds, LeaseSteps

\* What a call holds, by the step it is at.
LEMMA CallHolds ==
  ASSUME TypeOK, NEW c \in Callers
  PROVE  /\ calls[c] \in CallType
         /\ calls[c].pc # "idle" => calls[c].license \in Licenses
         /\ calls[c].pc \in ChangeKinds \cup {"create", "resized", "recount"} =>
              calls[c].terms \in Terms
         /\ calls[c].pc \in ChangeKinds \cup LeaseSteps \cup {"resized"} => calls[c].read \in Rows
         /\ calls[c].pc = "recount" => calls[c].seats \in Nat
         /\ calls[c].pc = "revoke" => calls[c].at \in Nat
         /\ calls[c].pc \in LeaseSteps =>
              /\ calls[c].seats \in Reports \cup {None}
              /\ calls[c].at \in Nat /\ calls[c].delay \in Nat
<1>1. calls[c] \in CallType
  BY DEF TypeOK
<1> QED
  BY <1>1 DEF CallType, ChangeKinds, LeaseSteps

\* One call goes on to a sound state and nothing it could disturb changes.
LEMMA OneCallGoesOn ==
  ASSUME IInv, UNCHANGED <<now, license, history, revocations>>,
         NEW c \in Callers, NEW call \in CallType, Become(c, call), CallSound(call),
         call.pc = "create" => \A d \in Callers \ {c} :
           calls[d].pc # "idle" => calls[d].license # call.license
  PROVE  /\ calls' \in [Callers -> CallType]
         /\ \A l \in Licenses : RowSound(l)'
         /\ \A d \in Callers : CallSound(calls[d])'
         /\ CreatorsAlone' /\ RevocationsSound'
<1>1. calls' = [calls EXCEPT ![c] = call] /\ calls' \in [Callers -> CallType]
  BY DEF Become, IInv, TypeOK
<1>2. calls'[c] = call /\ \A d \in Callers \ {c} : calls'[d] = calls[d]
  BY <1>1 DEF IInv, TypeOK
<1>3. \A l \in Licenses : RowSound(l)'
  BY DEF IInv, RowSound, Existing, Revisions, TermsAt
<1>4. \A d \in Callers : CallSound(calls'[d])
  BY <1>2 DEF IInv
<1>5. \A d \in Callers : CallSound(calls[d])'
  BY <1>4 DEF CallSound, Existing, Reads, Revisions, TermsAt, InTime
<1>6. CreatorsAlone'
  <2> SUFFICES ASSUME NEW d \in Callers, NEW e \in Callers, calls'[d].pc = "create",
                      calls'[e].pc # "idle", calls'[d].license = calls'[e].license, d # e
               PROVE  FALSE
    BY DEF CreatorsAlone
  <2>1. CASE d = c
    BY <1>2, <2>1
  <2>2. CASE e = c
    <3>1. calls[d].pc = "create" /\ ~ Existing(calls[d].license) /\ calls[d].license = call.license
      BY <1>2, <2>2 DEF IInv, CallSound
    <3>2. call.pc = "create"
      BY <1>2, <2>2, <3>1 DEF CallSound
    <3> QED
      BY <1>2, <2>2, <3>1, <3>2
  <2>3. CASE d # c /\ e # c
    BY <1>2, <2>3 DEF IInv, CreatorsAlone
  <2> QED
    BY <2>1, <2>2, <2>3
<1>7. RevocationsSound'
  BY DEF IInv, RevocationsSound, Existing
<1> QED
  BY <1>1, <1>3, <1>5, <1>6, <1>7

LEMMA QuietStep ==
  ASSUME IInv, UNCHANGED <<now, license, history, lease, revocations>>,
         machine' \in [Deployments -> Machines], usage' \in [Licenses -> Usage \cup {None}],
         NEW c \in Callers, NEW call \in CallType, Become(c, call), CallSound(call),
         call.pc = "create" => \A d \in Callers \ {c} :
           calls[d].pc # "idle" => calls[d].license # call.license
  PROVE  IInv'
<1>1. /\ calls' \in [Callers -> CallType] /\ \A l \in Licenses : RowSound(l)'
      /\ \A d \in Callers : CallSound(calls[d])'
      /\ CreatorsAlone' /\ RevocationsSound'
  BY OneCallGoesOn
<1>2. TypeOK'
  BY <1>1 DEF IInv, TypeOK
<1>3. LeaseSound' /\ RevokedLeasesRunOut'
  BY DEF IInv, LeaseSound, RevokedLeasesRunOut, Existing, Revisions, TermsAt
<1> QED
  BY <1>1, <1>2, <1>3 DEF IInv

LEMMA HistoryType ==
  ASSUME TypeOK, NEW l \in Licenses
  PROVE  /\ Len(history[l]) \in Nat /\ DOMAIN history[l] = 1 .. Len(history[l])
         /\ \A n \in DOMAIN history[l] :
              /\ history[l][n] \in Change
              /\ history[l][n].at \in Nat
              /\ history[l][n].before \in Terms /\ history[l][n].after \in Terms
<1>1. history[l] \in Seq(Change)
  BY DEF TypeOK
<1>2. /\ Len(history[l]) \in Nat /\ DOMAIN history[l] = 1 .. Len(history[l])
      /\ \A n \in DOMAIN history[l] : history[l][n] \in Change
  BY <1>1
<1> QED
  BY <1>2 DEF Change

\* A lease is granted to a call that is as sound as its clock reading, and the call is
\* over.
LEMMA GrantStep ==
  ASSUME IInv, UNCHANGED <<now, license, history, revocations>>,
         machine' \in [Deployments -> Machines], usage' \in [Licenses -> Usage \cup {None}],
         NEW c \in Callers, Leave(c), calls[c].pc = "lease",
         NEW start \in Nat \cup {None}, Grant(c, start)
  PROVE  IInv'
<1> DEFINE call == calls[c]
           l == call.license
<1>1. /\ call.license \in Licenses /\ call.read \in Rows
      /\ call.at \in Nat /\ call.delay \in Nat
      /\ Existing(l) /\ Reads(call) /\ InTime(call) /\ call.read.revokedAt = None
  BY CallHolds DEF IInv, CallSound, LeaseSteps
<1>2. /\ lease' \in LeaseType
      /\ lease'.license = l
      /\ lease'.revision = call.read.revision
      /\ lease'.machine = call.read.terms.machine
      /\ lease'.version = call.read.terms.version
      /\ lease'.delay = call.delay
      /\ lease'.expiresAt <= call.at + LeaseDuration /\ lease'.expiresAt \in Nat
  <2>1. lease' = Lease(call, start)
    BY DEF Grant
  <2>2. lease' \in LeaseType
    BY <1>1, <2>1, LeaseOf
  <2>3. lease'.expiresAt \in Nat
    BY <2>2 DEF LeaseType
  <2> QED
    BY <1>1, <2>1, <2>2, <2>3, LeaseOf
<1>3. /\ calls' \in [Callers -> CallType] /\ \A m \in Licenses : RowSound(m)'
      /\ \A d \in Callers : CallSound(calls[d])'
      /\ CreatorsAlone' /\ RevocationsSound'
  BY IdleIsCall, OneCallGoesOn DEF Leave
<1>4. TypeOK'
  BY <1>2, <1>3 DEF IInv, TypeOK
<1>5. LeaseSound'
  <2>1. /\ license'[l] # None /\ lease'.revision \in 1 .. Len(history'[l]) + 1
        /\ lease'.machine = (TermsAt(l, lease'.revision)).machine
        /\ lease'.version = (TermsAt(l, lease'.revision)).version
    BY <1>1, <1>2 DEF Existing, Reads, Revisions
  <2>2. LeaseDuration \in Nat /\ call.at \in Nat /\ now \in Nat
    BY <1>1, LicenseAssumption DEF IInv, TypeOK
  <2>3. lease'.expiresAt <= now + LeaseDuration
    BY <1>1, <1>2, <2>2 DEF InTime
  <2>4. \A n \in DOMAIN history[l] :
          lease'.revision <= n => lease'.expiresAt <= history[l][n].at + LeaseDuration + lease'.delay
    <3>1. \A n \in DOMAIN history[l] : history[l][n].at \in Nat
      BY <1>1, HistoryType DEF IInv
    <3> QED
      BY <1>1, <1>2, <2>2, <3>1 DEF InTime
  <2> HIDE DEF l, call
  <2> QED
    BY <1>2, <2>1, <2>3, <2>4 DEF LeaseSound, Existing, Revisions, TermsAt
<1>6. RevokedLeasesRunOut'
  <2> SUFFICES ASSUME NEW r \in revocations, r.license = l, call.read.revision <= r.revision
               PROVE  lease'.expiresAt <= r.at + LeaseDuration + lease'.delay
    BY <1>2 DEF RevokedLeasesRunOut
  <2>1. r.at \in Nat /\ LeaseDuration \in Nat
    BY LicenseAssumption DEF IInv, TypeOK
  <2>2. call.at <= r.at + call.delay
    BY <1>1 DEF InTime
  <2> HIDE DEF l, call
  <2> QED
    BY <1>1, <1>2, <2>1, <2>2
<1> QED
  BY <1>3, <1>4, <1>5, <1>6 DEF IInv

\* A recount, or a report, of a license.
LEMMA RecountedType ==
  ASSUME TypeOK, NEW l \in Licenses, NEW seats \in Nat, NEW terms, NEW at \in Nat
  PROVE  /\ Recounted(l, seats, terms, at) \in Usage
         /\ Recounted(l, seats, terms, at).start \in Nat \cup {None}
         /\ [usage EXCEPT ![l] = Recounted(l, seats, terms, at)] \in [Licenses -> Usage \cup {None}]
  BY DEF Recounted, OverageStart, Usage, TypeOK

-----------------------------------------------------------------------------
(* One lemma per action.                                                     *)

LEMMA BeginIssueStep ==
  ASSUME IInv, NEW c \in Callers, NEW l \in Licenses, NEW d \in Deployments, NEW e \in Expiries,
         NEW s \in Limits, NEW b \in BOOLEAN, BeginIssue(c, l, d, e, s, b)
  PROVE  IInv'
<1> DEFINE terms == [deployment |-> d, machine |-> machine[d], version |-> 1, expiresAt |-> e,
                     seats |-> s, enforce |-> b]
           call == [pc |-> "create", license |-> l, terms |-> terms]
<1>1. terms \in Terms
  BY LicenseAssumption DEF IInv, TypeOK, Terms
<1>2. call \in CallType /\ call.pc = "create" /\ call.license = l
  <2> HIDE DEF terms
  <2> QED
    BY <1>1 DEF CallType
<1>3. Become(c, call) /\ ~ Existing(l) /\ UNCHANGED <<now, machine, license, history, usage, lease, revocations>>
  BY DEF BeginIssue, Existing
<1>4. \A o \in Callers \ {c} : calls[o].pc # "idle" => calls[o].license # l
  BY DEF BeginIssue, Idle
<1> HIDE DEF call
<1>5. CallSound(call)
  BY <1>2, <1>3 DEF CallSound, ChangeKinds, LeaseSteps
<1> QED
  BY <1>2, <1>3, <1>4, <1>5, QuietStep DEF IInv, TypeOK

\* The terms a change may ask for are terms, and follow those it changes.
LEMMA ChangesFollow ==
  ASSUME TypeOK, NEW kind \in ChangeKinds, NEW t \in Terms, NEW terms \in Changes(kind, t)
  PROVE  terms \in Terms /\ Follows(t, terms)
<1>1. CASE kind = "renew"
  <2>1. PICK e \in Expiries : terms = [t EXCEPT !.expiresAt = e]
    BY <1>1 DEF Changes, Renewals
  <2>2. e \in Nat
    BY LicenseAssumption
  <2> QED
    BY <2>1, <2>2 DEF Terms, Follows
<1>2. CASE kind = "resize"
  <2>1. terms \in Resizes(t)
    BY <1>2 DEF Changes
  <2>2. PICK s \in Limits, b \in BOOLEAN : terms = Resized(t, s, b)
    BY <2>1 DEF Resizes
  <2> DEFINE u == [t EXCEPT !.seats = s]
  <2>3. u \in Terms /\ u.version = t.version /\ u.machine = t.machine
    BY LicenseAssumption DEF Terms
  <2>4. terms = [u EXCEPT !.enforce = b]
    BY <2>2 DEF Resized
  <2> HIDE DEF u
  <2> QED
    BY <2>3, <2>4 DEF Terms, Follows
<1>3. CASE kind = "transfer"
  <2>1. PICK m \in Machines : terms = [t EXCEPT !.machine = m, !.version = @ + 1]
    BY <1>3 DEF Changes, Transfers
  <2> DEFINE u == [t EXCEPT !.machine = m]
  <2>2. u \in Terms /\ u.version = t.version /\ t.version \in Nat
    BY DEF Terms
  <2>3. terms = [u EXCEPT !.version = t.version + 1]
    BY <2>1
  <2> HIDE DEF u
  <2>4. terms.version = t.version + 1 /\ terms \in Terms
    BY <2>2, <2>3 DEF Terms
  <2> QED
    BY <2>2, <2>4 DEF Follows
<1>4. CASE kind = "rebind"
  <2>1. PICK d \in Deployments :
          terms = [t EXCEPT !.deployment = d, !.machine = machine[d], !.version = @ + 1]
    BY <1>4 DEF Changes, Rebinds, Targets
  <2>2. machine[d] \in Machines
    BY DEF TypeOK
  <2> DEFINE u == [t EXCEPT !.deployment = d]
             v == [u EXCEPT !.machine = machine[d]]
  <2>3. u \in Terms /\ u.version = t.version /\ t.version \in Nat
    BY DEF Terms
  <2> HIDE DEF u
  <2>4. v \in Terms /\ v.version = t.version
    BY <2>2, <2>3 DEF Terms
  <2>5. terms = [v EXCEPT !.version = t.version + 1]
    BY <2>1 DEF u
  <2> HIDE DEF v
  <2>6. terms.version = t.version + 1 /\ terms \in Terms
    BY <2>3, <2>4, <2>5 DEF Terms
  <2> QED
    BY <2>3, <2>6 DEF Follows
<1> QED
  BY <1>1, <1>2, <1>3, <1>4 DEF ChangeKinds

\* What is read of a license is its latest revision.
LEMMA ReadsLatest ==
  ASSUME IInv, NEW l \in Licenses, Existing(l)
  PROVE  /\ license[l] \in Rows /\ license[l].terms \in Terms
         /\ license[l].revision = Len(history[l]) + 1 /\ license[l].revision \in Revisions(l)
         /\ license[l].terms = TermsAt(l, license[l].revision)
<1>1. license[l] \in Rows /\ Len(history[l]) \in Nat
  BY HistoryType DEF IInv, TypeOK, Existing
<1>2. license[l].revision = Len(history[l]) + 1
  BY DEF IInv, RowSound
<1> QED
  BY <1>1, <1>2 DEF Rows, Revisions, TermsAt

LEMMA BeginChangeStep ==
  ASSUME IInv, NEW c \in Callers, NEW l \in Licenses, NEW kind \in ChangeKinds,
         BeginChange(c, l, kind)
  PROVE  IInv'
<1>1. PICK terms \in Changes(kind, license[l].terms) :
        Become(c, [pc |-> kind, license |-> l, read |-> license[l], terms |-> terms])
  BY DEF BeginChange
<1> DEFINE call == [pc |-> kind, license |-> l, read |-> license[l], terms |-> terms]
<1>2. Existing(l) /\ UNCHANGED <<now, machine, license, history, usage, lease, revocations>>
  BY DEF BeginChange, Existing
<1>3. terms \in Terms /\ Follows(license[l].terms, terms)
  BY <1>2, ReadsLatest, ChangesFollow DEF IInv
<1>4. call \in CallType /\ call.pc \in ChangeKinds
  BY <1>2, <1>3, ReadsLatest DEF CallType
<1>5. CallSound(call)
  BY <1>2, <1>3, ReadsLatest DEF CallSound, Reads, ChangeKinds, LeaseSteps
<1> QED
  BY <1>1, <1>2, <1>4, <1>5, QuietStep DEF IInv, TypeOK, ChangeKinds

LEMMA BeginLeaseStep ==
  ASSUME IInv, NEW c \in Callers, NEW l \in Licenses, NEW nonce \in Nonces,
         NEW seats \in Reports \cup {None}, BeginLease(c, l, nonce, seats)
  PROVE  IInv'
<1> DEFINE call == [pc |-> "clock", license |-> l, read |-> license[l],
                    nonce |-> nonce, seats |-> seats, at |-> now, delay |-> 0]
<1>1. /\ Existing(l) /\ Become(c, call)
      /\ UNCHANGED <<now, machine, license, history, usage, lease, revocations>>
  BY DEF BeginLease, Existing
<1>2. call \in CallType /\ call.pc = "clock"
  BY <1>1, ReadsLatest DEF CallType, LeaseSteps, IInv, TypeOK
<1>3. Reads(call)
  BY <1>1, ReadsLatest DEF Reads
<1>4. InTime(call)
  <2>1. \A n \in DOMAIN history[l] : ~ (license[l].revision <= n)
    BY <1>1, ReadsLatest, HistoryType DEF IInv
  <2>2. \A r \in revocations :
          ~ (r.license = l /\ license[l].revokedAt = None /\ license[l].revision <= r.revision)
    <3>1. license[l].revision \in Nat /\ \A r \in revocations : r.revision \in Nat
      BY <1>1, ReadsLatest DEF IInv, TypeOK, Rows
    <3> QED
      BY <3>1 DEF IInv, RevocationsSound
  <2> QED
    BY <1>1, <2>1, <2>2 DEF InTime, IInv, TypeOK
<1>5. CallSound(call)
  BY <1>1, <1>3, <1>4 DEF CallSound, ChangeKinds
<1> QED
  BY <1>1, <1>2, <1>5, QuietStep DEF IInv, TypeOK

LEMMA BeginRevokeStep ==
  ASSUME IInv, NEW c \in Callers, NEW l \in Licenses, BeginRevoke(c, l)
  PROVE  IInv'
<1> DEFINE call == [pc |-> "revoke", license |-> l, at |-> now]
<1>1. /\ Existing(l) /\ Become(c, call)
      /\ UNCHANGED <<now, machine, license, history, usage, lease, revocations>>
  BY DEF BeginRevoke, Existing
<1>2. call \in CallType /\ call.pc = "revoke"
  BY DEF CallType, IInv, TypeOK
<1>3. CallSound(call)
  BY <1>1 DEF CallSound, ChangeKinds, LeaseSteps
<1> QED
  BY <1>1, <1>2, <1>3, QuietStep DEF IInv, TypeOK

\* A call ends and nothing else is changed but seats and nonces.
LEMMA LeaveStep ==
  ASSUME IInv, NEW c \in Callers, Leave(c), UNCHANGED <<now, machine, license, history, lease, revocations>>,
         usage' \in [Licenses -> Usage \cup {None}]
  PROVE  IInv'
  BY IdleIsCall, QuietStep DEF Leave, IInv, TypeOK

LEMMA RevokeStep ==
  ASSUME IInv, NEW c \in Callers, Revoke(c)
  PROVE  IInv'
<1> DEFINE l == calls[c].license
           first == license[l].revokedAt = None
           row == [license[l] EXCEPT !.revokedAt = IF first THEN calls[c].at ELSE @]
           revocation == [license |-> l, revision |-> license[l].revision, at |-> now]
<1>1. /\ calls[c].pc = "revoke" /\ l \in Licenses /\ calls[c].at \in Nat
      /\ Existing(l) /\ license[l] \in Rows /\ now \in Nat
      /\ Leave(c) /\ UNCHANGED <<now, machine, history, usage, lease>>
  BY CallHolds, ReadsLatest
  DEF Revoke, Existing, IInv, TypeOK, CallSound, ChangeKinds, LeaseSteps
<1>2. /\ row \in Rows /\ row # None
      /\ row.terms = license[l].terms /\ row.revision = license[l].revision
      /\ row.revokedAt # None
  BY <1>1, NoneAssumption DEF Rows
<1>3. license' = [license EXCEPT ![l] = row]
  BY DEF Revoke
<1>4. /\ revocation \in [license : Licenses, revision : Nat, at : Nat]
      /\ revocation.license = l /\ revocation.revision = license[l].revision /\ revocation.at = now
  BY <1>1 DEF Rows
<1>5. \A r \in revocations' : r \in revocations \/ r = revocation
  BY DEF Revoke
<1> HIDE DEF row, l, revocation
<1>6. /\ license' \in [Licenses -> Rows \cup {None}]
      /\ license'[l] = row /\ \A m \in Licenses \ {l} : license'[m] = license[m]
  BY <1>1, <1>2, <1>3 DEF IInv, TypeOK
<1>7. /\ \A m \in Licenses : Existing(m)' <=> Existing(m)
      /\ \A m \in Licenses : Existing(m) => license'[m].revision = license[m].revision
      /\ \A m \in Licenses : \A r : Existing(m) => TermsAt(m, r)' = TermsAt(m, r)
      /\ \A m \in Licenses : Revisions(m)' = Revisions(m)
      /\ \A m \in Licenses : license[m].revokedAt # None => license'[m].revokedAt # None
  BY <1>1, <1>2, <1>6 DEF Existing, TermsAt, Revisions
<1>8. /\ calls' \in [Callers -> CallType]
      /\ calls'[c] = Idle /\ \A d \in Callers \ {c} : calls'[d] = calls[d]
  BY <1>1, IdleIsCall DEF Leave, Become, IInv, TypeOK
<1>9. TypeOK'
  BY <1>1, <1>4, <1>5, <1>6, <1>8 DEF IInv, TypeOK
<1>10. \A m \in Licenses : RowSound(m)'
  <2> SUFFICES ASSUME NEW m \in Licenses
               PROVE  RowSound(m)'
    OBVIOUS
  <2>1. CASE m = l
    BY <1>1, <1>2, <1>6, <2>1 DEF IInv, RowSound, Existing, TermsAt, Revisions
  <2>2. CASE m # l
    BY <1>1, <1>6, <2>2 DEF IInv, RowSound, Existing, TermsAt, Revisions
  <2> QED
    BY <2>1, <2>2
<1>11. \A d \in Callers : CallSound(calls[d])'
  <2> SUFFICES ASSUME NEW d \in Callers, d # c
               PROVE  CallSound(calls[d])'
    BY <1>8 DEF CallSound, Idle, ChangeKinds, LeaseSteps
  <2>1. CallSound(calls[d]) /\ calls'[d] = calls[d]
    BY <1>8 DEF IInv
  <2>2. calls[d].pc = "idle" \/ calls[d].license \in Licenses
    BY CallHolds DEF IInv
  <2>3. calls[d].pc \in ChangeKinds \cup LeaseSteps => Reads(calls[d])'
    BY <1>1, <1>7, <2>1, <2>2 DEF CallSound, Reads, ChangeKinds, LeaseSteps
  <2>4. calls[d].pc \in LeaseSteps => InTime(calls[d])'
    <3> SUFFICES ASSUME calls[d].pc \in LeaseSteps
                 PROVE  InTime(calls[d])'
      OBVIOUS
    <3>1. InTime(calls[d]) /\ calls[d].at \in Nat /\ calls[d].delay \in Nat
      BY <2>1, CallHolds DEF CallSound, IInv
    <3>2. calls[d].at <= now + calls[d].delay
      BY <1>1, <3>1 DEF InTime
    <3> QED
      BY <1>1, <1>4, <1>5, <2>1, <3>1, <3>2 DEF InTime
  <2> QED
    BY <1>7, <2>1, <2>2, <2>3, <2>4 DEF CallSound, ChangeKinds, LeaseSteps
<1>12. CreatorsAlone'
  BY <1>8 DEF IInv, CreatorsAlone, Idle
<1>13. RevocationsSound'
  <2> SUFFICES ASSUME NEW r \in revocations'
               PROVE  /\ Existing(r.license)'
                      /\ \/ r.revision < license'[r.license].revision
                         \/ /\ r.revision = license'[r.license].revision
                            /\ license'[r.license].revokedAt # None
    BY DEF RevocationsSound
  <2>1. CASE r = revocation
    BY <1>1, <1>2, <1>4, <1>6, <1>7, <2>1
  <2>2. CASE r \in revocations
    BY <1>7, <2>2 DEF IInv, TypeOK, RevocationsSound
  <2> QED
    BY <1>5, <2>1, <2>2
<1>14. LeaseSound' /\ RevokedLeasesRunOut'
  <2> SUFFICES ASSUME lease # None
               PROVE  LeaseSound' /\ RevokedLeasesRunOut'
    BY <1>1 DEF LeaseSound, RevokedLeasesRunOut
  <2>1. /\ LeaseSound /\ RevokedLeasesRunOut /\ lease' = lease
        /\ lease.license \in Licenses /\ lease.expiresAt \in Nat /\ lease.delay \in Nat
    BY <1>1 DEF IInv, TypeOK, LeaseType
  <2>2. LeaseSound'
    BY <1>1, <1>7, <2>1 DEF LeaseSound
  <2>3. lease.expiresAt <= now + LeaseDuration + lease.delay
    BY <1>1, <2>1, LicenseAssumption DEF LeaseSound
  <2>4. RevokedLeasesRunOut'
    BY <1>4, <1>5, <2>1, <2>3 DEF RevokedLeasesRunOut
  <2> QED
    BY <2>2, <2>4
<1> QED
  BY <1>9, <1>10, <1>11, <1>12, <1>13, <1>14 DEF IInv

LEMMA TickStep == IInv /\ Tick => IInv'
<1> SUFFICES ASSUME IInv, Tick
             PROVE  IInv'
  OBVIOUS
<1>1. /\ now \in Nat /\ now' = now + 1
      /\ UNCHANGED <<machine, license, history, usage, lease, revocations, calls>>
  BY DEF IInv, TypeOK, Tick
<1>2. TypeOK' /\ CreatorsAlone' /\ RevocationsSound'
  BY <1>1 DEF IInv, TypeOK, CreatorsAlone, RevocationsSound, Existing
<1>3. \A l \in Licenses : RowSound(l)'
  BY <1>1 DEF IInv, RowSound, Existing, TermsAt, Revisions
<1>4. \A c \in Callers : CallSound(calls[c])'
  <2> SUFFICES ASSUME NEW c \in Callers
               PROVE  CallSound(calls[c])'
    OBVIOUS
  <2>1. CallSound(calls[c]) /\ (calls[c].pc \in LeaseSteps => calls[c].at \in Nat)
    BY CallHolds DEF IInv
  <2> QED
    BY <1>1, <2>1 DEF CallSound, Existing, Reads, Revisions, TermsAt, InTime
<1>5. LeaseSound' /\ RevokedLeasesRunOut'
  <2>1. lease # None => lease.expiresAt \in Nat
    BY DEF IInv, TypeOK, LeaseType
  <2> QED
    BY <1>1, <2>1, LicenseAssumption
    DEF IInv, LeaseSound, RevokedLeasesRunOut, Existing, Revisions, TermsAt
<1> QED
  BY <1>2, <1>3, <1>4, <1>5 DEF IInv

LEMMA RowOf ==
  ASSUME NEW terms \in Terms, NEW r \in Nat
  PROVE  /\ Row(terms, r) \in Rows /\ Row(terms, r) # None
         /\ Row(terms, r).terms = terms /\ Row(terms, r).revision = r
         /\ Row(terms, r).revokedAt = None
<1>1. Row(terms, r) \in Rows
  BY DEF Row, Rows
<1> QED
  BY <1>1, NoneAssumption DEF Row

LEMMA CreateStep ==
  ASSUME IInv, NEW c \in Callers, Create(c)
  PROVE  IInv'
<1> DEFINE l == calls[c].license
           row == Row(calls[c].terms, 1)
<1>1. /\ calls[c].pc = "create" /\ l \in Licenses /\ calls[c].terms \in Terms /\ ~ Existing(l)
      /\ Leave(c) /\ UNCHANGED <<now, machine, history, usage, lease, revocations>>
  BY CallHolds DEF Create, IInv, CallSound
<1>2. row \in Rows /\ row # None /\ row.revision = 1 /\ row.revokedAt = None
  BY <1>1, RowOf
<1>3. license' = [license EXCEPT ![l] = row]
  BY DEF Create
<1> HIDE DEF row, l
<1>4. /\ license' \in [Licenses -> Rows \cup {None}]
      /\ license'[l] = row /\ \A m \in Licenses \ {l} : license'[m] = license[m]
  BY <1>1, <1>2, <1>3 DEF IInv, TypeOK
<1>5. history[l] = <<>>
  BY <1>1 DEF IInv, RowSound
<1>6. /\ calls' = [calls EXCEPT ![c] = Idle] /\ calls' \in [Callers -> CallType]
      /\ calls'[c] = Idle /\ \A d \in Callers \ {c} : calls'[d] = calls[d]
  BY <1>1, IdleIsCall DEF Leave, Become, IInv, TypeOK
<1>7. \A m \in Licenses : RowSound(m)'
  <2> SUFFICES ASSUME NEW m \in Licenses
               PROVE  RowSound(m)'
    OBVIOUS
  <2>1. CASE m = l
    <3>1. history'[m] = <<>> /\ license'[m] = row
      BY <1>1, <1>4, <1>5, <2>1
    <3>2. row.revision = Len(history'[m]) + 1 /\ DOMAIN history'[m] = {} /\ Len(history'[m]) = 0
      BY <1>2, <3>1
    <3>3. \A r \in 1 .. 1 : Follows(row.terms, row.terms)
      BY DEF Follows
    <3>4. \A r \in 1 .. 1 : TermsAt(m, r)' = row.terms
      BY <3>1, <3>2 DEF TermsAt
    <3> QED
      BY <1>2, <3>1, <3>2, <3>3, <3>4 DEF RowSound, Existing, Revisions
  <2>2. CASE m # l
    BY <1>1, <1>4, <2>2 DEF IInv, RowSound, Existing, TermsAt, Revisions
  <2> QED
    BY <2>1, <2>2
<1>8. \A d \in Callers : CallSound(calls[d])'
  <2> SUFFICES ASSUME NEW d \in Callers
               PROVE  CallSound(calls[d])'
    OBVIOUS
  <2>1. CASE d = c
    BY <1>6, <2>1 DEF CallSound, Idle, ChangeKinds, LeaseSteps
  <2>2. CASE d # c
    <3>1. calls'[d] = calls[d] /\ CallSound(calls[d])
      BY <1>6, <2>2 DEF IInv
    <3>2. calls[d].pc # "idle" => calls[d].license \in Licenses \ {l}
      BY <1>1, <2>2, CallHolds DEF IInv, CreatorsAlone, l
    <3> QED
      BY <1>1, <1>4, <3>1, <3>2
      DEF CallSound, Existing, Reads, Revisions, TermsAt, InTime, ChangeKinds, LeaseSteps
  <2> QED
    BY <2>1, <2>2
<1>9. CreatorsAlone'
  BY <1>6 DEF IInv, CreatorsAlone, Idle
<1>10. LeaseSound'
  <2> SUFFICES ASSUME lease # None
               PROVE  LeaseSound'
    BY <1>1 DEF LeaseSound
  <2>1. LeaseSound /\ lease' = lease /\ lease.license \in Licenses \ {l}
    BY <1>1 DEF IInv, TypeOK, LeaseType, LeaseSound
  <2> QED
    BY <1>1, <1>4, <2>1 DEF LeaseSound, Existing, Revisions, TermsAt
<1>11. RevocationsSound' /\ RevokedLeasesRunOut'
  <2>1. \A r \in revocations : r.license \in Licenses \ {l}
    BY <1>1 DEF IInv, TypeOK, RevocationsSound
  <2> QED
    BY <1>1, <1>4, <2>1 DEF IInv, RevocationsSound, RevokedLeasesRunOut, Existing
<1> QED
  BY <1>1, <1>4, <1>6, <1>7, <1>8, <1>9, <1>10, <1>11 DEF IInv, TypeOK

-----------------------------------------------------------------------------
(* The change that is stored.                                                *)

\* It comes after every change before it, and what it replaces is what it has read.
LEMMA StoredChange ==
  ASSUME IInv, NEW c \in Callers, Store(c),
         NEW l, l = calls[c].license, NEW terms, terms = calls[c].terms,
         NEW n, n = Len(history[l])
  PROVE  /\ l \in Licenses /\ terms \in Terms /\ n \in Nat /\ Existing(l)
         /\ Follows(license[l].terms, terms)
         /\ license' = [license EXCEPT ![l] = Row(terms, n + 2)]
         /\ history' = [history EXCEPT ![l] =
              Append(@, [before |-> license[l].terms, after |-> terms, at |-> now])]
<1>1. /\ calls[c].pc \in ChangeKinds /\ l \in Licenses /\ terms \in Terms /\ calls[c].read \in Rows
  BY CallHolds DEF Store, ChangeKinds, IInv
<1>2. Existing(l) /\ Reads(calls[c]) /\ Follows(calls[c].read.terms, terms)
  BY <1>1 DEF IInv, CallSound, ChangeKinds
<1>3. n \in Nat /\ license[l].revision = n + 1 /\ license[l].terms = TermsAt(l, n + 1)
  BY <1>1, <1>2, ReadsLatest, HistoryType DEF IInv
<1>4. calls[c].read.revision = n + 1
  BY <1>3 DEF Store, RevisionUnchanged
<1>5. calls[c].read.terms = license[l].terms
  BY <1>2, <1>3, <1>4 DEF Reads
<1> QED
  BY <1>1, <1>2, <1>3, <1>4, <1>5 DEF Store

\* The rows, the histories and the terms at each revision, once a license that had n
\* changes has been given new terms.
Stored(c, l, terms, n) ==
  /\ l = calls[c].license /\ terms = calls[c].terms /\ n = Len(history[l])
  /\ license' \in [Licenses -> Rows \cup {None}] /\ history' \in [Licenses -> Seq(Change)]
  /\ license'[l] = Row(terms, n + 2)
  /\ \A m \in Licenses \ {l} : license'[m] = license[m] /\ history'[m] = history[m]
  /\ Len(history'[l]) = n + 1
  /\ \A i \in 1 .. n : history'[l][i] = history[l][i]
  /\ history'[l][n + 1] = [before |-> license[l].terms, after |-> terms, at |-> now]
  /\ \A r \in 1 .. n + 1 : TermsAt(l, r)' = TermsAt(l, r)
  /\ TermsAt(l, n + 2)' = terms

LEMMA StoredRows ==
  ASSUME IInv, NEW c \in Callers, Store(c)
  PROVE  \E l \in Licenses, terms \in Terms, n \in Nat :
           Stored(c, l, terms, n) /\ Existing(l) /\ Follows(license[l].terms, terms)
<1>0. PICK l, terms, n : l = calls[c].license /\ terms = calls[c].terms /\ n = Len(history[l])
  OBVIOUS
<1> DEFINE change == [before |-> license[l].terms, after |-> terms, at |-> now]
<1>1. /\ l \in Licenses /\ terms \in Terms /\ n \in Nat /\ Existing(l)
      /\ Follows(license[l].terms, terms)
      /\ license' = [license EXCEPT ![l] = Row(terms, n + 2)]
      /\ history' = [history EXCEPT ![l] = Append(@, change)]
  BY <1>0, StoredChange
<1>2. /\ Row(terms, n + 2) \in Rows /\ Row(terms, n + 2).terms = terms
  BY <1>1, RowOf
<1>3. change \in Change
  BY <1>1, ReadsLatest DEF Change, IInv, TypeOK
<1>4. change.before = license[l].terms
  OBVIOUS
<1> HIDE DEF change
<1>5. history \in [Licenses -> Seq(Change)] /\ license \in [Licenses -> Rows \cup {None}]
  BY DEF IInv, TypeOK
<1>6. history[l] \in Seq(Change)
  BY <1>1, <1>5
<1>7. /\ Append(history[l], change) \in Seq(Change) /\ Len(Append(history[l], change)) = n + 1
      /\ \A i \in 1 .. n : Append(history[l], change)[i] = history[l][i]
      /\ Append(history[l], change)[n + 1] = change
  BY <1>0, <1>3, <1>6
<1>8. history'[l] = Append(history[l], change) /\ history' \in [Licenses -> Seq(Change)]
  BY <1>1, <1>5, <1>7
<1>9. /\ license' \in [Licenses -> Rows \cup {None}] /\ license'[l] = Row(terms, n + 2)
      /\ \A m \in Licenses \ {l} : license'[m] = license[m] /\ history'[m] = history[m]
  BY <1>1, <1>2, <1>5
<1>10. /\ Len(history'[l]) = n + 1 /\ \A i \in 1 .. n : history'[l][i] = history[l][i]
       /\ history'[l][n + 1] = change
  BY <1>7, <1>8
<1>11. \A r \in 1 .. n + 1 : TermsAt(l, r)' = TermsAt(l, r)
  <2> SUFFICES ASSUME NEW r \in 1 .. n + 1
               PROVE  TermsAt(l, r)' = TermsAt(l, r)
    OBVIOUS
  <2>1. CASE r <= n
    BY <1>1, <1>10, <2>1 DEF TermsAt
  <2>2. CASE r = n + 1
    BY <1>1, <1>4, <1>10, <2>2 DEF TermsAt
  <2> QED
    BY <1>1, <2>1, <2>2
<1>12. TermsAt(l, n + 2)' = terms
  BY <1>1, <1>2, <1>9, <1>10 DEF TermsAt
<1>13. Stored(c, l, terms, n)
  BY <1>0, <1>8, <1>9, <1>10, <1>11, <1>12 DEF Stored, change
<1> QED
  BY <1>1, <1>13

LEMMA FollowsTransitive ==
  ASSUME NEW s \in Terms, NEW t \in Terms, NEW u \in Terms, Follows(s, t), Follows(t, u)
  PROVE  Follows(s, u)
<1>1. s.version \in Nat /\ t.version \in Nat /\ u.version \in Nat
  BY DEF Terms
<1> QED
  BY <1>1 DEF Follows

LEMMA TermsAtType ==
  ASSUME IInv, NEW l \in Licenses, Existing(l), NEW r \in Revisions(l)
  PROVE  TermsAt(l, r) \in Terms
<1>1. license[l].terms \in Terms
  BY ReadsLatest
<1>2. r <= Len(history[l]) => history[l][r].before \in Terms
  BY HistoryType DEF Revisions, IInv
<1> QED
  BY <1>1, <1>2 DEF TermsAt

LEMMA StoredRowSound ==
  ASSUME IInv, NEW c \in Callers, Store(c), NEW m \in Licenses
  PROVE  RowSound(m)'
<1>0. PICK l \in Licenses, terms \in Terms, n \in Nat :
        Stored(c, l, terms, n) /\ Existing(l) /\ Follows(license[l].terms, terms)
  BY StoredRows
<1>1. /\ l \in Licenses /\ terms \in Terms /\ n \in Nat /\ Existing(l)
      /\ Follows(license[l].terms, terms)
  BY <1>0
<1>2. /\ license'[l] = Row(terms, n + 2)
      /\ \A o \in Licenses \ {l} : license'[o] = license[o] /\ history'[o] = history[o]
      /\ Len(history'[l]) = n + 1
      /\ \A i \in 1 .. n : history'[l][i] = history[l][i]
      /\ history'[l][n + 1].after = terms
      /\ \A r \in 1 .. n + 1 : TermsAt(l, r)' = TermsAt(l, r)
      /\ TermsAt(l, n + 2)' = terms
  BY <1>0 DEF Stored
<1>3. history' \in [Licenses -> Seq(Change)]
  BY <1>0 DEF Stored
<1>4. /\ Row(terms, n + 2) # None /\ Row(terms, n + 2).terms = terms
      /\ Row(terms, n + 2).revision = n + 2
  BY <1>1, RowOf
<1>5. n = Len(history[l])
  BY <1>0 DEF Stored
<1>6. CASE m = l
  <2>1. \A r \in 1 .. n + 1 : Follows(TermsAt(l, r), terms)
    <3> SUFFICES ASSUME NEW r \in 1 .. n + 1
                 PROVE  Follows(TermsAt(l, r), terms)
      OBVIOUS
    <3>1. r \in Revisions(l)
      BY <1>5 DEF Revisions
    <3>2. TermsAt(l, r) \in Terms /\ license[l].terms \in Terms
      BY <1>1, <3>1, TermsAtType, ReadsLatest
    <3>3. Follows(TermsAt(l, r), license[l].terms)
      BY <1>1, <3>1 DEF IInv, RowSound
    <3> QED
      BY <1>1, <3>2, <3>3, FollowsTransitive
  <2>2. \A r \in Revisions(l)' : Follows(TermsAt(l, r)', terms)
    <3>1. Follows(terms, terms)
      BY DEF Follows
    <3> SUFFICES ASSUME NEW r \in 1 .. n + 2
                 PROVE  Follows(TermsAt(l, r)', terms)
      BY <1>1, <1>2 DEF Revisions
    <3>2. CASE r = n + 2
      BY <1>2, <3>1, <3>2
    <3>3. CASE r # n + 2
      <4>1. r \in 1 .. n + 1
        BY <1>1, <3>3
      <4> QED
        BY <1>2, <2>1, <4>1
    <3> QED
      BY <3>2, <3>3
  <2>3. \A i \in 1 .. n + 1 : \A r \in 1 .. i : Follows(TermsAt(l, r)', history'[l][i].after)
    <3> SUFFICES ASSUME NEW i \in 1 .. n + 1, NEW r \in 1 .. i
                 PROVE  Follows(TermsAt(l, r)', history'[l][i].after)
      OBVIOUS
    <3>1. TermsAt(l, r)' = TermsAt(l, r) /\ r \in 1 .. n + 1
      BY <1>1, <1>2
    <3>2. CASE i = n + 1
      BY <1>2, <2>1, <3>1, <3>2
    <3>3. CASE i # n + 1
      <4>1. i \in 1 .. n /\ i \in DOMAIN history[l]
        BY <1>1, <1>5, <3>3, HistoryType DEF IInv
      <4> QED
        BY <1>1, <1>2, <3>1, <4>1 DEF IInv, RowSound
    <3> QED
      BY <3>2, <3>3
  <2>4. DOMAIN history'[l] = 1 .. n + 1
    <3>1. history'[l] \in Seq(Change)
      BY <1>1, <1>3
    <3> QED
      BY <1>2, <3>1
  <2> QED
    BY <1>1, <1>2, <1>4, <1>6, <2>2, <2>3, <2>4 DEF RowSound, Existing
<1>7. CASE m # l
  BY <1>2, <1>7 DEF IInv, RowSound, Existing, TermsAt, Revisions
<1> QED
  BY <1>6, <1>7

\* What has been read of the license, or was leased, is still what it was.
LEMMA StoredReads ==
  ASSUME IInv, NEW c \in Callers, Store(c), NEW m \in Licenses, Existing(m), NEW r \in Revisions(m)
  PROVE  /\ Existing(m)' /\ r \in Revisions(m)' /\ TermsAt(m, r)' = TermsAt(m, r)
         /\ \/ license'[m].revision = license[m].revision + 1
            \/ license'[m] = license[m]
         /\ \A i \in DOMAIN history'[m] :
              \/ i \in DOMAIN history[m] /\ history'[m][i] = history[m][i]
              \/ history'[m][i].at = now
<1>0. PICK l \in Licenses, terms \in Terms, n \in Nat :
        Stored(c, l, terms, n) /\ Existing(l) /\ Follows(license[l].terms, terms)
  BY StoredRows
<1>1. /\ l \in Licenses /\ terms \in Terms /\ n \in Nat
      /\ license'[l] = Row(terms, n + 2)
      /\ \A o \in Licenses \ {l} : license'[o] = license[o] /\ history'[o] = history[o]
      /\ Len(history'[l]) = n + 1
      /\ \A i \in 1 .. n : history'[l][i] = history[l][i]
      /\ history'[l][n + 1].at = now
      /\ \A i \in 1 .. n + 1 : TermsAt(l, i)' = TermsAt(l, i)
  BY <1>0 DEF Stored
<1>2. history' \in [Licenses -> Seq(Change)]
  BY <1>0 DEF Stored
<1>3. n = Len(history[l])
  BY <1>0 DEF Stored
<1>4. Row(terms, n + 2) # None /\ Row(terms, n + 2).revision = license[l].revision + 1
  BY <1>0, <1>1, <1>3, RowOf, ReadsLatest
<1>5. CASE m = l
  <2>1. history'[l] \in Seq(Change)
    BY <1>1, <1>2
  <2>2. DOMAIN history'[l] = 1 .. n + 1 /\ DOMAIN history[l] = 1 .. n
    BY <1>1, <1>3, <2>1, HistoryType DEF IInv
  <2>3. r \in 1 .. n + 1 /\ r \in Revisions(l)'
    BY <1>1, <1>3, <1>5 DEF Revisions
  <2>4. \A i \in 1 .. n + 1 : i \in 1 .. n \/ i = n + 1
    BY <1>1
  <2> QED
    BY <1>1, <1>4, <1>5, <2>2, <2>3, <2>4 DEF Existing
<1>6. CASE m # l
  BY <1>1, <1>6 DEF Existing, Revisions, TermsAt
<1> QED
  BY <1>5, <1>6

LEMMA StoreStep ==
  ASSUME IInv, NEW c \in Callers, Store(c)
  PROVE  IInv'
<1>0. PICK l \in Licenses, terms \in Terms, n \in Nat :
        Stored(c, l, terms, n) /\ Existing(l) /\ Follows(license[l].terms, terms)
  BY StoredRows
<1> DEFINE call == IF calls[c].pc = "resize" THEN [calls[c] EXCEPT !.pc = "resized"] ELSE Idle
<1>1. calls[c].pc \in ChangeKinds /\ Existing(calls[c].license) /\ calls[c] \in CallType
  BY CallHolds DEF Store, ChangeKinds, IInv, CallSound
<1>2. call \in CallType
  <2>1. CASE calls[c].pc = "resize"
    <3>1. /\ calls[c].license \in Licenses /\ calls[c].read \in Rows /\ calls[c].terms \in Terms
          /\ calls[c] = [pc |-> "resize", license |-> calls[c].license, read |-> calls[c].read,
                         terms |-> calls[c].terms]
      BY <1>1, <2>1 DEF CallType, ChangeKinds, LeaseSteps
    <3>2. call = [pc |-> "resized", license |-> calls[c].license, read |-> calls[c].read,
                  terms |-> calls[c].terms]
      BY <2>1, <3>1
    <3> HIDE DEF call
    <3> QED
      BY <3>1, <3>2 DEF CallType
  <2>2. CASE calls[c].pc # "resize"
    BY <2>2, IdleIsCall
  <2> QED
    BY <2>1, <2>2
<1>3. call.pc = "idle" \/ (call.pc = "resized" /\ call.license = calls[c].license)
  BY <1>1 DEF Idle, CallType, ChangeKinds
<1>4. Become(c, call)
  BY DEF Store, Leave
<1> HIDE DEF call
<1>5. /\ calls' \in [Callers -> CallType]
      /\ calls'[c] = call /\ \A d \in Callers \ {c} : calls'[d] = calls[d]
  BY <1>2, <1>4 DEF Become, IInv, TypeOK
<1>6. UNCHANGED <<now, lease, revocations>> /\ now \in Nat /\ lease \in LeaseType \cup {None}
  BY DEF Store, IInv, TypeOK
<1>7. machine' \in [Deployments -> Machines]
  <2>1. calls[c].terms \in Terms /\ machine \in [Deployments -> Machines]
    BY <1>1, CallHolds DEF IInv, TypeOK
  <2>2. calls[c].terms.machine \in Machines
    BY <2>1 DEF Terms
  <2> QED
    BY <2>1, <2>2 DEF Store, MoveMachine
<1>8. usage' \in [Licenses -> Usage \cup {None}]
  BY DEF Store, IInv, TypeOK
<1>9. TypeOK'
  BY <1>0, <1>5, <1>6, <1>7, <1>8 DEF IInv, TypeOK, Stored
<1>10. \A m \in Licenses : RowSound(m)'
  BY StoredRowSound
<1>11. \A d \in Callers : CallSound(calls[d])'
  <2> SUFFICES ASSUME NEW d \in Callers
               PROVE  CallSound(calls[d])'
    OBVIOUS
  <2>1. CASE d = c
    <3>1. license'[calls[c].license] # None
      <4>1. n + 2 \in Nat /\ license'[calls[c].license] = Row(terms, n + 2)
        BY <1>0 DEF Stored
      <4> QED
        BY <4>1, RowOf
    <3> QED
      BY <1>3, <1>5, <2>1, <3>1 DEF CallSound, Existing, ChangeKinds, LeaseSteps
  <2>2. CASE d # c
    <3>1. calls'[d] = calls[d] /\ CallSound(calls[d]) /\ calls[d] \in CallType
      BY <1>5, <2>2 DEF IInv, TypeOK
    <3>2. calls[d].pc = "create" => ~ Existing(calls[d].license)'
      <4> SUFFICES ASSUME calls[d].pc = "create"
                   PROVE  ~ Existing(calls[d].license)'
        OBVIOUS
      <4>1. calls[d].license \in Licenses /\ calls[d].license # calls[c].license
        BY <1>1, <3>1, CallHolds DEF CallSound, IInv
      <4>2. license'[calls[d].license] = license[calls[d].license]
        BY <1>0, <4>1 DEF Stored
      <4> QED
        BY <3>1, <4>2 DEF CallSound, Existing
    <3>3. calls[d].pc \notin {"idle", "create"} => Existing(calls[d].license)'
      BY <3>1, CallHolds, StoredReads, ReadsLatest DEF CallSound, IInv
    <3>4. calls[d].pc \in ChangeKinds \cup LeaseSteps => Reads(calls[d])'
      BY <3>1, CallHolds, StoredReads DEF CallSound, Reads, IInv, ChangeKinds, LeaseSteps
    <3>5. calls[d].pc \in LeaseSteps => InTime(calls[d])'
      <4> SUFFICES ASSUME calls[d].pc \in LeaseSteps
                   PROVE  InTime(calls[d])'
        OBVIOUS
      <4>1. /\ InTime(calls[d]) /\ Reads(calls[d]) /\ Existing(calls[d].license)
            /\ calls[d].license \in Licenses /\ calls[d].at \in Nat /\ calls[d].delay \in Nat
        BY <3>1, CallHolds DEF CallSound, IInv, LeaseSteps
      <4>2. \A i \in DOMAIN history'[calls[d].license] :
              \/ /\ i \in DOMAIN history[calls[d].license]
                 /\ history'[calls[d].license][i] = history[calls[d].license][i]
              \/ history'[calls[d].license][i].at = now
        BY <4>1, StoredReads DEF Reads
      <4>3. calls[d].at <= now + calls[d].delay
        BY <1>6, <4>1 DEF InTime
      <4> QED
        BY <1>6, <3>1, <4>1, <4>2, <4>3 DEF InTime
    <3> QED
      BY <3>1, <3>2, <3>3, <3>4, <3>5 DEF CallSound, ChangeKinds, LeaseSteps
  <2> QED
    BY <2>1, <2>2
<1>12. CreatorsAlone'
  BY <1>1, <1>3, <1>5 DEF IInv, CreatorsAlone, ChangeKinds
<1>13. RevocationsSound'
  <2> SUFFICES ASSUME NEW r \in revocations, NEW m, m = r.license
               PROVE  /\ Existing(m)'
                      /\ \/ r.revision < license'[m].revision
                         \/ /\ r.revision = license'[m].revision
                            /\ license'[m].revokedAt # None
    BY <1>6 DEF RevocationsSound
  <2>1. /\ m \in Licenses /\ r.revision \in Nat /\ Existing(m)
        /\ \/ r.revision < license[m].revision
           \/ r.revision = license[m].revision /\ license[m].revokedAt # None
    BY DEF IInv, TypeOK, RevocationsSound
  <2>2. license[m].revision \in Nat /\ license[m].revision \in Revisions(m)
    BY <2>1, ReadsLatest DEF Rows
  <2>3. /\ Existing(m)'
        /\ license'[m].revision = license[m].revision + 1 \/ license'[m] = license[m]
    BY <2>1, <2>2, StoredReads
  <2> QED
    BY <2>1, <2>2, <2>3
<1>14. LeaseSound'
  <2> SUFFICES ASSUME lease # None
               PROVE  LeaseSound'
    BY <1>6 DEF LeaseSound
  <2>1. /\ LeaseSound /\ lease' = lease /\ lease.license \in Licenses
        /\ lease.expiresAt \in Nat /\ lease.delay \in Nat
    BY <1>6 DEF IInv, LeaseType
  <2>2. Existing(lease.license) /\ lease.revision \in Revisions(lease.license)
    BY <2>1 DEF LeaseSound
  <2>3. /\ Existing(lease.license)' /\ lease.revision \in Revisions(lease.license)'
        /\ TermsAt(lease.license, lease.revision)' = TermsAt(lease.license, lease.revision)
        /\ \A i \in DOMAIN history'[lease.license] :
             \/ /\ i \in DOMAIN history[lease.license]
                /\ history'[lease.license][i] = history[lease.license][i]
             \/ history'[lease.license][i].at = now
    BY <2>1, <2>2, StoredReads
  <2>4. lease.expiresAt <= now + LeaseDuration + lease.delay
    BY <1>6, <2>1, LicenseAssumption DEF LeaseSound
  <2> QED
    BY <1>6, <2>1, <2>3, <2>4 DEF LeaseSound
<1>15. RevokedLeasesRunOut'
  BY <1>6 DEF IInv, RevokedLeasesRunOut
<1> QED
  BY <1>9, <1>10, <1>11, <1>12, <1>13, <1>14, <1>15 DEF IInv

-----------------------------------------------------------------------------
(* Every step.                                                               *)

\* What has happened since the license was read is no earlier than that, and the delay
\* makes up for the difference.
LEMMA ReadClockStep ==
  ASSUME IInv, NEW c \in Callers, ReadClock(c)
  PROVE  IInv'
<1>1. calls[c].pc = "clock" /\ UNCHANGED <<now, machine, license, history, usage, lease, revocations>>
  BY DEF ReadClock
<1>2. CASE Leave(c)
  BY <1>1, <1>2, LeaveStep DEF IInv, TypeOK
<1>3. CASE ~ Leave(c)
  <2> DEFINE call == [calls[c] EXCEPT !.pc = "nonce", !.at = now, !.delay = now - calls[c].at]
  <2>1. Become(c, call) /\ calls[c].read.revokedAt = None
    BY <1>3 DEF ReadClock, Usable
  <2>2. /\ calls[c] \in CallType /\ CallSound(calls[c])
        /\ calls[c].at \in Nat /\ calls[c].delay \in Nat /\ now \in Nat
    BY <1>1, CallHolds DEF IInv, TypeOK, LeaseSteps
  <2>3. Reads(calls[c]) /\ InTime(calls[c]) /\ Existing(calls[c].license)
    BY <1>1, <2>2 DEF CallSound, LeaseSteps
  <2>4. now - calls[c].at \in Nat
    BY <2>2, <2>3 DEF InTime
  <2>5. /\ call \in CallType /\ call.pc = "nonce" /\ call.license = calls[c].license
        /\ call.read = calls[c].read /\ call.at = now /\ call.delay = now - calls[c].at
    BY <1>1, <2>2, <2>4 DEF CallType, ChangeKinds, LeaseSteps
  <2> HIDE DEF call
  <2>6. InTime(call)
    <3>1. calls[c].delay = 0
      BY <1>1, <2>2 DEF CallSound
    <3>2. \A t \in Nat : calls[c].at <= t + calls[c].delay => now <= t + call.delay
      BY <2>2, <2>4, <2>5, <3>1
    <3>3. /\ \A n \in DOMAIN history[call.license] : history[call.license][n].at \in Nat
          /\ \A r \in revocations : r.at \in Nat
      BY <1>1, <2>5, CallHolds, HistoryType DEF IInv, TypeOK
    <3> QED
      BY <2>2, <2>3, <2>5, <3>2, <3>3 DEF InTime
  <2>7. CallSound(call)
    BY <2>1, <2>3, <2>5, <2>6 DEF CallSound, Reads, ChangeKinds
  <2> QED
    BY <1>1, <2>1, <2>5, <2>7, QuietStep DEF IInv, TypeOK
<1> QED
  BY <1>2, <1>3

LEMMA QuietActions ==
  ASSUME IInv, NEW c \in Callers,
         \/ Refuse(c) \/ RefuseTaken(c) \/ ReadSeats(c) \/ Recount(c)
         \/ ReadClock(c) \/ UseNonce(c) \/ Fail(c)
  PROVE  IInv'
<1>1. CASE Refuse(c) \/ RefuseTaken(c) \/ Fail(c)
  BY <1>1, LeaveStep DEF Refuse, RefuseTaken, Fail, IInv, TypeOK
<1>2. CASE ReadSeats(c)
  <2>1. UNCHANGED <<now, machine, license, history, usage, lease, revocations>> /\ calls[c].pc = "resized"
    BY <1>2 DEF ReadSeats
  <2>2. CASE Leave(c)
    BY <2>1, <2>2, LeaveStep DEF IInv, TypeOK
  <2>3. CASE ~ Leave(c)
    <3> DEFINE l == calls[c].license
               call == [pc |-> "recount", license |-> l, terms |-> calls[c].terms,
                        seats |-> usage[l].seats]
    <3>1. usage[l] # None /\ Become(c, call)
      BY <1>2, <2>3 DEF ReadSeats
    <3>2. l \in Licenses /\ calls[c].terms \in Terms /\ Existing(l)
      BY <2>1, CallHolds DEF IInv, CallSound
    <3>3. usage[l].seats \in Nat
      BY <3>1, <3>2 DEF IInv, TypeOK, Usage
    <3>4. call \in CallType /\ call.pc = "recount" /\ CallSound(call)
      BY <3>2, <3>3 DEF CallType, CallSound, ChangeKinds, LeaseSteps
    <3> HIDE DEF call, l
    <3> QED
      BY <2>1, <3>1, <3>4, QuietStep DEF IInv, TypeOK
  <2> QED
    BY <2>2, <2>3
<1>3. CASE Recount(c)
  <2>1. calls[c].license \in Licenses /\ calls[c].seats \in Nat /\ now \in Nat
    BY <1>3, CallHolds DEF Recount, IInv, TypeOK
  <2>2. usage' \in [Licenses -> Usage \cup {None}]
    BY <1>3, <2>1, RecountedType DEF Recount, IInv
  <2> QED
    BY <1>3, <2>2, LeaveStep DEF Recount
<1>4. CASE UseNonce(c)
  <2>1. UNCHANGED <<now, machine, license, history, usage, lease, revocations>> /\ calls[c].pc = "nonce"
    BY <1>4 DEF UseNonce
  <2>2. CASE Leave(c)
    BY <2>1, <2>2, LeaveStep DEF IInv, TypeOK
  <2>3. CASE ~ Leave(c)
    <3> DEFINE call == [calls[c] EXCEPT !.pc = "lease"]
    <3>1. Become(c, call)
      BY <1>4, <2>3 DEF UseNonce
    <3>2. calls[c] \in CallType /\ CallSound(calls[c])
      BY CallHolds DEF IInv
    <3>3. /\ call \in CallType /\ call.pc = "lease" /\ call.license = calls[c].license
          /\ call.read = calls[c].read /\ call.at = calls[c].at /\ call.delay = calls[c].delay
      BY <2>1, <3>2 DEF CallType, ChangeKinds, LeaseSteps
    <3> HIDE DEF call
    <3>4. CallSound(call)
      BY <2>1, <3>2, <3>3 DEF CallSound, Reads, InTime, ChangeKinds, LeaseSteps
    <3> QED
      BY <2>1, <3>1, <3>3, <3>4, QuietStep DEF IInv, TypeOK
  <2> QED
    BY <2>2, <2>3
<1>5. CASE ReadClock(c)
  BY <1>5, ReadClockStep
<1> QED
  BY <1>1, <1>2, <1>3, <1>4, <1>5

\* The two ends of a lease request.
LEMMA LeaseActions ==
  ASSUME IInv, NEW c \in Callers, Report(c) \/ Unreported(c)
  PROVE  IInv'
<1>1. /\ calls[c].pc = "lease" /\ calls[c].license \in Licenses /\ calls[c].at \in Nat
      /\ calls[c].seats \in Reports \cup {None}
      /\ Leave(c) /\ UNCHANGED <<now, machine, license, history, revocations>>
      /\ machine' \in [Deployments -> Machines]
  BY CallHolds DEF Report, Unreported, IInv, TypeOK, LeaseSteps
<1>2. CASE Report(c)
  <2> DEFINE row == Recounted(calls[c].license, calls[c].seats, calls[c].read.terms, calls[c].at)
  <2>1. calls[c].seats \in Nat
    BY <1>1, <1>2, LicenseAssumption DEF Report
  <2>2. row.start \in Nat \cup {None} /\ usage' \in [Licenses -> Usage \cup {None}]
    BY <1>1, <1>2, <2>1, RecountedType DEF Report, IInv
  <2>3. UNCHANGED lease \/ Grant(c, row.start)
    BY <1>2 DEF Report
  <2> HIDE DEF row
  <2>4. CASE UNCHANGED lease
    BY <1>1, <2>2, <2>4, LeaveStep
  <2>5. CASE Grant(c, row.start)
    BY <1>1, <2>2, <2>5, GrantStep
  <2> QED
    BY <2>3, <2>4, <2>5
<1>3. CASE Unreported(c)
  <2>1. usage' \in [Licenses -> Usage \cup {None}]
    BY <1>3 DEF Unreported, IInv, TypeOK
  <2>2. CASE UNCHANGED lease
    BY <1>1, <2>1, <2>2, LeaveStep
  <2>3. CASE Grant(c, None)
    BY <1>1, <2>1, <2>3, GrantStep
  <2> QED
    BY <1>3, <2>2, <2>3 DEF Unreported
<1> QED
  BY <1>2, <1>3

LEMMA StutterKeeps == IInv /\ UNCHANGED vars => IInv'
<1> SUFFICES ASSUME IInv, UNCHANGED vars
             PROVE  IInv'
  OBVIOUS
<1>1. UNCHANGED <<now, machine, license, history, usage, lease, revocations, calls>>
  BY DEF vars
<1>2. TypeOK' /\ CreatorsAlone' /\ RevocationsSound'
  BY <1>1 DEF IInv, TypeOK, CreatorsAlone, RevocationsSound, Existing
<1>3. \A l \in Licenses : RowSound(l)'
  BY <1>1 DEF IInv, RowSound, Existing, TermsAt, Revisions
<1>4. \A c \in Callers : CallSound(calls[c])'
  BY <1>1 DEF IInv, CallSound, Existing, Reads, Revisions, TermsAt, InTime
<1>5. LeaseSound' /\ RevokedLeasesRunOut'
  BY <1>1 DEF IInv, LeaseSound, RevokedLeasesRunOut, Existing, Revisions, TermsAt
<1> QED
  BY <1>2, <1>3, <1>4, <1>5 DEF IInv

LEMMA NextPreserves == IInv /\ [Next]_vars => IInv'
<1> SUFFICES ASSUME IInv, Next
             PROVE  IInv'
  BY StutterKeeps
<1>1. CASE Tick
  BY <1>1, TickStep
<1>2. ASSUME NEW c \in Callers, \/ Revoke(c)
                                \/ \E l \in Licenses : BeginRevoke(c, l)
      PROVE  IInv'
  BY <1>2, BeginRevokeStep, RevokeStep
<1>3. ASSUME NEW c \in Callers, NEW l \in Licenses, NEW d \in Deployments, NEW e \in Expiries,
             NEW s \in Limits, NEW b \in BOOLEAN, BeginIssue(c, l, d, e, s, b)
      PROVE  IInv'
  BY <1>3, BeginIssueStep
<1>4. ASSUME NEW c \in Callers, NEW l \in Licenses, NEW kind \in ChangeKinds, BeginChange(c, l, kind)
      PROVE  IInv'
  BY <1>4, BeginChangeStep
<1>5. ASSUME NEW c \in Callers, NEW l \in Licenses, NEW n \in Nonces,
             NEW seats \in Reports \cup {None}, BeginLease(c, l, n, seats)
      PROVE  IInv'
  BY <1>5, BeginLeaseStep
<1>6. ASSUME NEW c \in Callers, Create(c)
      PROVE  IInv'
  BY <1>6, CreateStep
<1>7. ASSUME NEW c \in Callers, Store(c)
      PROVE  IInv'
  BY <1>7, StoreStep
<1>8. ASSUME NEW c \in Callers,
             \/ Refuse(c) \/ RefuseTaken(c) \/ ReadSeats(c) \/ Recount(c)
             \/ ReadClock(c) \/ UseNonce(c) \/ Fail(c)
      PROVE  IInv'
  BY <1>8, QuietActions
<1>9. ASSUME NEW c \in Callers, Report(c) \/ Unreported(c)
      PROVE  IInv'
  BY <1>9, LeaseActions
<1> QED
  BY <1>1, <1>2, <1>3, <1>4, <1>5, <1>6, <1>7, <1>8, <1>9 DEF Next, ChangeKinds

-----------------------------------------------------------------------------
(* The theorems.                                                             *)

\* Rows, histories, calls in flight and leases stay consistent with each other.
THEOREM LicenseInvariant == Spec => []IInv
<1>1. Init => IInv
  BY InitEstablishes
<1>2. IInv /\ [Next]_vars => IInv'
  BY NextPreserves
<1> QED
  BY <1>1, <1>2, PTL DEF Spec

\* Transfers and rebinds (transferLicenseMachine, rebindLicenseDeployment): the machine a
\* license has left has credentials of an earlier version, and its leases run out within
\* one duration of the move and of the time their calls took from reading the license to
\* reading the clock, in whatever order leases and changes interleave.
THEOREM MovedMachinesRunOut == Spec => []PreviousMachineRunsOut
<1>1. IInv => PreviousMachineRunsOut
  <2> SUFFICES ASSUME IInv, lease # None, NEW n \in DOMAIN history[lease.license],
                      lease.revision <= n,
                      lease.machine # history[lease.license][n].after.machine
               PROVE  /\ lease.version < history[lease.license][n].after.version
                      /\ lease.expiresAt <=
                           history[lease.license][n].at + LeaseDuration + lease.delay
    BY DEF PreviousMachineRunsOut
  <2> DEFINE l == lease.license
             r == lease.revision
  <2>1. l \in Licenses /\ Existing(l) /\ r \in Revisions(l)
    BY DEF IInv, LeaseSound, TypeOK, LeaseType
  <2>2. r \in 1 .. n
    BY <2>1, HistoryType DEF IInv, Revisions
  <2>3. Follows(TermsAt(l, r), history[l][n].after)
    BY <2>1, <2>2 DEF IInv, RowSound
  <2>4. lease.machine = TermsAt(l, r).machine /\ lease.version = TermsAt(l, r).version
    BY DEF IInv, LeaseSound
  <2>5. lease.expiresAt <= history[l][n].at + LeaseDuration + lease.delay
    BY DEF IInv, LeaseSound
  <2> QED
    BY <2>3, <2>4, <2>5 DEF Follows
<1> QED
  BY <1>1, LicenseInvariant, PTL

\* "Revoking an online License prevents the next lease renewal" (README.md:1010;
\* revokeLicense, issueLease): leases of a revision that has been revoked, or of one
\* before, end within one duration of the revocation and of the same delay, though a
\* change stored later may undo it.
THEOREM RevocationEndsLeases == Spec => []RevokedLeasesRunOut
<1>1. IInv => RevokedLeasesRunOut
  BY DEF IInv
<1> QED
  BY <1>1, LicenseInvariant, PTL

-----------------------------------------------------------------------------
(* Sequences whose elements are of no particular set.                        *)

IsSequence(s) == \E S : s \in Seq(S)

LEMMA OneMore ==
  ASSUME NEW s, IsSequence(s), NEW e
  PROVE  /\ IsSequence(Append(s, e))
         /\ Len(s) \in Nat /\ Len(Append(s, e)) = Len(s) + 1
         /\ \A i \in 1 .. Len(s) : Append(s, e)[i] = s[i]
         /\ Append(s, e)[Len(s) + 1] = e
<1>1. PICK S : s \in Seq(S)
  BY DEF IsSequence
<1>2. s \in Seq(S \cup {e}) /\ e \in S \cup {e}
  BY <1>1
<1> HIDE <1>1
<1>3. Append(s, e) \in Seq(S \cup {e})
  BY <1>2
<1>4. IsSequence(Append(s, e))
  BY <1>3 DEF IsSequence
<1> QED
  BY <1>2, <1>4

-----------------------------------------------------------------------------
(* Receipts: the inductive invariant.                                        *)

ReceiptCall ==
  [pc : {"idle", "register", "bootstrap", "insert", "revoke", "price", "ingest", "audit"},
   about : SigningKeys \cup Envelopes \cup {None},
   found : {"none", "active", "revoked", "registered", "bootstrapped", "consumed"},
   amount : Nat]

StoredReceipt == [envelope : Envelopes, row : Nat]

ReceiptsTypeOK ==
  /\ IsSequence(ledger)
  /\ keys \in [SigningKeys -> {"none", "active", "revoked"}]
  /\ stored \in Seq(StoredReceipt)
  /\ receiptCalls \in [Callers -> ReceiptCall]
  /\ \A a \in receiptAudit : a = [event |-> a.event, of |-> a.of]

\* What a call is about.
AboutItsOwn ==
  \A c \in Callers :
    /\ receiptCalls[c].pc \in {"register", "bootstrap", "insert", "revoke"} =>
         receiptCalls[c].about \in SigningKeys
    /\ receiptCalls[c].pc \in {"price", "ingest"} => receiptCalls[c].about \in Envelopes

\* A call that has bootstrapped k has said so, or is about to.
Saying(c, k) ==
  receiptCalls[c].pc = "audit" /\ receiptCalls[c].found = "bootstrapped" /\ receiptCalls[c].about = k
Bootstrapped(k) ==
  \/ \E a \in receiptAudit : a.event = "bootstrapped" /\ a.of = k
  \/ \E c \in Callers : Saying(c, k)

\* Only who holds the lock inserts, and what was bootstrapped before is a key
\* that its reading of the keys would have found.
LockedInsert ==
  /\ \A c \in Callers : receiptCalls[c].pc = "insert" =>
       bootstrapLock = c /\ \A k : ~ Bootstrapped(k)
  /\ \A k : Bootstrapped(k) => k \in SigningKeys /\ keys[k] # "none"
  /\ \A j, k : Bootstrapped(j) /\ Bootstrapped(k) => j = k

ReceiptsInv == ReceiptsTypeOK /\ AboutItsOwn /\ LockedInsert /\ ReceiptsAreBilled

LEMMA ReceiptsInitInv == Billing!ReceiptsInit => ReceiptsInv
<1> SUFFICES ASSUME Billing!ReceiptsInit PROVE ReceiptsInv
  OBVIOUS
<1> USE DEF Billing!ReceiptsInit, Billing!Idle, Billing!Call
<1>1. IsSequence(ledger) /\ ledger = <<>>
  <2>1. ledger \in Seq({})
    BY DEF Billing!Init
  <2> QED
    BY <2>1 DEF IsSequence, Billing!Init
<1>2. ReceiptsTypeOK
  BY <1>1 DEF ReceiptsTypeOK, ReceiptCall
<1>3. AboutItsOwn
  BY DEF AboutItsOwn
<1>4. \A k : ~ Bootstrapped(k)
  BY DEF Bootstrapped, Saying
<1>5. LockedInsert
  BY <1>4 DEF LockedInsert
<1>6. ReceiptsAreBilled
  BY <1>1 DEF ReceiptsAreBilled, Billing!ReceiptsAreBilled, Billing!Rows
<1> QED
  BY <1>2, <1>3, <1>5, <1>6 DEF ReceiptsInv

-----------------------------------------------------------------------------
(* Receipts: the calls.                                                      *)

Owns(call) ==
  /\ call.pc \in {"register", "bootstrap", "insert", "revoke"} => call.about \in SigningKeys
  /\ call.pc \in {"price", "ingest"} => call.about \in Envelopes

\* A call goes on, and what has been written stays or grows as it should.
Moves(c, call) ==
  /\ receiptCalls' = [receiptCalls EXCEPT ![c] = call]
  /\ call \in ReceiptCall /\ Owns(call)

KeysGrow ==
  /\ keys' \in [SigningKeys -> {"none", "active", "revoked"}]
  /\ \A k \in SigningKeys : keys[k] # "none" => keys'[k] # "none"

Unlocks(c) ==
  \/ UNCHANGED bootstrapLock
  \/ bootstrapLock = c /\ bootstrapLock' = None

LEMMA CallOf ==
  ASSUME ReceiptsInv, NEW c \in Callers
  PROVE  receiptCalls[c] \in ReceiptCall /\ Owns(receiptCalls[c])
<1>1. receiptCalls[c] \in ReceiptCall
  BY DEF ReceiptsInv, ReceiptsTypeOK
<1>2. Owns(receiptCalls[c])
  BY DEF ReceiptsInv, AboutItsOwn, Owns
<1> QED
  BY <1>1, <1>2

LEMMA CallsAfter ==
  ASSUME ReceiptsInv, NEW c \in Callers, NEW call, Moves(c, call)
  PROVE  /\ receiptCalls' \in [Callers -> ReceiptCall]
         /\ receiptCalls'[c] = call
         /\ \A o \in Callers \ {c} : receiptCalls'[o] = receiptCalls[o]
         /\ AboutItsOwn'
<1>1. /\ receiptCalls' \in [Callers -> ReceiptCall]
      /\ receiptCalls'[c] = call
      /\ \A o \in Callers \ {c} : receiptCalls'[o] = receiptCalls[o]
  BY DEF Moves, ReceiptsInv, ReceiptsTypeOK
<1>2. ASSUME NEW o \in Callers PROVE Owns(receiptCalls'[o])
  <2>1. CASE o = c
    BY <1>1, <2>1 DEF Moves
  <2>2. CASE o # c
    BY <1>1, <2>2, CallOf
  <2> QED
    BY <2>1, <2>2
<1>3. AboutItsOwn'
  BY <1>2 DEF AboutItsOwn, Owns
<1> QED
  BY <1>1, <1>3

\* What a call says that neither inserts nor has bootstrapped.
LEMMA SaysNothingNew ==
  ASSUME ReceiptsInv, NEW c \in Callers, NEW call, Moves(c, call),
         UNCHANGED receiptAudit, ~ (call.pc = "audit" /\ call.found = "bootstrapped"),
         NEW k, Bootstrapped(k)'
  PROVE  Bootstrapped(k)
<1>1. CASE \E a \in receiptAudit' : a.event = "bootstrapped" /\ a.of = k
  BY <1>1 DEF Bootstrapped
<1>2. ASSUME NEW o \in Callers, Saying(o, k)' PROVE Bootstrapped(k)
  <2>1. o # c
    BY <1>2, CallsAfter DEF Saying
  <2>2. Saying(o, k)
    BY <1>2, <2>1, CallsAfter DEF Saying
  <2> QED
    BY <2>2 DEF Bootstrapped
<1> QED
  BY <1>1, <1>2 DEF Bootstrapped

\* The lock and what it is for, when no call comes to insert.
LEMMA LockedStays ==
  ASSUME ReceiptsInv, NEW c \in Callers, NEW call, Moves(c, call), call.pc # "insert",
         KeysGrow, Unlocks(c), \A k : Bootstrapped(k)' => Bootstrapped(k)
  PROVE  LockedInsert'
<1>1. ASSUME NEW o \in Callers, receiptCalls'[o].pc = "insert"
      PROVE  bootstrapLock' = o /\ \A k : ~ Bootstrapped(k)'
  <2>1. o # c /\ receiptCalls[o].pc = "insert"
    BY <1>1, CallsAfter
  <2>2. bootstrapLock = o /\ \A k : ~ Bootstrapped(k)
    BY <2>1 DEF ReceiptsInv, LockedInsert
  <2> QED
    BY <2>1, <2>2 DEF Unlocks
<1>2. ASSUME NEW k, Bootstrapped(k)' PROVE k \in SigningKeys /\ keys'[k] # "none"
  BY <1>2 DEF ReceiptsInv, LockedInsert, KeysGrow
<1>3. ASSUME NEW j, NEW k, Bootstrapped(j)', Bootstrapped(k)' PROVE j = k
  BY <1>3 DEF ReceiptsInv, LockedInsert
<1> QED
  BY <1>1, <1>2, <1>3 DEF LockedInsert

\* A step of a call that bills nothing.
LEMMA QuietCall ==
  ASSUME ReceiptsInv, NEW c \in Callers, NEW call, Moves(c, call), call.pc # "insert",
         ~ (call.pc = "audit" /\ call.found = "bootstrapped"),
         KeysGrow, Unlocks(c), UNCHANGED <<ledger, stored, lastSequence, receiptAudit>>
  PROVE  ReceiptsInv'
<1>1. \A k : Bootstrapped(k)' => Bootstrapped(k)
  BY SaysNothingNew
<1>2. LockedInsert'
  BY <1>1, LockedStays
<1>3. ReceiptsTypeOK'
  BY CallsAfter DEF ReceiptsInv, ReceiptsTypeOK, KeysGrow
<1>4. ReceiptsAreBilled'
  BY DEF ReceiptsInv, ReceiptsAreBilled, Billing!ReceiptsAreBilled, Billing!Rows
<1> QED
  BY <1>2, <1>3, <1>4, CallsAfter DEF ReceiptsInv

LEMMA SameKeysGrow == ReceiptsInv /\ UNCHANGED keys => KeysGrow
  BY DEF ReceiptsInv, ReceiptsTypeOK, KeysGrow

LEMMA NothingIsACall ==
  Billing!Idle \in ReceiptCall /\ Owns(Billing!Idle) /\ Billing!Idle.pc = "idle"
  BY DEF Billing!Idle, Billing!Call, ReceiptCall, Owns

\* A call that ends without a trace.
LEMMA LeavesQuietly ==
  ASSUME ReceiptsInv, NEW c \in Callers, Billing!Leave(c), UNCHANGED keys, Unlocks(c),
         UNCHANGED <<ledger, stored, lastSequence, receiptAudit>>
  PROVE  ReceiptsInv'
<1>1. Moves(c, Billing!Idle)
  BY NothingIsACall DEF Billing!Leave, Moves
<1> QED
  BY <1>1, SameKeysGrow, NothingIsACall, QuietCall

-----------------------------------------------------------------------------
(* Receipts: the steps of the keys.                                          *)

LEMMA BeginKeyCallStep ==
  ASSUME ReceiptsInv, NEW c \in Callers, NEW k \in SigningKeys,
         NEW pc \in {"register", "bootstrap", "revoke"}, Billing!BeginKeyCall(c, k, pc)
  PROVE  ReceiptsInv'
<1> DEFINE call == [Billing!Call(pc, k) EXCEPT !.found = keys[k]]
<1>1. call = [pc |-> pc, about |-> k, found |-> keys[k], amount |-> 0]
  BY DEF Billing!Call
<1>2. receiptCalls' = [receiptCalls EXCEPT ![c] = call]
  BY DEF Billing!BeginKeyCall, Billing!Become
<1>3. UNCHANGED <<keys, bootstrapLock, ledger, stored, lastSequence, receiptAudit>>
  BY DEF Billing!BeginKeyCall, Billing!vars
<1>4. keys[k] \in {"none", "active", "revoked"}
  BY DEF ReceiptsInv, ReceiptsTypeOK
<1> HIDE DEF call
<1>5. call.pc = pc /\ call.about = k /\ call \in ReceiptCall
  BY <1>1, <1>4 DEF ReceiptCall
<1>6. Moves(c, call)
  BY <1>2, <1>5 DEF Moves, Owns
<1>7. Unlocks(c)
  BY <1>3 DEF Unlocks
<1> QED
  BY <1>3, <1>5, <1>6, <1>7, SameKeysGrow, QuietCall

\* A call that has its event to append.
LEMMA ToAppend ==
  ASSUME ReceiptsInv, NEW c \in Callers, NEW event \in {"registered", "bootstrapped", "revoked", "consumed"}
  PROVE  LET call == [receiptCalls[c] EXCEPT !.pc = "audit", !.found = event] IN
         /\ call \in ReceiptCall /\ Owns(call)
         /\ call.pc = "audit" /\ call.found = event /\ call.about = receiptCalls[c].about
<1>1. receiptCalls[c] \in ReceiptCall
  BY CallOf
<1>2. PICK call : call = [receiptCalls[c] EXCEPT !.pc = "audit", !.found = event]
  OBVIOUS
<1>3. /\ call \in ReceiptCall
      /\ call.pc = "audit" /\ call.found = event /\ call.about = receiptCalls[c].about
  BY <1>1, <1>2 DEF ReceiptCall
<1> QED
  BY <1>2, <1>3 DEF Owns

\* A registration or a revocation: the key's row, then the event or nothing.
LEMMA KeyCallEnds ==
  ASSUME ReceiptsInv, NEW c \in Callers, NEW quiet, NEW event \in {"registered", "revoked"},
         Billing!AuditUnless(c, quiet, event), KeysGrow,
         UNCHANGED <<bootstrapLock, ledger, stored, lastSequence, receiptAudit>>
  PROVE  ReceiptsInv'
<1>0. Unlocks(c)
  BY DEF Unlocks
<1>1. CASE Billing!Leave(c)
  <2>1. Moves(c, Billing!Idle)
    BY <1>1, NothingIsACall DEF Billing!Leave, Moves
  <2> QED
    BY <1>0, <2>1, NothingIsACall, QuietCall
<1>2. CASE ~ Billing!Leave(c)
  <2>1. PICK call : call = [receiptCalls[c] EXCEPT !.pc = "audit", !.found = event]
    OBVIOUS
  <2>2. /\ call \in ReceiptCall /\ Owns(call)
        /\ call.pc = "audit" /\ call.found = event
    BY <2>1, ToAppend
  <2>3. Moves(c, call)
    BY <1>2, <2>1, <2>2 DEF Billing!AuditUnless, Billing!Become, Moves
  <2> QED
    BY <1>0, <2>2, <2>3, QuietCall
<1> QED
  BY <1>1, <1>2

LEMMA RegisterStep ==
  ASSUME ReceiptsInv, NEW c \in Callers, Billing!Register(c)
  PROVE  ReceiptsInv'
<1>1. receiptCalls[c].about \in SigningKeys
  BY DEF Billing!Register, ReceiptsInv, AboutItsOwn
<1>2. KeysGrow
  BY <1>1 DEF Billing!Register, KeysGrow, ReceiptsInv, ReceiptsTypeOK
<1>3. PICK quiet : Billing!AuditUnless(c, quiet, "registered")
  BY DEF Billing!Register
<1>4. UNCHANGED <<bootstrapLock, ledger, stored, lastSequence, receiptAudit>>
  BY DEF Billing!Register, Billing!vars
<1> QED
  BY <1>2, <1>3, <1>4, KeyCallEnds

LEMMA RevokeKeyStep ==
  ASSUME ReceiptsInv, NEW c \in Callers, Billing!Revoke(c)
  PROVE  ReceiptsInv'
<1>1. receiptCalls[c].about \in SigningKeys
  BY DEF Billing!Revoke, ReceiptsInv, AboutItsOwn
<1>2. KeysGrow
  BY <1>1 DEF Billing!Revoke, KeysGrow, ReceiptsInv, ReceiptsTypeOK
<1>3. PICK quiet : Billing!AuditUnless(c, quiet, "revoked")
  BY DEF Billing!Revoke
<1>4. UNCHANGED <<bootstrapLock, ledger, stored, lastSequence, receiptAudit>>
  BY DEF Billing!Revoke, Billing!vars
<1> QED
  BY <1>2, <1>3, <1>4, KeyCallEnds

\* Nothing was bootstrapped when the keys are read and none is found, and no
\* other call holds the lock.
LEMMA BootstrapReadStep ==
  ASSUME ReceiptsInv, NEW c \in Callers, Billing!BootstrapRead(c)
  PROVE  ReceiptsInv'
<1> DEFINE call == [receiptCalls[c] EXCEPT !.pc = "insert"]
<1>1. UNCHANGED <<keys, ledger, stored, lastSequence, receiptAudit>>
  BY DEF Billing!BootstrapRead, Billing!vars
<1>2. CASE Billing!Leave(c) /\ UNCHANGED bootstrapLock
  BY <1>1, <1>2, LeavesQuietly DEF Unlocks
<1>3. CASE /\ \A j \in SigningKeys : keys[j] = "none"
           /\ bootstrapLock' = c /\ Billing!Become(c, call)
  <2>1. receiptCalls[c] \in ReceiptCall /\ receiptCalls[c].about \in SigningKeys
    BY CallOf DEF Billing!BootstrapRead, Owns
  <2>2. call \in ReceiptCall /\ call.pc = "insert" /\ call.about \in SigningKeys
    BY <2>1 DEF ReceiptCall
  <2> HIDE DEF call
  <2>3. Moves(c, call)
    BY <1>3, <2>2 DEF Moves, Owns, Billing!Become
  <2>4. \A k : Bootstrapped(k)' => Bootstrapped(k)
    BY <1>1, <2>2, <2>3, SaysNothingNew
  <2>5. \A k : ~ Bootstrapped(k)'
    BY <1>3, <2>4 DEF ReceiptsInv, LockedInsert
  <2>6. ASSUME NEW o \in Callers, receiptCalls'[o].pc = "insert" PROVE bootstrapLock' = o
    <3>1. CASE o = c
      BY <1>3, <3>1
    <3>2. CASE o # c
      <4>1. receiptCalls[o].pc = "insert"
        BY <2>3, <2>6, <3>2, CallsAfter
      <4>2. bootstrapLock = o
        BY <4>1 DEF ReceiptsInv, LockedInsert
      <4>3. bootstrapLock = None
        BY DEF Billing!BootstrapRead, Billing!BootstrapLocked
      <4> QED
        BY <4>2, <4>3, BillingAssumption
    <3> QED
      BY <3>1, <3>2
  <2>7. LockedInsert'
    BY <2>5, <2>6 DEF LockedInsert
  <2>8. ReceiptsTypeOK'
    BY <1>1, <2>3, CallsAfter DEF ReceiptsInv, ReceiptsTypeOK
  <2>9. ReceiptsAreBilled'
    BY <1>1 DEF ReceiptsInv, ReceiptsAreBilled, Billing!ReceiptsAreBilled, Billing!Rows
  <2> QED
    BY <2>3, <2>7, <2>8, <2>9, CallsAfter DEF ReceiptsInv
<1> QED
  BY <1>2, <1>3 DEF Billing!BootstrapRead

\* The first key to be bootstrapped, or none because it is registered by now.
LEMMA BootstrapInsertStep ==
  ASSUME ReceiptsInv, NEW c \in Callers, Billing!BootstrapInsert(c)
  PROVE  ReceiptsInv'
<1> DEFINE call == [receiptCalls[c] EXCEPT !.pc = "audit", !.found = "bootstrapped"]
<1> DEFINE k == receiptCalls[c].about
<1>1. UNCHANGED <<ledger, stored, lastSequence, receiptAudit>> /\ bootstrapLock' = None
  BY DEF Billing!BootstrapInsert, Billing!vars
<1>2. bootstrapLock = c /\ \A j : ~ Bootstrapped(j)
  BY DEF Billing!BootstrapInsert, ReceiptsInv, LockedInsert
<1>3. CASE Billing!Leave(c) /\ UNCHANGED keys
  BY <1>1, <1>2, <1>3, LeavesQuietly DEF Unlocks
<1>4. CASE /\ keys' = [keys EXCEPT ![k] = "active"]
           /\ Billing!AuditUnless(c, FALSE, "bootstrapped")
  <2>0. k \in SigningKeys
    BY CallOf DEF Billing!BootstrapInsert, Owns
  <2>1. /\ call \in ReceiptCall /\ Owns(call)
        /\ call.pc = "audit" /\ call.found = "bootstrapped" /\ call.about = k
    BY ToAppend
  <2>2. Billing!Become(c, call)
    BY <1>4 DEF Billing!AuditUnless
  <2> HIDE DEF call
  <2>3. Moves(c, call)
    BY <2>1, <2>2 DEF Moves, Billing!Become
  <2>4. PICK first : first = k
    OBVIOUS
  <2>5. ASSUME NEW j, Bootstrapped(j)' PROVE j = first
    <3>1. ~ \E a \in receiptAudit' : a.event = "bootstrapped" /\ a.of = j
      BY <1>1, <1>2 DEF Bootstrapped
    <3>2. PICK o \in Callers : Saying(o, j)'
      BY <2>5, <3>1 DEF Bootstrapped
    <3>3. CASE o = c
      BY <2>1, <2>3, <2>4, <3>2, <3>3, CallsAfter DEF Saying
    <3>4. CASE o # c
      <4>1. Saying(o, j)
        BY <2>3, <3>2, <3>4, CallsAfter DEF Saying
      <4> QED
        BY <1>2, <4>1 DEF Bootstrapped
    <3> QED
      BY <3>3, <3>4
  <2>6. keys' \in [SigningKeys -> {"none", "active", "revoked"}] /\ keys'[first] # "none"
    BY <1>4, <2>0, <2>4 DEF ReceiptsInv, ReceiptsTypeOK
  <2>7. \A o \in Callers : receiptCalls'[o].pc # "insert"
    <3>1. ASSUME NEW o \in Callers \ {c} PROVE receiptCalls'[o].pc # "insert"
      BY <1>2, <2>3, CallsAfter DEF ReceiptsInv, LockedInsert
    <3> QED
      BY <2>1, <2>3, <3>1, CallsAfter
  <2>8. LockedInsert'
    BY <2>0, <2>4, <2>5, <2>6, <2>7 DEF LockedInsert
  <2>9. ReceiptsTypeOK'
    BY <1>1, <2>3, <2>6, CallsAfter DEF ReceiptsInv, ReceiptsTypeOK
  <2>10. ReceiptsAreBilled'
    BY <1>1 DEF ReceiptsInv, ReceiptsAreBilled, Billing!ReceiptsAreBilled, Billing!Rows
  <2> QED
    BY <2>3, <2>8, <2>9, <2>10, CallsAfter DEF ReceiptsInv
<1> QED
  BY <1>3, <1>4 DEF Billing!BootstrapInsert

-----------------------------------------------------------------------------
(* Receipts: the steps of the ledger.                                        *)

\* Whatever a transaction does to the account, it adds one row.
LEMMA OneRowAdded ==
  ASSUME Billing!Bookings
  PROVE  \E row : ledger' = Append(ledger, row)
<1>1. ASSUME NEW k \in Keys, NEW amount \in Billing!Amounts, NEW ref \in Refs,
             \/ Billing!TopUp(k, amount, ref)
             \/ Billing!Consume(k, amount, ref)
             \/ \E at, expiresAt \in Times : Billing!CreateHold(k, amount, ref, at, expiresAt)
             \/ \E h \in Keys, at \in Times : Billing!CaptureHold(h, k, amount, ref, at)
             \/ \E i \in Billing!Rows : Billing!Refund(i, k, amount, ref)
      PROVE  \E row : ledger' = Append(ledger, row)
  BY <1>1 DEF Billing!TopUp, Billing!Consume, Billing!CreateHold, Billing!CaptureHold,
     Billing!Refund
<1>2. ASSUME NEW h \in Keys, NEW k \in Keys, Billing!Release(h, k)
      PROVE  \E row : ledger' = Append(ledger, row)
  BY <1>2 DEF Billing!Release, Billing!ReleaseHold
<1>3. ASSUME NEW h \in Keys, NEW at \in Times, Billing!Expire(h, at)
      PROVE  \E row : ledger' = Append(ledger, row)
  BY <1>3 DEF Billing!Expire, Billing!ReleaseHold
<1> QED
  BY <1>1, <1>2, <1>3, Zenon DEF Billing!Bookings

\* What a row that is added leaves.
LEMMA RowsAfter ==
  ASSUME ReceiptsInv, NEW row, ledger' = Append(ledger, row)
  PROVE  /\ IsSequence(ledger)'
         /\ Len(ledger) \in Nat /\ Len(ledger') = Len(ledger) + 1
         /\ Billing!Rows = 1 .. Len(ledger)
         /\ Billing!Rows' = Billing!Rows \cup {Len(ledger')}
         /\ \A i \in Billing!Rows : ledger'[i] = ledger[i]
         /\ ledger'[Len(ledger')] = row
<1>1. /\ IsSequence(ledger') /\ Len(ledger) \in Nat /\ Len(ledger') = Len(ledger) + 1
      /\ \A i \in 1 .. Len(ledger) : ledger'[i] = ledger[i]
      /\ ledger'[Len(ledger) + 1] = row
  BY OneMore DEF ReceiptsInv, ReceiptsTypeOK
<1>2. Billing!Rows = 1 .. Len(ledger) /\ Billing!Rows' = 1 .. Len(ledger')
  BY DEF Billing!Rows
<1>3. IsSequence(ledger)'
  BY <1>1 DEF IsSequence
<1> QED
  BY <1>1, <1>2, <1>3

\* Another transaction on the account leaves receipts, keys and calls alone.
LEMMA OthersStep ==
  ASSUME ReceiptsInv, Billing!Others
  PROVE  ReceiptsInv'
<1>1. PICK row : ledger' = Append(ledger, row)
  BY OneRowAdded DEF Billing!Others
<1>2. UNCHANGED <<keys, stored, lastSequence, bootstrapLock, receiptCalls, receiptAudit>>
  BY DEF Billing!Others, Billing!receiptVars
<1>3. /\ Billing!Rows' = Billing!Rows \cup {Len(ledger')}
      /\ \A i \in Billing!Rows : ledger'[i] = ledger[i]
  BY <1>1, RowsAfter
<1>4. ReceiptsAreBilled'
  BY <1>2, <1>3 DEF ReceiptsInv, ReceiptsAreBilled, Billing!ReceiptsAreBilled
<1>5. ReceiptsTypeOK'
  BY <1>1, <1>2, RowsAfter DEF ReceiptsInv, ReceiptsTypeOK
<1>6. AboutItsOwn'
  BY <1>2 DEF ReceiptsInv, AboutItsOwn
<1>7. LockedInsert'
  BY <1>2 DEF ReceiptsInv, LockedInsert, Bootstrapped, Saying
<1> QED
  BY <1>4, <1>5, <1>6, <1>7 DEF ReceiptsInv

LEMMA BeginReceiptStep ==
  ASSUME ReceiptsInv, NEW c \in Callers, NEW e \in Envelopes, Billing!BeginReceipt(c, e)
  PROVE  ReceiptsInv'
<1> DEFINE call == Billing!Call("price", e)
<1>1. call \in ReceiptCall /\ call.pc = "price" /\ call.about = e
  BY DEF Billing!Call, ReceiptCall
<1>2. receiptCalls' = [receiptCalls EXCEPT ![c] = call]
  BY DEF Billing!BeginReceipt, Billing!Become
<1> HIDE DEF call
<1>3. Moves(c, call)
  BY <1>1, <1>2 DEF Moves, Owns
<1>4. UNCHANGED <<keys, bootstrapLock, ledger, stored, lastSequence, receiptAudit>> /\ Unlocks(c)
  BY DEF Billing!BeginReceipt, Billing!vars, Unlocks
<1> QED
  BY <1>1, <1>3, <1>4, SameKeysGrow, QuietCall

LEMMA PriceReceiptStep ==
  ASSUME ReceiptsInv, NEW c \in Callers, NEW amount \in Billing!Amounts,
         Billing!PriceReceipt(c, amount)
  PROVE  ReceiptsInv'
<1> DEFINE call == [receiptCalls[c] EXCEPT !.pc = "ingest", !.amount = amount]
<1>1. receiptCalls[c] \in ReceiptCall /\ receiptCalls[c].about \in Envelopes
  BY CallOf DEF Billing!PriceReceipt, Owns
<1>2. amount \in Nat
  BY BillingAssumption DEF Billing!Amounts, Billing!CreditsAssumption
<1>3. call \in ReceiptCall /\ call.pc = "ingest" /\ call.about \in Envelopes
  BY <1>1, <1>2 DEF ReceiptCall
<1>4. receiptCalls' = [receiptCalls EXCEPT ![c] = call]
  BY DEF Billing!PriceReceipt, Billing!Become
<1> HIDE DEF call
<1>5. Moves(c, call)
  BY <1>3, <1>4 DEF Moves, Owns
<1>6. UNCHANGED <<keys, bootstrapLock, ledger, stored, lastSequence, receiptAudit>> /\ Unlocks(c)
  BY DEF Billing!PriceReceipt, Billing!vars, Unlocks
<1> QED
  BY <1>3, <1>5, <1>6, SameKeysGrow, QuietCall

\* The row that a receipt's debit adds.
LEMMA DebitRow ==
  ASSUME ReceiptsInv, NEW id, NEW amount, NEW ref,
         Billing!Consume(Billing!ReceiptKey(id), amount, ref)
  PROVE  \E row : /\ ledger' = Append(ledger, row)
                  /\ row.key = Billing!ReceiptKey(id) /\ row.type = "consume"
<1> DEFINE row == Billing!Entry("consume", Billing!ReceiptKey(id), -amount, 0, amount, ref, None, 0)
<1>1. ledger' = Append(ledger, row)
  BY DEF Billing!Consume
<1>2. row.key = Billing!ReceiptKey(id) /\ row.type = "consume"
  BY DEF Billing!Entry
<1> HIDE DEF row
<1> QED
  BY <1>1, <1>2

\* What Ingest stores.
LEMMA StoredAfter ==
  ASSUME ReceiptsInv, NEW receipt \in StoredReceipt, stored' = Append(stored, receipt)
  PROVE  /\ stored' \in Seq(StoredReceipt)
         /\ DOMAIN stored' = DOMAIN stored \cup {Len(stored) + 1}
         /\ \A i \in DOMAIN stored : stored'[i] = stored[i]
         /\ stored'[Len(stored) + 1] = receipt
  BY DEF ReceiptsInv, ReceiptsTypeOK

\* Debit, receipt and sequence are one transaction.
LEMMA IngestStep ==
  ASSUME ReceiptsInv, NEW c \in Callers, Billing!Ingest(c)
  PROVE  ReceiptsInv'
<1> DEFINE call == [receiptCalls[c] EXCEPT !.pc = "audit", !.found = "consumed"]
<1>1. PICK e : e = receiptCalls[c].about
  OBVIOUS
<1>2. e \in Envelopes
  BY <1>1, CallOf DEF Billing!Ingest, Owns
<1>3. PICK row : /\ ledger' = Append(ledger, row)
                 /\ row.key = Billing!ReceiptKey(e.id) /\ row.type = "consume"
  BY <1>1, DebitRow DEF Billing!Ingest, Billing!Debit
<1>4. /\ IsSequence(ledger)' /\ Len(ledger') \in Nat
      /\ Billing!Rows' = Billing!Rows \cup {Len(ledger')}
      /\ \A i \in Billing!Rows : ledger'[i] = ledger[i]
      /\ ledger'[Len(ledger')] = row
  BY <1>3, RowsAfter
<1>5. PICK receipt : receipt = [envelope |-> e, row |-> Len(ledger')]
  OBVIOUS
<1>6. receipt \in StoredReceipt /\ receipt.envelope = e /\ receipt.row = Len(ledger')
  BY <1>2, <1>4, <1>5 DEF StoredReceipt
<1>7. stored' = Append(stored, receipt)
  BY <1>1, <1>5 DEF Billing!Ingest
<1>8. /\ stored' \in Seq(StoredReceipt)
      /\ DOMAIN stored' = DOMAIN stored \cup {Len(stored) + 1}
      /\ \A i \in DOMAIN stored : stored'[i] = stored[i]
      /\ stored'[Len(stored) + 1] = receipt
  BY <1>6, <1>7, StoredAfter
<1>9. /\ e.sequence = Len(stored) + 1 /\ lastSequence' = Len(stored) + 1
      /\ \A i \in DOMAIN stored : stored[i].envelope.task # e.task
  BY <1>1 DEF Billing!Ingest, Billing!NextInSequence, ReceiptsInv, ReceiptsAreBilled,
     Billing!ReceiptsAreBilled
<1>10. Len(stored') = Len(stored) + 1
  BY <1>7 DEF ReceiptsInv, ReceiptsTypeOK
<1>11. Len(ledger') \notin Billing!Rows
  BY <1>3, RowsAfter
<1>12. ReceiptsAreBilled'
  <2>1. ASSUME NEW i \in DOMAIN stored'
        PROVE  /\ stored'[i].envelope.sequence = i
               /\ stored'[i].row \in Billing!Rows'
               /\ ledger'[stored'[i].row].key = Billing!ReceiptKey(stored'[i].envelope.id)
               /\ ledger'[stored'[i].row].type = "consume"
    <3>1. CASE i = Len(stored) + 1
      BY <1>3, <1>4, <1>6, <1>8, <1>9, <3>1
    <3>2. CASE i \in DOMAIN stored
      BY <1>4, <1>8, <3>2 DEF ReceiptsInv, ReceiptsAreBilled, Billing!ReceiptsAreBilled
    <3> QED
      BY <1>8, <3>1, <3>2
  <2>2. ASSUME NEW i \in DOMAIN stored', NEW j \in DOMAIN stored',
               \/ stored'[j].row = stored'[i].row
               \/ stored'[j].envelope.task = stored'[i].envelope.task
        PROVE  j = i
    <3>1. \A n \in DOMAIN stored :
            stored'[n] = stored[n] /\ stored[n].row \in Billing!Rows
      BY <1>8 DEF ReceiptsInv, ReceiptsAreBilled, Billing!ReceiptsAreBilled
    <3>2. CASE i \in DOMAIN stored /\ j \in DOMAIN stored
      BY <2>2, <3>1, <3>2 DEF ReceiptsInv, ReceiptsAreBilled, Billing!ReceiptsAreBilled
    <3>3. CASE i \in DOMAIN stored /\ j = Len(stored) + 1
      BY <1>6, <1>8, <1>9, <1>11, <2>2, <3>1, <3>3
    <3>4. CASE i = Len(stored) + 1 /\ j \in DOMAIN stored
      BY <1>6, <1>8, <1>9, <1>11, <2>2, <3>1, <3>4
    <3> QED
      BY <1>8, <3>2, <3>3, <3>4
  <2>3. Billing!ReceiptsAreBilled'
    BY <1>9, <1>10, <2>1, <2>2, Zenon DEF Billing!ReceiptsAreBilled, Billing!ReceiptKey
  <2> QED
    BY <2>3 DEF ReceiptsAreBilled
<1>13. /\ call \in ReceiptCall /\ Owns(call)
       /\ call.pc = "audit" /\ call.found = "consumed"
  BY ToAppend
<1>14. Billing!Become(c, call) /\ UNCHANGED <<keys, bootstrapLock, receiptAudit>>
  BY DEF Billing!Ingest
<1> HIDE DEF call
<1>15. Moves(c, call)
  BY <1>13, <1>14 DEF Moves, Billing!Become
<1>16. \A k : Bootstrapped(k)' => Bootstrapped(k)
  BY <1>13, <1>14, <1>15, SaysNothingNew
<1>17. LockedInsert'
  BY <1>13, <1>14, <1>15, <1>16, LockedStays, SameKeysGrow DEF Unlocks
<1>18. ReceiptsTypeOK'
  BY <1>4, <1>8, <1>14, <1>15, CallsAfter DEF ReceiptsInv, ReceiptsTypeOK
<1> QED
  BY <1>12, <1>15, <1>17, <1>18, CallsAfter DEF ReceiptsInv

-----------------------------------------------------------------------------
(* Receipts: the ends of calls, and every step.                              *)

\* The event that was about to be appended is.
LEMMA AppendAuditStep ==
  ASSUME ReceiptsInv, NEW c \in Callers, Billing!AppendAudit(c)
  PROVE  ReceiptsInv'
<1>1. PICK event : event = [event |-> receiptCalls[c].found, of |-> receiptCalls[c].about]
  OBVIOUS
<1>2. receiptAudit' = receiptAudit \cup {event}
  BY <1>1 DEF Billing!AppendAudit
<1>3. UNCHANGED <<keys, bootstrapLock, ledger, stored, lastSequence>>
  BY DEF Billing!AppendAudit, Billing!vars
<1>4. Moves(c, Billing!Idle)
  BY NothingIsACall DEF Billing!AppendAudit, Billing!Leave, Moves
<1>5. ASSUME NEW k, Bootstrapped(k)' PROVE Bootstrapped(k)
  <2>1. ASSUME NEW a \in receiptAudit', a.event = "bootstrapped", a.of = k
        PROVE  Bootstrapped(k)
    <3>1. CASE a \in receiptAudit
      BY <2>1, <3>1 DEF Bootstrapped
    <3>2. CASE a = event
      <4>1. Saying(c, k)
        BY <1>1, <2>1, <3>2 DEF Saying, Billing!AppendAudit
      <4> QED
        BY <4>1 DEF Bootstrapped
    <3> QED
      BY <1>2, <3>1, <3>2
  <2>2. ASSUME NEW o \in Callers, Saying(o, k)' PROVE Bootstrapped(k)
    <3>1. o # c
      BY <1>4, <2>2, NothingIsACall, CallsAfter DEF Saying
    <3>2. Saying(o, k)
      BY <1>4, <2>2, <3>1, CallsAfter DEF Saying
    <3> QED
      BY <3>2 DEF Bootstrapped
  <2> QED
    BY <1>5, <2>1, <2>2 DEF Bootstrapped
<1>6. LockedInsert'
  BY <1>3, <1>4, <1>5, NothingIsACall, SameKeysGrow, LockedStays DEF Unlocks
<1>7. \A a \in receiptAudit' : a = [event |-> a.event, of |-> a.of]
  BY <1>1, <1>2 DEF ReceiptsInv, ReceiptsTypeOK
<1>8. ReceiptsTypeOK'
  BY <1>3, <1>4, <1>7, CallsAfter DEF ReceiptsInv, ReceiptsTypeOK
<1>9. ReceiptsAreBilled'
  BY <1>3 DEF ReceiptsInv, ReceiptsAreBilled, Billing!ReceiptsAreBilled, Billing!Rows
<1> QED
  BY <1>4, <1>6, <1>8, <1>9, CallsAfter DEF ReceiptsInv

LEMMA QuietEnds ==
  ASSUME ReceiptsInv, NEW c \in Callers,
         Billing!IngestRefusedOrReplayed(c) \/ Billing!Crash(c)
  PROVE  ReceiptsInv'
<1>1. UNCHANGED <<keys, ledger, stored, lastSequence, receiptAudit>> /\ Billing!Leave(c)
  BY DEF Billing!IngestRefusedOrReplayed, Billing!Crash, Billing!vars
<1>2. Unlocks(c)
  BY DEF Unlocks, Billing!IngestRefusedOrReplayed, Billing!Crash
<1> QED
  BY <1>1, <1>2, LeavesQuietly

LEMMA ReceiptsStutter ==
  ASSUME ReceiptsInv, UNCHANGED Billing!allVars
  PROVE  ReceiptsInv'
<1>1. UNCHANGED <<ledger, keys, stored, lastSequence, bootstrapLock, receiptCalls, receiptAudit>>
  BY DEF Billing!allVars, Billing!vars, Billing!receiptVars
<1>2. ReceiptsAreBilled'
  BY <1>1 DEF ReceiptsInv, ReceiptsAreBilled, Billing!ReceiptsAreBilled, Billing!Rows
<1> QED
  BY <1>1, <1>2 DEF ReceiptsInv, ReceiptsTypeOK, AboutItsOwn, LockedInsert, Bootstrapped, Saying

LEMMA ReceiptsStep == ReceiptsInv /\ [Billing!ReceiptsNext]_Billing!allVars => ReceiptsInv'
<1> SUFFICES ASSUME ReceiptsInv, Billing!ReceiptsNext PROVE ReceiptsInv'
  BY ReceiptsStutter
<1>1. ASSUME NEW c \in Callers, NEW k \in SigningKeys,
             NEW pc \in {"register", "bootstrap", "revoke"}, Billing!BeginKeyCall(c, k, pc)
      PROVE  ReceiptsInv'
  BY <1>1, BeginKeyCallStep
<1>2. ASSUME NEW c \in Callers,
             \/ Billing!Register(c) \/ Billing!BootstrapRead(c)
             \/ Billing!BootstrapInsert(c) \/ Billing!Revoke(c)
      PROVE  ReceiptsInv'
  BY <1>2, RegisterStep, BootstrapReadStep, BootstrapInsertStep, RevokeKeyStep
<1>3. ASSUME NEW c \in Callers, NEW e \in Envelopes, Billing!BeginReceipt(c, e)
      PROVE  ReceiptsInv'
  BY <1>3, BeginReceiptStep
<1>4. ASSUME NEW c \in Callers, NEW amount \in Billing!Amounts, Billing!PriceReceipt(c, amount)
      PROVE  ReceiptsInv'
  BY <1>4, PriceReceiptStep
<1>5. ASSUME NEW c \in Callers,
             \/ Billing!Ingest(c) \/ Billing!IngestRefusedOrReplayed(c)
             \/ Billing!AppendAudit(c) \/ Billing!Crash(c)
      PROVE  ReceiptsInv'
  BY <1>5, IngestStep, AppendAuditStep, QuietEnds
<1>6. ASSUME Billing!Others PROVE ReceiptsInv'
  BY <1>6, OthersStep
<1> QED
  BY <1>1, <1>2, <1>3, <1>4, <1>5, <1>6, Zenon DEF Billing!ReceiptsNext

-----------------------------------------------------------------------------
(* The theorems of receipts.                                                 *)

\* The inductive invariant holds for any number of calls that stop anywhere.
THEOREM ReceiptsInvariant == Billing!ReceiptsSpec => []ReceiptsInv
<1> QED
  BY ReceiptsInitInv, ReceiptsStep, PTL DEF Billing!ReceiptsSpec

\* Receipts are stored in the order of their numbers, each with a charge of its own
\* under its own key and each of another task, whatever calls compete, wherever they
\* stop and whatever keys callers take (ingestExecutionReceipt).
THEOREM BilledOnceInOrder == Billing!ReceiptsSpec => []ReceiptsAreBilled
<1>1. ReceiptsInv => ReceiptsAreBilled
  BY DEF ReceiptsInv
<1> QED
  BY <1>1, ReceiptsInvariant, PTL

\* However many bootstraps run at once, and whatever is registered between their
\* reading and their insertion, one key at most is bootstrapped
\* (bootstrapExecutionReceiptKey).
THEOREM OneBootstrap == Billing!ReceiptsSpec => []BootstrapOnce
<1>1. ReceiptsInv => BootstrapOnce
  <2>1. ASSUME ReceiptsInv, NEW a \in receiptAudit, NEW b \in receiptAudit,
               a.event = "bootstrapped", b.event = "bootstrapped"
        PROVE  a = b
    <3>1. Bootstrapped(a.of) /\ Bootstrapped(b.of)
      BY <2>1 DEF Bootstrapped
    <3>2. a.of = b.of
      BY <2>1, <3>1 DEF ReceiptsInv, LockedInsert
    <3>3. a = [event |-> a.event, of |-> a.of] /\ b = [event |-> b.event, of |-> b.of]
      BY <2>1 DEF ReceiptsInv, ReceiptsTypeOK
    <3> QED
      BY <2>1, <3>2, <3>3
  <2> QED
    BY <2>1 DEF BootstrapOnce, Billing!BootstrapOnce
<1> QED
  BY <1>1, ReceiptsInvariant, PTL

\* A receipt is stored by Ingest alone, which reads the key in its transaction.
LEMMA StoredByIngest ==
  ASSUME ReceiptsInv, Billing!ReceiptsNext
  PROVE  \/ UNCHANGED stored
         \/ \E c \in Callers : Billing!Ingest(c)
BY Zenon DEF Billing!ReceiptsNext, Billing!BeginKeyCall, Billing!Register,
   Billing!BootstrapRead, Billing!BootstrapInsert, Billing!Revoke, Billing!BeginReceipt,
   Billing!PriceReceipt, Billing!IngestRefusedOrReplayed, Billing!AppendAudit, Billing!Crash,
   Billing!Others, Billing!receiptVars

\* What a call writes to a revoked key leaves it revoked.
LEMMA RevokedStays ==
  ASSUME ReceiptsInv, Billing!ReceiptsNext, NEW k \in SigningKeys, keys[k] = "revoked"
  PROVE  keys'[k] = "revoked"
<1>1. \/ UNCHANGED keys
      \/ \E c \in Callers :
           Billing!Register(c) \/ Billing!BootstrapInsert(c) \/ Billing!Revoke(c)
  BY Zenon DEF Billing!ReceiptsNext, Billing!BeginKeyCall, Billing!BootstrapRead,
     Billing!BeginReceipt, Billing!PriceReceipt, Billing!Ingest,
     Billing!IngestRefusedOrReplayed, Billing!AppendAudit, Billing!Crash, Billing!Others,
     Billing!receiptVars
<1>2. keys \in [SigningKeys -> {"none", "active", "revoked"}]
  BY DEF ReceiptsInv, ReceiptsTypeOK
<1>3. ASSUME NEW c \in Callers, Billing!Register(c) PROVE keys'[k] = "revoked"
  BY <1>2, <1>3 DEF Billing!Register
<1>4. ASSUME NEW c \in Callers, Billing!BootstrapInsert(c) PROVE keys'[k] = "revoked"
  BY <1>2, <1>4 DEF Billing!BootstrapInsert
<1>5. ASSUME NEW c \in Callers, Billing!Revoke(c) PROVE keys'[k] = "revoked"
  BY <1>2, <1>5 DEF Billing!Revoke
<1> QED
  BY <1>1, <1>3, <1>4, <1>5

\* Nothing is billed with a key once it is revoked, not even a receipt whose
\* signature was verified before (revokeExecutionReceiptKey, ingestExecutionReceipt).
THEOREM RevokedBillsNothing == Billing!ReceiptsSpec => RevocationIsFinal
<1> DEFINE Final == \A k \in SigningKeys : keys[k] = "revoked" =>
             /\ keys'[k] = "revoked"
             /\ \A i \in DOMAIN stored' \ DOMAIN stored : stored'[i].envelope.key # k
<1>1. ASSUME ReceiptsInv, Billing!ReceiptsNext PROVE Final
  <2>1. SUFFICES ASSUME NEW k \in SigningKeys, keys[k] = "revoked",
                        NEW i \in DOMAIN stored' \ DOMAIN stored
                 PROVE  stored'[i].envelope.key # k
    BY <1>1, RevokedStays
  <2>2. PICK c \in Callers : Billing!Ingest(c)
    BY <1>1, <2>1, StoredByIngest
  <2>3. PICK e : e = receiptCalls[c].about
    OBVIOUS
  <2>4. e \in Envelopes
    BY <1>1, <2>2, <2>3, CallOf DEF Billing!Ingest, Owns
  <2>5. keys[e.key] = "active"
    BY <2>2, <2>3 DEF Billing!Ingest, Billing!KeyActive
  <2>6. PICK receipt : receipt = [envelope |-> e, row |-> Len(ledger')]
    OBVIOUS
  <2>7. PICK row : ledger' = Append(ledger, row)
    BY <2>2 DEF Billing!Ingest, Billing!Debit, Billing!Consume
  <2>8. Len(ledger') \in Nat
    BY <1>1, <2>7, RowsAfter
  <2>9. receipt \in StoredReceipt /\ receipt.envelope = e
    BY <2>4, <2>6, <2>8 DEF StoredReceipt
  <2>10. stored' = Append(stored, receipt)
    BY <2>2, <2>3, <2>6 DEF Billing!Ingest
  <2>11. i = Len(stored) + 1 /\ stored'[i] = receipt
    BY <1>1, <2>1, <2>9, <2>10, StoredAfter
  <2> QED
    BY <2>1, <2>5, <2>9, <2>11
<1>2. ReceiptsInv /\ [Billing!ReceiptsNext]_Billing!allVars => [Final]_Billing!allVars
  BY <1>1
<1>3. Billing!ReceiptsSpec => [][Final]_Billing!allVars
  BY <1>2, ReceiptsInvariant, PTL DEF Billing!ReceiptsSpec
<1> QED
  BY <1>3 DEF RevocationIsFinal, Billing!RevocationIsFinal
=============================================================================
