----------------------------- MODULE SigningKeys -----------------------------
(* The keys that licenses, leases and receipts are signed with.              *)
(*                                                                           *)
(* One table says which key is active; each instance has providers for some  *)
(* keys, checks what it can before it opens the transaction that changes the *)
(* table, and remembers the key that was active when it looked last.  Keys    *)
(* are held by remote providers, in several regions, that an instance stops  *)
(* asking for a while after repeated failures.                               *)
(*                                                                           *)
(* A call is one request at one instance; what it signs, and what the        *)
(* providers answer besides a good or a bad answer, is left out.  Time is    *)
(* that a circuit which is open closes again.                                *)
EXTENDS Integers, FiniteSets

CONSTANTS
  Keys,
  Instances,
  Provided,       \* [Instances -> SUBSET Keys], the providers configured
  Preferred,      \* [Instances -> Keys], the key to activate when none is
  Callers,        \* calls in flight at once
  Regions,        \* [Keys -> how many regions the key is in]
  Threshold,      \* CIRCUIT_FAILURE_THRESHOLD
  MaxFaults,      \* how often a call fails in the last region it tries
  MaxChanges,     \* how often an administrator changes keys or an instance stops
  None

ASSUME SigningAssumption ==
  /\ Provided \in [Instances -> SUBSET Keys] /\ Preferred \in [Instances -> Keys]
  /\ Regions \in [Keys -> Nat \ {0}] /\ Threshold \in Nat \ {0}
  /\ {MaxFaults, MaxChanges} \subseteq Nat
  /\ None \notin Keys

VARIABLES
  state,       \* of control_signing_keys
  instance,    \* [Instances -> phase of its start]
  remembered,  \* #activeKeyId of each instance
  calls,       \* [Callers -> call]
  circuit,     \* of each instance and key
  faults, changes

signing == <<calls, circuit, faults>>
vars == <<state, instance, remembered, signing, changes>>

Idle == [pc |-> "idle"]
Leave(c) == calls' = [calls EXCEPT ![c] = Idle]
Become(c, call) == calls' = [calls EXCEPT ![c] = call]

Closed == [failures |-> 0, open |-> FALSE, region |-> 0]

Init ==
  /\ state = [k \in Keys |-> "none"]
  /\ instance = [i \in Instances |-> "down"]
  /\ remembered = [i \in Instances |-> None]
  /\ calls = [c \in Callers |-> Idle]
  /\ circuit = [i \in Instances |-> [k \in Keys |-> Closed]]
  /\ faults = 0 /\ changes = 0

Active == {k \in Keys : state[k] = "active"}
Revoked == {k \in Keys : state[k] = "revoked"}

-----------------------------------------------------------------------------
\* The transactions on the table.

Activatable(k) == state[k] # "revoked"

\* activateSigningKey: whichever key is active by now retires.
Activate(k) ==
  state' = [x \in Keys |->
    IF x = k THEN "active" ELSE IF x \in Active THEN "retired" ELSE state[x]]

\* Slip: what the key was before the transaction decides.
NeededOneAsRead(call) == call.active
NeedsReplacement(call) == call.key \in Active

Replaceable(call) ==
  NeedsReplacement(call) =>
    /\ call.replacement \notin {None, call.key}
    /\ state[call.replacement] \notin {"none", "revoked"}

\* revokeSigningKey; a replacement is for the active key only.
Revoke(call) ==
  state' = [x \in Keys |->
    IF x = call.key THEN "revoked"
    ELSE IF NeedsReplacement(call) /\ x = call.replacement THEN "active"
    ELSE state[x]]

-----------------------------------------------------------------------------
\* The start of an instance.

\* Its keys are registered, each in a statement of its own; one that is there stays
\* what it is.
Register(i) ==
  /\ instance[i] = "down"
  /\ state' = [k \in Keys |->
       IF k \in Provided[i] /\ state[k] = "none" THEN "standby" ELSE state[k]]
  /\ instance' = [instance EXCEPT ![i] = "registered"]
  /\ UNCHANGED <<remembered, signing, changes>>

\* It starts with the active key, for which it needs a provider; without one it stays
\* down.
ReadRecords(i) ==
  /\ instance[i] = "registered"
  /\ \/ /\ Active = {}
        /\ instance' = [instance EXCEPT ![i] = "preferring"]
        /\ UNCHANGED remembered
     \/ \E k \in Active \cap Provided[i] :
          /\ instance' = [instance EXCEPT ![i] = "up"]
          /\ remembered' = [remembered EXCEPT ![i] = k]
     \/ /\ Active # {} /\ Active \cap Provided[i] = {}
        /\ instance' = [instance EXCEPT ![i] = "down"]
        /\ UNCHANGED remembered
  /\ UNCHANGED <<state, signing, changes>>

\* There was no active key when it looked.
ActivatePreferred(i) ==
  /\ instance[i] = "preferring"
  /\ IF Preferred[i] \in Provided[i] /\ Activatable(Preferred[i])
     THEN /\ Activate(Preferred[i])
          /\ instance' = [instance EXCEPT ![i] = "up"]
          /\ remembered' = [remembered EXCEPT ![i] = Preferred[i]]
     ELSE /\ instance' = [instance EXCEPT ![i] = "down"]
          /\ UNCHANGED <<state, remembered>>
  /\ UNCHANGED <<signing, changes>>

\* What an instance knows of providers goes with it, and so do its calls.
Stop(i) ==
  /\ instance[i] = "up" /\ changes < MaxChanges
  /\ instance' = [instance EXCEPT ![i] = "down"]
  /\ calls' = [c \in Callers |->
       IF calls[c] # Idle /\ calls[c].at = i THEN Idle ELSE calls[c]]
  /\ circuit' = [circuit EXCEPT ![i] = [k \in Keys |-> Closed]]
  /\ changes' = changes + 1
  /\ UNCHANGED <<state, remembered, faults>>

-----------------------------------------------------------------------------
\* A signature.

\* A request for something signed: by now these keys are revoked.
BeginSign(c, i) ==
  /\ calls[c] = Idle /\ instance[i] = "up"
  /\ Become(c, [pc |-> "read", at |-> i, revoked |-> Revoked])
  /\ UNCHANGED <<state, instance, remembered, circuit, faults, changes>>

ActiveFor(i) == Active

Blocked(z) == z.open

\* Slip: a circuit is open for as long as the failures are counted.
BlockedByFailures(z) == z.failures >= Threshold
Refused(z) == Blocked(z)

\* The provider is asked, in the region that worked last, unless its circuit is open.
Ask(c, call) ==
  IF Refused(circuit[call.at][call.key]) THEN Leave(c)
  ELSE Become(c, [call EXCEPT !.pc = "asking"])

\* signWithKey reads which key is active.
ReadActive(c) ==
  /\ calls[c].pc = "read"
  /\ \E k \in ActiveFor(calls[c].at) :
       IF k \in Provided[calls[c].at]
       THEN /\ remembered' = [remembered EXCEPT ![calls[c].at] = k]
            /\ Ask(c, [pc |-> "read", at |-> calls[c].at, purpose |-> "sign", key |-> k,
                       tried |-> 0, revoked |-> calls[c].revoked])
       ELSE /\ Leave(c)
            /\ UNCHANGED remembered
  /\ UNCHANGED <<state, instance, circuit, faults, changes>>

Circuit(call) == circuit[call.at][call.key]
SetCircuit(call, z) == circuit' = [circuit EXCEPT ![call.at][call.key] = z]

\* A good answer clears what has been counted, whichever calls have failed since, and
\* its region is asked first from now on.
Answer(c) ==
  LET call == calls[c] IN
  /\ call.pc = "asking"
  /\ SetCircuit(call, [Closed EXCEPT !.region = (Circuit(call).region + call.tried) % Regions[call.key]])
  /\ Become(c, [call EXCEPT !.pc = IF call.purpose = "sign" THEN "signed" ELSE "probed"])
  /\ UNCHANGED <<state, instance, remembered, faults, changes>>

\* The next region counts from the one that is first by now; after the last one
\* the failure of the call is counted.
Fail(c) ==
  LET call == calls[c]
      z == Circuit(call)
  IN
  /\ call.pc = "asking"
  /\ \/ /\ call.tried + 1 < Regions[call.key]
        /\ Become(c, [call EXCEPT !.tried = @ + 1])
        /\ UNCHANGED <<circuit, faults>>
     \/ /\ call.tried + 1 = Regions[call.key] /\ faults < MaxFaults
        /\ faults' = faults + 1
        /\ SetCircuit(call, [z EXCEPT !.failures = @ + 1, !.open = @ \/ z.failures + 1 >= Threshold])
        /\ Leave(c)
  /\ UNCHANGED <<state, instance, remembered, changes>>

\* CIRCUIT_OPEN_MS pass.
CircuitCloses(i, k) ==
  /\ circuit[i][k].open
  /\ circuit' = [circuit EXCEPT ![i][k].open = FALSE]
  /\ UNCHANGED <<state, instance, remembered, calls, faults, changes>>

\* What was asked for is delivered.
Deliver(c) ==
  /\ calls[c].pc = "signed"
  /\ Leave(c)
  /\ UNCHANGED <<state, instance, remembered, circuit, faults, changes>>

-----------------------------------------------------------------------------
\* Operations of an administrator.

\* activate probes the key first, and so does probe alone, which then ends.
Probe(c, i, k) ==
  /\ calls[c] = Idle /\ instance[i] = "up" /\ changes < MaxChanges
  /\ state[k] \notin {"none", "revoked"} /\ k \in Provided[i]
  /\ changes' = changes + 1
  /\ Ask(c, [pc |-> "read", at |-> i, purpose |-> "activate", key |-> k, tried |-> 0])
  /\ UNCHANGED <<state, instance, remembered, circuit, faults>>

ActivateSigningKey(c) ==
  LET call == calls[c] IN
  /\ call.pc = "probed"
  /\ IF Activatable(call.key)
     THEN /\ Activate(call.key)
          /\ remembered' = [remembered EXCEPT ![call.at] = call.key]
     ELSE UNCHANGED <<state, remembered>>
  /\ Leave(c)
  /\ UNCHANGED <<instance, circuit, faults, changes>>

RetireSigningKey(k) ==
  /\ changes < MaxChanges
  /\ state[k] \in {"standby", "retired"}
  /\ state' = [state EXCEPT ![k] = "retired"]
  /\ changes' = changes + 1
  /\ UNCHANGED <<instance, remembered, signing>>

\* revoke: that the replacement has a provider is looked at for a key that is active
\* when it is read.
BeginRevoke(c, i, k, r) ==
  /\ calls[c] = Idle /\ instance[i] = "up" /\ changes < MaxChanges
  /\ state[k] # "none"
  /\ k \in Active => r \in Provided[i]
  /\ changes' = changes + 1
  /\ Become(c, [pc |-> "revoking", at |-> i, key |-> k, replacement |-> r, active |-> k \in Active])
  /\ UNCHANGED <<state, instance, remembered, circuit, faults>>

RevokeSigningKey(c) ==
  LET call == calls[c] IN
  /\ call.pc = "revoking"
  /\ IF state[call.key] # "revoked" /\ Replaceable(call)
     THEN /\ Revoke(call)
          /\ remembered' = [remembered EXCEPT ![call.at] =
               IF NeedsReplacement(call) THEN call.replacement ELSE CHOOSE k \in Active : TRUE]
     ELSE UNCHANGED <<state, remembered>>
  /\ Leave(c)
  /\ UNCHANGED <<instance, circuit, faults, changes>>

-----------------------------------------------------------------------------
Start(i) == Register(i) \/ ReadRecords(i) \/ ActivatePreferred(i)
Request(i) == \E c \in Callers : BeginSign(c, i)
Proceed(c) ==
  \/ ReadActive(c) \/ Answer(c) \/ Deliver(c)
  \/ ActivateSigningKey(c) \/ RevokeSigningKey(c)

Next ==
  \/ \E i \in Instances : Start(i) \/ Stop(i) \/ Request(i)
  \/ \E c \in Callers : Proceed(c) \/ Fail(c)
  \/ \E i \in Instances, k \in Keys : CircuitCloses(i, k)
  \/ \E k \in Keys : RetireSigningKey(k)
  \/ \E c \in Callers, i \in Instances, k \in Keys :
       \/ Probe(c, i, k)
       \/ \E r \in Keys \cup {None} : BeginRevoke(c, i, k, r)

\* Requests keep coming to every instance, and calls have timeouts.
Spec ==
  /\ Init /\ [][Next]_vars
  /\ \A i \in Instances : SF_vars(Request(i)) /\ WF_vars(Start(i))
  /\ \A c \in Callers : WF_vars(Proceed(c))
  /\ \A i \in Instances, k \in Keys : WF_vars(CircuitCloses(i, k))

-----------------------------------------------------------------------------
\* From the first activation on there is one active key, although an activation may
\* overtake the revocation that had read what to replace (revokeSigningKey,
\* activateSigningKey).
OneActiveAlways == [][Active # {} => \E k \in Keys : Active' = {k}]_vars

\* An instance that is up does not stay cut off from the active key by failures that
\* are over (RemoteEd25519Signer.sign, AwsKmsEd25519Signer.sign).
SignsAgain ==
  \A i \in Instances, k \in Keys :
    []<>(instance[i] = "up" /\ state[k] = "active" => circuit[i][k].failures < Threshold)
=============================================================================
