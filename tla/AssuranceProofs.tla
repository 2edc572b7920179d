---------------------------- MODULE AssuranceProofs ---------------------------
(* Theorems about what others rely on this installation for: about           *)
(* SigningKeys, for all keys, instances, providers, calls and regions and    *)
(* any number of changes and failures; about WatchedChain, for any messages  *)
(* and workers of the outbox and any workers, corruption and backups of the  *)
(* chain; and about IndependentWitness, for any receipts, workers and losses. *)
EXTENDS SigningKeys, WatchedChain, IndependentWitness, SequenceTheorems, TLAPS

-----------------------------------------------------------------------------
(* The inductive invariant.                                                  *)

States == {"none", "standby", "active", "retired", "revoked"}
CircuitType == [failures : Nat, open : BOOLEAN, region : Nat]

CallType ==
  [pc : {"idle"}]
    \cup [pc : {"read"}, at : Instances, revoked : SUBSET Keys]
    \cup [pc : {"asking", "signed"}, at : Instances, purpose : {"sign"}, key : Keys, tried : Nat,
          revoked : SUBSET Keys]
    \cup [pc : {"asking", "probed"}, at : Instances, purpose : {"activate"}, key : Keys, tried : Nat]
    \cup [pc : {"revoking"}, at : Instances, key : Keys, replacement : Keys \cup {None},
          active : BOOLEAN]

TypeOK ==
  /\ state \in [Keys -> States]
  /\ instance \in [Instances -> {"down", "registered", "preferring", "up"}]
  /\ remembered \in [Instances -> Keys \cup {None}]
  /\ calls \in [Callers -> CallType]
  /\ circuit \in [Instances -> [Keys -> CircuitType]]
  /\ faults \in Nat /\ changes \in Nat

AtMostOne == \A j, k \in Active : j = k

\* An instance serves, and a call is served, only once a key is active.
ServedWithKey ==
  /\ \A i \in Instances : instance[i] = "up" => Active # {}
  /\ \A c \in Callers : calls[c].pc # "idle" => Active # {}

IInv == TypeOK /\ AtMostOne /\ ServedWithKey

-----------------------------------------------------------------------------
LEMMA InitEstablishes == Init => IInv
<1> SUFFICES ASSUME Init
             PROVE  IInv
  OBVIOUS
<1>1. Closed \in CircuitType /\ Idle \in CallType /\ Idle.pc = "idle"
  BY DEF Closed, CircuitType, Idle, CallType
<1>2. TypeOK
  BY <1>1 DEF Init, TypeOK, States
<1>3. Active = {}
  BY DEF Init, Active
<1> QED
  BY <1>1, <1>2, <1>3 DEF IInv, AtMostOne, ServedWithKey, Init

-----------------------------------------------------------------------------
(* What the transactions do to the active keys.                              *)

OneActive == \E k \in Keys : Active' = {k}

LEMMA ActivateLeavesOne ==
  ASSUME TypeOK, NEW k \in Keys, Activate(k)
  PROVE  state' \in [Keys -> States] /\ Active' = {k}
<1>1. state' \in [Keys -> States]
  BY DEF Activate, TypeOK, States
<1>2. \A x \in Keys : state'[x] = "active" <=> x = k
  BY DEF Activate, Active
<1> QED
  BY <1>1, <1>2 DEF Active

LEMMA SameActive ==
  ASSUME NEW next, state' = next, \A x \in Keys : next[x] = "active" <=> state[x] = "active"
  PROVE  Active' = Active
  BY DEF Active

\* The revocation that is carried out replaces the key that is active by then.
LEMMA RevokeLeavesOne ==
  ASSUME TypeOK, AtMostOne, NEW call, call.key \in Keys, call.replacement \in Keys \cup {None},
         Replaceable(call), Revoke(call)
  PROVE  /\ state' \in [Keys -> States]
         /\ NeedsReplacement(call) => call.replacement \in Keys /\ Active' = {call.replacement}
         /\ ~ NeedsReplacement(call) => Active' = Active
<1>1. state' \in [Keys -> States]
  BY DEF Revoke, TypeOK, States
<1>2. CASE NeedsReplacement(call)
  <2>1. call.replacement \in Keys /\ call.replacement # call.key
    BY <1>2 DEF Replaceable
  <2>2. \A x \in Keys : x # call.key => state[x] # "active"
    BY <1>2 DEF NeedsReplacement, AtMostOne, Active
  <2>3. \A x \in Keys : state'[x] = "active" <=> x = call.replacement
    BY <1>2, <2>1, <2>2 DEF Revoke
  <2> QED
    BY <1>1, <1>2, <2>1, <2>3 DEF Active
<1>3. CASE ~ NeedsReplacement(call)
  <2>1. \A x \in Keys : state'[x] = "active" <=> state[x] = "active"
    BY <1>3 DEF Revoke, NeedsReplacement, Active
  <2> QED
    BY <1>1, <1>3, <2>1 DEF Active
<1> QED
  BY <1>2, <1>3

\* Whatever a step does besides: a key stays active, and one only.
LEMMA KeysStay ==
  ASSUME IInv, Active' = Active \/ OneActive
  PROVE  AtMostOne' /\ (Active # {} => Active' # {})
<1>1. CASE Active' = Active
  BY <1>1 DEF IInv, AtMostOne
<1>2. CASE OneActive
  BY <1>2 DEF OneActive, AtMostOne
<1> QED
  BY <1>1, <1>2

-----------------------------------------------------------------------------
(* The calls.                                                                *)

LEMMA IdleIsCall == Idle \in CallType /\ Idle.pc = "idle"
  BY DEF Idle, CallType

LEMMA CallHolds ==
  ASSUME TypeOK, NEW c \in Callers
  PROVE  /\ calls[c] \in CallType
         /\ calls[c].pc # "idle" => calls[c].at \in Instances
         /\ calls[c].pc = "read" => calls[c].revoked \in SUBSET Keys
         /\ calls[c].pc \in {"asking", "signed", "probed", "revoking"} => calls[c].key \in Keys
         /\ calls[c].pc = "asking" => calls[c].tried \in Nat
         /\ calls[c].pc = "revoking" => calls[c].replacement \in Keys \cup {None}
<1>1. calls[c] \in CallType
  BY DEF TypeOK
<1> QED
  BY <1>1 DEF CallType

\* One call goes on, or begins where an instance serves, while keys stay active.
LEMMA CallStep ==
  ASSUME IInv, UNCHANGED instance, NEW c \in Callers, NEW call \in CallType, Become(c, call),
         Active' = Active \/ OneActive,
         call.pc # "idle" => Active # {}
  PROVE  calls' \in [Callers -> CallType] /\ AtMostOne' /\ ServedWithKey'
<1>1. AtMostOne' /\ (Active # {} => Active' # {})
  BY KeysStay
<1>2. /\ calls' \in [Callers -> CallType] /\ calls'[c] = call
      /\ \A d \in Callers : d # c => calls'[d] = calls[d]
  BY DEF Become, IInv, TypeOK
<1>3. \A d \in Callers : calls'[d].pc # "idle" => Active' # {}
  BY <1>1, <1>2 DEF IInv, ServedWithKey
<1>4. \A i \in Instances : instance'[i] = "up" => Active' # {}
  BY <1>1 DEF IInv, ServedWithKey
<1> QED
  BY <1>1, <1>2, <1>3, <1>4 DEF ServedWithKey

\* A provider is asked or is not, for a call that has the form.
LEMMA AskStep ==
  ASSUME IInv, UNCHANGED <<state, instance>>, NEW c \in Callers, NEW call,
         [call EXCEPT !.pc = "asking"] \in CallType, Ask(c, call), Active # {}
  PROVE  calls' \in [Callers -> CallType] /\ AtMostOne' /\ ServedWithKey'
<1>1. Active' = Active
  BY DEF Active
<1>2. CASE Leave(c)
  <2>1. Become(c, Idle)
    BY <1>2 DEF Leave, Become
  <2> QED
    BY <1>1, <2>1, IdleIsCall, CallStep
<1>3. CASE Become(c, [call EXCEPT !.pc = "asking"])
  BY <1>1, <1>3, CallStep
<1> QED
  BY <1>2, <1>3 DEF Ask

LEMMA CircuitStep ==
  ASSUME TypeOK, NEW i \in Instances, NEW k \in Keys, NEW z \in CircuitType
  PROVE  [circuit EXCEPT ![i][k] = z] \in [Instances -> [Keys -> CircuitType]]
<1>1. circuit[i] \in [Keys -> CircuitType]
  BY DEF TypeOK
<1>2. [circuit[i] EXCEPT ![k] = z] \in [Keys -> CircuitType]
  BY <1>1
<1> QED
  BY <1>2 DEF TypeOK

-----------------------------------------------------------------------------
(* One lemma per action, or per few that change the same.                    *)

LEMMA StartStep ==
  ASSUME IInv, NEW i \in Instances, Start(i)
  PROVE  IInv' /\ (Active # {} => OneActive)
<1>1. UNCHANGED <<calls, circuit, faults, changes>>
  BY DEF Start, Register, ReadRecords, ActivatePreferred, signing
<1>2. CASE Register(i)
  <2>1. state' \in [Keys -> States] /\ \A x \in Keys : state'[x] = "active" <=> state[x] = "active"
    BY <1>2 DEF Register, IInv, TypeOK, States
  <2>2. Active' = Active
    BY <2>1 DEF Active
  <2>3. TypeOK'
    BY <1>1, <1>2, <2>1 DEF Register, IInv, TypeOK
  <2>4. \A j \in Instances : instance'[j] = "up" => instance[j] = "up"
    BY <1>2 DEF Register, IInv, TypeOK
  <2> QED
    BY <1>1, <2>2, <2>3, <2>4 DEF IInv, AtMostOne, ServedWithKey, OneActive, Active
<1>3. CASE ReadRecords(i)
  <2>1. Active' = Active /\ state' = state
    BY <1>3 DEF ReadRecords, Active
  <2>2. TypeOK'
    BY <1>1, <1>3, <2>1 DEF ReadRecords, IInv, TypeOK, Active
  <2>3. \A j \in Instances : instance'[j] = "up" => instance[j] = "up" \/ Active # {}
    BY <1>3 DEF ReadRecords, IInv, TypeOK
  <2> QED
    BY <1>1, <2>1, <2>2, <2>3 DEF IInv, AtMostOne, ServedWithKey, OneActive, Active
<1>4. CASE ActivatePreferred(i)
  <2>1. CASE Activate(Preferred[i])
    <3>1. Preferred[i] \in Keys
      BY SigningAssumption
    <3>2. state' \in [Keys -> States] /\ Active' = {Preferred[i]}
      BY <2>1, <3>1, ActivateLeavesOne DEF IInv
    <3>3. TypeOK'
      BY <1>1, <1>4, <3>1, <3>2 DEF ActivatePreferred, IInv, TypeOK
    <3> QED
      BY <3>1, <3>2, <3>3 DEF IInv, AtMostOne, ServedWithKey, OneActive
  <2>2. CASE ~ Activate(Preferred[i])
    <3>1. UNCHANGED <<state, remembered>> /\ instance' = [instance EXCEPT ![i] = "down"]
      BY <1>4, <2>2 DEF ActivatePreferred
    <3>2. Active' = Active
      BY <3>1 DEF Active
    <3>3. TypeOK'
      BY <1>1, <3>1 DEF IInv, TypeOK
    <3>4. \A j \in Instances : instance'[j] = "up" => instance[j] = "up"
      BY <3>1 DEF IInv, TypeOK
    <3> QED
      BY <1>1, <3>2, <3>3, <3>4 DEF IInv, AtMostOne, ServedWithKey, OneActive, Active
  <2> QED
    BY <2>1, <2>2
<1> QED
  BY <1>2, <1>3, <1>4 DEF Start

LEMMA StopStep ==
  ASSUME IInv, NEW i \in Instances, Stop(i)
  PROVE  IInv' /\ Active' = Active
<1>1. UNCHANGED <<state, remembered, faults>> /\ changes' = changes + 1
  BY DEF Stop
<1>2. Active' = Active
  BY <1>1 DEF Active
<1>3. Closed \in CircuitType
  BY DEF Closed, CircuitType
<1>4. circuit' \in [Instances -> [Keys -> CircuitType]]
  BY <1>3 DEF Stop, IInv, TypeOK
<1>5. /\ calls' \in [Callers -> CallType]
      /\ \A c \in Callers : calls'[c].pc # "idle" => calls[c].pc # "idle"
  BY IdleIsCall DEF Stop, IInv, TypeOK
<1>6. /\ instance' \in [Instances -> {"down", "registered", "preferring", "up"}]
      /\ \A j \in Instances : instance'[j] = "up" => instance[j] = "up"
  BY DEF Stop, IInv, TypeOK
<1>7. TypeOK'
  BY <1>1, <1>4, <1>5, <1>6 DEF IInv, TypeOK
<1> QED
  BY <1>2, <1>5, <1>6, <1>7 DEF IInv, AtMostOne, ServedWithKey

LEMMA RequestStep ==
  ASSUME IInv, NEW c \in Callers, NEW i \in Instances, BeginSign(c, i)
  PROVE  IInv' /\ Active' = Active
<1> DEFINE call == [pc |-> "read", at |-> i, revoked |-> Revoked]
<1>1. Become(c, call) /\ instance[i] = "up"
      /\ UNCHANGED <<state, instance, remembered, circuit, faults, changes>>
  BY DEF BeginSign
<1>2. call \in CallType
  BY DEF CallType, Revoked
<1>3. Active' = Active /\ Active # {}
  BY <1>1 DEF Active, IInv, ServedWithKey
<1>4. calls' \in [Callers -> CallType] /\ AtMostOne' /\ ServedWithKey'
  <2> HIDE DEF call
  <2> QED
    BY <1>1, <1>2, <1>3, CallStep
<1> QED
  BY <1>1, <1>3, <1>4 DEF IInv, TypeOK

LEMMA ReadActiveStep ==
  ASSUME IInv, NEW c \in Callers, ReadActive(c)
  PROVE  IInv' /\ Active' = Active
<1>1. calls[c].pc = "read" /\ UNCHANGED <<state, instance, circuit, faults, changes>>
  BY DEF ReadActive
<1>2. /\ calls[c].at \in Instances /\ calls[c].revoked \in SUBSET Keys
      /\ Active' = Active /\ Active # {}
  BY <1>1, CallHolds DEF Active, IInv, ServedWithKey
<1>3. PICK k \in Active :
        IF k \in Provided[calls[c].at]
        THEN /\ remembered' = [remembered EXCEPT ![calls[c].at] = k]
             /\ Ask(c, [pc |-> "read", at |-> calls[c].at, purpose |-> "sign", key |-> k,
                        tried |-> 0, revoked |-> calls[c].revoked])
        ELSE Leave(c) /\ UNCHANGED remembered
  BY DEF ReadActive, ActiveFor
<1>4. k \in Keys
  BY DEF Active
<1>5. remembered' \in [Instances -> Keys \cup {None}]
  BY <1>2, <1>3, <1>4 DEF IInv, TypeOK
<1>6. calls' \in [Callers -> CallType] /\ AtMostOne' /\ ServedWithKey'
  <2> DEFINE call == [pc |-> "read", at |-> calls[c].at, purpose |-> "sign", key |-> k,
                      tried |-> 0, revoked |-> calls[c].revoked]
  <2>1. CASE Leave(c)
    <3>1. Become(c, Idle)
      BY <2>1 DEF Leave, Become
    <3> QED
      BY <1>1, <1>2, <3>1, IdleIsCall, CallStep
  <2>2. CASE Ask(c, call)
    <3>1. [call EXCEPT !.pc = "asking"] \in CallType
      BY <1>2, <1>4 DEF CallType
    <3> HIDE DEF call
    <3> QED
      BY <1>1, <1>2, <2>2, <3>1, AskStep
  <2> QED
    BY <1>3, <2>1, <2>2
<1> QED
  BY <1>1, <1>2, <1>5, <1>6 DEF IInv, TypeOK

LEMMA AnswerStep ==
  ASSUME IInv, NEW c \in Callers, Answer(c) \/ Fail(c) \/ Deliver(c)
  PROVE  IInv' /\ Active' = Active
<1>1. calls[c].pc \in {"asking", "signed"} /\ UNCHANGED <<state, instance, remembered, changes>>
  BY DEF Answer, Fail, Deliver
<1>2. /\ calls[c] \in CallType /\ calls[c].at \in Instances /\ calls[c].key \in Keys
      /\ Active' = Active /\ Active # {}
      /\ calls[c].pc = "asking" => calls[c].tried \in Nat
  BY <1>1, CallHolds DEF Active, IInv, ServedWithKey
<1>3. circuit[calls[c].at][calls[c].key] \in CircuitType
  BY <1>2 DEF IInv, TypeOK
<1>4. Regions[calls[c].key] \in Nat \ {0}
  BY <1>2, SigningAssumption
<1>5. ASSUME Leave(c)
      PROVE  calls' \in [Callers -> CallType] /\ AtMostOne' /\ ServedWithKey'
  <2>1. Become(c, Idle)
    BY <1>5 DEF Leave, Become
  <2> QED
    BY <1>1, <1>2, <2>1, IdleIsCall, CallStep
<1>6. CASE Answer(c)
  <2> DEFINE z == [Closed EXCEPT !.region = (Circuit(calls[c]).region + calls[c].tried) % Regions[calls[c].key]]
             call == [calls[c] EXCEPT !.pc = IF calls[c].purpose = "sign" THEN "signed" ELSE "probed"]
  <2>1. z \in CircuitType
    <3>1. (Circuit(calls[c]).region + calls[c].tried) % Regions[calls[c].key] \in Nat
      <4>1. Circuit(calls[c]).region \in Nat /\ calls[c].tried \in Nat
        BY <1>2, <1>3, <1>6 DEF Answer, Circuit, CircuitType
      <4>2. Circuit(calls[c]).region + calls[c].tried \in Nat
        BY <4>1
      <4>3. \A a \in Nat, n \in Nat \ {0} : a % n \in Nat
        OBVIOUS
      <4> QED
        BY <1>4, <4>2, <4>3
    <3> QED
      BY <3>1 DEF Closed, CircuitType
  <2>2. call \in CallType
    BY <1>2, <1>6 DEF Answer, CallType
  <2>3. Become(c, call) /\ faults' = faults /\ SetCircuit(calls[c], z)
    BY <1>6 DEF Answer
  <2> HIDE DEF z, call
  <2>4. circuit' \in [Instances -> [Keys -> CircuitType]]
    BY <1>2, <2>1, <2>3, CircuitStep DEF SetCircuit, IInv
  <2>5. calls' \in [Callers -> CallType] /\ AtMostOne' /\ ServedWithKey'
    BY <1>1, <1>2, <2>2, <2>3, CallStep
  <2> QED
    BY <1>1, <1>2, <2>3, <2>4, <2>5 DEF IInv, TypeOK
<1>7. CASE Fail(c)
  <2>1. CASE faults' = faults /\ circuit' = circuit
    <3> DEFINE call == [calls[c] EXCEPT !.tried = @ + 1]
    <3>1. Become(c, call) \/ Leave(c)
      BY <1>7 DEF Fail
    <3>2. call \in CallType
      BY <1>2, <1>7 DEF Fail, CallType
    <3> HIDE DEF call
    <3>3. calls' \in [Callers -> CallType] /\ AtMostOne' /\ ServedWithKey'
      BY <1>1, <1>2, <1>5, <3>1, <3>2, CallStep
    <3> QED
      BY <1>1, <1>2, <2>1, <3>3 DEF IInv, TypeOK
  <2>2. CASE ~ (faults' = faults /\ circuit' = circuit)
    <3> DEFINE y == Circuit(calls[c])
               u == [y EXCEPT !.failures = @ + 1]
               z == [u EXCEPT !.open = @ \/ y.failures + 1 >= Threshold]
    <3>1. Leave(c) /\ faults' = faults + 1 /\ SetCircuit(calls[c], z)
      BY <1>7, <2>2 DEF Fail
    <3>2. u \in CircuitType
      BY <1>3 DEF CircuitType, Circuit
    <3> HIDE DEF u
    <3>3. z \in CircuitType
      BY <3>2 DEF CircuitType
    <3> HIDE DEF z
    <3>4. circuit' \in [Instances -> [Keys -> CircuitType]]
      BY <1>2, <3>1, <3>3, CircuitStep DEF SetCircuit, IInv
    <3> QED
      BY <1>1, <1>2, <1>5, <3>1, <3>4 DEF IInv, TypeOK
  <2> QED
    BY <2>1, <2>2
<1>8. CASE Deliver(c)
  BY <1>1, <1>2, <1>5, <1>8 DEF Deliver, IInv, TypeOK
<1> QED
  BY <1>6, <1>7, <1>8

LEMMA CircuitClosesStep ==
  ASSUME IInv, NEW i \in Instances, NEW k \in Keys, CircuitCloses(i, k)
  PROVE  IInv' /\ Active' = Active
<1>1. UNCHANGED <<state, instance, remembered, calls, faults, changes>>
  BY DEF CircuitCloses
<1> DEFINE z == [circuit[i][k] EXCEPT !.open = FALSE]
<1>2. circuit' = [circuit EXCEPT ![i][k] = z]
  BY DEF CircuitCloses
<1>3. circuit[i][k] \in CircuitType
  BY DEF IInv, TypeOK
<1>4. z \in CircuitType
  BY <1>3 DEF CircuitType
<1>5. circuit' \in [Instances -> [Keys -> CircuitType]]
  <2> HIDE DEF z
  <2> QED
    BY <1>2, <1>4, CircuitStep DEF IInv
<1>6. Active' = Active
  BY <1>1 DEF Active
<1> QED
  BY <1>1, <1>5, <1>6 DEF IInv, TypeOK, AtMostOne, ServedWithKey

LEMMA ProbeStep ==
  ASSUME IInv, NEW c \in Callers, NEW i \in Instances, NEW k \in Keys, Probe(c, i, k)
  PROVE  IInv' /\ Active' = Active
<1> DEFINE call == [pc |-> "read", at |-> i, purpose |-> "activate", key |-> k, tried |-> 0]
<1>1. /\ Ask(c, call) /\ instance[i] = "up" /\ changes' = changes + 1
      /\ UNCHANGED <<state, instance, remembered, circuit, faults>>
  BY DEF Probe
<1>2. [call EXCEPT !.pc = "asking"] \in CallType
  BY DEF CallType
<1>3. Active' = Active /\ Active # {}
  BY <1>1 DEF Active, IInv, ServedWithKey
<1>4. calls' \in [Callers -> CallType] /\ AtMostOne' /\ ServedWithKey'
  <2> HIDE DEF call
  <2> QED
    BY <1>1, <1>2, <1>3, AskStep
<1> QED
  BY <1>1, <1>3, <1>4 DEF IInv, TypeOK

LEMMA ActivateStep ==
  ASSUME IInv, NEW c \in Callers, ActivateSigningKey(c)
  PROVE  IInv' /\ (Active' = Active \/ OneActive)
<1>1. calls[c].pc = "probed" /\ Leave(c) /\ UNCHANGED <<instance, circuit, faults, changes>>
  BY DEF ActivateSigningKey
<1>2. calls[c].at \in Instances /\ calls[c].key \in Keys
  BY <1>1, CallHolds DEF IInv
<1>3. Become(c, Idle)
  BY <1>1 DEF Leave, Become
<1>4. /\ Active' = Active \/ OneActive
      /\ state' \in [Keys -> States] /\ remembered' \in [Instances -> Keys \cup {None}]
  <2>1. CASE Activatable(calls[c].key)
    <3>1. Activate(calls[c].key)
          /\ remembered' = [remembered EXCEPT ![calls[c].at] = calls[c].key]
      BY <2>1 DEF ActivateSigningKey
    <3>2. state' \in [Keys -> States] /\ Active' = {calls[c].key}
      BY <1>2, <3>1, ActivateLeavesOne DEF IInv
    <3> QED
      BY <1>2, <3>1, <3>2 DEF OneActive, IInv, TypeOK
  <2>2. CASE ~ Activatable(calls[c].key)
    BY <2>2 DEF ActivateSigningKey, Active, IInv, TypeOK
  <2> QED
    BY <2>1, <2>2
<1>5. calls' \in [Callers -> CallType] /\ AtMostOne' /\ ServedWithKey'
  BY <1>1, <1>3, <1>4, IdleIsCall, CallStep
<1> QED
  BY <1>1, <1>4, <1>5 DEF IInv, TypeOK

LEMMA RetireStep ==
  ASSUME IInv, NEW k \in Keys, RetireSigningKey(k)
  PROVE  IInv' /\ Active' = Active
<1>1. UNCHANGED <<instance, remembered, calls, circuit, faults>> /\ changes' = changes + 1
  BY DEF RetireSigningKey, signing
<1>2. /\ state' \in [Keys -> States]
      /\ \A x \in Keys : state'[x] = "active" <=> state[x] = "active"
  BY DEF RetireSigningKey, IInv, TypeOK, States
<1>3. Active' = Active
  BY <1>2 DEF Active
<1> QED
  BY <1>1, <1>2, <1>3 DEF IInv, TypeOK, AtMostOne, ServedWithKey

LEMMA BeginRevokeStep ==
  ASSUME IInv, NEW c \in Callers, NEW i \in Instances, NEW k \in Keys,
         NEW r \in Keys \cup {None}, BeginRevoke(c, i, k, r)
  PROVE  IInv' /\ Active' = Active
<1> DEFINE call == [pc |-> "revoking", at |-> i, key |-> k, replacement |-> r,
                    active |-> k \in Active]
<1>1. /\ Become(c, call) /\ instance[i] = "up" /\ changes' = changes + 1
      /\ UNCHANGED <<state, instance, remembered, circuit, faults>>
  BY DEF BeginRevoke
<1>2. call \in CallType
  <2>1. (k \in Active) \in BOOLEAN
    OBVIOUS
  <2> QED
    BY <2>1 DEF CallType
<1>3. Active' = Active /\ Active # {}
  BY <1>1 DEF Active, IInv, ServedWithKey
<1>4. calls' \in [Callers -> CallType] /\ AtMostOne' /\ ServedWithKey'
  <2> HIDE DEF call
  <2> QED
    BY <1>1, <1>2, <1>3, CallStep
<1> QED
  BY <1>1, <1>3, <1>4 DEF IInv, TypeOK

LEMMA RevokeStep ==
  ASSUME IInv, NEW c \in Callers, RevokeSigningKey(c)
  PROVE  IInv' /\ (Active' = Active \/ OneActive)
<1>1. calls[c].pc = "revoking" /\ Leave(c) /\ UNCHANGED <<instance, circuit, faults, changes>>
  BY DEF RevokeSigningKey
<1>2. /\ calls[c].at \in Instances /\ calls[c].key \in Keys
      /\ calls[c].replacement \in Keys \cup {None}
  BY <1>1, CallHolds DEF IInv
<1>3. Become(c, Idle)
  BY <1>1 DEF Leave, Become
<1>4. Active # {}
  BY <1>1 DEF IInv, ServedWithKey
<1>5. /\ Active' = Active \/ OneActive
      /\ state' \in [Keys -> States] /\ remembered' \in [Instances -> Keys \cup {None}]
  <2>1. CASE state[calls[c].key] # "revoked" /\ Replaceable(calls[c])
    <3> DEFINE next == IF NeedsReplacement(calls[c]) THEN calls[c].replacement
                       ELSE CHOOSE k \in Active : TRUE
    <3>1. Revoke(calls[c]) /\ remembered' = [remembered EXCEPT ![calls[c].at] = next]
      BY <2>1 DEF RevokeSigningKey
    <3>2. /\ state' \in [Keys -> States]
          /\ NeedsReplacement(calls[c]) =>
               calls[c].replacement \in Keys /\ Active' = {calls[c].replacement}
          /\ ~ NeedsReplacement(calls[c]) => Active' = Active
      BY <1>2, <2>1, <3>1, RevokeLeavesOne DEF IInv
    <3>3. (CHOOSE k \in Active : TRUE) \in Keys
      BY <1>4 DEF Active
    <3>4. next \in Keys
      BY <3>2, <3>3
    <3> HIDE DEF next
    <3>5. remembered' \in [Instances -> Keys \cup {None}]
      BY <1>2, <3>1, <3>4 DEF IInv, TypeOK
    <3> QED
      BY <3>2, <3>5 DEF OneActive
  <2>2. CASE ~ (state[calls[c].key] # "revoked" /\ Replaceable(calls[c]))
    <3>1. UNCHANGED <<state, remembered>>
      BY <2>2 DEF RevokeSigningKey
    <3> QED
      BY <3>1 DEF Active, IInv, TypeOK
  <2> QED
    BY <2>1, <2>2
<1>6. calls' \in [Callers -> CallType] /\ AtMostOne' /\ ServedWithKey'
  BY <1>1, <1>3, <1>5, IdleIsCall, CallStep
<1> QED
  BY <1>1, <1>5, <1>6 DEF IInv, TypeOK

-----------------------------------------------------------------------------
(* The theorems.                                                             *)

LEMMA NextPreserves ==
  ASSUME IInv, [Next]_vars
  PROVE  IInv' /\ (Active # {} => \E k \in Keys : Active' = {k})
<1>1. Active # {} => \E k \in Keys : Active = {k}
  BY DEF IInv, AtMostOne, Active
<1>2. CASE UNCHANGED vars
  <2>1. Active' = Active
    BY <1>2 DEF vars, Active
  <2> QED
    BY <1>1, <1>2, <2>1 DEF vars, signing, IInv, TypeOK, AtMostOne, ServedWithKey
<1>3. CASE Next
  <2>1. ASSUME NEW i \in Instances, Start(i) \/ Stop(i) \/ Request(i)
        PROVE  IInv' /\ (Active # {} => \E k \in Keys : Active' = {k})
    BY <1>1, <2>1, StartStep, StopStep, RequestStep DEF Request, OneActive
  <2>2. ASSUME NEW c \in Callers, Proceed(c) \/ Fail(c)
        PROVE  IInv' /\ (Active # {} => \E k \in Keys : Active' = {k})
    BY <1>1, <2>2, ReadActiveStep, AnswerStep, ActivateStep, RevokeStep DEF Proceed, OneActive
  <2>3. ASSUME NEW i \in Instances, NEW k \in Keys, CircuitCloses(i, k)
        PROVE  IInv' /\ (Active # {} => \E j \in Keys : Active' = {j})
    BY <1>1, <2>3, CircuitClosesStep
  <2>4. ASSUME NEW k \in Keys, RetireSigningKey(k)
        PROVE  IInv' /\ (Active # {} => \E j \in Keys : Active' = {j})
    BY <1>1, <2>4, RetireStep
  <2>5. ASSUME NEW c \in Callers, NEW i \in Instances, NEW k \in Keys,
               Probe(c, i, k) \/ \E r \in Keys \cup {None} : BeginRevoke(c, i, k, r)
        PROVE  IInv' /\ (Active # {} => \E j \in Keys : Active' = {j})
    BY <1>1, <2>5, ProbeStep, BeginRevokeStep
  <2> QED
    BY <1>3, <2>1, <2>2, <2>3, <2>4, <2>5 DEF Next
<1> QED
  BY <1>2, <1>3

LEMMA SpecSteps == Spec => Init /\ [][Next]_vars
  BY PTL DEF Spec

\* Types, at most one active key, and an active key as long as an instance serves
\* (activateSigningKey, revokeSigningKey, ManagedSigningKeyring.create).
THEOREM KeysInvariant == Spec => []IInv
<1>1. IInv /\ [Next]_vars => IInv'
  BY NextPreserves
<1> QED
  BY <1>1, InitEstablishes, SpecSteps, PTL

\* Once a key is active every step leaves exactly one that is, whatever was read before
\* the transaction that changes it (activateSigningKey, revokeSigningKey).
THEOREM OneKeyActive == Spec => OneActiveAlways
<1>1. IInv /\ [Next]_vars => [Active # {} => \E k \in Keys : Active' = {k}]_vars
  BY NextPreserves
<1> QED
  BY <1>1, KeysInvariant, SpecSteps, PTL DEF OneActiveAlways

-----------------------------------------------------------------------------
(* The outbox.                                                               *)

OutboxRow ==
  [status : {"pending", "retrying", "delivering", "delivered", "failed"},
   attempts : Nat, claim : Nat, due : BOOLEAN]

OutboxTypeOK ==
  /\ row \in [Messages -> OutboxRow \cup {NoRow}]
  /\ sender = [w \in Senders |-> sender[w]]

LEMMA OutboxInit == Outbox!Init => OutboxTypeOK
  BY DEF Outbox!Init, OutboxTypeOK

\* A step changes the row of one message at most, and to a row or none.
LEMMA OneRowChanges ==
  ASSUME OutboxTypeOK, NEW m, NEW r \in OutboxRow \cup {NoRow}, row' = [row EXCEPT ![m] = r]
  PROVE  /\ row' \in [Messages -> OutboxRow \cup {NoRow}]
         /\ \A n \in Messages : row'[n] = IF n = m THEN r ELSE row[n]
  BY DEF OutboxTypeOK

\* Whom a row is with when it is settled.
Settled(m) ==
  (row[m] # NoRow /\ row'[m] # NoRow /\ row[m].status = "delivering" /\ row'[m].status # "delivering")
    => \E w \in Outbox!Holder(m) : sender'[w] = Outbox!Idle

OutboxMoves == OutboxTypeOK' /\ \A m \in Messages : Settled(m)

\* A step that leaves what is being delivered as it is.
LEMMA DeliveryLeft ==
  ASSUME OutboxTypeOK, NEW m \in Messages, NEW r \in OutboxRow \cup {NoRow},
         row' = [row EXCEPT ![m] = r],
         r = NoRow \/ row[m] = NoRow \/ row[m].status # "delivering" \/ r.status = "delivering",
         UNCHANGED sender \/ \E w, new : sender' = [sender EXCEPT ![w] = new]
  PROVE  OutboxMoves
<1>1. row' \in [Messages -> OutboxRow \cup {NoRow}]
  BY OneRowChanges
<1>2. ASSUME NEW n \in Messages PROVE Settled(n)
  BY OneRowChanges DEF Settled
<1>3. sender' = [w \in Senders |-> sender'[w]]
  BY DEF OutboxTypeOK
<1> QED
  BY <1>1, <1>2, <1>3 DEF OutboxMoves, OutboxTypeOK

\* A step of a worker that writes no row.
LEMMA RowsLeft ==
  ASSUME OutboxTypeOK, UNCHANGED row,
         UNCHANGED sender \/ \E w, new : sender' = [sender EXCEPT ![w] = new]
  PROVE  OutboxMoves
<1>1. sender' = [w \in Senders |-> sender'[w]]
  BY DEF OutboxTypeOK
<1> QED
  BY <1>1 DEF OutboxMoves, OutboxTypeOK, Settled

LEMMA ClaimMoves ==
  ASSUME OutboxTypeOK, NEW w \in Senders, NEW m \in Messages, Outbox!Claim(w, m)
  PROVE  OutboxMoves
<1>1. row[m] \in OutboxRow
  BY DEF OutboxTypeOK, Outbox!Claim
<1>2. PICK r : r = [row[m] EXCEPT !.status = "delivering", !.attempts = @ + 1,
                                  !.claim = @ + 1, !.due = FALSE]
  OBVIOUS
<1>3. r \in OutboxRow /\ r.status = "delivering"
  <2>1. row[m].attempts + 1 \in Nat /\ row[m].claim + 1 \in Nat
    BY <1>1 DEF OutboxRow
  <2>2. r = [status |-> "delivering", attempts |-> row[m].attempts + 1,
             claim |-> row[m].claim + 1, due |-> FALSE]
    BY <1>1, <1>2 DEF OutboxRow
  <2> QED
    BY <2>1, <2>2 DEF OutboxRow
<1>4. row' = [row EXCEPT ![m] = r]
  BY <1>2 DEF Outbox!Claim
<1>5. \E new : sender' = [sender EXCEPT ![w] = new]
  BY DEF Outbox!Claim, Outbox!Resume
<1> QED
  BY <1>3, <1>4, <1>5, DeliveryLeft

\* What administrators, the source of messages and time do to a row.
LEMMA OthersMove ==
  ASSUME OutboxTypeOK, NEW m \in Messages,
         \/ Outbox!Enqueue(m) \/ Outbox!Retry(m) \/ Outbox!Prune(m)
         \/ Outbox!BecomeDue(m) \/ Outbox!ExpireAbandoned(m) \/ Outbox!ExpireHeld(m)
  PROVE  OutboxMoves
<1>1. UNCHANGED sender
  BY DEF Outbox!Enqueue, Outbox!Retry, Outbox!Prune, Outbox!BecomeDue, Outbox!ExpireAbandoned,
     Outbox!ExpireHeld
<1>2. CASE Outbox!Enqueue(m)
  <2>1. PICK r : r = [status |-> "pending", attempts |-> 0, claim |-> 0, due |-> TRUE]
    OBVIOUS
  <2>2. r \in OutboxRow
    BY <2>1 DEF OutboxRow
  <2>3. row' = [row EXCEPT ![m] = r] /\ row[m] = NoRow
    BY <1>2, <2>1 DEF Outbox!Enqueue
  <2> QED
    BY <1>1, <2>2, <2>3, DeliveryLeft
<1>3. CASE Outbox!Retry(m)
  <2>1. PICK r : r = [row[m] EXCEPT !.status = "pending", !.attempts = 0, !.due = TRUE]
    OBVIOUS
  <2>2. r \in OutboxRow
    BY <1>3, <2>1 DEF OutboxRow, OutboxTypeOK, Outbox!Retry
  <2>3. row' = [row EXCEPT ![m] = r] /\ row[m].status # "delivering"
    BY <1>3, <2>1 DEF Outbox!Retry
  <2> QED
    BY <1>1, <2>2, <2>3, DeliveryLeft
<1>4. CASE Outbox!Prune(m)
  BY <1>1, <1>4, DeliveryLeft DEF Outbox!Prune
<1>5. CASE Outbox!BecomeDue(m) \/ Outbox!ExpireAbandoned(m) \/ Outbox!ExpireHeld(m)
  <2>1. PICK r : r = [row[m] EXCEPT !.due = TRUE]
    OBVIOUS
  <2>2. row[m] \in OutboxRow
    BY <1>5 DEF OutboxTypeOK, Outbox!BecomeDue, Outbox!ExpireAbandoned, Outbox!ExpireHeld
  <2>3. r \in OutboxRow /\ r.status = row[m].status
    BY <2>1, <2>2 DEF OutboxRow
  <2>4. row' = [row EXCEPT ![m] = r]
    BY <1>5, <2>1 DEF Outbox!BecomeDue, Outbox!ExpireAbandoned, Outbox!ExpireHeld
  <2> QED
    BY <1>1, <2>3, <2>4, DeliveryLeft
<1> QED
  BY <1>2, <1>3, <1>4, <1>5

\* A worker settles a row whose lease it holds.
LEMMA SettleMoves ==
  ASSUME OutboxTypeOK, NEW w \in Senders, sender[w].pc # "idle", Outbox!LeaseHeld(w),
         NEW status \in {"delivered", "failed", "retrying"},
         Outbox!Settle(sender[w].message, status, FALSE), Outbox!Resume(w, Outbox!Idle)
  PROVE  OutboxMoves
<1>1. PICK m : m = sender[w].message
  OBVIOUS
<1>2. CASE m \in Messages
  <2>1. row[m] \in OutboxRow /\ row[m] # NoRow /\ row[m].claim = sender[w].claim
    BY <1>1, <1>2 DEF OutboxTypeOK, Outbox!LeaseHeld
  <2>2. PICK r : r = [row[m] EXCEPT !.status = status, !.due = FALSE]
    OBVIOUS
  <2>3. r \in OutboxRow
    BY <2>1, <2>2 DEF OutboxRow
  <2>4. row' = [row EXCEPT ![m] = r]
    BY <1>1, <2>2 DEF Outbox!Settle
  <2>5. sender' = [x \in Senders |-> sender'[x]] /\ sender'[w] = Outbox!Idle
    BY DEF Outbox!Resume, OutboxTypeOK
  <2>6. w \in Outbox!Holder(m)
    BY <1>1, <2>1 DEF Outbox!Holder, Outbox!Idle
  <2>7. ASSUME NEW n \in Messages PROVE Settled(n)
    BY <2>3, <2>4, <2>5, <2>6, OneRowChanges DEF Settled
  <2> QED
    BY <2>3, <2>4, <2>5, <2>7, OneRowChanges DEF OutboxMoves, OutboxTypeOK
<1>3. CASE m \notin Messages
  <2>1. UNCHANGED row
    BY <1>1, <1>3 DEF Outbox!Settle, OutboxTypeOK
  <2> QED
    BY <2>1, RowsLeft DEF Outbox!Resume
<1> QED
  BY <1>2, <1>3

LEMMA FinishMoves ==
  ASSUME OutboxTypeOK, NEW w \in Senders, Outbox!Finish(w)
  PROVE  OutboxMoves
<1>1. CASE Outbox!LeaseHeld(w)
  <2>1. Outbox!Resume(w, Outbox!Idle) /\ sender[w].pc # "idle"
    BY <1>1 DEF Outbox!Finish, Outbox!FinishDelivered, Outbox!FinishNotDelivered
  <2>2. \E status \in {"delivered", "failed", "retrying"} :
           Outbox!Settle(sender[w].message, status, FALSE)
    BY <1>1 DEF Outbox!Finish, Outbox!FinishDelivered, Outbox!FinishNotDelivered
  <2> QED
    BY <1>1, <2>1, <2>2, SettleMoves
<1>2. CASE ~ Outbox!LeaseHeld(w)
  <2>1. UNCHANGED row /\ \E new : sender' = [sender EXCEPT ![w] = new]
    BY <1>2 DEF Outbox!Finish, Outbox!FinishDelivered, Outbox!FinishNotDelivered, Outbox!Resume
  <2> QED
    BY <2>1, RowsLeft
<1> QED
  BY <1>1, <1>2

LEMMA OutboxStep == OutboxTypeOK /\ [Outbox!Next]_Outbox!vars => OutboxMoves
<1> SUFFICES ASSUME OutboxTypeOK, [Outbox!Next]_Outbox!vars PROVE OutboxMoves
  OBVIOUS
<1>1. CASE UNCHANGED Outbox!vars
  BY <1>1, RowsLeft DEF Outbox!vars
<1>2. ASSUME NEW m \in Messages, NEW w \in Senders, Outbox!Claim(w, m) PROVE OutboxMoves
  BY <1>2, ClaimMoves
<1>3. ASSUME NEW m \in Messages,
             \/ Outbox!Enqueue(m) \/ Outbox!Retry(m) \/ Outbox!Prune(m)
             \/ Outbox!BecomeDue(m) \/ Outbox!ExpireAbandoned(m) \/ Outbox!ExpireHeld(m)
      PROVE  OutboxMoves
  BY <1>3, OthersMove
<1>4. ASSUME NEW w \in Senders, Outbox!Fail(w) PROVE OutboxMoves
  BY <1>4, RowsLeft DEF Outbox!Fail, Outbox!Resume
<1>5. ASSUME NEW w \in Senders, NEW accepted, NEW answered, Outbox!Deliver(w, accepted, answered)
      PROVE  OutboxMoves
  BY <1>5, RowsLeft DEF Outbox!Deliver, Outbox!Resume
<1>6. ASSUME NEW w \in Senders, Outbox!Finish(w) PROVE OutboxMoves
  BY <1>6, FinishMoves
<1> QED
  BY <1>1, <1>2, <1>3, <1>4, <1>5, <1>6 DEF Outbox!Next

\* A row is settled by the worker that claimed it last, for any number of workers
\* that stop, are late or whose answers are lost (finishAlertDelivery, finishAuditAnchor,
\* finishAuditWitnessEvidence).
THEOREM LatestClaimSettles == Outbox!Spec => OutcomeOfLatestClaim
<1> DEFINE AllSettled == \A m \in Messages : Settled(m)
<1>1. OutboxTypeOK /\ [Outbox!Next]_Outbox!vars => OutboxTypeOK' /\ [AllSettled]_Outbox!vars
  BY OutboxStep DEF OutboxMoves
<1>2. Outbox!Spec => [][AllSettled]_Outbox!vars
  BY <1>1, OutboxInit, PTL DEF Outbox!Spec
<1> QED
  BY <1>2 DEF OutcomeOfLatestClaim, Outbox!OutcomeOfLatestClaim, Settled

-----------------------------------------------------------------------------
(* Sequences whose elements are of no particular set.                        *)

IsSequence(s) == \E S : s \in Seq(S)

LEMMA OneMore ==
  ASSUME NEW s, IsSequence(s), NEW e
  PROVE  /\ IsSequence(Append(s, e))
         /\ Len(s) \in Nat /\ Len(Append(s, e)) = Len(s) + 1
         /\ \A i \in 1 .. Len(s) : Append(s, e)[i] = s[i]
         /\ Append(s, e)[Len(s) + 1] = e
<1>1. PICK S : s \in Seq(S)
  BY DEF IsSequence
<1>2. s \in Seq(S \cup {e}) /\ e \in S \cup {e}
  BY <1>1
<1> HIDE <1>1
<1>3. Append(s, e) \in Seq(S \cup {e})
  BY <1>2
<1>4. IsSequence(Append(s, e))
  BY <1>3 DEF IsSequence
<1> QED
  BY <1>2, <1>4

LEMMA OneReplaced ==
  ASSUME NEW s, IsSequence(s), NEW n \in 1 .. Len(s), NEW e
  PROVE  /\ IsSequence([s EXCEPT ![n] = e])
         /\ Len([s EXCEPT ![n] = e]) = Len(s)
         /\ \A i \in 1 .. Len(s) : [s EXCEPT ![n] = e][i] = IF i = n THEN e ELSE s[i]
<1>1. PICK S : s \in Seq(S)
  BY DEF IsSequence
<1>2. s \in Seq(S \cup {e}) /\ e \in S \cup {e}
  BY <1>1
<1> HIDE <1>1
<1>3. [s EXCEPT ![n] = e] \in Seq(S \cup {e}) /\ Len([s EXCEPT ![n] = e]) = Len(s)
  BY <1>2
<1> QED
  BY <1>2, <1>3 DEF IsSequence

-----------------------------------------------------------------------------
(* The chain: what is true of it however it is changed.                      *)

Genuine(n, hash) == [last |-> n, hash |-> hash] \in genuine

\* A row that is there has the hash that it was written with.
ChainShape ==
  /\ IsSequence(event) /\ head.last \in Nat /\ Len(event) = head.last
  /\ head = [last |-> head.last, hash |-> head.hash]
  /\ \A n \in 1 .. head.last : event[n] # NoRow =>
       event[n] = [previous |-> event[n].previous, content |-> event[n].content,
                   hash |-> <<event[n].previous, n, "event">>]

\* The heads there have been are of rows that were written, and a row that continues
\* one of them leads to one of them.
GenuineSound ==
  /\ Genuine(0, <<>>)
  /\ \A g \in genuine : g.last \in 0 .. head.last /\ g = [last |-> g.last, hash |-> g.hash]
  /\ \A g \in genuine : g.last # 0 => \E hash : g.hash = <<hash, g.last, "event">>
  /\ \A n \in 1 .. head.last :
       event[n] # NoRow /\ Genuine(n - 1, event[n].previous) => Genuine(n, event[n].hash)

HashAt(n) == IF n = 0 THEN <<>> ELSE event[n].hash

\* As long as nothing was changed, each row continues the one before it.
Chained ==
  ~ Recovery!Corrupted =>
    /\ head.hash = HashAt(head.last)
    /\ \A n \in 1 .. head.last : event[n].previous = HashAt(n - 1)

ChainOK == ChainShape /\ GenuineSound /\ Chained

\* What a step leaves of what others have read.
Onward ==
  /\ ChainOK'
  /\ head.last <= head'.last
  /\ genuine \subseteq genuine'
  /\ Recovery!Corrupted => Recovery!Corrupted'
  /\ ~ Recovery!Corrupted' => \A n \in 0 .. head.last : HashAt(n)' = HashAt(n)

LEMMA UntouchedChain == ChainOK /\ UNCHANGED Recovery!chain => Onward
  BY DEF Onward, ChainOK, ChainShape, GenuineSound, Chained, Genuine, HashAt, Recovery!chain,
     Recovery!Corrupted

\* The row and the head that an event adds.
LEMMA Appended ==
  ASSUME ChainOK, Recovery!AppendChainedAuditEvent
  PROVE  LET n == head.last + 1 hash == <<head.hash, n, "event">> IN
         /\ IsSequence(event') /\ Len(event') = n
         /\ \A i \in 1 .. head.last : event'[i] = event[i]
         /\ event'[n] = [previous |-> head.hash, content |-> "event", hash |-> hash]
         /\ head' = [last |-> n, hash |-> hash]
         /\ genuine' = IF head \in genuine THEN genuine \cup {head'} ELSE genuine
<1>1. PICK new : new = [previous |-> head.hash, content |-> "event",
                        hash |-> <<head.hash, head.last + 1, "event">>]
  OBVIOUS
<1>2. /\ event' = Append(event, new)
      /\ head' = [last |-> head.last + 1, hash |-> new.hash]
      /\ genuine' = IF head \in genuine THEN genuine \cup {head'} ELSE genuine
  BY <1>1 DEF Recovery!AppendChainedAuditEvent, Recovery!Row, Recovery!Hash
<1>3. IsSequence(event) /\ Len(event) = head.last
  BY DEF ChainOK, ChainShape
<1> QED
  BY <1>1, <1>2, <1>3, OneMore

LEMMA AppendGoesOn ==
  ASSUME ChainOK, Recovery!AppendChainedAuditEvent
  PROVE  Onward
<1>n. PICK n : n = head.last + 1
  OBVIOUS
<1>h. PICK hash : hash = <<head.hash, n, "event">>
  OBVIOUS
<1>1. /\ IsSequence(event') /\ Len(event') = n
      /\ \A i \in 1 .. head.last : event'[i] = event[i]
      /\ event'[n] = [previous |-> head.hash, content |-> "event", hash |-> hash]
      /\ head' = [last |-> n, hash |-> hash]
      /\ genuine' = IF head \in genuine THEN genuine \cup {head'} ELSE genuine
  BY <1>n, <1>h, Appended
<1>2. /\ head.last \in Nat /\ n \in Nat /\ n > head.last
      /\ head'.last = n /\ head'.hash = hash
      /\ 1 .. n = (1 .. head.last) \cup {n} /\ n \notin 1 .. head.last
  BY <1>n, <1>1 DEF ChainOK, ChainShape
<1>3. IsSequence(event)'
  BY <1>1 DEF IsSequence
<1>4. ChainShape'
  <2>1. ASSUME NEW i \in 1 .. head'.last, event'[i] # NoRow
        PROVE  event'[i] = [previous |-> event'[i].previous, content |-> event'[i].content,
                            hash |-> <<event'[i].previous, i, "event">>]
    <3>1. CASE i = n
      BY <1>1, <1>h, <3>1
    <3>2. CASE i \in 1 .. head.last
      BY <1>1, <2>1, <3>2 DEF ChainOK, ChainShape
    <3> QED
      BY <1>2, <3>1, <3>2
  <2> QED
    BY <1>1, <1>2, <1>3, <2>1 DEF ChainShape
<1>5. genuine \subseteq genuine' /\ \A g \in genuine' : g \in genuine \/ (g = head' /\ head \in genuine)
  BY <1>1
<1>6. \A i \in 0 .. head.last : \A h : [last |-> i, hash |-> h] \in genuine' => Genuine(i, h)
  <2>1. ASSUME NEW i \in 0 .. head.last, NEW h, [last |-> i, hash |-> h] \in genuine'
        PROVE  Genuine(i, h)
    <3>1. [last |-> i, hash |-> h] # head'
      BY <1>1, <1>2
    <3> QED
      BY <1>5, <2>1, <3>1 DEF Genuine
  <2> QED
    BY <2>1
<1>7. GenuineSound'
  <2>1. Genuine(0, <<>>)'
    BY <1>5 DEF ChainOK, GenuineSound, Genuine
  <2>2. ASSUME NEW g \in genuine'
        PROVE  g.last \in 0 .. head'.last /\ g = [last |-> g.last, hash |-> g.hash]
    <3>1. CASE g \in genuine
      BY <1>2, <3>1 DEF ChainOK, GenuineSound
    <3>2. CASE g = head'
      BY <1>1, <1>2, <3>2
    <3> QED
      BY <1>5, <3>1, <3>2
  <2>3. ASSUME NEW g \in genuine', g.last # 0
        PROVE  \E before : g.hash = <<before, g.last, "event">>
    <3>1. CASE g \in genuine
      BY <2>3, <3>1 DEF ChainOK, GenuineSound
    <3>2. CASE g = head' /\ head \in genuine
      BY <1>h, <1>1, <1>2, <3>2
    <3> QED
      BY <1>5, <3>1, <3>2
  <2>4. ASSUME NEW i \in 1 .. head'.last, event'[i] # NoRow,
               [last |-> i - 1, hash |-> event'[i].previous] \in genuine'
        PROVE  [last |-> i, hash |-> event'[i].hash] \in genuine'
    <3>1. CASE i = n
      <4>1. i - 1 = head.last /\ event'[i].previous = head.hash /\ event'[i].hash = hash
        BY <1>n, <1>1, <1>2, <3>1
      <4>2. Genuine(head.last, head.hash)
        BY <1>2, <1>6, <2>4, <4>1
      <4>3. head \in genuine
        BY <4>2 DEF Genuine, ChainOK, ChainShape
      <4> QED
        BY <1>1, <3>1, <4>1, <4>3
    <3>2. CASE i \in 1 .. head.last
      <4>1. event'[i] = event[i] /\ i - 1 \in 0 .. head.last
        BY <1>1, <1>2, <3>2
      <4>2. PICK h : h = event'[i].previous
        OBVIOUS
      <4>3. Genuine(i - 1, h)
        BY <1>6, <2>4, <4>1, <4>2
      <4>4. Genuine(i, event[i].hash)
        BY <2>4, <3>2, <4>1, <4>2, <4>3 DEF ChainOK, GenuineSound
      <4> QED
        BY <1>5, <4>1, <4>4 DEF Genuine
    <3> QED
      BY <1>2, <3>1, <3>2
  <2> QED
    BY <2>1, <2>2, <2>3, <2>4 DEF GenuineSound, Genuine
\* A head that is not genuine is continued to none that is.
<1>8. head \notin genuine => head' \notin genuine'
  <2>1. SUFFICES ASSUME head \notin genuine, head' \in genuine' PROVE FALSE
    OBVIOUS
  <2>2. head' \in genuine
    BY <1>1, <2>1
  <2>3. head'.last \in 0 .. head.last
    BY <2>2 DEF ChainOK, GenuineSound
  <2> QED
    BY <1>2, <2>3
<1>9. Recovery!Corrupted => Recovery!Corrupted'
  <2>1. CASE head \notin genuine
    BY <1>8, <2>1 DEF Recovery!Corrupted
  <2>2. ASSUME NEW i \in DOMAIN event, event[i] = NoRow \/ event[i].content # "event"
        PROVE  Recovery!Corrupted'
    <3>1. DOMAIN event = 1 .. head.last /\ DOMAIN event' = 1 .. n
      BY <1>1, <1>4 DEF ChainOK, ChainShape, IsSequence
    <3> QED
      BY <1>1, <1>2, <2>2, <3>1 DEF Recovery!Corrupted
  <2> QED
    BY <2>1, <2>2 DEF Recovery!Corrupted
<1>10. \A i \in 0 .. head.last : HashAt(i)' = HashAt(i)
  BY <1>1, <1>2 DEF HashAt
<1>11. Chained'
  <2>1. SUFFICES ASSUME ~ Recovery!Corrupted'
                 PROVE  /\ head'.hash = HashAt(n)'
                        /\ \A i \in 1 .. n : event'[i].previous = HashAt(i - 1)'
    BY <1>2 DEF Chained, HashAt
  <2>2. /\ head.hash = HashAt(head.last)
        /\ \A i \in 1 .. head.last : event[i].previous = HashAt(i - 1)
    BY <1>9, <2>1 DEF ChainOK, Chained
  <2>3. head'.hash = HashAt(n)'
    BY <1>1, <1>2 DEF HashAt
  <2>4. ASSUME NEW i \in 1 .. n PROVE event'[i].previous = HashAt(i - 1)'
    <3>1. i - 1 \in 0 .. head.last
      BY <1>2
    <3>2. HashAt(i - 1)' = HashAt(i - 1)
      BY <1>10, <3>1
    <3>3. CASE i = n
      <4>1. i - 1 = head.last
        BY <1>n, <1>2, <3>3
      <4> QED
        BY <1>1, <2>2, <3>2, <3>3, <4>1
    <3>4. CASE i \in 1 .. head.last
      BY <1>1, <2>2, <3>2, <3>4
    <3> QED
      BY <1>2, <3>3, <3>4
  <2> QED
    BY <2>3, <2>4
<1> QED
  BY <1>2, <1>4, <1>5, <1>7, <1>9, <1>10, <1>11 DEF Onward, ChainOK

\* Whatever is changed, it is seen for good that something was.
LEMMA CorruptGoesOn ==
  ASSUME ChainOK, NEW n, Recovery!Corrupt(n)
  PROVE  Onward
<1>1. /\ IsSequence(event) /\ head.last \in Nat /\ Len(event) = head.last
      /\ DOMAIN event = 1 .. head.last
  BY DEF ChainOK, ChainShape, IsSequence
<1>2. ASSUME UNCHANGED <<head, genuine>>, NEW m \in 1 .. head.last, NEW new,
             event' = [event EXCEPT ![m] = new],
             \/ new = NoRow
             \/ event[m] # NoRow /\ new = [event[m] EXCEPT !.content = "changed"]
      PROVE  Onward
  <2>1. /\ IsSequence(event') /\ Len(event') = head.last
        /\ \A i \in 1 .. head.last : event'[i] = IF i = m THEN new ELSE event[i]
    BY <1>1, <1>2, OneReplaced
  <2>2. new = NoRow \/ (new.content = "changed" /\ new.previous = event[m].previous
                         /\ new.hash = event[m].hash
                         /\ new = [previous |-> new.previous, content |-> new.content,
                                   hash |-> <<new.previous, m, "event">>])
    BY <1>2 DEF ChainOK, ChainShape
  <2>3. IsSequence(event)'
    BY <2>1 DEF IsSequence
  <2>4. ChainShape'
    <3>1. ASSUME NEW i \in 1 .. head.last, event'[i] # NoRow
          PROVE  event'[i] = [previous |-> event'[i].previous, content |-> event'[i].content,
                              hash |-> <<event'[i].previous, i, "event">>]
      <4>1. CASE i = m
        BY <2>1, <2>2, <3>1, <4>1
      <4>2. CASE i # m
        BY <2>1, <3>1, <4>2 DEF ChainOK, ChainShape
      <4> QED
        BY <4>1, <4>2
    <3> QED
      BY <1>2, <2>1, <2>3, <3>1 DEF ChainOK, ChainShape
  <2>5. ASSUME NEW i \in 1 .. head.last, event'[i] # NoRow
        PROVE  /\ event'[i].previous = event[i].previous /\ event'[i].hash = event[i].hash
               /\ event[i] # NoRow
    BY <1>2, <2>1, <2>2, <2>5
  <2>6. GenuineSound'
    BY <1>2, <2>5 DEF ChainOK, GenuineSound, Genuine
  <2>7. Recovery!Corrupted'
    <3>1. m \in DOMAIN event'
      BY <1>2, <2>4 DEF ChainShape, IsSequence
    <3>2. event'[m] = NoRow \/ event'[m].content # "event"
      BY <2>1, <2>2
    <3> QED
      BY <3>1, <3>2 DEF Recovery!Corrupted
  <2> QED
    BY <1>1, <1>2, <2>4, <2>6, <2>7 DEF Onward, ChainOK, Chained
<1>3. ASSUME UNCHANGED <<event, genuine>>, head.last > 0,
             head' = [head EXCEPT !.hash = <<"changed">>]
      PROVE  Onward
  <2>1. head' = [last |-> head.last, hash |-> <<"changed">>]
    BY <1>3 DEF ChainOK, ChainShape
  <2>2. head' \notin genuine
    <3>1. SUFFICES ASSUME head' \in genuine PROVE FALSE
      OBVIOUS
    <3>2. PICK before : head'.hash = <<before, head'.last, "event">>
      BY <1>1, <1>3, <2>1, <3>1 DEF ChainOK, GenuineSound
    <3>3. Len(head'.hash) = 3 /\ Len(head'.hash) = 1
      BY <2>1, <3>2
    <3> QED
      BY <3>3
  <2>3. Recovery!Corrupted'
    BY <1>3, <2>2 DEF Recovery!Corrupted
  <2>4. ChainShape'
    BY <1>3, <2>1 DEF ChainOK, ChainShape
  <2>5. GenuineSound'
    BY <1>3, <2>1 DEF ChainOK, GenuineSound, Genuine
  <2> QED
    BY <1>1, <1>3, <2>1, <2>3, <2>4, <2>5 DEF Onward, ChainOK, Chained
<1>4. CASE n \in DOMAIN event /\ event[n] # NoRow
  <2>1. CASE event' = [event EXCEPT ![n].content = "changed"] /\ UNCHANGED <<head, genuine>>
    <3>1. PICK new : new = [event[n] EXCEPT !.content = "changed"]
      OBVIOUS
    <3> QED
      BY <1>1, <1>2, <1>4, <2>1, <3>1
  <2>2. CASE event' = [event EXCEPT ![n] = NoRow] /\ UNCHANGED <<head, genuine>>
    BY <1>1, <1>2, <1>4, <2>2
  <2>3. CASE UNCHANGED <<event, genuine>> /\ head.last > 0
             /\ head' = [head EXCEPT !.hash = <<"changed">>]
    BY <1>3, <2>3
  <2> QED
    BY <2>1, <2>2, <2>3 DEF Recovery!Corrupt
<1>5. CASE ~ (n \in DOMAIN event /\ event[n] # NoRow)
  BY <1>3, <1>5 DEF Recovery!Corrupt
<1> QED
  BY <1>4, <1>5

-----------------------------------------------------------------------------
(* What a worker knows of a chain that may change under it.                  *)

Polling == Watchers \cup Anchorers

\* A chain is only said to be broken when it is.
ListSound(s) ==
  IsSequence(s) /\ \A i \in 1 .. Len(s) : s[i].kind = "chain" => Recovery!Corrupted

\* Nobody but the worker changes what it has read: each row it has passed continues a
\* head that the chain has had, and none is missed while nothing was changed.
VerifySound(poll) ==
  /\ poll = [pc |-> "verify", head |-> poll.head, expected |-> poll.expected,
             previous |-> poll.previous, broken |-> poll.broken, observed |-> poll.observed]
  /\ poll.head = [last |-> poll.head.last, hash |-> poll.head.hash]
  /\ poll.head.last \in 0 .. head.last
  /\ poll.expected \in 1 .. poll.head.last + 1
  /\ poll.broken \in BOOLEAN
  /\ poll.broken = FALSE => Genuine(poll.expected - 1, poll.previous)
  /\ ~ Recovery!Corrupted =>
       /\ poll.broken = FALSE
       /\ poll.previous = HashAt(poll.expected - 1)
       /\ poll.head.hash = HashAt(poll.head.last)

PollOK(poll) ==
  /\ poll.pc = "verify" => VerifySound(poll)
  /\ poll.pc \in {"verify", "anchors"} => ListSound(poll.observed)
  /\ poll.pc = "enqueue" =>
       /\ poll = [pc |-> "enqueue", left |-> poll.left, next |-> poll.next]
       /\ ListSound(poll.left)

PollsOK ==
  /\ pollers = [w \in Polling |-> pollers[w]]
  /\ \A w \in Polling : \A poll : pollers[w] = poll => PollOK(poll)

AlertsOK == \A a \in alerts : a.kind = "chain" => Recovery!Corrupted

AnchorsOK == DOMAIN anchor \subseteq genuine

RecoveryInv == ChainOK /\ PollsOK /\ AlertsOK /\ AnchorsOK

LEMMA ListStillSound ==
  ASSUME Onward, NEW s, ListSound(s)
  PROVE  ListSound(s)'
  BY DEF Onward, ListSound, IsSequence

LEMMA PollStillOK ==
  ASSUME ChainOK, Onward, NEW poll, PollOK(poll)
  PROVE  PollOK(poll)'
<1>1. CASE poll.pc = "verify"
  <2>1. VerifySound(poll) /\ ListSound(poll.observed)
    BY <1>1 DEF PollOK
  <2>2. head.last \in Nat /\ head'.last \in Nat /\ head.last <= head'.last
    BY DEF Onward, ChainOK, ChainShape
  <2>3. poll.head.last \in 0 .. head'.last
    BY <2>1, <2>2 DEF VerifySound
  <2>4. poll.broken = FALSE => Genuine(poll.expected - 1, poll.previous)'
    BY <2>1 DEF VerifySound, Genuine, Onward
  <2>5. ASSUME ~ Recovery!Corrupted'
        PROVE  /\ poll.broken = FALSE
               /\ poll.previous = HashAt(poll.expected - 1)'
               /\ poll.head.hash = HashAt(poll.head.last)'
    <3>1. ~ Recovery!Corrupted
      BY <2>5 DEF Onward
    <3>2. PICK k, l : k = poll.expected - 1 /\ l = poll.head.last
      OBVIOUS
    <3>3. k \in 0 .. head.last /\ l \in 0 .. head.last
      BY <2>1, <2>2, <3>2 DEF VerifySound
    <3>4. HashAt(k)' = HashAt(k) /\ HashAt(l)' = HashAt(l)
      BY <2>5, <3>3 DEF Onward
    <3> QED
      BY <2>1, <3>1, <3>2, <3>4 DEF VerifySound
  <2>6. VerifySound(poll)'
    BY <2>1, <2>3, <2>4, <2>5 DEF VerifySound
  <2>7. ListSound(poll.observed)'
    BY <2>1, ListStillSound
  <2> QED
    BY <1>1, <2>6, <2>7 DEF PollOK
<1>2. CASE poll.pc # "verify"
  <2>1. poll.pc = "anchors" => ListSound(poll.observed)'
    BY <1>2, ListStillSound DEF PollOK
  <2>2. poll.pc = "enqueue" => ListSound(poll.left)'
    BY ListStillSound DEF PollOK
  <2> QED
    BY <1>2, <2>1, <2>2 DEF PollOK
<1> QED
  BY <1>1, <1>2

LEMMA PollsUntouched ==
  ASSUME RecoveryInv, Onward, UNCHANGED pollers
  PROVE  PollsOK'
<1>1. ASSUME NEW w \in Polling, NEW poll, pollers'[w] = poll PROVE PollOK(poll)'
  BY <1>1, PollStillOK DEF RecoveryInv, PollsOK
<1> QED
  BY <1>1 DEF RecoveryInv, PollsOK

LEMMA OnePollGoesOn ==
  ASSUME RecoveryInv, Onward, NEW w \in Polling, NEW new, Recovery!Set(w, new), PollOK(new)'
  PROVE  PollsOK'
<1>1. pollers' = [x \in Polling |-> IF x = w THEN new ELSE pollers[x]]
  BY DEF Recovery!Set, RecoveryInv, PollsOK
<1>2. ASSUME NEW x \in Polling, NEW poll, pollers'[x] = poll PROVE PollOK(poll)'
  <2>1. CASE x = w
    BY <1>1, <1>2, <2>1
  <2>2. CASE x # w
    BY <1>1, <1>2, <2>2, PollStillOK DEF RecoveryInv, PollsOK
  <2> QED
    BY <2>1, <2>2
<1> QED
  BY <1>1, <1>2 DEF PollsOK

LEMMA AlertsUntouched == RecoveryInv /\ Onward /\ UNCHANGED alerts => AlertsOK'
  BY DEF RecoveryInv, AlertsOK, Onward

LEMMA AnchorsUntouched == RecoveryInv /\ Onward /\ DOMAIN anchor' = DOMAIN anchor => AnchorsOK'
  BY DEF RecoveryInv, AnchorsOK, Onward

\* A step of one worker that touches neither the chain, the alerts nor the anchors.
LEMMA OnlyThePoll ==
  ASSUME RecoveryInv, NEW w \in Polling, NEW new, Recovery!Set(w, new), PollOK(new)',
         UNCHANGED <<Recovery!chain, alerts, anchor>>
  PROVE  RecoveryInv'
<1>1. Onward
  BY UntouchedChain DEF RecoveryInv
<1> QED
  BY <1>1, OnePollGoesOn, AlertsUntouched, AnchorsUntouched DEF RecoveryInv, Onward

LEMMA IdleOK == PollOK(Recovery!Idle)'
  BY DEF PollOK, Recovery!Idle

LEMMA Empty == ListSound(<<>>)'
  BY DEF ListSound, IsSequence

\* What is said of backups or of anchors says nothing of the chain.
LEMMA OneObserved ==
  ASSUME NEW kind, NEW severity, NEW fingerprint, kind = "chain" => Recovery!Corrupted
  PROVE  ListSound(<<Recovery!Observation(kind, severity, fingerprint)>>)
<1>1. PICK o : o = Recovery!Observation(kind, severity, fingerprint)
  OBVIOUS
<1>2. IsSequence(<<o>>) /\ Len(<<o>>) = 1 /\ <<o>>[1] = o
  <2>1. <<o>> \in Seq({o})
    OBVIOUS
  <2> QED
    BY <2>1 DEF IsSequence
<1>3. o.kind = kind
  BY <1>1 DEF Recovery!Observation
<1>4. ListSound(<<o>>)
  BY <1>2, <1>3 DEF ListSound
<1> QED
  BY <1>1, <1>4

LEMMA NothingObserved == ListSound(<<>>)
  BY DEF ListSound, IsSequence

LEMMA BackupObservedSound == ListSound(Recovery!BackupObserved)
<1>1. CASE Recovery!BackupObserved = <<>>
  BY <1>1, NothingObserved
<1>2. CASE Recovery!BackupObserved # <<>>
  <2>1. PICK severity, fingerprint :
          Recovery!BackupObserved = <<Recovery!Observation("backup", severity, fingerprint)>>
    BY <1>2 DEF Recovery!BackupObserved
  <2> QED
    BY <2>1, OneObserved
<1> QED
  BY <1>1, <1>2

LEMMA AnchorsObservedSound == ListSound(Recovery!AnchorsObserved)
<1>1. CASE Recovery!AnchorsObserved = <<>>
  BY <1>1, NothingObserved
<1>2. CASE Recovery!AnchorsObserved # <<>>
  <2>1. PICK severity, fingerprint :
          Recovery!AnchorsObserved = <<Recovery!Observation("anchors", severity, fingerprint)>>
    BY <1>2 DEF Recovery!AnchorsObserved
  <2> QED
    BY <2>1, OneObserved
<1> QED
  BY <1>1, <1>2

LEMMA BothSound ==
  ASSUME NEW s, ListSound(s), NEW t, ListSound(t)
  PROVE  ListSound(s \o t)
<1>1. PICK S : s \in Seq(S)
  BY DEF ListSound, IsSequence
<1>2. PICK T : t \in Seq(T)
  BY DEF ListSound, IsSequence
<1>3. s \in Seq(S \cup T) /\ t \in Seq(S \cup T)
  BY <1>1, <1>2
<1> HIDE <1>1, <1>2
<1>4. /\ s \o t \in Seq(S \cup T) /\ Len(s) \in Nat /\ Len(t) \in Nat
      /\ Len(s \o t) = Len(s) + Len(t)
      /\ \A i \in 1 .. Len(s) + Len(t) : (s \o t)[i] = IF i <= Len(s) THEN s[i] ELSE t[i - Len(s)]
  BY <1>3, ConcatProperties
<1>5. ASSUME NEW i \in 1 .. Len(s \o t), (s \o t)[i].kind = "chain" PROVE Recovery!Corrupted
  <2>1. CASE i <= Len(s)
    <3>1. i \in 1 .. Len(s) /\ (s \o t)[i] = s[i]
      BY <1>4, <2>1
    <3> QED
      BY <1>5, <3>1 DEF ListSound
  <2>2. CASE ~ (i <= Len(s))
    <3>1. i - Len(s) \in 1 .. Len(t) /\ (s \o t)[i] = t[i - Len(s)]
      BY <1>4, <2>2
    <3> QED
      BY <1>5, <3>1 DEF ListSound
  <2> QED
    BY <2>1, <2>2
<1> QED
  BY <1>4, <1>5 DEF ListSound, IsSequence

LEMMA RestSound ==
  ASSUME NEW s, ListSound(s), s # <<>>
  PROVE  /\ ListSound(Tail(s))
         /\ Head(s).kind = "chain" => Recovery!Corrupted
<1>1. PICK S : s \in Seq(S)
  BY DEF ListSound, IsSequence
<1>2. /\ Tail(s) \in Seq(S) /\ Len(s) \in Nat \ {0} /\ Len(Tail(s)) = Len(s) - 1
      /\ \A i \in 1 .. Len(Tail(s)) : Tail(s)[i] = s[i + 1]
      /\ Head(s) = s[1]
  BY <1>1, HeadTailProperties, EmptySeq, LenProperties
<1>3. \A i \in 1 .. Len(Tail(s)) : i + 1 \in 1 .. Len(s)
  BY <1>2
<1> QED
  BY <1>2, <1>3 DEF ListSound, IsSequence

-----------------------------------------------------------------------------
(* What the workers do keeps what is known of what they have read.           *)

\* A verification starts below a head that the chain has.
LEMMA VerifyingSound ==
  ASSUME ChainOK, NEW s, ListSound(s)
  PROVE  PollOK(Recovery!Verifying(head, s))
<1>1. PICK poll : poll = Recovery!Verifying(head, s)
  OBVIOUS
<1>2. /\ poll = [pc |-> "verify", head |-> head, expected |-> 1, previous |-> <<>>,
                 broken |-> FALSE, observed |-> s]
      /\ poll.pc = "verify" /\ poll.head = head /\ poll.expected = 1 /\ poll.previous = <<>>
      /\ poll.broken = FALSE /\ poll.observed = s
  BY <1>1 DEF Recovery!Verifying, Recovery!Genesis
<1>3. head.last \in Nat /\ head = [last |-> head.last, hash |-> head.hash]
  BY DEF ChainOK, ChainShape
<1>4. Genuine(poll.expected - 1, poll.previous)
  BY <1>2 DEF ChainOK, GenuineSound
<1>5. poll.previous = HashAt(poll.expected - 1)
  BY <1>2 DEF HashAt
<1>6. ~ Recovery!Corrupted => poll.head.hash = HashAt(poll.head.last)
  BY <1>2 DEF ChainOK, Chained
<1>7. VerifySound(poll)
  BY <1>2, <1>3, <1>4, <1>5, <1>6 DEF VerifySound
<1>8. PollOK(poll)
  BY <1>2, <1>7 DEF PollOK
<1> QED
  BY <1>1, <1>8

LEMMA QueueSound ==
  ASSUME NEW s, ListSound(s)
  PROVE  PollOK(Recovery!Queue(s))
<1>1. PICK poll : poll = Recovery!Queue(s)
  OBVIOUS
<1>2. poll = [pc |-> "enqueue", left |-> s, next |-> 1] /\ poll.pc = "enqueue" /\ poll.left = s
  BY <1>1 DEF Recovery!Queue
<1>3. PollOK(poll)
  BY <1>2 DEF PollOK
<1> QED
  BY <1>1, <1>3

LEMMA WatchOK ==
  ASSUME RecoveryInv, NEW w \in Watchers, Recovery!Watch(w)
  PROVE  RecoveryInv'
<1>1. \E new : Recovery!Set(w, new) /\ PollOK(new)
  <2>1. CASE w \in due
    BY <2>1, BackupObservedSound, VerifyingSound DEF Recovery!Watch, RecoveryInv
  <2>2. CASE w \notin due
    BY <2>2, BackupObservedSound, QueueSound DEF Recovery!Watch
  <2> QED
    BY <2>1, <2>2
<1>2. PICK new : Recovery!Set(w, new) /\ PollOK(new)
  BY <1>1
<1>3. w \in Polling /\ UNCHANGED <<Recovery!chain, alerts, anchor>>
  BY DEF Polling, Recovery!Watch, Recovery!anchoring
<1>4. PollOK(new)'
  BY <1>2, <1>3, UntouchedChain, PollStillOK DEF RecoveryInv
<1> QED
  BY <1>2, <1>3, <1>4, OnlyThePoll

LEMMA BeginAnchorOK ==
  ASSUME RecoveryInv, NEW w \in Anchorers, Recovery!BeginAnchor(w)
  PROVE  RecoveryInv'
<1>1. PICK new : Recovery!Set(w, new) /\ PollOK(new)
  BY NothingObserved, VerifyingSound DEF Recovery!BeginAnchor, RecoveryInv
<1>2. w \in Polling /\ UNCHANGED <<Recovery!chain, alerts, anchor>>
  BY DEF Polling, Recovery!BeginAnchor, Recovery!anchoring
<1>3. PollOK(new)'
  BY <1>1, <1>2, UntouchedChain, PollStillOK DEF RecoveryInv
<1> QED
  BY <1>1, <1>2, <1>3, OnlyThePoll

\* The next row continues the last, or something was changed.
LEMMA VerifyEventOK ==
  ASSUME RecoveryInv, NEW w \in Polling, Recovery!VerifyEvent(w)
  PROVE  RecoveryInv'
<1>1. PICK poll, n : poll = pollers[w] /\ n = poll.expected
  OBVIOUS
<1>2. /\ poll.pc = "verify" /\ ~ poll.broken /\ n <= poll.head.last
      /\ Recovery!Set(w, IF Recovery!Matches(event[n], n, poll.previous)
                         THEN [poll EXCEPT !.expected = n + 1, !.previous = event[n].hash]
                         ELSE [poll EXCEPT !.broken = TRUE])
      /\ UNCHANGED <<Recovery!chain, alerts, anchor>>
  BY <1>1 DEF Recovery!VerifyEvent, Recovery!ThroughSequence, Recovery!anchoring
<1>3. VerifySound(poll) /\ ListSound(poll.observed) /\ ChainOK
  BY <1>1, <1>2 DEF RecoveryInv, PollsOK, PollOK
<1>4. /\ head.last \in Nat /\ poll.head.last \in 0 .. head.last
      /\ n \in 1 .. head.last /\ n \in 1 .. poll.head.last /\ n + 1 - 1 = n
      /\ n + 1 \in 1 .. poll.head.last + 1
      /\ DOMAIN event = 1 .. head.last
  BY <1>1, <1>2, <1>3 DEF VerifySound, ChainOK, ChainShape, IsSequence
<1>5. poll = [pc |-> "verify", head |-> poll.head, expected |-> n, previous |-> poll.previous,
              broken |-> poll.broken, observed |-> poll.observed]
  BY <1>1, <1>3 DEF VerifySound
<1>6. CASE Recovery!Matches(event[n], n, poll.previous)
  <2>1. PICK new : new = [poll EXCEPT !.expected = n + 1, !.previous = event[n].hash]
    OBVIOUS
  <2>r. new = [pc |-> "verify", head |-> poll.head, expected |-> n + 1,
               previous |-> event[n].hash, broken |-> poll.broken,
               observed |-> poll.observed]
    <3>1. PICK h, p, b, o : poll = [pc |-> "verify", head |-> h, expected |-> n, previous |-> p,
                                    broken |-> b, observed |-> o]
      BY <1>5
    <3>2. PICK hash : hash = event[n].hash
      OBVIOUS
    <3>3. new = [pc |-> "verify", head |-> h, expected |-> n + 1, previous |-> hash,
                 broken |-> b, observed |-> o]
      BY <2>1, <3>1, <3>2
    <3>4. poll.head = h /\ poll.broken = b /\ poll.observed = o
      BY <3>1
    <3> QED
      BY <3>2, <3>3, <3>4
  <2>2. /\ new = [pc |-> "verify", head |-> poll.head, expected |-> n + 1,
                  previous |-> event[n].hash, broken |-> poll.broken,
                  observed |-> poll.observed]
        /\ new.pc = "verify" /\ new.head = poll.head /\ new.expected = n + 1
        /\ new.previous = event[n].hash /\ new.broken = poll.broken
        /\ new.observed = poll.observed
    BY <2>r
  <2>3. event[n] # NoRow /\ event[n].previous = poll.previous
    BY <1>6 DEF Recovery!Matches
  <2>4. poll.broken = FALSE => Genuine(n, event[n].hash)
    BY <1>1, <1>3, <1>4, <2>3 DEF VerifySound, ChainOK, GenuineSound
  <2>5. event[n].hash = HashAt(n)
    BY <1>4 DEF HashAt
  <2>6. VerifySound(new)
    BY <1>3, <1>4, <2>2, <2>4, <2>5 DEF VerifySound
  <2>7. PollOK(new)
    BY <1>3, <2>2, <2>6 DEF PollOK
  <2>8. PollOK(new)'
    BY <1>2, <1>3, <2>7, UntouchedChain, PollStillOK
  <2> QED
    BY <1>2, <1>6, <2>1, <2>8, OnlyThePoll
<1>7. CASE ~ Recovery!Matches(event[n], n, poll.previous)
  <2>1. PICK new : new = [poll EXCEPT !.broken = TRUE]
    OBVIOUS
  <2>r. new = [pc |-> "verify", head |-> poll.head, expected |-> n,
               previous |-> poll.previous, broken |-> TRUE, observed |-> poll.observed]
    <3>1. PICK h, p, b, o : poll = [pc |-> "verify", head |-> h, expected |-> n, previous |-> p,
                                    broken |-> b, observed |-> o]
      BY <1>5
    <3>2. new = [pc |-> "verify", head |-> h, expected |-> n, previous |-> p,
                 broken |-> TRUE, observed |-> o]
      BY <2>1, <3>1
    <3>3. poll.head = h /\ poll.previous = p /\ poll.observed = o
      BY <3>1
    <3> QED
      BY <3>2, <3>3
  <2>2. /\ new = [pc |-> "verify", head |-> poll.head, expected |-> n,
                  previous |-> poll.previous, broken |-> TRUE, observed |-> poll.observed]
        /\ new.pc = "verify" /\ new.head = poll.head /\ new.expected = n
        /\ new.broken = TRUE /\ new.observed = poll.observed
    BY <2>r
  <2>3. Recovery!Corrupted
    <3>1. SUFFICES ASSUME ~ Recovery!Corrupted PROVE FALSE
      OBVIOUS
    <3>2. event[n] # NoRow /\ event[n].content = "event"
      BY <1>4, <3>1 DEF Recovery!Corrupted
    <3>3. event[n].hash = <<event[n].previous, n, event[n].content>>
      BY <1>3, <1>4, <3>2 DEF ChainOK, ChainShape
    <3>4. event[n].previous = poll.previous
      BY <1>1, <1>3, <1>4, <3>1 DEF VerifySound, ChainOK, Chained
    <3> QED
      BY <1>7, <3>2, <3>3, <3>4 DEF Recovery!Matches, Recovery!Hash
  <2>4. n \in 1 .. poll.head.last + 1
    BY <1>4
  <2>5. VerifySound(new)
    BY <1>3, <2>2, <2>3, <2>4 DEF VerifySound
  <2>6. PollOK(new)
    BY <1>3, <2>2, <2>5 DEF PollOK
  <2>7. PollOK(new)'
    BY <1>2, <1>3, <2>6, UntouchedChain, PollStillOK
  <2> QED
    BY <1>2, <1>7, <2>1, <2>7, OnlyThePoll
<1> QED
  BY <1>6, <1>7

\* A verification that comes to its end says what the chain was.
LEMMA VerdictSound ==
  ASSUME RecoveryInv, NEW w \in Polling, Recovery!Verified(w)
  PROVE  /\ Recovery!Valid(pollers[w]) => pollers[w].head \in genuine
         /\ ~ Recovery!Corrupted => Recovery!Valid(pollers[w])
<1>1. PICK poll : poll = pollers[w]
  OBVIOUS
<1>2. /\ poll.pc = "verify" /\ VerifySound(poll) /\ ChainOK
      /\ poll.broken \/ poll.expected > poll.head.last
  BY <1>1 DEF RecoveryInv, PollsOK, PollOK, Recovery!Verified, Recovery!ThroughSequence
<1>3. head.last \in Nat /\ poll.head.last \in Nat /\ poll.expected \in 1 .. poll.head.last + 1
  BY <1>2 DEF VerifySound, ChainOK, ChainShape
<1>4. ASSUME Recovery!Valid(poll) PROVE poll.head \in genuine
  <2>1. /\ ~ poll.broken /\ poll.expected = poll.head.last + 1
        /\ poll.previous = poll.head.hash
    BY <1>4 DEF Recovery!Valid, Recovery!SameHead
  <2>2. poll.broken = FALSE
    BY <1>2, <2>1 DEF VerifySound, RecoveryInv
  <2>3. poll.expected - 1 = poll.head.last
    BY <1>3, <2>1
  <2> QED
    BY <1>2, <2>1, <2>2, <2>3 DEF VerifySound, Genuine
<1>5. ASSUME ~ Recovery!Corrupted PROVE Recovery!Valid(poll)
  <2>1. poll.broken = FALSE /\ poll.expected = poll.head.last + 1
    BY <1>2, <1>3, <1>5 DEF VerifySound
  <2>2. poll.expected - 1 = poll.head.last
    BY <1>3, <2>1
  <2>3. poll.previous = poll.head.hash
    BY <1>2, <1>5, <2>2 DEF VerifySound
  <2> QED
    BY <2>1, <2>3 DEF Recovery!Valid, Recovery!SameHead
<1> QED
  BY <1>1, <1>4, <1>5

-----------------------------------------------------------------------------
(* No false alarm, and only heads that were true are anchored.               *)

LEMMA ObserveChainOK ==
  ASSUME RecoveryInv, NEW w \in Watchers, Recovery!ObserveChain(w)
  PROVE  RecoveryInv'
<1>1. PICK poll, s, t :
        poll = pollers[w] /\ s = poll.observed /\ t = Recovery!ChainObserved(poll)
  OBVIOUS
<1>2. /\ Recovery!Verified(w)
      /\ Recovery!Set(w, [pc |-> "anchors", observed |-> s \o t])
      /\ UNCHANGED <<Recovery!chain, alerts, anchor>>
  BY <1>1 DEF Recovery!ObserveChain, Recovery!anchoring
<1>3. w \in Polling
  BY DEF Polling
<1>4. ListSound(s)
  BY <1>1, <1>2, <1>3 DEF RecoveryInv, PollsOK, PollOK, Recovery!Verified
<1>5. ListSound(t)
  <2>1. CASE Recovery!Valid(poll)
    BY <1>1, <2>1, NothingObserved DEF Recovery!ChainObserved
  <2>2. CASE ~ Recovery!Valid(poll)
    <3>1. Recovery!Corrupted
      BY <1>1, <1>2, <1>3, <2>2, VerdictSound
    <3> QED
      BY <1>1, <2>2, <3>1, OneObserved DEF Recovery!ChainObserved
  <2> QED
    BY <2>1, <2>2
<1>6. PICK new : new = [pc |-> "anchors", observed |-> s \o t]
  OBVIOUS
<1>7. PollOK(new)
  <2>1. new.pc = "anchors" /\ new.observed = s \o t
    BY <1>6
  <2> QED
    BY <1>4, <1>5, <2>1, BothSound DEF PollOK
<1>8. PollOK(new)'
  BY <1>2, <1>7, UntouchedChain, PollStillOK DEF RecoveryInv
<1> QED
  BY <1>2, <1>3, <1>6, <1>8, OnlyThePoll

LEMMA ObserveAnchorsOK ==
  ASSUME RecoveryInv, NEW w \in Watchers, Recovery!ObserveAnchors(w)
  PROVE  RecoveryInv'
<1>1. PICK s, t : s = pollers[w].observed /\ t = Recovery!AnchorsObserved
  OBVIOUS
<1>2. /\ pollers[w].pc = "anchors"
      /\ Recovery!Set(w, Recovery!Queue(s \o t))
      /\ UNCHANGED <<Recovery!chain, alerts, anchor>>
  BY <1>1 DEF Recovery!ObserveAnchors, Recovery!anchoring
<1>3. w \in Polling
  BY DEF Polling
<1>4. ListSound(s)
  BY <1>1, <1>2, <1>3 DEF RecoveryInv, PollsOK, PollOK
<1>5. ListSound(t)
  BY <1>1, AnchorsObservedSound
<1>6. PICK new : new = Recovery!Queue(s \o t)
  OBVIOUS
<1>7. PollOK(new)
  BY <1>4, <1>5, <1>6, BothSound, QueueSound
<1>8. PollOK(new)'
  BY <1>2, <1>7, UntouchedChain, PollStillOK DEF RecoveryInv
<1> QED
  BY <1>2, <1>3, <1>6, <1>8, OnlyThePoll

LEMMA EnqueueAlertOK ==
  ASSUME RecoveryInv, NEW w \in Watchers, Recovery!EnqueueAlertDelivery(w)
  PROVE  RecoveryInv'
<1>1. PICK poll, o, new :
        /\ poll = pollers[w] /\ o = Head(poll.left)
        /\ new = IF poll.next < Len(Channels)
                 THEN [poll EXCEPT !.next = @ + 1] ELSE Recovery!Queue(Tail(poll.left))
  OBVIOUS
<1>2. /\ poll.pc = "enqueue" /\ poll.left # <<>>
      /\ \/ Recovery!AppendChainedAuditEvent
            /\ alerts' = alerts \cup {Recovery!Alert(Channels[poll.next], o)}
         \/ UNCHANGED <<alerts, Recovery!chain>>
      /\ Recovery!Set(w, new) /\ UNCHANGED anchor
  BY <1>1 DEF Recovery!EnqueueAlertDelivery, Recovery!anchoring
<1>3. w \in Polling
  BY DEF Polling
<1>4. PICK left, next : poll = [pc |-> "enqueue", left |-> left, next |-> next] /\ ListSound(left)
  BY <1>1, <1>2, <1>3 DEF RecoveryInv, PollsOK, PollOK
<1>5. poll.left = left /\ poll.next = next
  BY <1>4
<1>6. PollOK(new)
  <2>1. CASE next < Len(Channels)
    <3>1. PICK n : n = next + 1
      OBVIOUS
    <3>2. new = [poll EXCEPT !.next = n]
      BY <1>1, <1>5, <2>1, <3>1
    <3>3. new = [pc |-> "enqueue", left |-> left, next |-> n]
      BY <1>4, <3>2
    <3>4. new.pc = "enqueue" /\ new.left = left /\ new.next = n
      BY <3>3
    <3> QED
      BY <1>4, <3>3, <3>4 DEF PollOK
  <2>2. CASE ~ (next < Len(Channels))
    BY <1>1, <1>2, <1>4, <1>5, <2>2, RestSound, QueueSound
  <2> QED
    BY <2>1, <2>2
<1>7. o.kind = "chain" => Recovery!Corrupted
  BY <1>1, <1>2, <1>4, <1>5, RestSound
<1>8. Onward
  BY <1>2, AppendGoesOn, UntouchedChain DEF RecoveryInv
<1>9. PollsOK'
  <2>1. PollOK(new)'
    BY <1>6, <1>8, PollStillOK DEF RecoveryInv
  <2> QED
    BY <1>2, <1>3, <1>8, <2>1, OnePollGoesOn
<1>10. AlertsOK'
  <2>1. \A c : Recovery!Alert(c, o).kind = o.kind
    BY DEF Recovery!Alert
  <2>2. \A a \in alerts' : a.kind = "chain" => Recovery!Corrupted
    BY <1>2, <1>7, <2>1 DEF RecoveryInv, AlertsOK
  <2> QED
    BY <1>8, <2>2 DEF AlertsOK, Onward
<1> QED
  BY <1>2, <1>8, <1>9, <1>10, AnchorsUntouched DEF RecoveryInv, Onward

LEMMA EnqueueAnchorOK ==
  ASSUME RecoveryInv, NEW w \in Anchorers, Recovery!EnqueueAuditAnchor(w)
  PROVE  RecoveryInv'
<1>1. /\ Recovery!Verified(w) /\ Recovery!Set(w, Recovery!Idle) /\ UNCHANGED alerts
      /\ \/ /\ Recovery!Valid(pollers[w]) /\ Recovery!AppendChainedAuditEvent
            /\ anchor' = Recovery!With(pollers[w].head, Recovery!NewAnchor)
         \/ UNCHANGED <<anchor, Recovery!chain>>
  BY DEF Recovery!EnqueueAuditAnchor
<1>2. w \in Polling
  BY DEF Polling
<1>3. Onward
  BY <1>1, AppendGoesOn, UntouchedChain DEF RecoveryInv
<1>4. AnchorsOK'
  <2>1. DOMAIN anchor' \subseteq genuine
    BY <1>1, <1>2, VerdictSound DEF RecoveryInv, AnchorsOK, Recovery!With, Recovery!Anchors
  <2> QED
    BY <1>3, <2>1 DEF AnchorsOK, Onward
<1> QED
  BY <1>1, <1>2, <1>3, <1>4, IdleOK, OnePollGoesOn, AlertsUntouched DEF RecoveryInv, Onward

\* What becomes of an anchor does not touch the head that it is of.
LEMMA AnchorStepOK ==
  ASSUME RecoveryInv, NEW x \in Recovery!Anchors,
         \/ Recovery!DeliverAnchor(x) \/ Recovery!RefuseAnchor(x)
         \/ Recovery!WitnessAbsent(x) \/ Recovery!RetryAuditAnchor(x)
  PROVE  RecoveryInv'
<1>1. /\ Recovery!AppendChainedAuditEvent \/ UNCHANGED Recovery!chain
      /\ UNCHANGED <<pollers, alerts>>
  BY DEF Recovery!DeliverAnchor, Recovery!RefuseAnchor, Recovery!WitnessAbsent,
     Recovery!RetryAuditAnchor, Recovery!AttemptFails
<1>2. DOMAIN anchor' = DOMAIN anchor
  BY DEF Recovery!DeliverAnchor, Recovery!RefuseAnchor, Recovery!WitnessAbsent,
     Recovery!RetryAuditAnchor, Recovery!AttemptFails, Recovery!With, Recovery!Anchors
<1>3. Onward
  BY <1>1, AppendGoesOn, UntouchedChain DEF RecoveryInv
<1> QED
  BY <1>1, <1>2, <1>3, PollsUntouched, AlertsUntouched, AnchorsUntouched DEF RecoveryInv, Onward

LEMMA RecoveryInit == Recovery!Init => RecoveryInv
<1> SUFFICES ASSUME Recovery!Init PROVE RecoveryInv
  OBVIOUS
<1>1. /\ event = <<>> /\ head = [last |-> 0, hash |-> <<>>] /\ genuine = {head}
      /\ anchor = <<>> /\ alerts = {}
      /\ pollers = [w \in Polling |-> Recovery!Idle]
  BY DEF Recovery!Init, Recovery!Genesis, Polling
<1>2. IsSequence(event) /\ Len(event) = 0
  BY <1>1, EmptySeq DEF IsSequence
<1>3. head.last = 0 /\ head.hash = <<>>
  BY <1>1
<1>4. ChainOK
  BY <1>1, <1>2, <1>3 DEF ChainOK, ChainShape, GenuineSound, Chained, Genuine, HashAt
<1>5. PollsOK
  BY <1>1 DEF PollsOK, PollOK, Recovery!Idle
<1>6. DOMAIN anchor = {}
  BY <1>1
<1> QED
  BY <1>1, <1>4, <1>5, <1>6 DEF RecoveryInv, AlertsOK, AnchorsOK

LEMMA RecoveryNext == RecoveryInv /\ [Recovery!Next]_Recovery!vars => RecoveryInv'
<1> SUFFICES ASSUME RecoveryInv, [Recovery!Next]_Recovery!vars PROVE RecoveryInv'
  OBVIOUS
<1>1. ASSUME UNCHANGED <<Recovery!chain, alerts, anchor, pollers>> PROVE RecoveryInv'
  BY <1>1, UntouchedChain, PollsUntouched, AlertsUntouched, AnchorsUntouched
     DEF RecoveryInv, Onward
<1>2. CASE UNCHANGED Recovery!vars
  BY <1>1, <1>2 DEF Recovery!vars, Recovery!anchoring
<1>3. ASSUME NEW n,
             \/ Recovery!AuditEvent \/ Recovery!Corrupt(n)
      PROVE  RecoveryInv'
  <2>1. Onward
    BY <1>3, AppendGoesOn, CorruptGoesOn DEF RecoveryInv, Recovery!AuditEvent
  <2>2. UNCHANGED <<anchor, alerts, pollers>>
    BY <1>3 DEF Recovery!AuditEvent, Recovery!Corrupt, Recovery!anchoring
  <2> QED
    BY <2>1, <2>2, PollsUntouched, AlertsUntouched, AnchorsUntouched DEF RecoveryInv, Onward
<1>4. ASSUME NEW w \in Watchers, Recovery!Poll(w) \/ Recovery!IntervalOver(w)
      PROVE  RecoveryInv'
  <2> w \in Polling
    BY DEF Polling
  <2>1. CASE Recovery!EndPoll(w)
    BY <2>1, IdleOK, OnlyThePoll DEF Recovery!EndPoll, Recovery!anchoring
  <2>2. CASE Recovery!IntervalOver(w)
    BY <1>1, <2>2 DEF Recovery!IntervalOver, Recovery!anchoring
  <2> QED
    BY <1>4, <2>1, <2>2, WatchOK, VerifyEventOK, ObserveChainOK, ObserveAnchorsOK,
       EnqueueAlertOK DEF Recovery!Poll
<1>5. ASSUME NEW w \in Anchorers, Recovery!AnchorPoll(w)
      PROVE  RecoveryInv'
  <2> w \in Polling
    BY DEF Polling
  <2> QED
    BY <1>5, BeginAnchorOK, VerifyEventOK, EnqueueAnchorOK DEF Recovery!AnchorPoll
<1>6. ASSUME NEW w \in Polling, Recovery!Fail(w) PROVE RecoveryInv'
  BY <1>6, IdleOK, OnlyThePoll DEF Recovery!Fail, Recovery!anchoring
<1>7. ASSUME NEW r \in Reports, Recovery!BackupRuns(r) PROVE RecoveryInv'
  BY <1>1, <1>7 DEF Recovery!BackupRuns, Recovery!anchoring
<1>8. ASSUME NEW x \in Recovery!Anchors,
             \/ Recovery!DeliverAnchor(x) \/ Recovery!RefuseAnchor(x)
             \/ Recovery!WitnessAbsent(x) \/ Recovery!RetryAuditAnchor(x)
      PROVE  RecoveryInv'
  BY <1>8, AnchorStepOK
<1> QED
  BY <1>2, <1>3, <1>4, <1>5, <1>6, <1>7, <1>8 DEF Recovery!Next, Polling

\* Whatever is appended, changed or lost: each row that continues a head the chain has had
\* leads to one it has had, a worker has followed such rows, and what it says of the chain
\* is so (verify, audit/service.ts; #poll of both workers).
THEOREM ChainInvariant == Recovery!Spec => []RecoveryInv
  BY RecoveryInit, RecoveryNext, PTL DEF Recovery!Spec

\* The chain is reported broken only when it is, for any number of workers, channels and
\* events: whatever is appended while it is verified (verify, audit/service.ts).
THEOREM NoFalseAlarms == Recovery!Spec => []NoFalseAlarm
<1>1. RecoveryInv => NoFalseAlarm
  BY DEF RecoveryInv, AlertsOK, NoFalseAlarm, Recovery!NoFalseAlarm
<1> QED
  BY <1>1, ChainInvariant, PTL

\* Only what the chain has been is handed to the witness, whatever is changed before,
\* after and while it is verified (audit-anchor/service.ts #poll).
THEOREM AnchorsWereTrue == Recovery!Spec => []AnchoredWasTrue
<1>1. RecoveryInv => AnchoredWasTrue
  BY DEF RecoveryInv, AnchorsOK, AnchoredWasTrue, Recovery!AnchoredWasTrue, Recovery!Anchors
<1> QED
  BY <1>1, ChainInvariant, PTL

-----------------------------------------------------------------------------
(* What the witness keeps: rows, objects and workers agree on each receipt.  *)

Work(work) ==
  /\ work = [pc |-> work.pc, receipt |-> work.receipt, head |-> work.head,
             lease |-> work.lease, attempts |-> work.attempts]
  /\ work.pc \in {"claimed", "put", "failed"}
  /\ work.receipt \in Receipts /\ work.head \in Seq(Branches)

WitnessTypeOK ==
  /\ chain \in Seq(Branches) /\ branch \in Branches /\ anchors \subseteq Seq(Branches)
  /\ receipt \in [Receipts -> Seq(Branches) \cup {Absent}]
  /\ evidence = [r \in Receipts |-> evidence[r]]
  /\ \A r \in Receipts : evidence[r] # Absent => receipt[r] # Absent
  /\ object = [n \in Witness!Numbers |-> object[n]]
  /\ \A n \in Witness!Numbers : object[n] # Absent =>
       object[n].receipt \in Receipts /\ object[n].head \in Seq(Branches)
  /\ evidenceWorkers = [w \in EvidenceWorkers |-> evidenceWorkers[w]]
  /\ \A w \in EvidenceWorkers :
       evidenceWorkers[w] = Witness!Idle \/ Work(evidenceWorkers[w])

\* The head that a row, an object or a worker has for a receipt.
Booking(r, h) == receipt[r] = h /\ h # Absent
Object(r, h) ==
  \E n \in Witness!Numbers : object[n] # Absent /\ object[n].receipt = r /\ object[n].head = h
Worker(r, h) == \E w \in EvidenceWorkers : Witness!Used(w, r) /\ evidenceWorkers[w].head = h
Says(r, h) == Booking(r, h) \/ Object(r, h) \/ Worker(r, h)

OneHead == \A r \in Receipts : \A h, g : Says(r, h) /\ Says(r, g) => h = g

\* What a recovery has passed is booked as it was stored.
RecoveryOK == recovery # Witness!Idle =>
  /\ recovery = [pc |-> "recovering", left |-> recovery.left, due |-> recovery.due]
  /\ recovery.due \subseteq Witness!Numbers /\ recovery.left \subseteq recovery.due
  /\ \A n \in recovery.due : object[n] # Absent
  /\ \A n \in recovery.due \ recovery.left : receipt[object[n].receipt] = object[n].head

WitnessInv == WitnessTypeOK /\ OneHead /\ RecoveryOK

\* Nothing new is said of a receipt.
LEMMA NothingNew ==
  ASSUME OneHead, \A r \in Receipts : \A h : Says(r, h)' => Says(r, h)
  PROVE  OneHead'
<1>1. ASSUME NEW r \in Receipts, NEW h, NEW g, Says(r, h)', Says(r, g)' PROVE h = g
  BY <1>1 DEF OneHead
<1> QED
  BY <1>1 DEF OneHead

LEMMA WitnessInit ==
  ASSUME 0 \in Branches, Witness!Init
  PROVE  WitnessInv
<1>1. WitnessTypeOK
  BY EmptySeq DEF Witness!Init, WitnessTypeOK
<1>2. \A r \in Receipts : \A h : ~ Says(r, h)
  BY DEF Witness!Init, Says, Booking, Object, Worker, Witness!Used, WitnessTypeOK
<1> QED
  BY <1>1, <1>2 DEF WitnessInv, OneHead, RecoveryOK, Witness!Init

LEMMA SourceOK ==
  ASSUME WitnessInv, Witness!Source
  PROVE  WitnessInv'
<1>1. UNCHANGED <<receipt, evidence, object, evidenceWorkers, recovery>>
  BY DEF Witness!Source, Witness!AuditEvent, Witness!EnqueueAuditAnchor, Witness!RestoreSource
<1>2. chain \in Seq(Branches) /\ branch \in Branches /\ anchors \subseteq Seq(Branches)
  BY DEF WitnessInv, WitnessTypeOK
<1>3. \A n \in 0 .. Len(chain) : SubSeq(chain, 1, n) \in Seq(Branches)
  BY <1>2, LenProperties, SubSeqProperties
<1>4. chain' \in Seq(Branches) /\ branch' \in Branches /\ anchors' \subseteq Seq(Branches)
  BY <1>2, <1>3, AppendProperties
     DEF Witness!Source, Witness!AuditEvent, Witness!EnqueueAuditAnchor, Witness!RestoreSource,
         Witness!AppendChainedAuditEvent
<1>5. WitnessTypeOK'
  BY <1>1, <1>4 DEF WitnessInv, WitnessTypeOK
<1>6. OneHead' /\ RecoveryOK'
  BY <1>1 DEF WitnessInv, OneHead, Says, Booking, Object, Worker, Witness!Used, RecoveryOK
<1> QED
  BY <1>5, <1>6 DEF WitnessInv

\* A worker that goes on, or stops, with the receipt and the head it had.
LEMMA WorkerGoesOn ==
  ASSUME WitnessInv, NEW w \in EvidenceWorkers, NEW new, Witness!Set(w, new),
         \/ new = Witness!Idle
         \/ /\ evidenceWorkers[w] # Witness!Idle
            /\ Work(new) /\ new.receipt = evidenceWorkers[w].receipt
            /\ new.head = evidenceWorkers[w].head
  PROVE  /\ evidenceWorkers' = [x \in EvidenceWorkers |-> evidenceWorkers'[x]]
         /\ \A x \in EvidenceWorkers :
              evidenceWorkers'[x] = Witness!Idle \/ Work(evidenceWorkers'[x])
         /\ \A r, h : Worker(r, h)' => Worker(r, h)
<1>1. evidenceWorkers' = [x \in EvidenceWorkers |-> IF x = w THEN new ELSE evidenceWorkers[x]]
  BY DEF Witness!Set, WitnessInv, WitnessTypeOK
<1>2. \A x \in EvidenceWorkers :
        evidenceWorkers'[x] = Witness!Idle \/ Work(evidenceWorkers'[x])
  BY <1>1 DEF WitnessInv, WitnessTypeOK
<1>3. ASSUME NEW r, NEW h, Worker(r, h)' PROVE Worker(r, h)
  <2>1. PICK x \in EvidenceWorkers :
          /\ evidenceWorkers'[x] # Witness!Idle /\ evidenceWorkers'[x].receipt = r
          /\ evidenceWorkers'[x].head = h
    BY <1>3 DEF Worker, Witness!Used
  <2>2. evidenceWorkers[x] # Witness!Idle /\ evidenceWorkers[x].receipt = r
        /\ evidenceWorkers[x].head = h
    BY <1>1, <2>1
  <2> QED
    BY <2>2 DEF Worker, Witness!Used
<1> QED
  BY <1>1, <1>2, <1>3

\* A step of a worker that leaves rows, objects and the recovery as they are.
LEMMA OnlyTheWorker ==
  ASSUME WitnessInv, UNCHANGED <<Witness!source, receipt, object, recovery>>,
         evidence' = [r \in Receipts |-> evidence'[r]],
         \A r \in Receipts : evidence'[r] # Absent => evidence[r] # Absent,
         evidenceWorkers' = [x \in EvidenceWorkers |-> evidenceWorkers'[x]],
         \A x \in EvidenceWorkers :
            evidenceWorkers'[x] = Witness!Idle \/ Work(evidenceWorkers'[x]),
         \A r, h : Worker(r, h)' => Worker(r, h)
  PROVE  WitnessInv'
<1>1. WitnessTypeOK'
  BY DEF WitnessInv, WitnessTypeOK, Witness!source, Work, Witness!Idle
<1>2. ASSUME NEW r \in Receipts, NEW h, Says(r, h)' PROVE Says(r, h)
  <2>1. Booking(r, h)' => Booking(r, h)
    BY DEF Booking
  <2>2. Object(r, h)' => Object(r, h)
    BY DEF Object
  <2> QED
    BY <1>2, <2>1, <2>2 DEF Says
<1>3. RecoveryOK'
  BY DEF WitnessInv, RecoveryOK, Witness!Idle
<1> QED
  BY <1>1, <1>2, <1>3, NothingNew DEF WitnessInv

LEMMA ClaimOK ==
  ASSUME WitnessInv, NEW w \in EvidenceWorkers, NEW r \in Receipts, Witness!ClaimEvidence(w, r)
  PROVE  WitnessInv'
<1>1. PICK new : new = [pc |-> "claimed", receipt |-> r, head |-> receipt[r],
                        lease |-> tokens + 1, attempts |-> evidence[r].attempts + 1]
  OBVIOUS
<1>2. /\ new.pc = "claimed" /\ new.receipt = r /\ new.head = receipt[r]
      /\ new = [pc |-> new.pc, receipt |-> new.receipt, head |-> new.head,
                lease |-> new.lease, attempts |-> new.attempts]
  BY <1>1
<1>3. /\ Witness!Set(w, new) /\ evidence[r] # Absent
      /\ UNCHANGED <<Witness!source, receipt, object, recovery>>
  BY <1>1 DEF Witness!ClaimEvidence
<1>4. receipt[r] \in Seq(Branches) /\ receipt[r] # Absent
  BY <1>3 DEF WitnessInv, WitnessTypeOK
<1>5. Work(new) /\ Booking(r, new.head)
  BY <1>2, <1>4 DEF Work, Booking
<1>6. evidenceWorkers' = [x \in EvidenceWorkers |-> IF x = w THEN new ELSE evidenceWorkers[x]]
  BY <1>3 DEF Witness!Set, WitnessInv, WitnessTypeOK
<1>7. PICK e : evidence' = [evidence EXCEPT ![r] = e]
  BY DEF Witness!ClaimEvidence
<1>8. evidence' = [q \in Receipts |-> IF q = r THEN e ELSE evidence[q]]
  BY <1>7 DEF WitnessInv, WitnessTypeOK
<1>9. WitnessTypeOK'
  <2>1. \A q \in Receipts : evidence'[q] # Absent => receipt'[q] # Absent
    BY <1>3, <1>4, <1>8 DEF WitnessInv, WitnessTypeOK
  <2>2. \A x \in EvidenceWorkers :
          evidenceWorkers'[x] = Witness!Idle \/ Work(evidenceWorkers'[x])
    BY <1>5, <1>6 DEF WitnessInv, WitnessTypeOK
  <2> QED
    BY <1>3, <1>6, <1>8, <2>1, <2>2
       DEF WitnessInv, WitnessTypeOK, Witness!source, Work, Witness!Idle
<1>10. ASSUME NEW q \in Receipts, NEW h, Says(q, h)' PROVE Says(q, h)
  <2>1. Booking(q, h)' => Booking(q, h)
    BY <1>3 DEF Booking
  <2>2. Object(q, h)' => Object(q, h)
    BY <1>3 DEF Object
  <2>3. ASSUME NEW x \in EvidenceWorkers, evidenceWorkers'[x] # Witness!Idle,
               evidenceWorkers'[x].receipt = q, evidenceWorkers'[x].head = h
        PROVE  Says(q, h)
    <3>1. CASE x = w
      BY <1>2, <1>5, <1>6, <2>3, <3>1 DEF Says
    <3>2. CASE x # w
      BY <1>6, <2>3, <3>2 DEF Says, Worker, Witness!Used
    <3> QED
      BY <3>1, <3>2
  <2> QED
    BY <1>10, <2>1, <2>2, <2>3 DEF Says, Worker, Witness!Used
<1>11. RecoveryOK'
  BY <1>3 DEF WitnessInv, RecoveryOK, Witness!Idle
<1> QED
  BY <1>9, <1>10, <1>11, NothingNew DEF WitnessInv

\* What a worker has, whatever its next state is.
LEMMA AtWork ==
  ASSUME WitnessInv, NEW w \in EvidenceWorkers,
         evidenceWorkers[w].pc \in {"claimed", "put", "failed"}
  PROVE  Work(evidenceWorkers[w]) /\ evidenceWorkers[w] # Witness!Idle
  BY DEF WitnessInv, WitnessTypeOK, Witness!Idle

LEMMA NextPc ==
  ASSUME NEW work, Work(work), NEW pc \in {"claimed", "put", "failed"}
  PROVE  LET new == [work EXCEPT !.pc = pc] IN
         Work(new) /\ new.receipt = work.receipt /\ new.head = work.head
<1>1. PICK c, r, h, l, a :
        work = [pc |-> c, receipt |-> r, head |-> h, lease |-> l, attempts |-> a]
  BY DEF Work
<1>2. PICK new : new = [work EXCEPT !.pc = pc]
  OBVIOUS
<1>3. new = [pc |-> pc, receipt |-> r, head |-> h, lease |-> l, attempts |-> a]
  BY <1>1, <1>2
<1>4. /\ new.pc = pc /\ new.receipt = r /\ new.head = h /\ new.lease = l /\ new.attempts = a
      /\ work.receipt = r /\ work.head = h
  BY <1>1, <1>3
<1>5. r \in Receipts /\ h \in Seq(Branches)
  BY <1>4 DEF Work
<1>6. Work(new)
  BY <1>3, <1>4, <1>5 DEF Work
<1> QED
  BY <1>2, <1>4, <1>6

\* The object that is put says what the worker says.
LEMMA PutOK ==
  ASSUME WitnessInv, NEW w \in EvidenceWorkers, Witness!PutObject(w)
  PROVE  WitnessInv'
<1>1. PICK work, k, body, new :
        /\ work = evidenceWorkers[w] /\ k = Len(work.head)
        /\ body = [receipt |-> work.receipt, head |-> work.head]
        /\ new = [work EXCEPT !.pc =
             IF Witness!Slot(work) = Absent
                \/ Witness!SameBytes(Witness!Slot(work), Witness!Body(work.receipt, work.head))
             THEN "put" ELSE "failed"]
  OBVIOUS
<1>2. /\ work.pc = "claimed" /\ Witness!Set(w, new)
      /\ UNCHANGED <<Witness!source, receipt, evidence, recovery>>
      /\ object' = IF object[k] = Absent THEN [object EXCEPT ![k] = body] ELSE object
  BY <1>1 DEF Witness!PutObject, Witness!Slot, Witness!Body
<1>3. Work(work) /\ work # Witness!Idle
  BY <1>1, <1>2, AtWork
<1>4. Work(new) /\ new.receipt = work.receipt /\ new.head = work.head
  <2>1. PICK pc : pc = IF Witness!Slot(work) = Absent
                     \/ Witness!SameBytes(Witness!Slot(work), Witness!Body(work.receipt, work.head))
                       THEN "put" ELSE "failed"
    OBVIOUS
  <2>2. pc \in {"claimed", "put", "failed"} /\ new = [work EXCEPT !.pc = pc]
    BY <1>1, <2>1
  <2> QED
    BY <1>3, <2>2, NextPc
<1>5. /\ evidenceWorkers' = [x \in EvidenceWorkers |-> evidenceWorkers'[x]]
      /\ \A x \in EvidenceWorkers :
           evidenceWorkers'[x] = Witness!Idle \/ Work(evidenceWorkers'[x])
      /\ \A r, h : Worker(r, h)' => Worker(r, h)
  BY <1>1, <1>2, <1>3, <1>4, WorkerGoesOn
<1>6. body.receipt = work.receipt /\ body.head = work.head
  BY <1>1
<1>7. /\ object' = [n \in Witness!Numbers |-> object'[n]]
      /\ \A n \in Witness!Numbers :
           \/ object'[n] = object[n]
           \/ object[n] = Absent /\ object'[n] = body
  BY <1>2 DEF WitnessInv, WitnessTypeOK
<1>8. WitnessTypeOK'
  <2>1. \A n \in Witness!Numbers : object'[n] # Absent =>
          object'[n].receipt \in Receipts /\ object'[n].head \in Seq(Branches)
    BY <1>3, <1>6, <1>7 DEF WitnessInv, WitnessTypeOK, Work
  <2>2. /\ chain' \in Seq(Branches) /\ branch' \in Branches /\ anchors' \subseteq Seq(Branches)
        /\ receipt' \in [Receipts -> Seq(Branches) \cup {Absent}]
        /\ evidence' = [r \in Receipts |-> evidence'[r]]
        /\ \A r \in Receipts : evidence'[r] # Absent => receipt'[r] # Absent
    BY <1>2 DEF WitnessInv, WitnessTypeOK, Witness!source
  <2> QED
    BY <1>5, <1>7, <2>1, <2>2 DEF WitnessTypeOK, Witness!Numbers, Work, Witness!Idle
<1>9. ASSUME NEW r \in Receipts, NEW h, Says(r, h)' PROVE Says(r, h)
  <2>1. Booking(r, h)' => Booking(r, h)
    BY <1>2 DEF Booking
  <2>2. ASSUME NEW n \in Witness!Numbers, object'[n] # Absent, object'[n].receipt = r,
               object'[n].head = h
        PROVE  Says(r, h)
    <3>1. CASE object'[n] = object[n]
      BY <2>2, <3>1 DEF Says, Object
    <3>2. CASE object'[n] = body
      BY <1>1, <1>3, <1>6, <2>2, <3>2 DEF Says, Worker, Witness!Used
    <3> QED
      BY <1>7, <3>1, <3>2
  <2>3. Object(r, h)' => Says(r, h)
    BY <2>2 DEF Object, Witness!Numbers
  <2> QED
    BY <1>5, <1>9, <2>1, <2>3 DEF Says
<1>10. RecoveryOK'
  <2>1. SUFFICES ASSUME recovery # Witness!Idle PROVE RecoveryOK'
    BY <1>2 DEF RecoveryOK, Witness!Idle
  <2>2. /\ recovery = [pc |-> "recovering", left |-> recovery.left, due |-> recovery.due]
        /\ recovery.due \subseteq Witness!Numbers /\ recovery.left \subseteq recovery.due
        /\ \A n \in recovery.due : object[n] # Absent
        /\ \A n \in recovery.due \ recovery.left : receipt[object[n].receipt] = object[n].head
    BY <2>1 DEF WitnessInv, RecoveryOK
  <2>3. \A n \in recovery.due : object'[n] = object[n]
    BY <1>7, <2>2
  <2> QED
    BY <1>2, <2>2, <2>3 DEF RecoveryOK, Witness!Numbers
<1> QED
  BY <1>8, <1>9, <1>10, NothingNew DEF WitnessInv

LEMMA FinishOK ==
  ASSUME WitnessInv, NEW w \in EvidenceWorkers, Witness!FinishEvidence(w)
  PROVE  WitnessInv'
<1>1. PICK r : r = evidenceWorkers[w].receipt
  OBVIOUS
<1>2. /\ UNCHANGED <<Witness!source, receipt, object, recovery>>
      /\ Witness!Set(w, Witness!Idle)
      /\ \/ evidence' = evidence
         \/ evidence[r] # Absent /\ \E e : evidence' = [evidence EXCEPT ![r] = e]
  <2>1. CASE Witness!Leased(evidenceWorkers[w])
    <3>1. evidence[r] # Absent
      BY <1>1, <2>1 DEF Witness!Leased
    <3>2. \E e : evidence' = [evidence EXCEPT ![r] = e]
      BY <1>1, <2>1 DEF Witness!FinishEvidence
    <3> QED
      BY <3>1, <3>2 DEF Witness!FinishEvidence
  <2>2. CASE ~ Witness!Leased(evidenceWorkers[w])
    BY <2>2 DEF Witness!FinishEvidence
  <2> QED
    BY <2>1, <2>2
<1>3. /\ evidence' = [q \in Receipts |-> evidence'[q]]
      /\ \A q \in Receipts : evidence'[q] # Absent => evidence[q] # Absent
  BY <1>2 DEF WitnessInv, WitnessTypeOK
<1> QED
  BY <1>2, <1>3, WorkerGoesOn, OnlyTheWorker

LEMMA WorkerFailsOK ==
  ASSUME WitnessInv, NEW w \in EvidenceWorkers, Witness!LoseAnswer(w) \/ Witness!StopWorker(w)
  PROVE  WitnessInv'
<1>1. UNCHANGED <<Witness!source, receipt, evidence, object, recovery>>
  BY DEF Witness!LoseAnswer, Witness!StopWorker
<1>2. CASE Witness!StopWorker(w)
  BY <1>1, <1>2, WorkerGoesOn, OnlyTheWorker DEF Witness!StopWorker, WitnessInv, WitnessTypeOK
<1>3. CASE Witness!LoseAnswer(w)
  <2>1. PICK new : new = [evidenceWorkers[w] EXCEPT !.pc = "failed"]
    OBVIOUS
  <2>2. /\ Witness!Set(w, new)
        /\ evidenceWorkers[w].pc \in {"claimed", "put", "failed"}
    BY <1>3, <2>1 DEF Witness!LoseAnswer
  <2>3. Work(evidenceWorkers[w]) /\ evidenceWorkers[w] # Witness!Idle
    BY <2>2, AtWork
  <2>4. Work(new) /\ new.receipt = evidenceWorkers[w].receipt
        /\ new.head = evidenceWorkers[w].head
    BY <2>1, <2>3, NextPc
  <2> QED
    BY <1>1, <2>2, <2>3, <2>4, WorkerGoesOn, OnlyTheWorker DEF WitnessInv, WitnessTypeOK
<1> QED
  BY <1>2, <1>3

LEMMA LeaseStepOK ==
  ASSUME WitnessInv, NEW r \in Receipts, Witness!LeaseRunsOut(r) \/ Witness!RetryEvidence(r)
  PROVE  WitnessInv'
<1>1. /\ UNCHANGED <<Witness!source, receipt, object, evidenceWorkers, recovery>>
      /\ evidence[r] # Absent
  BY DEF Witness!LeaseRunsOut, Witness!RetryEvidence
<1>2. \E e : evidence' = [evidence EXCEPT ![r] = e]
  BY DEF Witness!LeaseRunsOut, Witness!RetryEvidence
<1>3. /\ evidence' = [q \in Receipts |-> evidence'[q]]
      /\ \A q \in Receipts : evidence'[q] # Absent => evidence[q] # Absent
  BY <1>1, <1>2 DEF WitnessInv, WitnessTypeOK
<1>4. \A q, h : Worker(q, h)' => Worker(q, h)
  BY <1>1 DEF Worker, Witness!Used
<1> QED
  BY <1>1, <1>3, <1>4, OnlyTheWorker DEF WitnessInv, WitnessTypeOK

\* A receipt of which nothing is known is booked.
LEMMA IngestOK ==
  ASSUME Absent \notin Seq(Branches), WitnessInv, NEW r \in Receipts, NEW h \in anchors,
         Witness!IngestReceipt(r, h)
  PROVE  WitnessInv'
<1>1. /\ receipt[r] = Absent /\ receipt' = [receipt EXCEPT ![r] = h]
      /\ evidence' = [evidence EXCEPT ![r] = Witness!NewEvidence("pending")]
      /\ UNCHANGED <<Witness!source, object, evidenceWorkers, recovery>>
  BY DEF Witness!IngestReceipt, Witness!Fresh
<1>2. h \in Seq(Branches) /\ h # Absent
  BY DEF WitnessInv, WitnessTypeOK
<1>3. /\ receipt' = [q \in Receipts |-> IF q = r THEN h ELSE receipt[q]]
      /\ evidence' = [q \in Receipts |-> IF q = r THEN Witness!NewEvidence("pending")
                                         ELSE evidence[q]]
  BY <1>1 DEF WitnessInv, WitnessTypeOK
<1>4. WitnessTypeOK'
  BY <1>1, <1>2, <1>3
     DEF WitnessInv, WitnessTypeOK, Witness!source, Witness!Numbers, Work, Witness!Idle
<1>5. \A g : ~ Object(r, g) /\ ~ Worker(r, g)
  BY DEF Witness!IngestReceipt, Witness!Fresh, Object, Worker
<1>6. \A q, g : (Object(q, g)' <=> Object(q, g)) /\ (Worker(q, g)' <=> Worker(q, g))
  BY <1>1 DEF Object, Worker, Witness!Used
<1>7. ASSUME NEW q \in Receipts, NEW g, Says(q, g)'
      PROVE  (q = r /\ g = h) \/ (q # r /\ Says(q, g))
  <2>1. CASE q = r
    BY <1>3, <1>5, <1>6, <1>7, <2>1 DEF Says, Booking
  <2>2. CASE q # r
    BY <1>3, <1>6, <1>7, <2>2 DEF Says, Booking
  <2> QED
    BY <2>1, <2>2
<1>8. OneHead'
  <2>1. ASSUME NEW q \in Receipts, NEW f, NEW g, Says(q, f)', Says(q, g)' PROVE f = g
    BY <1>7, <2>1 DEF WitnessInv, OneHead
  <2> QED
    BY <2>1 DEF OneHead
<1>9. RecoveryOK'
  <2>1. SUFFICES ASSUME recovery # Witness!Idle PROVE RecoveryOK'
    BY <1>1 DEF RecoveryOK, Witness!Idle
  <2>2. /\ recovery = [pc |-> "recovering", left |-> recovery.left, due |-> recovery.due]
        /\ recovery.due \subseteq Witness!Numbers /\ recovery.left \subseteq recovery.due
        /\ \A n \in recovery.due : object[n] # Absent
        /\ \A n \in recovery.due \ recovery.left : receipt[object[n].receipt] = object[n].head
    BY <2>1 DEF WitnessInv, RecoveryOK
  <2>3. ASSUME NEW n \in recovery.due \ recovery.left
        PROVE  receipt'[object[n].receipt] = object[n].head
    <3>1. /\ object[n].receipt \in Receipts /\ object[n].head # Absent
          /\ receipt[object[n].receipt] = object[n].head
      BY <2>2 DEF WitnessInv, WitnessTypeOK
    <3>2. object[n].receipt # r
      BY <1>1, <3>1
    <3> QED
      BY <1>3, <3>1, <3>2
  <2> QED
    BY <1>1, <2>2, <2>3 DEF RecoveryOK, Witness!Numbers
<1> QED
  BY <1>4, <1>8, <1>9 DEF WitnessInv

\* What was written and what workers have remains.
LEMMA LoseDatabaseOK ==
  ASSUME WitnessInv, Witness!LoseDatabase
  PROVE  WitnessInv'
<1>1. /\ receipt' = [r \in Receipts |-> Absent] /\ evidence' = [r \in Receipts |-> Absent]
      /\ UNCHANGED <<Witness!source, object, evidenceWorkers>>
      /\ recovery' =
           IF recovery = Witness!Idle THEN Witness!Idle ELSE [recovery EXCEPT !.due = recovery.left]
  BY DEF Witness!LoseDatabase
<1>2. WitnessTypeOK'
  BY <1>1 DEF WitnessInv, WitnessTypeOK, Witness!source, Witness!Numbers, Work, Witness!Idle
<1>3. ASSUME NEW r \in Receipts, NEW h, Says(r, h)' PROVE Says(r, h)
  <2>1. ~ Booking(r, h)'
    BY <1>1 DEF Booking
  <2>2. (Object(r, h)' => Object(r, h)) /\ (Worker(r, h)' => Worker(r, h))
    BY <1>1 DEF Object, Worker, Witness!Used
  <2> QED
    BY <1>3, <2>1, <2>2 DEF Says
<1>4. RecoveryOK'
  <2>1. CASE recovery = Witness!Idle
    BY <1>1, <2>1 DEF RecoveryOK, Witness!Idle
  <2>2. CASE recovery # Witness!Idle
    <3>1. /\ recovery = [pc |-> "recovering", left |-> recovery.left, due |-> recovery.due]
          /\ recovery.left \subseteq Witness!Numbers /\ \A n \in recovery.left : object[n] # Absent
      BY <2>2 DEF WitnessInv, RecoveryOK
    <3>2. PICK left, owed : recovery = [pc |-> "recovering", left |-> left, due |-> owed]
      BY <3>1
    <3>3. recovery' = [pc |-> "recovering", left |-> left, due |-> left] /\ recovery.left = left
      BY <1>1, <2>2, <3>2
    <3>4. recovery'.left = left /\ recovery'.due = left
      BY <3>3
    <3> QED
      BY <1>1, <3>1, <3>3, <3>4 DEF RecoveryOK, Witness!Numbers
  <2> QED
    BY <2>1, <2>2
<1> QED
  BY <1>2, <1>3, <1>4, NothingNew DEF WitnessInv

LEMMA AllLeft ==
  ASSUME WitnessInv, UNCHANGED <<Witness!source, receipt, evidence, object, evidenceWorkers>>
  PROVE  WitnessTypeOK' /\ OneHead'
  BY DEF WitnessInv, WitnessTypeOK, Witness!source, Witness!Numbers, Work, Witness!Idle,
     OneHead, Says, Booking, Object, Worker, Witness!Used

LEMMA ListOK ==
  ASSUME WitnessInv, Witness!ListObjects
  PROVE  WitnessInv'
<1>1. PICK s : s = Witness!Stored
  OBVIOUS
<1>2. /\ recovery' = [pc |-> "recovering", left |-> s, due |-> s]
      /\ UNCHANGED <<Witness!source, receipt, evidence, object, evidenceWorkers>>
  BY <1>1 DEF Witness!ListObjects
<1>3. recovery'.due = s /\ recovery'.left = s
  BY <1>2
<1>4. WitnessTypeOK' /\ OneHead'
  BY <1>2, AllLeft
<1>5. s \subseteq Witness!Numbers /\ \A n \in s : object[n] # Absent
  BY <1>1 DEF Witness!Stored
<1>6. RecoveryOK'
  BY <1>2, <1>3, <1>5 DEF RecoveryOK, Witness!Numbers
<1> QED
  BY <1>4, <1>6 DEF WitnessInv

\* An object is booked, or it is booked already: as it is said to be either way.
LEMMA RestoreOK ==
  ASSUME Absent \notin Seq(Branches), WitnessInv, Witness!RestoreEvidence
  PROVE  WitnessInv'
<1>1. /\ recovery = [pc |-> "recovering", left |-> recovery.left, due |-> recovery.due]
      /\ recovery.due \subseteq Witness!Numbers /\ recovery.left \subseteq recovery.due
      /\ \A n \in recovery.due : object[n] # Absent
      /\ \A n \in recovery.due \ recovery.left : receipt[object[n].receipt] = object[n].head
  BY DEF Witness!RestoreEvidence, WitnessInv, RecoveryOK
<1>2. UNCHANGED <<Witness!source, object, evidenceWorkers>>
  BY DEF Witness!RestoreEvidence
<1>3. PICK n \in recovery.left :
        \/ /\ receipt' = [receipt EXCEPT ![object[n].receipt] = object[n].head]
           /\ evidence' = [evidence EXCEPT ![object[n].receipt] = Witness!NewEvidence("stored")]
           /\ recovery' = [recovery EXCEPT !.left = @ \ {n}]
        \/ /\ Witness!RowAt(n) # {} /\ Witness!Matching(n)
           /\ recovery' = [recovery EXCEPT !.left = @ \ {n}]
           /\ UNCHANGED <<receipt, evidence>>
        \/ recovery' = Witness!Idle /\ UNCHANGED <<receipt, evidence>>
  BY DEF Witness!RestoreEvidence
<1>n. n \in Witness!Numbers /\ object[n] # Absent
  BY <1>1
<1>4. PICK left, owed :
        recovery = [pc |-> "recovering", left |-> left, due |-> owed]
  BY <1>1
<1>5. recovery.due = owed /\ recovery.left = left
  BY <1>4
<1>6. ASSUME recovery' = [recovery EXCEPT !.left = @ \ {n}]
      PROVE  /\ recovery' = [pc |-> "recovering", left |-> left \ {n}, due |-> owed]
             /\ recovery'.due = owed /\ recovery'.left = left \ {n}
  BY <1>4, <1>6
<1>7. ASSUME UNCHANGED <<receipt, evidence>> PROVE WitnessTypeOK' /\ OneHead'
  BY <1>2, <1>7, AllLeft
<1>8. CASE recovery' = Witness!Idle /\ UNCHANGED <<receipt, evidence>>
  <2>1. RecoveryOK'
    BY <1>8 DEF RecoveryOK, Witness!Idle
  <2> QED
    BY <1>7, <1>8, <2>1 DEF WitnessInv
\* The row at the sequence number is of the receipt that the object names.
<1>9. CASE /\ Witness!RowAt(n) # {} /\ Witness!Matching(n)
           /\ recovery' = [recovery EXCEPT !.left = @ \ {n}]
           /\ UNCHANGED <<receipt, evidence>>
  <2>1. PICK r, h : r = object[n].receipt /\ h = receipt[r]
    OBVIOUS
  <2>2. r \in Receipts /\ h # Absent
    BY <1>9, <2>1 DEF Witness!RowAt, Witness!Matching, Witness!Booked
  <2>3. Says(r, h) /\ Says(r, object[n].head)
    BY <1>n, <2>1, <2>2 DEF Says, Booking, Object
  <2>4. receipt[object[n].receipt] = object[n].head
    BY <2>1, <2>2, <2>3 DEF WitnessInv, OneHead
  <2>5. RecoveryOK'
    BY <1>1, <1>2, <1>5, <1>6, <1>9, <2>4 DEF RecoveryOK, Witness!Numbers
  <2> QED
    BY <1>7, <1>9, <2>5 DEF WitnessInv
<1>10. CASE /\ receipt' = [receipt EXCEPT ![object[n].receipt] = object[n].head]
            /\ evidence' = [evidence EXCEPT ![object[n].receipt] = Witness!NewEvidence("stored")]
            /\ recovery' = [recovery EXCEPT !.left = @ \ {n}]
  <2>1. PICK r, h : r = object[n].receipt /\ h = object[n].head
    OBVIOUS
  <2>2. r \in Receipts /\ h \in Seq(Branches) /\ h # Absent
    BY <1>n, <2>1 DEF WitnessInv, WitnessTypeOK
  <2>3. /\ receipt' = [q \in Receipts |-> IF q = r THEN h ELSE receipt[q]]
        /\ evidence' = [q \in Receipts |-> IF q = r THEN Witness!NewEvidence("stored")
                                           ELSE evidence[q]]
    BY <1>10, <2>1 DEF WitnessInv, WitnessTypeOK
  <2>4. Says(r, h)
    BY <1>n, <2>1 DEF Says, Object
  <2>5. WitnessTypeOK'
    BY <1>2, <2>2, <2>3
       DEF WitnessInv, WitnessTypeOK, Witness!source, Witness!Numbers, Work, Witness!Idle
  <2>6. ASSUME NEW q \in Receipts, NEW g, Says(q, g)' PROVE Says(q, g)
    <3>1. (Object(q, g)' => Object(q, g)) /\ (Worker(q, g)' => Worker(q, g))
      BY <1>2 DEF Object, Worker, Witness!Used
    <3>2. Booking(q, g)' => Booking(q, g) \/ (q = r /\ g = h)
      BY <2>3 DEF Booking
    <3> QED
      BY <2>4, <2>6, <3>1, <3>2 DEF Says
  <2>7. ASSUME NEW m \in owed, m \notin left \ {n}
        PROVE  receipt'[object[m].receipt] = object[m].head
    <3>1. /\ m \in Witness!Numbers /\ object[m] # Absent
          /\ object[m].receipt \in Receipts
      BY <1>1, <1>5, <2>7 DEF WitnessInv, WitnessTypeOK
    <3>2. CASE object[m].receipt = r
      <4>1. Says(r, object[m].head)
        BY <3>1, <3>2 DEF Says, Object
      <4>2. object[m].head = h
        BY <2>2, <2>4, <4>1 DEF WitnessInv, OneHead
      <4> QED
        BY <2>2, <2>3, <3>2, <4>2
    <3>3. CASE object[m].receipt # r
      <4>1. m # n
        BY <2>1, <3>3
      <4>2. receipt[object[m].receipt] = object[m].head
        BY <1>1, <1>5, <2>7, <4>1
      <4> QED
        BY <2>3, <3>1, <3>3, <4>2
    <3> QED
      BY <3>2, <3>3
  <2>8. RecoveryOK'
    BY <1>1, <1>2, <1>5, <1>6, <1>10, <2>7 DEF RecoveryOK, Witness!Numbers
  <2> QED
    BY <2>5, <2>6, <2>8, NothingNew DEF WitnessInv
<1> QED
  BY <1>3, <1>8, <1>9, <1>10

LEMMA WitnessNext ==
  Absent \notin Seq(Branches) /\ WitnessInv /\ [Witness!Next]_Witness!vars => WitnessInv'
<1> SUFFICES ASSUME Absent \notin Seq(Branches), WitnessInv, [Witness!Next]_Witness!vars
             PROVE  WitnessInv'
  OBVIOUS
<1>1. CASE UNCHANGED Witness!vars
  <2>1. UNCHANGED <<Witness!source, receipt, evidence, object, evidenceWorkers, recovery>>
    BY <1>1 DEF Witness!vars
  <2>2. RecoveryOK'
    BY <2>1 DEF WitnessInv, RecoveryOK, Witness!Idle, Witness!Numbers
  <2> QED
    BY <2>1, <2>2, AllLeft DEF WitnessInv
<1>2. CASE Witness!EndRecovery
  <2>1. /\ recovery' = Witness!Idle
        /\ UNCHANGED <<Witness!source, receipt, evidence, object, evidenceWorkers>>
    BY <1>2 DEF Witness!EndRecovery
  <2>2. RecoveryOK'
    BY <2>1 DEF RecoveryOK, Witness!Idle
  <2>3. WitnessTypeOK' /\ OneHead'
    BY <2>1, AllLeft
  <2> QED
    BY <2>2, <2>3 DEF WitnessInv
<1>3. CASE Witness!Storing
  BY <1>3, PutOK, FinishOK, ClaimOK DEF Witness!Storing
<1>4. CASE Witness!Trouble
  BY <1>4, LoseDatabaseOK, WorkerFailsOK DEF Witness!Trouble
<1>5. ASSUME NEW r \in Receipts, Witness!LeaseRunsOut(r) \/ Witness!RetryEvidence(r)
      PROVE  WitnessInv'
  BY <1>5, LeaseStepOK
<1>6. ASSUME NEW r \in Receipts, NEW h \in anchors, Witness!IngestReceipt(r, h)
      PROVE  WitnessInv'
  BY <1>6, IngestOK
<1>7. CASE Witness!ListObjects
  BY <1>7, ListOK
<1>8. CASE Witness!RestoreEvidence
  BY <1>8, RestoreOK
<1> QED
  BY <1>1, <1>2, <1>3, <1>4, <1>5, <1>6, <1>7, <1>8, SourceOK DEF Witness!Next

\* Rows, objects and workers agree on the head of each receipt, whichever of them is lost,
\* and a recovery has booked what it has passed since the database was last lost
\* (ingestReceipt, recoverEvidence).
THEOREM WitnessInvariant == WitnessSpec => []WitnessInv
<1>1. Witness!Init => WitnessInv
  BY WitnessInit, WitnessAssumption DEF Witness!WitnessAssumption
<1>2. WitnessInv /\ [Witness!Next]_Witness!vars => WitnessInv'
  BY WitnessNext, HeadAssumption
<1> QED
  BY <1>1, <1>2, PTL DEF WitnessSpec, Witness!Spec

\* A recovery that comes to its end leaves every object it listed booked as it was stored,
\* but for those it had booked when the database was lost under it, for any number of
\* receipts, workers, losses and branches of the chain and whatever is booked meanwhile
\* (AuditWitnessService.recoverEvidence).
THEOREM RecoveryIsWhole == WitnessSpec => RecoveredAll
<1> DEFINE Whole ==
      recovery # Witness!Idle /\ recovery' = Witness!Idle /\ recovery.left = {} =>
        \A n \in recovery.due : receipt[object[n].receipt] = object[n].head
<1>1. WitnessInv => [Whole]_Witness!vars
  BY DEF WitnessInv, RecoveryOK
<1>2. WitnessSpec => []WitnessInv
  BY WitnessInvariant
<1>3. WitnessSpec => [][Whole]_Witness!vars
  BY <1>1, <1>2, PTL DEF WitnessSpec, Witness!Spec
<1> QED
  BY <1>3 DEF RecoveredAll, Witness!RecoveredAll
=============================================================================
