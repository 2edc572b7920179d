----------------------------- MODULE MCDelivery -----------------------------
(* Outbox: two messages and two workers that may stop or be late once, and   *)
(* one retry.  Witness: two workers, two receipts over chains of up to two   *)
(* events.  A behaviour is one of the outbox or one of the witness.          *)
EXTENDS WatchedChain, IndependentWitness

CONSTANT none

VARIABLE subject

\* The chain stays as it is.
NoReports == {none}
OneChannel == <<none>>

deliveryVars == <<chainVars, outboxVars, witnessVars, subject>>

DeliveryInit ==
  Recovery!Init /\ Outbox!Init /\ Witness!Init /\ subject \in {"outbox", "witness"}

OfOutbox(A) == subject = "outbox" /\ A /\ UNCHANGED <<chainVars, witnessVars, subject>>
OfWitness(A) == subject = "witness" /\ A /\ UNCHANGED <<chainVars, outboxVars, subject>>

DeliveryNext == OfOutbox(Outbox!Next) \/ OfWitness(Witness!Next)

\* FairOutbox of DeliveryOutbox and the fairness of AuditWitness, of the subject.
DeliverySpec ==
  /\ DeliveryInit /\ [][DeliveryNext]_deliveryVars
  /\ \A m \in Messages :
       /\ WF_deliveryVars(OfOutbox(Outbox!BecomeDue(m)))
       /\ WF_deliveryVars(OfOutbox(Outbox!ExpireAbandoned(m)))
       /\ SF_deliveryVars(OfOutbox(\E x \in Senders : Outbox!Claim(x, m)))
  /\ \A x \in Senders :
       /\ WF_deliveryVars(OfOutbox(\E accepted, answered \in BOOLEAN :
                                     Outbox!Deliver(x, accepted, answered)))
       /\ WF_deliveryVars(OfOutbox(Outbox!Finish(x)))
  /\ WF_deliveryVars(OfWitness(Witness!Storing))
  /\ \A r \in Receipts : WF_deliveryVars(OfWitness(Witness!LeaseRunsOut(r)))
=============================================================================
