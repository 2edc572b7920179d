---------------------------- MODULE Enforcement ------------------------------
(* What holds a deployment to its contract: the license and its leases, and  *)
(* the signed receipts of what it executed.  They share no row, only the     *)
(* instances whose calls run both.                                           *)
EXTENDS LicenseLifecycle

CONSTANTS
  Keys, Receipts, Refs, Times, MaxCredits,   \* of the ledger (CreditLedger)
  SigningKeys, Envelopes                     \* of the receipts (ExecutionReceipts)

VARIABLES
  account, holds, ledger, keys, lastSequence, stored, bootstrapLock,
  receiptCalls, receiptAudit   \* calls and audit of ExecutionReceipts

billingVars ==
  <<account, holds, ledger, keys, lastSequence, stored, bootstrapLock, receiptCalls, receiptAudit>>

Billing == INSTANCE ExecutionReceipts WITH calls <- receiptCalls, audit <- receiptAudit

\* Envelopes are of known receipts and keys, and nobody is not a call.
ASSUME BillingAssumption ==
  /\ Billing!KeysAssumption /\ Billing!CreditsAssumption /\ Billing!TimesAssumption
  /\ \A e \in Envelopes :
       e.id \in Receipts /\ e.key \in SigningKeys /\ e.ref \in Refs /\ e.sequence \in Nat \ {0}
  /\ None \notin Callers

\* Receipts are billed once each, in order (ExecutionReceipts,
\* ingestExecutionReceipt).
ReceiptsAreBilled == Billing!ReceiptsAreBilled

\* At most one key is bootstrapped (ExecutionReceipts,
\* bootstrapExecutionReceiptKey).
BootstrapOnce == Billing!BootstrapOnce

\* Nothing is billed with a key that was revoked (ExecutionReceipts,
\* revokeExecutionReceiptKey).
RevocationIsFinal == Billing!RevocationIsFinal
=============================================================================
