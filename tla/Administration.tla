--------------------------- MODULE Administration ---------------------------
(* The two halves of the administration: approvals, and the accounts that    *)
(* ask for them and decide.  Neither writes the other's rows; an account is  *)
(* a name to the approvals, whatever its roles.                              *)
EXTENDS AdminApprovals

CONSTANTS
  Holders,          \* accounts that enroll and sign in
  Codes,
  MaxFailedLogins

VARIABLES
  status, super, confirmed, enrollable, failed, locked, codes, accepted, signedIn,
  signIns           \* the calls of AdminAccounts

accountVars ==
  <<status, super, confirmed, enrollable, failed, locked, codes, accepted, signedIn, signIns>>

Accts == INSTANCE AdminAccounts WITH Accounts <- Holders, calls <- signIns

\* No recovery code signs in twice (AdminAccounts, consumeAdminRecoveryCode).
CodesOnce == Accts!CodesOnce

\* The last active super administrator is preserved (AdminAccounts,
\* setAdminAccountStatus and replaceAdminAccountRoles).
SuperPreserved == Accts!SuperPreserved
=============================================================================
