---------------------------- MODULE AdminAccounts ----------------------------
(* Accounts of administrators: bootstrap, enrollment, sign-in, roles and     *)
(* status.  A call runs on any instance, is made of transactions with others *)
(* in between, and decides some of what it does from rows it read earlier.   *)
(*                                                                           *)
(* Passwords and one-time codes are right or wrong.  The two roles are super *)
(* administrator and security administrator, which both manage accounts.  An *)
(* account is signed in as long as some session of it is neither revoked nor *)
(* over; time is that sessions, locks and enrollments end.                   *)
EXTENDS Integers, FiniteSets

CONSTANTS
  Accounts,
  Codes,            \* the recovery codes of an account
  Callers,          \* calls in flight at once
  MaxFailedLogins,  \* MAX_FAILED_LOGINS, positive
  None

VARIABLES
  status,       \* of control_admin_accounts
  super,        \* accounts with the role super_admin
  confirmed,    \* accounts with mfa_confirmed_at
  enrollable,   \* accounts with a row of control_admin_enrollments that is in time
  failed,       \* failed_login_count
  locked,       \* accounts with locked_until to come
  codes,        \* [Accounts -> recovery codes not used]
  accepted,     \* [Accounts -> [Codes -> how often the code signed in]]
  signedIn,
  calls         \* [Callers -> call]

identity == <<status, super, confirmed, enrollable>>
credentials == <<failed, locked, codes, accepted>>
vars == <<identity, credentials, signedIn, calls>>

Idle == [pc |-> "idle"]
Leave(c) == calls' = [calls EXCEPT ![c] = Idle]
Become(c, call) == calls' = [calls EXCEPT ![c] = call]
Goto(c, pc) == calls' = [calls EXCEPT ![c].pc = pc]

Init ==
  /\ status = [a \in Accounts |-> "none"]
  /\ super = {} /\ confirmed = {} /\ enrollable = {}
  /\ failed = [a \in Accounts |-> 0] /\ locked = {}
  /\ codes = [a \in Accounts |-> {}]
  /\ accepted = [a \in Accounts |-> [r \in Codes |-> 0]]
  /\ signedIn = {}
  /\ calls = [c \in Callers |-> Idle]

Existing == {a \in Accounts : status[a] # "none"}
ActiveSupers == {a \in super : status[a] = "active"}

\* getAdminPrincipalBySessionTokenHash
Principals == {a \in signedIn \cap confirmed : status[a] = "active"}

-----------------------------------------------------------------------------
\* New accounts.

\* Two of these may both see that there is no account yet.
Bootstrap(c) ==
  /\ calls[c] = Idle /\ Existing = {}
  /\ Become(c, [pc |-> "create", super |-> TRUE])
  /\ UNCHANGED <<identity, credentials, signedIn>>

CreateAccount(c, isSuper) ==
  /\ calls[c] = Idle /\ Principals # {}
  /\ Become(c, [pc |-> "create", super |-> isSuper])
  /\ UNCHANGED <<identity, credentials, signedIn>>

CreateAdminAccount(c, a) ==
  /\ calls[c].pc = "create" /\ a \notin Existing
  /\ status' = [status EXCEPT ![a] = "pending"]
  /\ super' = IF calls[c].super THEN super \cup {a} ELSE super
  /\ enrollable' = enrollable \cup {a}
  /\ Leave(c)
  /\ UNCHANGED <<confirmed, credentials, signedIn>>

BeginConfirm(c, a) ==
  /\ calls[c] = Idle /\ status[a] = "pending"
  /\ Become(c, [pc |-> "confirm", account |-> a])
  /\ UNCHANGED <<identity, credentials, signedIn>>

StillPending(a) == status[a] = "pending"

\* confirmAdminEnrollment, or the call ends.
ConfirmAdminEnrollment(c) ==
  LET a == calls[c].account IN
  /\ calls[c].pc = "confirm"
  /\ IF a \in enrollable /\ StillPending(a)
     THEN /\ status' = [status EXCEPT ![a] = "active"]
          /\ confirmed' = confirmed \cup {a}
          /\ enrollable' = enrollable \ {a}
          /\ codes' = [codes EXCEPT ![a] = Codes]
          /\ Become(c, [pc |-> "session", account |-> a])
          /\ UNCHANGED <<super, failed, locked, accepted>>
     ELSE /\ Leave(c)
          /\ UNCHANGED <<identity, credentials>>
  /\ UNCHANGED signedIn

-----------------------------------------------------------------------------
\* Sign-in.

\* The row is read once; all that follows goes by what it said.
Login(c, a) ==
  /\ calls[c] = Idle /\ a \in Existing \ locked
  /\ \/ Become(c, [pc |-> "failure", account |-> a, failed |-> failed[a]])
     \/ /\ status[a] = "active" /\ a \in confirmed
        /\ \/ Become(c, [pc |-> "clear", account |-> a])
           \/ \E r \in Codes :
                Become(c, [pc |-> "code", account |-> a, code |-> r, failed |-> failed[a]])
  /\ UNCHANGED <<identity, credentials, signedIn>>

\* Slip: a code is looked up by its hash, used or not.
Issued(a, r) == a \in confirmed
Unused(a, r) == r \in codes[a]

\* consumeAdminRecoveryCode, a conditional UPDATE.
ConsumeAdminRecoveryCode(c) ==
  LET call == calls[c] IN
  /\ call.pc = "code"
  /\ IF Unused(call.account, call.code)
     THEN /\ codes' = [codes EXCEPT ![call.account] = @ \ {call.code}]
          /\ accepted' = [accepted EXCEPT ![call.account][call.code] = @ + 1]
          /\ Become(c, [pc |-> "clear", account |-> call.account])
     ELSE /\ Become(c, [pc |-> "failure", account |-> call.account, failed |-> call.failed])
          /\ UNCHANGED <<codes, accepted>>
  /\ UNCHANGED <<identity, failed, locked, signedIn>>

\* What is written counts from what was read: of failures at the same time one
\* counts, and a late one lifts a lock.
RecordAdminLoginFailure(c) ==
  LET a == calls[c].account
      limit == calls[c].failed + 1 >= MaxFailedLogins
  IN
  /\ calls[c].pc = "failure"
  /\ failed' = [failed EXCEPT ![a] = IF limit THEN 0 ELSE calls[c].failed + 1]
  /\ locked' = IF limit THEN locked \cup {a} ELSE locked \ {a}
  /\ Leave(c)
  /\ UNCHANGED <<identity, codes, accepted, signedIn>>

ClearAdminLoginFailures(c) ==
  LET a == calls[c].account IN
  /\ calls[c].pc = "clear"
  /\ failed' = [failed EXCEPT ![a] = 0]
  /\ locked' = locked \ {a}
  /\ Goto(c, "session")
  /\ UNCHANGED <<identity, codes, accepted, signedIn>>

\* The session is there even if its account is not active any more.
CreateAdminSession(c) ==
  /\ calls[c].pc = "session"
  /\ signedIn' = signedIn \cup {calls[c].account}
  /\ Leave(c)
  /\ UNCHANGED <<identity, credentials>>

-----------------------------------------------------------------------------
\* Roles and status.

\* #protectLastSuperAdmin, from rows read before the transaction.
Protected(a, keeps) == ActiveSupers = {a} /\ ~keeps

BeginReplaceRoles(c, a, isSuper) ==
  /\ calls[c] = Idle /\ Principals # {} /\ a \in Existing
  /\ ~ Protected(a, isSuper /\ status[a] = "active")
  /\ Become(c, [pc |-> "roles", account |-> a, super |-> isSuper])
  /\ UNCHANGED <<identity, credentials, signedIn>>

\* Slip: what was read before the transaction is not looked at again.
CheckedBefore(a) == FALSE
NoAlternative(a) == ActiveSupers \ {a} = {}

\* replaceAdminAccountRoles, or the call ends; sessions are revoked next.
ReplaceAdminAccountRoles(c) ==
  LET a == calls[c].account IN
  /\ calls[c].pc = "roles"
  /\ IF a \in ActiveSupers /\ ~calls[c].super /\ NoAlternative(a)
     THEN /\ Leave(c)
          /\ UNCHANGED super
     ELSE /\ super' = IF calls[c].super THEN super \cup {a} ELSE super \ {a}
          /\ Goto(c, "revoke")
  /\ UNCHANGED <<status, confirmed, enrollable, credentials, signedIn>>

\* Nobody disables their own account.
BeginSetStatus(c, by, a, to) ==
  /\ calls[c] = Idle /\ by \in Principals /\ a \in Existing
  /\ to = "disabled" => by # a
  /\ ~ Protected(a, a \in super /\ to = "active")
  /\ Become(c, [pc |-> "status", account |-> a, to |-> to])
  /\ UNCHANGED <<identity, credentials, signedIn>>

\* setAdminAccountStatus, or the call ends; the sessions of a disabled account are
\* revoked next.
SetAdminAccountStatus(c) ==
  LET a == calls[c].account IN
  /\ calls[c].pc = "status"
  /\ IF a \in ActiveSupers /\ calls[c].to # "active" /\ NoAlternative(a)
     THEN /\ Leave(c)
          /\ UNCHANGED status
     ELSE /\ status' = [status EXCEPT ![a] = calls[c].to]
          /\ IF calls[c].to = "disabled" THEN Goto(c, "revoke") ELSE Leave(c)
  /\ UNCHANGED <<super, confirmed, enrollable, credentials, signedIn>>

RevokeAdminAccountSessions(c) ==
  /\ calls[c].pc = "revoke"
  /\ signedIn' = signedIn \ {calls[c].account}
  /\ Leave(c)
  /\ UNCHANGED <<identity, credentials>>

-----------------------------------------------------------------------------
\* A call stops between two transactions.
Crash(c) ==
  /\ calls[c] # Idle
  /\ Leave(c)
  /\ UNCHANGED <<identity, credentials, signedIn>>

\* The last session of an account is over or is revoked by logging out.
SessionEnds(a) ==
  /\ a \in signedIn
  /\ signedIn' = signedIn \ {a}
  /\ UNCHANGED <<identity, credentials, calls>>

LockEnds(a) ==
  /\ a \in locked
  /\ locked' = locked \ {a}
  /\ UNCHANGED <<identity, failed, codes, accepted, signedIn, calls>>

EnrollmentEnds(a) ==
  /\ a \in enrollable
  /\ enrollable' = enrollable \ {a}
  /\ UNCHANGED <<status, super, confirmed, credentials, signedIn, calls>>

Begin(c) ==
  \/ Bootstrap(c)
  \/ \E isSuper \in BOOLEAN : CreateAccount(c, isSuper)
  \/ \E a \in Accounts :
       \/ BeginConfirm(c, a) \/ Login(c, a)
       \/ \E isSuper \in BOOLEAN : BeginReplaceRoles(c, a, isSuper)
       \/ \E by \in Accounts, to \in {"active", "disabled"} : BeginSetStatus(c, by, a, to)

Proceed(c) ==
  \/ \E a \in Accounts : CreateAdminAccount(c, a)
  \/ ConfirmAdminEnrollment(c)
  \/ ConsumeAdminRecoveryCode(c) \/ RecordAdminLoginFailure(c)
  \/ ClearAdminLoginFailures(c) \/ CreateAdminSession(c)
  \/ ReplaceAdminAccountRoles(c) \/ SetAdminAccountStatus(c)
  \/ RevokeAdminAccountSessions(c)

Next ==
  \/ \E c \in Callers : Begin(c) \/ Proceed(c) \/ Crash(c)
  \/ \E a \in Accounts : SessionEnds(a) \/ LockEnds(a) \/ EnrollmentEnds(a)

Spec == Init /\ [][Next]_vars

-----------------------------------------------------------------------------
\* "The last active super administrator must be preserved" (service.ts): not two who
\* disable each other, nor one who is disabled while another gives up the role, leave
\* none (setAdminAccountStatus, replaceAdminAccountRoles).
SuperPreserved == [][ActiveSupers # {} => ActiveSupers' # {}]_vars

\* A recovery code signs in once, however many instances it is shown to
\* (consumeAdminRecoveryCode).
CodesOnce == \A a \in Accounts, r \in Codes : accepted[a][r] <= 1
=============================================================================
