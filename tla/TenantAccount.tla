---------------------------- MODULE TenantAccount ----------------------------
(***************************************************************************)
(* The account of one administrator: sign-in, first password and second    *)
(* factor.  A tenant's administrator calls through the gateway, which      *)
(* gives the control plane five seconds and tells its caller of a call     *)
(* that failed though it was carried out; an operator calls the control    *)
(* plane itself.  Passwords are not told apart: the user has the right one *)
(* or not.  A secret of the second factor is a number, 0 for none.         *)
(***************************************************************************)
EXTENDS Naturals

CONSTANTS
    Calls,        \* calls that may be in flight at once
    MaxSecrets    \* secrets ever generated

VARIABLES
    desk,         \* whose account: "tenant" or "operator"
    row,          \* of TenantUser or Operator
    tenant,       \* status of the tenant
    link,         \* the onboarding link can be used
    session,      \* the browser has a token
    call,
    known,        \* secrets the user was shown
    \* history, read by properties only
    secrets,      \* number of secrets generated
    lost,         \* secrets whose answer did not reach the user
    raced,        \* an enable was written after a disable it did not see
    halfway       \* a password was written and the tenant's status not

vars == <<desk, row, tenant, link, session, call, known, secrets, lost, raced, halfway>>

Past  == <<secrets, lost, raced, halfway>>
Kinds == IF desk = "tenant" THEN {"login", "change", "onboard", "setup", "enable", "disable"}
                            ELSE {"login", "setup", "enable", "disable"}
Row   == [force : BOOLEAN, enabled : BOOLEAN, secret : 0 .. MaxSecrets, locked : BOOLEAN]
NoRow == [force |-> FALSE, enabled |-> FALSE, secret |-> 0, locked |-> FALSE]

\* What a handler still uses of the row it read.
Used(kind, r) ==
    CASE kind = "login"               -> [NoRow EXCEPT !.enabled = r.enabled,
                                              !.secret = IF r.enabled THEN r.secret ELSE 0]
      [] kind = "change"              -> [NoRow EXCEPT !.force = r.force]
      [] kind \in {"enable", "disable"} -> [NoRow EXCEPT !.secret = r.secret]
      [] OTHER                        -> NoRow

Idle  == [pc |-> "idle", kind |-> "none", copy |-> NoRow]
Call  == [pc : {"idle", "read", "activate", "answer"},
          kind : {"none", "login", "change", "onboard", "setup", "enable", "disable"}, copy : Row]

\* A tenant's administrator starts with a password to change, and a tenant that
\* is PENDING until then.
Init ==
    /\ desk \in {"tenant", "operator"}
    /\ row = [NoRow EXCEPT !.force = (desk = "tenant")]
    /\ tenant = IF desk = "tenant" THEN "PENDING" ELSE "ACTIVE"
    /\ link = (desk = "tenant")
    /\ session = FALSE
    /\ call = [c \in Calls |-> Idle]
    /\ known = {} /\ secrets = 0 /\ lost = {} /\ raced = FALSE /\ halfway = FALSE

To(c, pc) == call' = [call EXCEPT ![c].pc = pc, ![c].copy = NoRow]
Ends(c)   == call' = [call EXCEPT ![c] = Idle]

(***************************************************************************)
(* A call reaches its handler, which reads the row                         *)
(***************************************************************************)

Begins(c, kind) ==
    /\ call[c] = Idle /\ kind \in Kinds
    /\ call' = [call EXCEPT ![c] = [pc |-> "read", kind |-> kind, copy |-> Used(kind, row)]]
    /\ UNCHANGED <<desk, row, tenant, link, session, known, Past>>

\* ensureNotLocked
Login(c) == ~row.locked /\ Begins(c, "login")

ChangePassword(c) == session /\ Begins(c, "change")

\* findFirst of a token that was not used
CompleteOnboarding(c) == link /\ Begins(c, "onboard")

\* The gateway keeps these routes for tenant_admin.
MfaRoutes(c) == session /\ \E kind \in {"setup", "enable", "disable"} : Begins(c, kind)

(***************************************************************************)
(* The handlers                                                            *)
(***************************************************************************)

\* assertValidTotp: the user has an authenticator for every secret it was shown.
ValidTotp(c) == call[c].copy.secret # 0 /\ call[c].copy.secret \in known

At(c, kind) == call[c].pc = "read" /\ call[c].kind = kind

\* A wrong password may lock the account (LoginLockout has the counting).
WrongPassword(c) ==
    /\ At(c, "login")
    /\ \E l \in BOOLEAN : row' = [row EXCEPT !.locked = l]
    /\ Ends(c)
    /\ UNCHANGED <<desk, tenant, link, session, known, Past>>

\* validateTenantUser asks for the code when the row that was read says so, before
\* the counter is reset.
ValidateTenantUser(c) ==
    /\ desk = "tenant" /\ At(c, "login")
    /\ call[c].copy.enabled => ValidTotp(c)
    /\ \/ row' = [row EXCEPT !.locked = FALSE]
       \/ UNCHANGED row   \* .catch(() => undefined)
    /\ To(c, "answer")
    /\ UNCHANGED <<desk, tenant, link, session, known, Past>>

\* login of an operator; the code is asked for when it is used, at verifyMfaForLogin.
OperatorLogin(c) ==
    /\ desk = "operator" /\ At(c, "login")
    /\ row' = [row EXCEPT !.locked = FALSE]
    /\ To(c, "answer")
    /\ UNCHANGED <<desk, tenant, link, session, known, Past>>

\* mutant: the row is read again after the password was written
ForcedNow(c) == row'.force

\* Of the row that was read.
WasForced(c) == call[c].copy.force

ChangeTenantUserPassword(c) ==
    /\ At(c, "change")
    /\ row' = [row EXCEPT !.force = FALSE]
    /\ To(c, IF WasForced(c) THEN "activate" ELSE "answer")
    /\ UNCHANGED <<desk, tenant, link, session, known, Past>>

\* The first password of an administrator makes the tenant ACTIVE; an error of
\* this update is swallowed.
ActivateTenant(c) ==
    /\ call[c].pc = "activate"
    /\ \/ tenant' = "ACTIVE" /\ UNCHANGED halfway
       \/ halfway' = TRUE /\ UNCHANGED tenant
    /\ To(c, "answer")
    /\ UNCHANGED <<desk, row, link, session, known, secrets, lost, raced>>

\* One transaction.
OnboardingWrites(c) ==
    /\ At(c, "onboard")
    /\ row' = [row EXCEPT !.force = FALSE]
    /\ tenant' = "ACTIVE"
    /\ link' = FALSE
    /\ To(c, "answer")
    /\ UNCHANGED <<desk, session, known, Past>>

\* createTenantMfaSetup does not look at mfaEnabled.
CreateMfaSetup(c) ==
    /\ At(c, "setup")
    /\ secrets < MaxSecrets
    /\ secrets' = secrets + 1
    /\ row' = [row EXCEPT !.secret = secrets']
    /\ call' = [call EXCEPT ![c].pc = "answer", ![c].copy.secret = secrets']
    /\ UNCHANGED <<desk, tenant, link, session, known, lost, raced, halfway>>

EnableMfa(c) ==
    /\ At(c, "enable")
    /\ ValidTotp(c)
    /\ row' = [row EXCEPT !.enabled = TRUE]
    /\ raced' = (row.secret = 0 /\ call[c].copy.secret # 0)
    /\ To(c, "answer")
    /\ UNCHANGED <<desk, tenant, link, session, known, secrets, lost, halfway>>

\* mutant: the flag stays
Forgotten(r) == [r EXCEPT !.secret = 0]

WithoutMfa(r) == [r EXCEPT !.enabled = FALSE, !.secret = 0]

DisableMfa(c) ==
    /\ At(c, "disable")
    /\ ValidTotp(c)
    /\ row' = WithoutMfa(row)
    /\ raced' = FALSE
    /\ To(c, "answer")
    /\ UNCHANGED <<desk, tenant, link, session, known, secrets, lost, halfway>>

\* createOperatorMfaSetup, enableOperatorMfa and disableOperatorMfa differ in the
\* table and in who may call them.
OperatorMfa(c) == desk = "operator" /\ (CreateMfaSetup(c) \/ EnableMfa(c) \/ DisableMfa(c))
TenantMfa(c)   == desk = "tenant"   /\ (CreateMfaSetup(c) \/ EnableMfa(c) \/ DisableMfa(c))

(***************************************************************************)
(* The answer                                                              *)
(***************************************************************************)

Answered(c, kinds) == call[c].pc = "answer" /\ call[c].kind \in kinds /\ Ends(c)

\* A token, in a cookie.
LoginAnswered(c) ==
    /\ Answered(c, {"login"})
    /\ session' = TRUE
    /\ UNCHANGED <<desk, row, tenant, link, known, Past>>

OnboardingAnswered(c) ==
    /\ Answered(c, {"onboard"})
    /\ session' = TRUE
    /\ UNCHANGED <<desk, row, tenant, link, known, Past>>

\* The session goes on with the token it has.
ChangeAnswered(c) ==
    /\ Answered(c, {"change"})
    /\ UNCHANGED <<desk, row, tenant, link, session, known, Past>>

MfaAnswered(c) ==
    /\ Answered(c, {"setup", "enable", "disable"})
    /\ known' = IF call[c].kind = "setup" THEN known \cup {call[c].copy.secret} ELSE known
    /\ UNCHANGED <<desk, row, tenant, link, session, secrets, lost, raced, halfway>>

\* A check refuses the call, an await throws, the process ends, or the gateway
\* has given up: whatever was carried out, the caller is told that it failed.
NotAnswered(c) ==
    /\ call[c] # Idle
    /\ lost' = IF call[c].kind = "setup" /\ call[c].pc = "answer"
               THEN lost \cup {call[c].copy.secret} ELSE lost
    /\ halfway' = (halfway \/ call[c].pc = "activate")
    /\ Ends(c)
    /\ UNCHANGED <<desk, row, tenant, link, session, known, secrets, raced>>

\* logout, or the token's eight hours end.
SessionEnds ==
    /\ session
    /\ session' = FALSE
    /\ UNCHANGED <<desk, row, tenant, link, call, known, Past>>

\* lockedUntil passes.
LockEnds ==
    /\ row.locked
    /\ row' = [row EXCEPT !.locked = FALSE]
    /\ UNCHANGED <<desk, tenant, link, session, call, known, Past>>

CallStep(c) ==
    \/ Login(c) \/ ChangePassword(c) \/ CompleteOnboarding(c) \/ MfaRoutes(c)
    \/ WrongPassword(c) \/ ValidateTenantUser(c) \/ OperatorLogin(c)
    \/ ChangeTenantUserPassword(c) \/ ActivateTenant(c) \/ OnboardingWrites(c)
    \/ OperatorMfa(c) \/ TenantMfa(c)
    \/ LoginAnswered(c) \/ OnboardingAnswered(c) \/ ChangeAnswered(c) \/ MfaAnswered(c)
    \/ NotAnswered(c)

Next == (\E c \in Calls : CallStep(c)) \/ SessionEnds \/ LockEnds

Spec == Init /\ [][Next]_vars

(***************************************************************************)
(* Properties                                                              *)
(***************************************************************************)

\* The shape of the rows and of the calls.
TypeOK ==
    /\ desk \in {"tenant", "operator"}
    /\ row \in Row
    /\ tenant \in {"PENDING", "ACTIVE"}
    /\ {link, session, raced, halfway} \subseteq BOOLEAN
    /\ call \in [Calls -> Call]
    /\ secrets \in 0 .. MaxSecrets
    /\ known \subseteq 1 .. secrets /\ lost \subseteq 1 .. secrets

Pending(s) == \E c \in Calls : call[c].kind = "setup" /\ call[c].pc = "answer"
                                   /\ call[c].copy.secret = s

\* A second factor that is on can be used: its secret was shown to the user, but
\* for one whose answer was lost or is under way, and for an enable that overlapped
\* a disable, after which no code is ever accepted (auth.service.backup.ts:733,
\* 758, 802).
SecondFactorUsable ==
    row.enabled => \/ row.secret \in known \/ row.secret \in lost \/ Pending(row.secret)
                   \/ row.secret = 0 /\ raced

\* The tenant of an administrator who has chosen a password is ACTIVE, unless a
\* failure came between the two updates: nothing repeats the second one
\* (auth.service.backup.ts:512, 522).
FirstPasswordActivates ==
    ~row.force /\ (\A c \in Calls : call[c].pc # "activate") => tenant = "ACTIVE" \/ halfway
==============================================================================
