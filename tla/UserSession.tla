---------------------------- MODULE UserSession ----------------------------
(***************************************************************************)
(* The sessions and the second factor of one user: the status,             *)
(* authVersion, refreshTokenHash, mfaEnabled and mfaSecret columns of its  *)
(* tenant_users row, the tokens it holds, and the handlers that read the   *)
(* row, await (bcrypt, TOTP, JWT) and write it back.  Users share none of  *)
(* these columns, so one row stands for all.                               *)
(***************************************************************************)
EXTENDS Naturals, FiniteSets

CONSTANTS
    Calls,        \* requests of the user that may be in flight at once
    MaxChanges,   \* administrator's changes that end the sessions
    MaxSetups     \* MFA setups

VARIABLES
    there,        \* whether the row exists
    status,       \* status
    admin,        \* whether the role is an admin role
    ver,          \* authVersion
    hash,         \* whether refreshTokenHash is set
    mfa,          \* mfaEnabled
    secret,       \* mfaSecret: 0 is null, n the n-th secret generated
    tokens,       \* access and refresh tokens issued, as pairs
    setupToken,   \* whether an mfa_setup token was issued
    call,         \* requests in flight
    setups,       \* secrets generated so far
    \* history, read by properties only
    password,     \* counts the passwords the user has had
    era,          \* counts how often an administrator disabled the user
    barred        \* an administrator disabled the user and has not undone it

account == <<there, status, admin, ver, hash>>
factor  == <<mfa, secret, setups>>
history == <<password, era, barred>>
vars    == <<account, factor, history, tokens, setupToken, call>>

Statuses == {"ACTIVE", "INVITED", "DISABLED"}
Versions == 0 .. MaxChanges
Secrets  == 0 .. MaxSetups

\* What a token says, and what was true of the row it was made from.
Token == [ver : Versions, password : Versions, era : Versions]

Idle == [pc |-> "idle"]
Call ==
    [pc : {"status"}, read : Statuses, as : Token]
        \cup [pc : {"oauth", "enable", "disable"}]
        \cup [pc : {"issue"}, as : Token]

\* The row as a token made from it shows it.
Snapshot == [ver |-> ver, password |-> password, era |-> era]

Init ==
    /\ there \in BOOLEAN
    /\ status = "ACTIVE"
    /\ admin \in BOOLEAN
    /\ ver = 0
    /\ hash = FALSE
    /\ mfa = FALSE
    /\ secret = 0
    /\ tokens = {}
    /\ setupToken = FALSE
    /\ call = [c \in Calls |-> Idle]
    /\ setups = 0
    /\ password = 0
    /\ era = 0
    /\ barred = FALSE

Becomes(c, r) == call' = [call EXCEPT ![c] = r]

(***************************************************************************)
(* UsersService.update and remove, by an administrator                     *)
(***************************************************************************)

EndSessions ==
    /\ ver < MaxChanges
    /\ ver' = ver + 1
    /\ hash' = FALSE

ChangePassword ==
    /\ there
    /\ EndSessions
    /\ password' = password + 1
    /\ UNCHANGED <<there, status, admin, factor, era, barred, tokens, setupToken, call>>

ChangeRole ==
    /\ there
    /\ EndSessions
    /\ admin' \in BOOLEAN
    /\ UNCHANGED <<there, status, factor, history, tokens, setupToken, call>>

ChangeStatus(next) ==
    /\ there
    /\ EndSessions
    /\ status' = next
    /\ era' = IF next = "DISABLED" THEN era + 1 ELSE era
    /\ barred' = (next = "DISABLED")
    /\ UNCHANGED <<there, admin, factor, password, tokens, setupToken, call>>

Remove ==
    /\ there
    /\ there' = FALSE
    /\ UNCHANGED <<status, admin, ver, hash, factor, history, tokens, setupToken, call>>

(***************************************************************************)
(* login                                                                   *)
(***************************************************************************)

\* The password fits the row that was read.  An admin without MFA gets a setup
\* token and no session; mfaEnabled with no secret throws.
LoginRead(c) ==
    /\ call[c] = Idle
    /\ there
    /\ status # "DISABLED"
    /\ mfa => secret # 0
    /\ IF admin /\ ~mfa
       THEN /\ setupToken' = TRUE
            /\ UNCHANGED call
       ELSE /\ Becomes(c, [pc |-> "status", read |-> status, as |-> Snapshot])
            /\ UNCHANGED setupToken
    /\ UNCHANGED <<account, factor, history, tokens>>

\* The status that was read is written back, ACTIVE for INVITED.
LoginWrite(c) ==
    /\ call[c].pc = "status"
    /\ IF there
       THEN /\ status' = IF call[c].read = "INVITED" THEN "ACTIVE" ELSE call[c].read
            /\ Becomes(c, [pc |-> "issue", as |-> call[c].as])
       ELSE /\ Becomes(c, Idle)
            /\ UNCHANGED status
    /\ UNCHANGED <<there, admin, ver, hash, factor, history, tokens, setupToken>>

IssueFromRow(c) ==   \* mutant: the row is read again before the tokens are made
    /\ call[c].pc = "issue"
    /\ IF there
       THEN /\ hash' = TRUE
            /\ tokens' = tokens \cup {[call[c].as EXCEPT !.ver = ver]}
       ELSE UNCHANGED <<hash, tokens>>
    /\ Becomes(c, Idle)
    /\ UNCHANGED <<there, status, admin, ver, factor, history, setupToken>>

\* issueTokens: the tokens are made from the row the caller read, then their
\* hash is stored; the tokens are returned only if the row is still there.
Issue(c) ==
    /\ call[c].pc = "issue"
    /\ IF there
       THEN /\ hash' = TRUE
            /\ tokens' = tokens \cup {call[c].as}
       ELSE UNCHANGED <<hash, tokens>>
    /\ Becomes(c, Idle)
    /\ UNCHANGED <<there, status, admin, ver, factor, history, setupToken>>

(***************************************************************************)
(* refresh, acceptInvite, Google OAuth                                     *)
(***************************************************************************)

RefreshUnversioned(c, t) ==   \* mutant: the version in the token is not compared
    /\ call[c] = Idle
    /\ t \in tokens
    /\ there
    /\ status # "DISABLED"
    /\ hash
    /\ Becomes(c, [pc |-> "issue", as |-> [t EXCEPT !.ver = ver]])
    /\ UNCHANGED <<account, factor, history, tokens, setupToken>>

\* bcrypt compares 72 bytes, which in these tokens are the header and the
\* start of the user id: any refresh token of the user fits a stored hash.  The
\* new tokens have the row's version, which is the old one's, and stand for the
\* sign-in the old one stood for.
Refresh(c, t) ==
    /\ call[c] = Idle
    /\ t \in tokens
    /\ there
    /\ status # "DISABLED"
    /\ t.ver = ver
    /\ hash
    /\ Becomes(c, [pc |-> "issue", as |-> t])
    /\ UNCHANGED <<account, factor, history, tokens, setupToken>>

\* Nothing but an unused row: one that was removed has another id.
Unused ==
    /\ ~there /\ ~setupToken
    /\ tokens = {} /\ ver = 0 /\ setups = 0
    /\ \A c \in Calls : call[c] = Idle

\* The transaction that creates the row; the tokens follow outside it.  OAuth
\* of an address without a row does the same with an admin.
AcceptInvite(c) ==
    /\ Unused
    /\ there' = TRUE
    /\ Becomes(c, [pc |-> "issue", as |-> Snapshot])
    /\ UNCHANGED <<status, admin, ver, hash, factor, history, tokens, setupToken>>

OauthRead(c) ==
    /\ call[c] = Idle
    /\ there
    /\ status # "DISABLED"
    /\ Becomes(c, [pc |-> "oauth"])
    /\ UNCHANGED <<account, factor, history, tokens, setupToken>>

\* The user becomes an active admin; the tokens are made from the row as the
\* update returns it.
OauthWrite(c) ==
    /\ call[c].pc = "oauth"
    /\ IF there
       THEN /\ status' = "ACTIVE"
            /\ admin' = TRUE
            /\ Becomes(c, [pc |-> "issue", as |-> Snapshot])
       ELSE /\ Becomes(c, Idle)
            /\ UNCHANGED <<status, admin>>
    /\ UNCHANGED <<there, ver, hash, factor, history, tokens, setupToken>>

(***************************************************************************)
(* What a token is good for                                                *)
(***************************************************************************)

\* AuthenticatedUserService.validateAccessPayload
Accepted(t) == there /\ status = "ACTIVE" /\ t.ver = ver

\* RequestSecurityGuard.enforceAdminMfa on a route without AllowWithoutMfa
Enters(t) == Accepted(t) /\ (admin => mfa)

\* MfaSetupGuard
MayManageMfa ==
    /\ there
    /\ status # "DISABLED"
    /\ setupToken \/ \E t \in tokens : t.ver = ver

(***************************************************************************)
(* MfaService                                                              *)
(***************************************************************************)

MfaSetup ==
    /\ MayManageMfa
    /\ setups < MaxSetups
    /\ setups' = setups + 1
    /\ secret' = setups + 1
    /\ mfa' = FALSE
    /\ UNCHANGED <<account, history, tokens, setupToken, call>>

MfaVerifyRead(c) ==
    /\ call[c] = Idle
    /\ MayManageMfa
    /\ secret # 0
    /\ Becomes(c, [pc |-> "enable"])
    /\ UNCHANGED <<account, factor, history, tokens, setupToken>>

MfaVerifyWrite(c) ==
    /\ call[c].pc = "enable"
    /\ mfa' = (there \/ mfa)
    /\ Becomes(c, Idle)
    /\ UNCHANGED <<account, secret, setups, history, tokens, setupToken>>

MfaDisableRead(c) ==
    /\ call[c] = Idle
    /\ \E t \in tokens : Enters(t)
    /\ secret # 0
    /\ Becomes(c, [pc |-> "disable"])
    /\ UNCHANGED <<account, factor, history, tokens, setupToken>>

MfaDisableKeepingFlag(c) ==   \* mutant: only the secret is cleared
    /\ call[c].pc = "disable"
    /\ secret' = IF there THEN 0 ELSE secret
    /\ Becomes(c, Idle)
    /\ UNCHANGED <<account, mfa, setups, history, tokens, setupToken>>

MfaDisableWrite(c) ==
    /\ call[c].pc = "disable"
    /\ mfa' = (mfa /\ ~there)
    /\ secret' = IF there THEN 0 ELSE secret
    /\ Becomes(c, Idle)
    /\ UNCHANGED <<account, setups, history, tokens, setupToken>>

RequestFails(c) ==
    /\ call[c] # Idle
    /\ Becomes(c, Idle)
    /\ UNCHANGED <<account, factor, history, tokens, setupToken>>

(***************************************************************************)
(* The specification                                                       *)
(***************************************************************************)

Administration ==
    \/ ChangePassword \/ ChangeRole \/ Remove
    \/ \E next \in Statuses : ChangeStatus(next)

SignIn(c) ==
    \/ LoginRead(c) \/ LoginWrite(c) \/ Issue(c)
    \/ \E t \in tokens : Refresh(c, t)
    \/ AcceptInvite(c) \/ OauthRead(c) \/ OauthWrite(c)

Mfa(c) ==
    \/ MfaVerifyRead(c) \/ MfaVerifyWrite(c) \/ MfaDisableRead(c) \/ MfaDisableWrite(c)

Next ==
    \/ Administration
    \/ MfaSetup
    \/ \E c \in Calls : SignIn(c) \/ Mfa(c) \/ RequestFails(c)

Spec == Init /\ [][Next]_vars

(***************************************************************************)
(* Properties                                                              *)
(***************************************************************************)

\* The shape of the row, the tokens and the requests in flight.
TypeOK ==
    /\ there \in BOOLEAN /\ admin \in BOOLEAN /\ hash \in BOOLEAN
    /\ mfa \in BOOLEAN /\ setupToken \in BOOLEAN /\ barred \in BOOLEAN
    /\ status \in Statuses
    /\ ver \in Versions /\ password \in Versions /\ era \in Versions
    /\ secret \in Secrets /\ setups \in Secrets
    /\ tokens \subseteq Token
    /\ call \in [Calls -> Call \cup {Idle}]

\* A token that is accepted goes back, through any number of refreshes, to a
\* sign-in made under the present password and since the user was last disabled: a
\* login that read the row before an administrator changed the password or the
\* status, and answers after, hands out tokens that are refused.
TokensFollowCredentials ==
    \A t \in tokens : Accepted(t) => t.password = password /\ t.era = era

\* mfaEnabled without a secret is what login reports as "MFA is not configured
\* correctly" (auth.service.ts:552).
MfaHasSecret == mfa => secret # 0

\* "GET /api/auth/me rejects tokens for disabled users"
\* (core-validation.e2e.spec.ts:197): nothing the user does gives a session to
\* a user whom an administrator has disabled and not enabled again.
DisabledHasNoSession == barred => ~\E t \in tokens : Accepted(t)
===========================================================================
