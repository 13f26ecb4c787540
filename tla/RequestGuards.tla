---------------------------- MODULE RequestGuards ----------------------------
(***************************************************************************)
(* The way of a request through the guards: RequestSecurityGuard before    *)
(* every route, then the guards of the controller, then the handler.  Each *)
(* guard that needs the user queries the row, and the user an earlier      *)
(* guard put into the request is used again; administrators change the row *)
(* in between.                                                             *)
(***************************************************************************)
EXTENDS Naturals

CONSTANTS
    Flights,      \* requests in flight at once
    Tenants,      \* tenants; the user's is one of them
    Home,         \* the user's tenant
    MaxVersions   \* how often a change of the row ends the sessions

VARIABLES
    account,      \* the tenant_users row of the user
    flight        \* requests in flight

vars == <<account, flight>>

Ranks    == {"USER", "TENANT_ADMIN", "PLATFORM_ADMIN"}
IsAdmin(user) == user.role \in {"TENANT_ADMIN", "PLATFORM_ADMIN"}
Account  == [role : Ranks, status : {"ACTIVE", "INVITED", "DISABLED"}, mfa : BOOLEAN,
             ver : 0 .. MaxVersions]

\* Kinds of route, by the decorators they carry: login and the like; setup and
\* verify of the MFA controller, its status and disable; routes for any user, for
\* admins, for platform admins.
Routes      == {"public", "mfaSetup", "mfaUse", "user", "admin", "platform"}
OpenToMfa   == {"mfaSetup"}
MfaRoutes   == {"mfaSetup", "mfaUse"}
RolesOf(route) ==
    CASE route = "admin"    -> {"TENANT_ADMIN", "PLATFORM_ADMIN"}
      [] route = "platform" -> {"PLATFORM_ADMIN"}
      [] OTHER              -> {}

\* What a request brings: no token, an access token of a version, or an
\* mfa_setup token, which has none; and the tenantId in its body, query or path.
NoToken    == [kind |-> "none"]
SetupToken == [kind |-> "setup"]
Access(v)  == [kind |-> "access", ver |-> v]
Tokens(newest) == {NoToken, SetupToken} \cup {Access(v) : v \in 0 .. newest}
NoUser  == [role |-> "nobody"]
Free    == [pc |-> "idle"]
Flight  == [pc : {"security", "strategy", "mfa", "roles", "handler"}, route : Routes,
            token : Tokens(MaxVersions), tenant : Tenants, user : Account \cup {NoUser}]

Init ==
    /\ account \in [role : Ranks, status : {"ACTIVE"}, mfa : BOOLEAN, ver : {0}]
    /\ flight = [f \in Flights |-> Free]

Arrives(f) ==
    /\ flight[f] = Free
    /\ \E route \in Routes, token \in Tokens(account.ver), tenant \in Tenants :
         flight' = [flight EXCEPT ![f] = [pc |-> "security", route |-> route,
                           token |-> token, tenant |-> tenant, user |-> NoUser]]
    /\ UNCHANGED account

\* A guard lets a request on, with the user it now carries, or refuses it.
Passes(f, user, next) ==
    /\ flight' = [flight EXCEPT ![f].user = user, ![f].pc = next]
    /\ UNCHANGED account

Refuse(f) ==
    /\ flight' = [flight EXCEPT ![f] = Free]
    /\ UNCHANGED account

(***************************************************************************)
(* RequestSecurityGuard                                                    *)
(***************************************************************************)

ControllerGuard(route) ==
    CASE route = "public"      -> "handler"
      [] route \in MfaRoutes   -> "mfa"
      [] OTHER                 -> "strategy"

\* AuthenticatedUserService.validateAccessPayload, of the row as it is now.
Validates(token) == account.status = "ACTIVE" /\ token = Access(account.ver)

\* enforceTenantContext, enforceAdminMfa
InContext(user, tenant) == user.role = "PLATFORM_ADMIN" \/ tenant = Home
HasMfa(user)            == IsAdmin(user) => user.mfa

SecurityGuard(f) ==
    /\ flight[f].pc = "security"
    /\ LET q == flight[f] IN
       IF q.route \in OpenToMfa \cup {"public"} \/ q.token = NoToken
       THEN Passes(f, NoUser, ControllerGuard(q.route))
       ELSE IF Validates(q.token) /\ InContext(account, q.tenant) /\ HasMfa(account)
            THEN Passes(f, account, ControllerGuard(q.route))
            ELSE Refuse(f)

(***************************************************************************)
(* The guards of the controllers                                           *)
(***************************************************************************)

StrategyReadsAgain(f) ==   \* mutant: the strategy does not use request.user
    /\ flight[f].pc = "strategy"
    /\ IF flight[f].token # NoToken /\ Validates(flight[f].token)
       THEN Passes(f, account, "roles")
       ELSE Refuse(f)

\* JwtAuthGuard and JwtStrategy.validate.
Strategy(f) ==
    /\ flight[f].pc = "strategy"
    /\ LET q == flight[f] IN
       IF q.user # NoUser THEN Passes(f, q.user, "roles")
       ELSE IF q.token # NoToken /\ Validates(q.token)
            THEN Passes(f, account, "roles")
            ELSE Refuse(f)

\* MfaSetupGuard queries the row whether or not the request has a user, and asks
\* only that it is not DISABLED.
MfaGuard(f) ==
    /\ flight[f].pc = "mfa"
    /\ IF /\ flight[f].token # NoToken
          /\ account.status # "DISABLED"
          /\ flight[f].token \in {SetupToken, Access(account.ver)}
       THEN Passes(f, account, "handler")
       ELSE Refuse(f)

Roles(f) ==
    /\ flight[f].pc = "roles"
    /\ LET q == flight[f] IN
       IF RolesOf(q.route) = {} \/ q.user.role \in RolesOf(q.route)
       THEN Passes(f, q.user, "handler")
       ELSE Refuse(f)

Answers(f) ==
    /\ flight[f].pc = "handler"
    /\ Refuse(f)

(***************************************************************************)
(* The row                                                                 *)
(***************************************************************************)

\* UsersService.update: a change of role or status raises authVersion.
UserChanges ==
    /\ account.ver < MaxVersions
    /\ \E role \in Ranks, status \in {"ACTIVE", "INVITED", "DISABLED"} :
         account' = [account EXCEPT !.role = role, !.status = status, !.ver = @ + 1]
    /\ UNCHANGED flight

\* MfaService: verify and disable leave authVersion alone.
MfaChanges ==
    /\ account' = [account EXCEPT !.mfa = ~@]
    /\ UNCHANGED flight

Next ==
    \/ UserChanges \/ MfaChanges
    \/ \E f \in Flights :
           \/ Arrives(f) \/ SecurityGuard(f) \/ Strategy(f) \/ MfaGuard(f)
           \/ Roles(f) \/ Answers(f)

Spec == Init /\ [][Next]_vars

(***************************************************************************)
(* Properties                                                              *)
(***************************************************************************)

\* The shape of the row and of the requests.
TypeOK ==
    /\ account \in Account
    /\ flight \in [Flights -> Flight \cup {Free}]

\* A handler acts for one user: on every route but the public ones and those
\* of the MFA controller, the user it is given, as one reading of the row
\* showed it, was active, had the role and the second factor the route asks for
\* and named no other tenant, although several guards each checked a part and
\* the row changed between them.
HandlerActsForOneUser ==
    \A f \in Flights :
        flight[f].pc = "handler" /\ flight[f].route \in {"user", "admin", "platform"} =>
            LET user == flight[f].user IN
            /\ user # NoUser
            /\ user.status = "ACTIVE"
            /\ flight[f].token = Access(user.ver)
            /\ HasMfa(user)
            /\ InContext(user, flight[f].tenant)
            /\ RolesOf(flight[f].route) = {} \/ user.role \in RolesOf(flight[f].route)
==============================================================================
