--------------------------- MODULE TenantLifecycle ---------------------------
(***************************************************************************)
(* A tenant of the operator's backend in legacy/control-plane-src-legacy:  *)
(* it is created PENDING with a super admin nobody knows the password of,  *)
(* becomes ACTIVE by a one-time onboarding link, and is suspended,         *)
(* activated, offboarded or deleted by operators.  Calls overlap, and      *)
(* each may stop at any await.                                             *)
(***************************************************************************)
EXTENDS Naturals, FiniteSets

CONSTANTS
    Operators,    \* calls of operators that may be in flight at once
    Visitors,     \* calls of the super admin that may be in flight at once
    MaxLinks      \* onboarding links that are ever issued

VARIABLES
    tenant,       \* its status, "none" without a row
    admin,        \* its super admin's row
    link,         \* onboarding_tokens
    assets,       \* status of its integration, and of its API key
    operating,    \* operators' calls in flight
    visit         \* completeOnboarding and changeTenantUserPassword in flight

vars == <<tenant, admin, link, assets, operating, visit>>

Links == 1 .. MaxLinks
Free  == [pc |-> "free"]

NoAdmin  == [there |-> FALSE, password |-> "unknown"]
NoAssets == [integration |-> "none", key |-> "none"]
Exists   == tenant # "none"

Init ==
    /\ tenant = "none"
    /\ admin = NoAdmin
    /\ link = [l \in Links |-> "unissued"]
    /\ assets = NoAssets
    /\ operating = [o \in Operators |-> Free]
    /\ visit = [v \in Visitors |-> Free]

Goes(o, next)  == operating' = [operating EXCEPT ![o] = next]
Visits(v, next) == visit' = [visit EXCEPT ![v] = next]

(***************************************************************************)
(* create and hardDelete                                                   *)
(***************************************************************************)

\* Tenant, settings and integrations in one nested create.
Create(o) ==
    /\ operating[o] = Free
    /\ ~Exists
    /\ tenant' = "PENDING"
    /\ assets' = [NoAssets EXCEPT !.integration = "PENDING"]
    /\ Goes(o, [pc |-> "admin"])
    /\ UNCHANGED <<admin, link, visit>>

\* The super admin gets the hash of a random secret.
ProvisionAdmin(o) ==
    /\ operating[o].pc = "admin"
    /\ IF Exists
       THEN /\ admin' = [there |-> TRUE, password |-> "unknown"]
            /\ Goes(o, [pc |-> "spend"])
       ELSE /\ Goes(o, Free)
            /\ UNCHANGED admin
    /\ UNCHANGED <<tenant, link, assets, visit>>

HardDeleteRow ==   \* mutant: the users of the tenant stay
    /\ Exists
    /\ tenant' = "none"
    /\ link' = [l \in Links |-> IF link[l] = "unissued" THEN "unissued" ELSE "deleted"]
    /\ assets' = NoAssets
    /\ UNCHANGED <<admin, operating, visit>>

\* The cascade takes the rows of the tenant with it.
HardDelete ==
    /\ Exists
    /\ tenant' = "none"
    /\ admin' = NoAdmin
    /\ link' = [l \in Links |-> IF link[l] = "unissued" THEN "unissued" ELSE "deleted"]
    /\ assets' = NoAssets
    /\ UNCHANGED <<operating, visit>>

(***************************************************************************)
(* issueOnboardingLink                                                     *)
(***************************************************************************)

SpendNone(o) ==   \* mutant: the links of the user are left as they are
    /\ operating[o].pc = "spend"
    /\ Goes(o, [pc |-> "issue"])
    /\ UNCHANGED <<tenant, admin, link, assets, visit>>

SpendLinks(o) ==
    /\ operating[o].pc = "spend"
    /\ link' = [l \in Links |-> IF link[l] = "open" THEN "used" ELSE link[l]]
    /\ Goes(o, [pc |-> "issue"])
    /\ UNCHANGED <<tenant, admin, assets, visit>>

\* The row of a tenant or user that is gone cannot be referred to.
IssueLink(o) ==
    /\ operating[o].pc = "issue"
    /\ IF admin.there
       THEN \E l \in Links :
               /\ link[l] = "unissued"
               /\ \A earlier \in 1 .. l - 1 : link[earlier] # "unissued"
               /\ link' = [link EXCEPT ![l] = "open"]
       ELSE UNCHANGED link
    /\ Goes(o, Free)
    /\ UNCHANGED <<tenant, admin, assets, visit>>

LinkExpires ==
    /\ \E l \in Links : link[l] = "open" /\ link' = [link EXCEPT ![l] = "expired"]
    /\ UNCHANGED <<tenant, admin, assets, operating, visit>>

(***************************************************************************)
(* regenerateOnboarding                                                    *)
(***************************************************************************)

Regenerate(o) ==
    /\ operating[o] = Free
    /\ Exists /\ admin.there
    /\ Goes(o, [pc |-> "reset", wasActive |-> tenant = "ACTIVE"])
    /\ UNCHANGED <<tenant, admin, link, assets, visit>>

ResetAdmin(o) ==
    /\ operating[o].pc = "reset"
    /\ IF admin.there
       THEN /\ admin' = [admin EXCEPT !.password = "unknown"]
            /\ Goes(o, IF operating[o].wasActive THEN [pc |-> "pending"] ELSE [pc |-> "spend"])
       ELSE /\ Goes(o, Free)
            /\ UNCHANGED admin
    /\ UNCHANGED <<tenant, link, assets, visit>>

ResetTenant(o) ==
    /\ operating[o].pc = "pending"
    /\ IF Exists
       THEN /\ tenant' = "PENDING"
            /\ Goes(o, [pc |-> "spend"])
       ELSE /\ Goes(o, Free)
            /\ UNCHANGED tenant
    /\ UNCHANGED <<admin, link, assets, visit>>

\* A throw; that of create's provisioning is caught, and ends it just so.
CallFails(o) ==
    /\ operating[o] # Free
    /\ Goes(o, Free)
    /\ UNCHANGED <<tenant, admin, link, assets, visit>>

(***************************************************************************)
(* Single writes of the operator                                           *)
(***************************************************************************)

SetStatus(status) ==   \* suspend, activate, offboard
    /\ Exists
    /\ tenant' = status
    /\ UNCHANGED <<admin, link, assets, operating, visit>>

\* TenantsService.completeOnboarding
CompleteTenant ==
    /\ tenant = "PENDING"
    /\ tenant' = "ACTIVE"
    /\ UNCHANGED <<admin, link, assets, operating, visit>>

UpsertIntegration ==
    /\ Exists
    /\ \E status \in {"ACTIVE", "DISABLED"} : assets' = [assets EXCEPT !.integration = status]
    /\ UNCHANGED <<tenant, admin, link, operating, visit>>

CreateApiKey ==
    /\ Exists
    /\ assets' = [assets EXCEPT !.key = "live"]
    /\ UNCHANGED <<tenant, admin, link, operating, visit>>

RevokeApiKey ==
    /\ assets.key # "none"
    /\ assets' = [assets EXCEPT !.key = "revoked"]
    /\ UNCHANGED <<tenant, admin, link, operating, visit>>

(***************************************************************************)
(* The super admin                                                         *)
(***************************************************************************)

\* AuthService.completeOnboarding finds the row of the token it was given.
OpenLink(v) ==
    /\ visit[v] = Free
    /\ \E l \in Links : link[l] = "open" /\ Visits(v, [pc |-> "onboard", link |-> l])
    /\ UNCHANGED <<tenant, admin, link, assets, operating>>

\* After bcrypt, one transaction for user, tenant and token, none of them
\* looked at again; it fails as a whole when a row is gone.
Onboard(v) ==
    /\ visit[v].pc = "onboard"
    /\ IF link[visit[v].link] # "deleted"
       THEN /\ admin' = [admin EXCEPT !.password = "own"]
            /\ tenant' = "ACTIVE"
            /\ link' = [link EXCEPT ![visit[v].link] = "used"]
       ELSE UNCHANGED <<admin, tenant, link>>
    /\ Visits(v, Free)
    /\ UNCHANGED <<assets, operating>>

\* changeTenantUserPassword compares with the hash it read.  A password that
\* has to be changed is one nobody knows, so the change is never a forced one.
StartChange(v) ==
    /\ visit[v] = Free
    /\ admin.there /\ admin.password = "own"
    /\ Visits(v, [pc |-> "change"])
    /\ UNCHANGED <<tenant, admin, link, assets, operating>>

ChangePassword(v) ==
    /\ visit[v].pc = "change"
    /\ IF admin.there
       THEN admin' = [admin EXCEPT !.password = "own"]
       ELSE UNCHANGED admin
    /\ Visits(v, Free)
    /\ UNCHANGED <<tenant, link, assets, operating>>

VisitFails(v) ==
    /\ visit[v] # Free
    /\ Visits(v, Free)
    /\ UNCHANGED <<tenant, admin, link, assets, operating>>

Next ==
    \/ \E o \in Operators :
           \/ Create(o) \/ ProvisionAdmin(o) \/ SpendLinks(o) \/ IssueLink(o)
           \/ Regenerate(o) \/ ResetAdmin(o) \/ ResetTenant(o) \/ CallFails(o)
    \/ \E status \in {"SUSPENDED", "ACTIVE", "OFFBOARDED"} : SetStatus(status)
    \/ HardDelete \/ LinkExpires \/ CompleteTenant
    \/ UpsertIntegration \/ CreateApiKey \/ RevokeApiKey
    \/ \E v \in Visitors :
           OpenLink(v) \/ Onboard(v) \/ StartChange(v) \/ ChangePassword(v) \/ VisitFails(v)

Spec == Init /\ [][Next]_vars

(***************************************************************************)
(* Properties                                                              *)
(***************************************************************************)

\* The shape of the rows and of the calls in flight.
TypeOK ==
    /\ tenant \in {"none", "PENDING", "ACTIVE", "SUSPENDED", "OFFBOARDED"}
    /\ admin \in [there : BOOLEAN, password : {"unknown", "own"}]
    /\ admin.there => Exists
    /\ link \in [Links -> {"unissued", "open", "used", "expired", "deleted"}]
    /\ assets \in [integration : {"none", "PENDING", "ACTIVE", "DISABLED"},
                   key : {"none", "live", "revoked"}]
    /\ operating \in [Operators -> [pc : {"free", "admin", "spend", "issue", "pending"}]
                                      \cup [pc : {"reset"}, wasActive : BOOLEAN]]
    /\ visit \in [Visitors -> [pc : {"free", "change"}] \cup [pc : {"onboard"}, link : Links]]

\* However regenerations, provisionings and their failures overlap, no more
\* links are open than operators' calls can overlap: each call spends what is
\* open before it issues its own.
LinksDoNotPileUp ==
    Cardinality({l \in Links : link[l] = "open"}) <= Cardinality(Operators)
==============================================================================
