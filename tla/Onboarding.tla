----------------------------- MODULE Onboarding -----------------------------
(***************************************************************************)
(* How tenants come into being and connect to Google: the seed at the      *)
(* start of the control plane, bootstrap and create, the sign-in with      *)
(* Google that verifies a tenant's domain, and the checks of the first     *)
(* connection.  Requests overlap; the process may end at any step, and     *)
(* starts again with the seed.                                             *)
(***************************************************************************)
EXTENDS Naturals, FiniteSets

CONSTANTS
    Slugs,        \* slugs of tenants
    SeedSlug,     \* BOOTSTRAP_TENANT_SLUG
    Addresses,    \* email addresses, lower case
    Domains,      \* domains of addresses
    DomainOf,     \* the domain of an address
    SeedAddress,  \* BOOTSTRAP_ADMIN_EMAIL
    SeedDomain,   \* BOOTSTRAP_TENANT_DOMAIN
    Sessions,     \* OAuth states that are ever issued
    Requests,     \* requests that may be in flight at once
    None          \* null in a column

VARIABLES
    tenant,       \* tenants: the row of each slug
    member,       \* tenant_users: the role of each address in each tenant
    oauth,        \* oauth_sessions
    connected,    \* integrations: externalDomain of each tenant
    request,      \* requests in flight
    boot,         \* where onModuleInit is, or "up"
    \* history, read by properties only
    given,        \* the domain each tenant was created with
    verified      \* the domains its sessions have recorded as verified

tables == <<tenant, member, oauth, connected, given, verified>>
vars   == <<tables, request, boot>>

Roles  == {"USER", "TENANT_ADMIN", "PLATFORM_ADMIN"}
Column == Domains \cup {None}
NoUser == "none"
Absent == [there |-> FALSE, domain |-> None]
Unused == [status |-> "unused", slug |-> None, email |-> None, domain |-> None]
Idle   == [pc |-> "idle"]

\* createTenant, with the dto it was called with and the initial role.
Creation ==
    [pc : {"find", "tenant", "user"}, slug : Slugs, domain : Column,
     admin : Addresses \cup {None}, role : {"TENANT_ADMIN", "PLATFORM_ADMIN"}]

\* completeGoogleAuthorization after userinfo.get: what it read of the tenant,
\* the domain it trusts, and whether it found the user.
Verification ==
    [pc : {"look", "update", "create", "verify"}, session : Sessions,
     email : Addresses, primary : Column, trusted : Domains]

Connection == [pc : {"connect"}, slug : Slugs, domain : Domains]

NobodyYet == \A s \in Slugs, a \in Addresses : member[s][a] = NoUser

Init ==
    /\ tenant = [s \in Slugs |-> Absent]
    /\ member = [s \in Slugs |-> [a \in Addresses |-> NoUser]]
    /\ oauth = [s \in Sessions |-> Unused]
    /\ connected = [s \in Slugs |-> None]
    /\ request = [r \in Requests |-> Idle]
    /\ boot \in {"count", "up"}
    /\ given = [s \in Slugs |-> None]
    /\ verified = [s \in Slugs |-> {}]

Becomes(r, next) == request' = [request EXCEPT ![r] = next]
Enroll(slug, address, role) == member' = [member EXCEPT ![slug][address] = role]

(***************************************************************************)
(* createTenant: three queries, no transaction                             *)
(***************************************************************************)

CreateStarts(r, slug, domain, admin, role) ==
    /\ request[r] = Idle
    /\ Becomes(r, [pc |-> "find", slug |-> slug, domain |-> domain,
                   admin |-> admin, role |-> role])
    /\ UNCHANGED <<tables, boot>>

\* TenantsService.bootstrap: before the first user, with an admin.
Bootstrap(r, slug, domain, admin) ==
    /\ boot = "up"
    /\ NobodyYet
    /\ CreateStarts(r, slug, domain, admin, "PLATFORM_ADMIN")

\* TenantsService.create, by a platform admin; the admin of the tenant is optional.
Create(r, slug, domain, admin) ==
    /\ boot = "up"
    /\ \E s \in Slugs, a \in Addresses : member[s][a] = "PLATFORM_ADMIN"
    /\ CreateStarts(r, slug, domain, admin, "TENANT_ADMIN")

FindSlug(r) ==
    /\ request[r].pc = "find"
    /\ Becomes(r, IF tenant[request[r].slug].there
                  THEN Idle
                  ELSE [request[r] EXCEPT !.pc = "tenant"])
    /\ UNCHANGED <<tables, boot>>

\* The row of the tenant; slug is unique.
NewTenant(slug, domain) ==
    /\ tenant' = [tenant EXCEPT ![slug] = [there |-> TRUE, domain |-> domain]]
    /\ given' = [given EXCEPT ![slug] = domain]

InsertTenant(r) ==
    /\ request[r].pc = "tenant"
    /\ LET q == request[r] IN
       IF tenant[q.slug].there
       THEN /\ Becomes(r, Idle)
            /\ UNCHANGED <<tenant, given>>
       ELSE /\ NewTenant(q.slug, q.domain)
            /\ Becomes(r, IF q.admin = None THEN Idle ELSE [q EXCEPT !.pc = "user"])
    /\ UNCHANGED <<member, oauth, connected, verified, boot>>

\* The row of the admin; (tenantId, email) is unique.
InsertAdmin(r) ==
    /\ request[r].pc = "user"
    /\ LET q == request[r] IN
       IF member[q.slug][q.admin] = NoUser
       THEN Enroll(q.slug, q.admin, q.role)
       ELSE UNCHANGED member
    /\ Becomes(r, Idle)
    /\ UNCHANGED <<tenant, oauth, connected, given, verified, boot>>

(***************************************************************************)
(* seedBootstrapTenant, before the server listens; what it throws is       *)
(* caught and logged                                                       *)
(***************************************************************************)

Seeding(next) ==
    /\ boot' = next
    /\ UNCHANGED request

SeedCount ==
    /\ boot = "count"
    /\ Seeding(IF NobodyYet THEN "find" ELSE "up")
    /\ UNCHANGED tables

SeedFind ==
    /\ boot = "find"
    /\ Seeding(IF tenant[SeedSlug].there THEN "up" ELSE "tenant")
    /\ UNCHANGED tables

SeedTenant ==
    /\ boot = "tenant"
    /\ NewTenant(SeedSlug, SeedDomain)
    /\ Seeding("user")
    /\ UNCHANGED <<member, oauth, connected, verified>>

SeedAdmin ==
    /\ boot = "user"
    /\ Enroll(SeedSlug, SeedAddress, "PLATFORM_ADMIN")
    /\ Seeding("up")
    /\ UNCHANGED <<tenant, oauth, connected, given, verified>>

\* The process ends, with what it was doing, and is started again, with
\* bootstrap credentials or without.
Restart ==
    /\ boot' \in {"count", "up"}
    /\ request' = [r \in Requests |-> Idle]
    /\ UNCHANGED tables

(***************************************************************************)
(* Sign-in with Google                                                     *)
(***************************************************************************)

\* getGoogleAuthorizationUrl: a row with a fresh state.
Authorize(s, slug) ==
    /\ boot = "up"
    /\ tenant[slug].there
    /\ oauth[s] = Unused
    /\ oauth' = [oauth EXCEPT ![s] = [Unused EXCEPT !.status = "PENDING", !.slug = slug]]
    /\ UNCHANGED <<tenant, member, connected, given, verified, request, boot>>

\* Its fifteen minutes are over.
Expire(s) ==
    /\ oauth[s].status = "PENDING"
    /\ oauth' = [oauth EXCEPT ![s].status = "expired"]
    /\ UNCHANGED <<tenant, member, connected, given, verified, request, boot>>

\* The domain completeGoogleAuthorization trusts: the one the tenant has, if it
\* is the account's email or hosted domain, or else the hosted domain.
Trusts(primary, email, hosted) ==
    IF primary = None THEN {hosted} ELSE {primary} \cap {DomainOf[email], hosted}

Complete(r, s, email, hosted) ==
    /\ boot = "up"
    /\ request[r] = Idle
    /\ oauth[s].status = "PENDING"
    /\ LET primary == tenant[oauth[s].slug].domain IN
       \E trusted \in Trusts(primary, email, hosted) :
           Becomes(r, [pc |-> "look", session |-> s, email |-> email,
                       primary |-> primary, trusted |-> trusted])
    /\ UNCHANGED <<tables, boot>>

LookForUser(r) ==
    /\ request[r].pc = "look"
    /\ LET q == request[r] IN
       Becomes(r, [q EXCEPT !.pc = IF member[oauth[q.session].slug][q.email] = NoUser
                                   THEN "create" ELSE "update"])
    /\ UNCHANGED <<tables, boot>>

\* The user found is made an admin, or a new one is created; an update of a
\* row that is gone and a second row of one address throw.
AdmitUser(r) ==
    /\ request[r].pc \in {"update", "create"}
    /\ LET q    == request[r]
           slug == oauth[q.session].slug
           role == member[slug][q.email] IN
       IF (q.pc = "update") = (role # NoUser)
       THEN /\ Enroll(slug, q.email, IF role = "PLATFORM_ADMIN" THEN role ELSE "TENANT_ADMIN")
            /\ Becomes(r, [q EXCEPT !.pc = "verify"])
       ELSE /\ Becomes(r, Idle)
            /\ UNCHANGED member
    /\ UNCHANGED <<tenant, oauth, connected, given, verified, boot>>

Verified(q) ==
    /\ oauth' = [oauth EXCEPT ![q.session] =
                     [@ EXCEPT !.status = "VERIFIED", !.email = q.email, !.domain = q.trusted]]
    /\ verified' = [verified EXCEPT ![oauth[q.session].slug] = @ \cup {q.trusted}]

VerifyTenantFirst(r) ==   \* mutant: two updates, and the process ends between them
    /\ request[r].pc = "verify"
    /\ LET q == request[r] IN
       tenant' = [tenant EXCEPT ![oauth[q.session].slug].domain =
                     IF q.primary = None THEN q.trusted ELSE q.primary]
    /\ Becomes(r, Idle)
    /\ UNCHANGED <<oauth, member, connected, given, verified, boot>>

\* The transaction; the tenant gets the domain that was read at the start, or
\* else the trusted one.
Verify(r) ==
    /\ request[r].pc = "verify"
    /\ LET q == request[r] IN
       /\ Verified(q)
       /\ tenant' = [tenant EXCEPT ![oauth[q.session].slug].domain =
                        IF q.primary = None THEN q.trusted ELSE q.primary]
    /\ Becomes(r, Idle)
    /\ UNCHANGED <<member, connected, given, boot>>

(***************************************************************************)
(* The first connection                                                    *)
(***************************************************************************)

Admins(slug) == {a \in Addresses : member[slug][a] \in {"TENANT_ADMIN", "PLATFORM_ADMIN"}}

TrustsAnyDomain(slug, actor, delegate, domain) ==   \* mutant: the domain of the dto is not compared
    LET primary == tenant[slug].domain IN
    /\ primary # None
    /\ DomainOf[actor] = primary
    /\ DomainOf[delegate] = primary
    /\ delegate = actor \/ member[slug][actor] = "PLATFORM_ADMIN"

\* resolveGoogleConfig fills in what the dto leaves out, which gives nothing
\* that the dto could not say; assertTrustedGoogleConnection.
TrustedConnection(slug, actor, delegate, domain) ==
    LET primary == tenant[slug].domain IN
    /\ primary # None
    /\ DomainOf[actor] = primary
    /\ domain = primary
    /\ DomainOf[delegate] = primary
    /\ delegate = actor \/ member[slug][actor] = "PLATFORM_ADMIN"

ConnectGoogle(r, slug, actor, delegate, domain) ==
    /\ boot = "up"
    /\ request[r] = Idle
    /\ actor \in Admins(slug)
    /\ TrustedConnection(slug, actor, delegate, domain)
    /\ Becomes(r, [pc |-> "connect", slug |-> slug, domain |-> domain])
    /\ UNCHANGED <<tables, boot>>

\* Google has answered for the service account: integration.upsert.
UpsertIntegration(r) ==
    /\ request[r].pc = "connect"
    /\ connected' = [connected EXCEPT ![request[r].slug] = request[r].domain]
    /\ Becomes(r, Idle)
    /\ UNCHANGED <<tenant, member, oauth, given, verified, boot>>

\* UsersService.remove, which keeps an admin in the tenant, and any error.
RemoveUser(slug, a) ==
    /\ boot = "up"
    /\ member[slug][a] # NoUser
    /\ Admins(slug) \ {a} # {}
    /\ Enroll(slug, a, NoUser)
    /\ UNCHANGED <<tenant, oauth, connected, given, verified, request, boot>>

RequestFails(r) ==
    /\ request[r] # Idle
    /\ Becomes(r, Idle)
    /\ UNCHANGED <<tables, boot>>

(***************************************************************************)
(* The specification                                                       *)
(***************************************************************************)

CreateSteps(r) ==
    \/ \E slug \in Slugs, domain \in Column :
           \/ \E a \in Addresses : Bootstrap(r, slug, domain, a)
           \/ \E a \in Addresses \cup {None} : Create(r, slug, domain, a)
    \/ FindSlug(r) \/ InsertTenant(r) \/ InsertAdmin(r)

Seed == SeedCount \/ SeedFind \/ SeedTenant \/ SeedAdmin

OauthSteps(r) ==
    \/ \E s \in Sessions, email \in Addresses, hosted \in Domains : Complete(r, s, email, hosted)
    \/ LookForUser(r) \/ AdmitUser(r) \/ Verify(r)

ConnectSteps(r) ==
    \/ \E slug \in Slugs, actor, delegate \in Addresses, domain \in Domains :
           ConnectGoogle(r, slug, actor, delegate, domain)
    \/ UpsertIntegration(r)

Next ==
    \/ Seed \/ Restart
    \/ \E s \in Sessions : (\E slug \in Slugs : Authorize(s, slug)) \/ Expire(s)
    \/ \E slug \in Slugs, a \in Addresses : RemoveUser(slug, a)
    \/ \E r \in Requests :
           CreateSteps(r) \/ OauthSteps(r) \/ ConnectSteps(r) \/ RequestFails(r)

Spec == Init /\ [][Next]_vars

(***************************************************************************)
(* Properties                                                              *)
(***************************************************************************)

\* The shape of the tables and of the requests in flight.
TypeOK ==
    /\ tenant \in [Slugs -> [there : BOOLEAN, domain : Column]]
    /\ member \in [Slugs -> [Addresses -> Roles \cup {NoUser}]]
    /\ oauth \in [Sessions -> [status : {"unused", "PENDING", "expired", "VERIFIED"},
                               slug : Slugs \cup {None}, email : Addresses \cup {None},
                               domain : Column]]
    /\ connected \in [Slugs -> Column]
    /\ request \in [Requests -> Creation \cup Verification \cup Connection \cup {Idle}]
    /\ boot \in {"count", "find", "tenant", "user", "up"}
    /\ given \in [Slugs -> Column]
    /\ verified \in [Slugs -> SUBSET Domains]

\* A tenant's domain, and the domain it is connected to, are vouched for: by
\* whoever created the tenant, or by a session that recorded the verification
\* of a Google account, however sign-ins and connections of the tenant overlap
\* and wherever the process ends.
DomainIsVouchedFor ==
    \A slug \in Slugs :
        {tenant[slug].domain, connected[slug]} \ {None} \subseteq
            verified[slug] \cup {given[slug]}

\* A tenant that was created with a domain keeps it and connects to no other,
\* whichever Google accounts sign in to it and whoever connects it.
CreatedDomainStays ==
    \A slug \in Slugs : given[slug] # None =>
        /\ tenant[slug].domain = given[slug]
        /\ connected[slug] \in {None, given[slug]}
=============================================================================
