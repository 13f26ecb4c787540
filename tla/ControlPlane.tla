----------------------------- MODULE ControlPlane -----------------------------
(***************************************************************************)
(* Components of the control plane that share no row and no message with   *)
(* each other as far as they are modelled.  A behaviour exercises one of   *)
(* them, `active`; the variables of the others are Off.                    *)
(***************************************************************************)
EXTENDS Naturals, FiniteSets

CONSTANTS
    None, Nobody, System,   \* nulls, and the user id of the scheduler
    \* Onboarding
    Slugs, SeedSlug, Addresses, Domains, DomainOf, SeedAddress, SeedDomain, Sessions,
    Requests,
    \* Invites
    Issued, Callers, MaxUsers,
    \* ThreatDetection
    People, Teams, Detections, MaxIds, MaxRowChanges,
    \* RequestGuards
    Flights, Tenants, Home, MaxVersions,
    \* RoleSync
    Directory, RoleIds, PageSize, RoleSyncs, MaxGoogleChanges,
    \* UserSession
    Calls, MaxChanges, MaxSetups,
    \* IdentitySync
    Accounts, MaxEmail, Users, Manual, Cron, Reuse, MapsByHand, MaxEdits, MaxFails, MaxLinks

\* None is a null, no slug, domain or address; the seed is of their kinds.
ASSUME OnboardingAssumption ==
    /\ None \notin Slugs /\ None \notin Domains /\ None \notin Addresses
    /\ SeedSlug \in Slugs /\ SeedAddress \in Addresses /\ SeedDomain \in Domains \cup {None}

\* Accounts are created at least once.
ASSUME DetectionAssumption == MaxIds \in Nat \ {0} /\ MaxRowChanges \in Nat

\* Users and roles are places in a listing, counted from 1.
ASSUME RolesAssumption ==
    /\ Directory \subseteq Nat \ {0} /\ IsFiniteSet(Directory)
    /\ RoleIds \subseteq Nat \ {0} /\ IsFiniteSet(RoleIds)
    /\ PageSize \in Nat /\ MaxGoogleChanges \in Nat

\* Ids are uuids, and nulls and the scheduler have none.
ASSUME IdentityAssumption ==
    /\ MaxEmail \in Nat /\ MaxEdits \in Nat /\ MaxFails \in Nat /\ MaxLinks \in Nat
    /\ Nobody \notin Users /\ System \notin Users
    /\ Reuse \in BOOLEAN /\ MapsByHand \in BOOLEAN
    /\ Manual \cap Cron = {}

ASSUME BoundsAssumption ==
    MaxUsers \in Nat /\ MaxVersions \in Nat /\ MaxChanges \in Nat /\ MaxSetups \in Nat

VARIABLES
    active,
    tenant, member, oauth, connected, request, boot, given, verified,
    invite, user, users, inflight, made,
    row, link, ids, changes, detection, signalled,
    account, flight,
    gUsers, gRoles, gAssigned, gChanges, roleNames, rows, roleSync,
    there, status, admin, ver, hash, mfa, secret, tokens, setupToken, call,
    setups, password, era, barred,
    google, localUser, identity, integration, sync, links, edits, fails, former, used

Onboard == INSTANCE Onboarding
Invite == INSTANCE Invites
Detect == INSTANCE ThreatDetection WITH MaxChanges <- MaxRowChanges
Guards == INSTANCE RequestGuards
Roles == INSTANCE RoleSync WITH Users <- Directory, MaxChanges <- MaxGoogleChanges
Session == INSTANCE UserSession
Identity == INSTANCE IdentitySync WITH
    user <- localUser, row <- identity, status <- integration

onboardVars == <<tenant, member, oauth, connected, request, boot, given, verified>>
inviteVars == <<invite, user, users, inflight, made>>
detectVars == <<row, link, ids, changes, detection, signalled>>
guardsVars == <<account, flight>>
rolesVars == <<gUsers, gRoles, gAssigned, gChanges, roleNames, rows, roleSync>>
sessionVars == <<there, status, admin, ver, hash, mfa, secret, tokens, setupToken, call,
      setups, password, era, barred>>
identityVars == <<google, localUser, identity, integration, sync, links, edits, fails, former, used>>

Off == "off"

OnboardOff ==
    /\ tenant = Off /\ member = Off /\ oauth = Off /\ connected = Off /\ request = Off
    /\ boot = Off /\ given = Off /\ verified = Off
InviteOff ==
    /\ invite = Off /\ user = Off /\ users = Off /\ inflight = Off /\ made = Off
DetectOff ==
    /\ row = Off /\ link = Off /\ ids = Off /\ changes = Off /\ detection = Off
    /\ signalled = Off
GuardsOff ==
    /\ account = Off /\ flight = Off
RolesOff ==
    /\ gUsers = Off /\ gRoles = Off /\ gAssigned = Off /\ gChanges = Off
    /\ roleNames = Off /\ rows = Off /\ roleSync = Off
SessionOff ==
    /\ there = Off /\ status = Off /\ admin = Off /\ ver = Off /\ hash = Off
    /\ mfa = Off /\ secret = Off /\ tokens = Off /\ setupToken = Off /\ call = Off
    /\ setups = Off /\ password = Off /\ era = Off /\ barred = Off
IdentityOff ==
    /\ google = Off /\ localUser = Off /\ identity = Off /\ integration = Off
    /\ sync = Off /\ links = Off /\ edits = Off /\ fails = Off /\ former = Off
    /\ used = Off

Init ==
    /\ active \in {"onboarding", "invites", "detection", "guards",
                  "roles", "session", "identity"}
    /\ IF active = "onboarding" THEN Onboard!Init ELSE OnboardOff
    /\ IF active = "invites"    THEN Invite!Init ELSE InviteOff
    /\ IF active = "detection"  THEN Detect!Init ELSE DetectOff
    /\ IF active = "guards"     THEN Guards!Init ELSE GuardsOff
    /\ IF active = "roles"      THEN Roles!Init ELSE RolesOff
    /\ IF active = "session"    THEN Session!Init ELSE SessionOff
    /\ IF active = "identity"   THEN Identity!Init ELSE IdentityOff

Next ==
    /\ UNCHANGED active
    /\ IF active = "onboarding" THEN Onboard!Next ELSE UNCHANGED onboardVars
    /\ IF active = "invites"    THEN Invite!Next ELSE UNCHANGED inviteVars
    /\ IF active = "detection"  THEN Detect!Next ELSE UNCHANGED detectVars
    /\ IF active = "guards"     THEN Guards!Next ELSE UNCHANGED guardsVars
    /\ IF active = "roles"      THEN Roles!Next ELSE UNCHANGED rolesVars
    /\ IF active = "session"    THEN Session!Next ELSE UNCHANGED sessionVars
    /\ IF active = "identity"   THEN Identity!Next ELSE UNCHANGED identityVars

vars == <<active, onboardVars, inviteVars, detectVars, guardsVars, rolesVars,
          sessionVars, identityVars>>

Spec == Init /\ [][Next]_vars

(***************************************************************************)
(* The properties of the components                                        *)
(***************************************************************************)

\* Every component keeps the shape of its state.
TypeOK ==
    /\ active = "onboarding" => Onboard!TypeOK
    /\ active = "invites" => Invite!TypeOK
    /\ active = "detection" => Detect!TypeOK
    /\ active = "guards" => Guards!TypeOK
    /\ active = "roles" => Roles!TypeOK
    /\ active = "session" => Session!TypeOK
    /\ active = "identity" => Identity!TypeOK

\* Onboarding: a tenant's domain is vouched for.
DomainIsVouchedFor == active = "onboarding" => Onboard!DomainIsVouchedFor

\* Onboarding: a tenant created with a domain keeps it.
CreatedDomainStays == active = "onboarding" => Onboard!CreatedDomainStays

\* Invites: an invite tells what became of it.
InviteTellsItsUser == active = "invites" => Invite!InviteTellsItsUser

\* ThreatDetection: a stored score is the sum of audited signals.
ScoreIsAudited == active = "detection" => Detect!ScoreIsAudited

\* ThreatDetection: ISPM and ITDR call the same identities privileged.
ConsolesAgree == active = "detection" => Detect!ConsolesAgree

\* RequestGuards: a handler acts for one reading of the user.
HandlerActsForOneUser == active = "guards" => Guards!HandlerActsForOneUser

\* UserSession: an accepted token was made under the present credentials.
TokensFollowCredentials == active = "session" => Session!TokensFollowCredentials

\* IdentitySync: no identity is mapped to a removed user.
MappedUserExists == active = "identity" => Identity!MappedUserExists

\* IdentitySync: a sync leaves the rows as Google has them.
SyncMirrorsGoogle == [][active = "identity" => Identity!MirrorsGoogle]_vars

\* RoleSync: a sync that ends has given every identity its roles.
RolesAreExact == [][active = "roles" => Roles!ExactAtTheEnd]_vars
=============================================================================
