# IDMatr in TLA+

TLA+ models of the parts of IDMatr whose correctness depends on the order in
which things happen: the access decisions of the control plane and its Google
synchronisation, accounts and sessions, the endpoint agent, the operator's
backend with its erasure and audit services, and the web consoles. TLC checks
them on small instances; TLAPS proves every safety property that a passing run
checks, and the refinement, for every value of the constants. Liveness stays with
TLC.

Paths are relative to the repository. `cp/` abbreviates `apps/control-plane/src/`,
`legacy/` the directory `legacy/control-plane-src-legacy/`, `services/` the
directory `legacy/services/`.

## 1. The system

The repository holds two generations of one product and an agent.

- The **control plane** (`cp/`): one NestJS process over one PostgreSQL database
  (`apps/control-plane/prisma/schema.prisma`) that calls the Google Directory API.
- The **agent** (`agent/`): a Go process on endpoints that sends telemetry.
- The **operator's backend** (`legacy/`, with `legacy/apps/api-gateway` and
  `services/` behind it): tenants, onboarding, privacy, audit, settings, discovery.
  Most of it is not built into the control plane; `*.fixed.ts` equal their `.ts`,
  and `auth.service.backup.ts` is the only file with the methods that
  `internal-auth.controller.ts` calls. No schema of its database is in the
  repository: the models assume the tables and columns that the code names.
- The **web consoles** (`apps/admin-dashboard`, `apps/control-plane-ui`).
- Three **stand-alone servers** in Python.

In the Node processes every `await` lets other handlers run, and only a few short
transactions are atomic over more than one query. So a handler is modelled as a
sequence of atomic steps, a query or a call to another system each, and any of
them may be the last: an exception, a time-out, a restart.

| Component | State | Operations | Hard because | Module |
|---|---|---|---|---|
| IVIP, IGA (`cp/ivip`, `cp/iga`) | requests, reviews | create, approve, reject, revoke | approval awaits Google, the mirror, the audit row and its own row in turn; the status is never a guard | `AccessGovernance` |
| Integrations (`cp/integrations`) | identities, groups, memberships, the connection | grant, revoke, sync of users, groups and roles, map | a sync writes from a listing that is old by then, deletes by cascade, overlaps anything | `AccessGovernance`, `IdentitySync`, `RoleSync` |
| Scheduler | none | both syncs every 30 minutes | overlaps itself; a run that throws stops there | `IdentitySync` |
| Users (`cp/users`) | `tenant_users` | create, update, remove | counts and writes apart; changes end sessions | `TenantAdmins`, `UserSession` |
| Auth, MFA (`cp/auth`, `cp/mfa`) | version, refresh hash, status, role, secret | login, refresh, Google sign-in, setup, verify, disable | a row is read, bcrypt runs, and a stale value is written back | `UserSession`, `TenantAdmins` |
| Guards (`cp/auth`, `cp/rbac`) | none | every request | each guard reads the user again | `RequestGuards` |
| Tenants, OAuth (`cp/tenants`, `cp/auth`) | tenants, OAuth sessions, domains | seed, bootstrap, create, verify, connect | restarts between rows; sign-ins race for the domain | `Onboarding` |
| Invites | invites | create, revoke, accept | two acceptances of one invite | `Invites` |
| ITDR, ISPM | risk scores, audit signals | detect, snapshot | rows vanish under the loop | `ThreatDetection` |
| Agent | queue file, binary, `agent.yaml` | enqueue, drain, send, update, re-exec | files rewritten in place; two processes; the process ends at any step | `AgentQueue`, `AgentLifecycle` |
| Backend: tenants, accounts | tenants, super admins, links, keys | create, onboard, suspend, regenerate, sign-in, MFA | overlapping calls spend and issue links; answers get lost | `TenantLifecycle`, `TenantAccount` |
| Backend: privacy, GDPR | deletion requests, tasks, notices, consents, archives | erase, retain, delete, publish, accept, rectify, export | errors are swallowed; runs overlap | `Privacy`, `DataDeletion`, `PersonalData` |
| Backend: users, invites, requests, reviews, break glass | rows of those names | accept, approve, reject, finalize, consume | two writes for one fact | `LegacyRequests`, `BreakGlass` |
| Backend: sign-in counters, audit, limits | counters, chains, Redis keys | login, write, verify, check | read-modify-write | `LoginLockout`, `AuditTrail`, `RateLimits` |
| Discovery (`services/discovery-service`) | members, connectors | triggerScan | lookups without a unique index | `Discovery` |
| Settings, keys | settings row, keys | save, create, rotate, revoke | read-merge-write; page and routes disagree | `Settings` |
| Gateway and services | none of their own | forward, compose | time limits; failed parts become zeros | `InsightPages`, `TenantAccount`, `PersonalData` |
| Consoles | flag, cookie, copies of rows | navigate, load, act | overlapping loads; pages redirect each other | `WebConsole`, `TenantPages`, `InsightPages`, `Settings` |
| Stand-alone servers | one row | login, enable, verify | answers are used after the row changed | `DemoServers` |

How they interact: IVIP and IGA call `grantGroupAccess` and `revokeGroupAccess`
of Integrations, which change Google first and the mirror after; the syncs of an
administrator and of the cron rewrite the same mirror; `UsersService` maps
identities to users after it wrote a user, and the user sync does too; a deleted
identity or group takes requests and reviews with it (`onDelete`); the guards read
the row of the user on every request. In the backend the gateway calls services
over NATS with a time limit that ends the wait and not the call; the consoles
call the gateway or the control plane and load their copies again.

What makes them correct: a decision stands for an audited change; the mirror
shows what Google has; a tenant keeps an administrator; a token stands for the
credentials as they are; a second factor that is on can be used; the queue is
bounded, in order and loses the oldest only; an erasure comes; what is answered
as done was done and is shown; limits hold but for the checks that overlap;
verdicts on a log are true; pages come to rest.

## 2. Modules

The first five share rows with several handlers and have modules for themselves;
all follow one scheme: variables are the rows, and the locals of handlers in
flight (`call`, `sync`, `request`, `handler`, ...), each with a program counter
named for what it does next.

**AccessGovernance.** A pair is an identity and a group. `approve` and `revoke`
become `ApproveRequest`/`RevokeReview` (find the row), `Lookup` (both rows again),
`InsertMember`/`DeleteMember` (Google, with its 404 and 409), `UpsertMembership`/
`DeleteMembership`, `AuditChange`, `CloseRequest`/`CloseReview`. `syncGoogleGroups`
is `FetchGroups`, `ReadIdentities`, `UpsertGroups`, one `UpsertMember` per
membership, `RemoveStaleGroups`, `RemoveStaleMemberships`. A row that is deleted
and created again is another row: an `EntityRow` counts its incarnations, and a
handler that holds an old uuid misses the new row. `IdentityUpserted` and
`IdentityRemoved` stand for a user sync. One simplification: a listing of the
groups and their members is one step, though the code lists the groups first.

**IdentitySync.** An address is a number, because Google lists accounts by address
and the order of the upserts matters. `Upsert` is refused by the unique index on
`(integrationId, primaryEmail)` and by the foreign key of the mapping (`Accepted`).
`Throw` is what an exception leads to: for the cron, the status `ERROR`.

**RoleSync.** The three listings of `syncGoogleRoles`, page by page and at the same
time, while Google changes; then the joined roles are written.

**TenantAdmins, UserSession.** `StartUpdate`, `CountAdmins`, `WriteUpdate` are
`findFirst`, the count of `assertAdminSafety` and the write; the sign-ins that
write `role` or `status` have a read and a write step. In `UserSession` one row
stands for all; a token carries its `ver` and, as history, what was current when
the sign-in behind it read the row. `Refresh` takes any refresh token of the user
while a hash is stored: bcrypt compares 72 bytes, and those do not differ.

**RequestGuards.** A request passes `RequestSecurityGuard`, then the strategy, the
MFA guard and the roles guard, each with its own reading of the row.

**Onboarding, Invites, ThreatDetection.** The seed with a crash between its awaits,
bootstrap, the OAuth session, the first connection; the three calls on an invite;
`detectGoogleSignals` identity by identity, with ISPM's count beside it.

**AgentQueue, AgentLifecycle, EventDelivery.** A line of the queue is a number (0:
does not parse) and a size class: 1 fits the default buffer of a `bufio.Scanner`, 2
only the 4 MiB of a drain, 3 neither. `Exit` ends the process at any step and
leaves what a cut-short write may leave. `AgentLifecycle` has the processes of a
device on systemd, launchd and Windows: version comparison, the two renames, the
re-exec, the id in `agent.yaml`. `EventDelivery` is the abstract specification
that `AgentQueue` implements (section 3).

**TenantLifecycle, Privacy, DataDeletion.** The backend's tenant with its links and
keys; erasure by the retention scheduler; the GDPR deletion job with its steps.

**LoginLockout, AuditTrail, RateLimits.** Both codes of the login counter (`code`
fixed per behaviour); both hash chains (`perTenant` fixed per behaviour), where a
hash stands for the sequence of the entries it was computed from; the three kinds
of limit with time in ticks.

**LegacyRequests, BreakGlass, Discovery.** One address with its users, invites and
requests; reviews of the operators and their tokens; scans of one source.

**Settings, TenantAccount, PersonalData.** Each behaviour is about one part that
shares nothing with the others (a tab of the page, a tenant's user or an operator,
notices or rows or files). The gateway's time limit is an answer that is lost
though the call was carried out.

**WebConsole, TenantPages, InsightPages, DemoServers.** A tab with its page, the
flags of the page and the requests that are out. `WebConsole` has the redirects
between flag and cookie; `TenantPages` and `InsightPages` have a copy (a version
number) of what the server has, and ghosts (`owed`, `debt`) for the load that an
answered change owes. `DemoServers` has two tabs, the timers of their scripts and a
server that is started again.

### Composites

`ControlPlane`, `Agent`, `Backend` and `Services` put components together that
share no row as far as they are modelled: `Init` chooses one, `active` (in `Agent`,
`side`), which a behaviour exercises while the variables of the others are constant.
A property of a component is stated as `active = "x" => X!P`. So one run explores
the disjoint union of the components' state spaces, not their product, which would
show nothing more, and one theorem holds of all of them. Where components do share
rows the module holds both: the syncs and the decisions in `AccessGovernance`, the
sign-ins and the administrators in `TenantAdmins`.

| Composite | Components |
|---|---|
| `ControlPlane` | `Onboarding`, `Invites`, `ThreatDetection`, `RequestGuards`, `RoleSync`, `UserSession`, `IdentitySync` |
| `Agent` | `AgentQueue` (which it extends), `AgentLifecycle` |
| `Backend` | `TenantLifecycle`, `Privacy`, `DataDeletion` |
| `Services` | `LoginLockout`, `AuditTrail`, `RateLimits`, `WebConsole`, `Discovery`, `LegacyRequests`, `BreakGlass`, `TenantPages`, `InsightPages`, `Settings`, `TenantAccount`, `PersonalData`, `DemoServers` |

The composites and the components are parametrised by constants, whose assumptions
the composite states. An `MC*` module extends one of them and adds what the instance
needs, a symmetry set or the versions of the agent; the `.cfg` gives the constants
their values. The theorems in the `*_proofs` modules are about the very
specification that the run checks.

## 3. Runs

Counts are distinct states.

| Run | Instance | Checks | Result |
|---|---|---|---|
| `access` | `AccessGovernance`: 1 identity, 1 group, 2 requests, 1 review, 2 administrators, 2 syncs, 2 incarnations, 1 edit in Google, failures; `Bounds` allows two decisions with one sync, or two syncs with one decision | `TypeOK`, `ReferentialIntegrity`, `DecisionsAreAudited`, `MirrorWasReal`, `SyncIsExact` | holds |
| `admins_serial` | 3 users, 1 update or removal and 2 sign-ins in flight | `TypeOK`, `AnAdminRemains`, `SignInsKeepAdmins` | holds |
| `admins_overlap` | 2 users, 2 updates or removals | `AnAdminRemains` | violated |
| `control_plane` | `ControlPlane`: onboarding, invites, detection, guards, roles, sessions, identities | `TypeOK`, `DomainIsVouchedFor`, `CreatedDomainStays`, `InviteTellsItsUser`, `ScoreIsAudited`, `ConsolesAgree`, `HandlerActsForOneUser`, `TokensFollowCredentials`, `MappedUserExists`, `RolesAreExact`, `SyncMirrorsGoogle` | holds, 1.1 M |
| `session_mfa_overlap` | 2 calls on one row | `MfaHasSecret` | violated |
| `session_disabled` | 1 sign-in, 2 changes | `DisabledHasNoSession` | violated |
| `agent` | `Agent`: a queue of 3, batches of 2, 2 attempts, 5 events, exits, full disk; 2 processes, 3 releases, 3 platforms | `TypeOK`, `QueueBounded`, `QueueInOrder`, `OnlyOldestGivenUp`, `DeviceIdStable`, `DeliversOrGivesUpOldest`, `CollectorComesBack`, `UpdatesSettle` | holds, 551 k |
| `queue_long_bound` | a queue of 2, lines beyond the default buffer | `QueueBounded` | violated |
| `identity_converges` | 2 accounts, 2 addresses, an administrator's sync and a cron run, 1 edit, 1 failure, mapping by hand, no reuse of an address | `IdentitiesGetSynced` | holds, 722 k |
| `cron_groups` | 2 accounts, 1 user | `CronSyncsGroups` | violated |
| `backend` | `Backend`: 2 operators and 1 visitor with 3 links; 1 erasure, 2 runs, 2 faults; 2 deletions, 1 export, 2 callers, 2 jobs | `TypeOK`, `LinksDoNotPileUp`, `CompletedWasCarriedOut`, `ErasureComes` | holds, 1.1 M |
| `services` | `Services`: its 13 components | `TypeOK`, `FailuresBounded`, `VerdictsAreTrue`, `AdmittedBounded`, `RedirectsBounded`, `DuplicatesBounded`, `AnsweredWasCarriedOut`, `TokenUsesBounded` | holds, 1.0 M |

What the violated runs show:

- `admins_overlap`: the promise of `cp/users/users.service.ts:263`, that the last
  active administrator cannot be removed or disabled, needs the calls not to
  overlap: two of them count each other's administrator.
- `session_mfa_overlap`: `verify` and `disable` that overlap leave the flag set and
  the secret null, on which `login` throws (`auth.service.ts:552`).
- `session_disabled`: `login` writes back the status it read before the password
  comparison, which undoes a disabling in between.
- `queue_long_bound`: the limit of `agent/README.md` (10,000 events) is kept by
  counting lines with a scanner that stops at the first line over 64 KiB.
- `cron_groups`: the scheduler's user `system` has no row, the audit event that
  ends its user sync breaks the foreign key of `actorUserId`, so a run of the cron
  ends in `ERROR` before the group sync, every time.

### Properties

- `DecisionsAreAudited`: APPLIED and REVOKED are backed by an audited change,
  however many handlers stop half-way or share a row. `MirrorWasReal`: nothing gets
  into the mirror or the audit trail that Google never had. `ReferentialIntegrity`:
  cascades and foreign keys leave no dangling row under handlers with old uuids.
- `SyncIsExact`, `SyncMirrorsGoogle`, `RolesAreExact`: when a sync ends, the mirror
  is Google's state, but for what changed while it ran.
- `DomainIsVouchedFor`, `CreatedDomainStays`: a domain is the tenant's by its
  creation or by a recorded verification, and a domain of the creation stays.
- `InviteTellsItsUser`: a pending invite made nobody; `acceptedBy` is its last user.
- `ScoreIsAudited`, `ConsolesAgree`: a stored score is the sum of audited signals of
  that very row; ITDR and ISPM count the same privileged identities.
- `HandlerActsForOneUser`: the user a handler is given passed all its guards in one
  reading of the row. `TokensFollowCredentials`: no accepted token is older than
  the password or a disabling.
- `QueueBounded`, `QueueInOrder`, `OnlyOldestGivenUp`, `CollectorComesBack`,
  `DeviceIdStable`, `UpdatesSettle`: of the agent, as commented.
- `DeliversOrGivesUpOldest`: `AgentQueue` implements `EventDelivery`. The mapping:
  an event is pending while it is in the file, in the batch in hand or in the event
  being built, received once the server has taken it; `Lost` is what an exit or a
  full disk took. Every step maps to one step of the abstract specification or to
  none. TLC checks it with lines of size class 1, where the count sees all lines.
- `LinksDoNotPileUp`, `CompletedWasCarriedOut`, `ErasureComes`: no more onboarding
  links are open than calls overlap; a GDPR deletion that says COMPLETED
  deactivated its user and removed MFA; whoever asks to be erased is, unless a task
  was left with status `error`.
- `FailuresBounded`, `AdmittedBounded`, `DuplicatesBounded`, `TokenUsesBounded`: what a
  limit without a lock still bounds. The bounds are computed from how many calls
  overlap; with one call at a time they are the documented ones.
- `VerdictsAreTrue`: `verifyIntegrity` says valid only of rows as they were written,
  and says it of every chain that nothing disturbed.
- `RedirectsBounded`: pages do not redirect each other for ever; with
  `DemoServers!VerifyPageWorks`: the page a login leads to can let the operator
  through.
- `AnsweredWasCarriedOut`: of six components, what was answered as done was done
  or is shown: `LegacyRequests!AnsweredWasCarriedOut`, `ShowsWhatItDid` of the two
  page modules, `Settings!SavedIsKept` and `RotationKeepsAKey`,
  `TenantAccount!SecondFactorUsable` and `FirstPasswordActivates`,
  `PersonalData!ExportIsWhole` and `NothingLeftBehind`.

Each property of a passing run has a mutant (the operator commented `mutant:`
above the definition it replaces): a change of that definition, such as a
forgotten reset or an off-by-one, under which TLC refutes the property.

### Bounds

Named constants bound what would be infinite. Two handlers of a kind, and two
incarnations of a row, are what the races above take; a third handler is used
where a third role meets (`Invites`: revoke, accept, and the administrator).

- `access`: one identity and one group suffice, since rows of different pairs meet
  only in the cascades and in the order of the upserts of a sync, neither of which
  depends on a second pair.
- `control_plane`: 2 requests, 2 OAuth sessions and 2 addresses of two domains; 2
  invites, 3 callers, 3 users; 1 person, 2 teams, 2 detections, `MaxIds` 2; 1 request
  with `MaxVersions` 2 of its user; pages of one entry over 2 users and 2 roles; 2
  calls on a session with `MaxChanges` 2; 2 accounts with one address that may be
  reused and `MaxEdits` 3.
- `agent`: `MaxQueue` 3 with batches of two and five events reaches a full queue, a
  partial batch, and a drop from a queue that a failed drain wrote back.
- `services`: two calls of each kind. `LoginLockout` `MaxAttempts` 2, `MaxWrong` 8
  (the property's bound is 5); `AuditTrail` 3 rows in 2 ticks, 1 edit, 2 tenants, so
  that a tie, an order of rows and a middle row to remove exist; `RateLimits`
  `MaxRequests` 2, `Window` 3, `Slowest` 1, `MaxNow` 4, one more than a window;
  `WebConsole` `MaxMoves` 4; `Discovery` one member, `MaxChanges` 1; `LegacyRequests`
  one user row and 2 invites; `BreakGlass` 2 operators and a token; the pages
  `MaxRev` 2; `Settings` `MaxKeys` 3, `MaxSaves` 3; `TenantAccount` `MaxSecrets` 2;
  `PersonalData` `MaxNotices` 3, one more than publications can overlap;
  `DemoServers` 2 tabs, `MaxStarts` 1.

`SYMMETRY` is used only where every property is an invariant or an action property
and no definition picks a member of the set; never with a liveness property.
Deadlock is checked except in runs where the system may rightly stop: a removed user
with nothing in flight, a tenant that was deleted, a bound that was reached.

### Fairness

- `AgentQueue!FairSpec`, `Agent!AgentSpec`: weak fairness of the agent's own steps:
  the Go scheduler and the ticker run a process that is up. The server owes nothing.
  `UpdatesSettle` needs none.
- `IdentitySync!FairSpec`: weak fairness of the ticks of the cron and of the steps of
  its runs (`@Cron` fires while the process is up, and Google's client and Prisma
  settle every promise). Administrators and Google owe nothing; that they come to
  rest is the bounds `MaxEdits` and `MaxFails`.
- `Backend!FairSpec`: of `Privacy`, the timer of the retention scheduler, the steps
  of its runs and the passing of the grace period; faults are bounded by `MaxFaults`.

The other specifications have no fairness: their properties are safety.

## 4. Proofs

Every invariant and action property that a passing run checks is proved with TLAPS
for every value of the constants, and so is the refinement. The theorems are about
the specification the run checks, with the composite's other components in it.

| Module | Theorems (`Spec => []P` unless said otherwise) |
|---|---|
| `AccessGovernance_proofs` | `TypeCorrect`, `NoDanglingRows`: `ReferentialIntegrity`, `DecisionsAudited`: `DecisionsAreAudited`, `MirrorReal`: `MirrorWasReal`; the action property `SyncExact`: `SyncIsExact` |
| `TenantAdmins_proofs` | `TypeCorrect`, `SignInsSafe`: the action property `SignInsKeepAdmins`, `LastAdminKept`: `AnAdminRemains` if `Calls` has at most one element |
| `ControlPlane_proofs` | `TypeCorrect`, `DomainsVouchedFor`: `DomainIsVouchedFor`, `CreatedDomainsStay`: `CreatedDomainStays`, `InvitesTell`: `InviteTellsItsUser`, `ScoresAudited`: `ScoreIsAudited`, `BothConsolesAgree`: `ConsolesAgree`, `OneUser`: `HandlerActsForOneUser`, `TokensFollow`: `TokensFollowCredentials`, `MappingsExist`: `MappedUserExists`; the action properties `SyncsMirror`: `SyncMirrorsGoogle` and `RolesExact`: `RolesAreExact`; `MfaSecretKept`: `UserSession`'s `MfaHasSecret` if `Calls` has at most one element |
| `Backend_proofs` | `TypeCorrect`, `LinksAreFew`: `LinksDoNotPileUp`, `CompletedCarriedOut`: `CompletedWasCarriedOut` |
| `Agent_proofs` | `TypeCorrect`, `InOrder`: `QueueInOrder`, `OneDeviceId`: `DeviceIdStable`; if `MaxSize = 1`, `Bounded`: `QueueBounded`, `OldestOnly`: `OnlyOldestGivenUp`, and `Implements`: `DeliversOrGivesUpOldest`, the refinement of `EventDelivery` |
| `Services_proofs` | `TypeCorrect`, `VerdictsTrue`: `VerdictsAreTrue`, `AdmittedFew`: `AdmittedBounded`, `RedirectsFew`: `RedirectsBounded`, `DuplicatesFew`: `DuplicatesBounded`, `AnsweredCarriedOut`: `AnsweredWasCarriedOut`, `TokenUsesFew`: `TokenUsesBounded`; `FailuresFew`: `FailuresBounded` if `Calls` has two elements |

`Services_proofs` extends two modules of lemmas: `ServicesGuards_proofs` (the login
lock, the rate limits, the audit trail, the break-glass accounts) and
`ServicesRecords_proofs` (discovery, invites and requests, settings, the tenant's
accounts, personal data). A composite's proof module takes its components one after
the other, each with its inductive invariant, and ends in the invariant of the
composite: the invariant of the active component, and that the others rest.

### Assumptions

The modules that declare constants state assumptions of them: bounds are numbers
(positive where a first value must exist), switches are Booleans, `Nobody` and
`System` are no user ids, `None` is no slug, domain or address, the seed is of their
kinds, places in a listing of Google are positive numbers, the calls of `Services`
and the operators of `Backend` are finitely many. TLC evaluates them on every run.
Six theorems have a premise of their own:

- `LastAdminKept`: calls of update and remove do not overlap. Without it `admins_overlap`
  finds the violation.
- `MfaSecretKept`: requests of a user do not overlap. Without it `session_mfa_overlap`
  finds the violation.
- `Bounded`, `OldestOnly`, `Implements`: no queued line is beyond the 64 KiB of a
  default scanner. Without it `queue_long_bound` finds the violation; the code writes
  such lines.
- `FailuresFew`: two logins overlap. The property's bound, `MaxAttempts * (MaxAttempts +
  3) \div 2`, is what two can reach together; with three TLC finds more.

### The arguments

Each proof has one lemma or step per action. Control plane:

- `ReferentialIntegrity` is inductive together with `TypeOK`: a step either deletes
  rows with all that names them, or writes a reference under its foreign key. So is
  `MappedUserExists`, and `InviteTellsItsUser`, because an acceptance writes an id
  larger than any before.
- `DecisionsAreAudited` is not inductive: a call at its last step closes a row on
  the strength of an audit event written before. `DecisionInv` adds that a call about
  to close a row has its audit event, and that it works on the pair of its row, which
  rests on rows keeping their pair until they are deleted and ids not being used
  again. `MirrorInv` adds that a call past Google, and what a sync has listed, are
  memberships Google has had.
- `SyncIsExact`: but for what was touched, a group sync's listings are what Google has,
  and what it has upserted is in the mirror under the group rows it saved
  (`SyncsExact`). Those rows stay because a mirrored membership keeps its group
  (`ReferentialIntegrity`), and what a listing names is in a group that Google had
  (`GoogleHasGroups`).
- `AdminInv` adds that a call past its count leaves another active administrator,
  or its target as one: between the count and the write only sign-ins and new users
  write rows, and those take no administrator away (a sign-in in flight holds no
  status DISABLED).
- `SyncMirrorsGoogle` rests on what a sync knows in between (`IdentityKnows`): but for
  touched accounts its listing is Google's, all listed accounts are to do before the
  upserts, and those no longer to do are in the rows as listed. That the next account
  exists without `Accounts` being finite is the well-foundedness of the naturals, from
  the library. The unique index of addresses is part of `TypeOK` and needs, when
  addresses are not given again, that every address in Google is in `used`.
- `RolesAreExact` has the same form, but the three listings go on at the same time: what
  a listing has passed (`RolesPassed`) is in its answer, except for what changed since
  the sync began, and a role that a listing has not passed yet is not known.
- `ScoreIsAudited` and `ConsolesAgree` are inductive with one addition: a membership
  names the row that its account has now, or none (`DetectionLinkInv`), so that a
  row made again under an address inherits no membership, and no score.
- The domain of a tenant: a sign-in writes back the domain it read several queries
  before. `OnboardVerificationInv` says that this reading is still vouched for and, in
  a tenant created with a domain, still that domain; if it read none, the tenant was
  created with none. It is stable because nobody can have read a tenant that is not
  there (`OnboardAbsentInv`), given domains never change and verified ones only grow
  (`OnboardGrows`). The seed writes its tenant without the unique check;
  `OnboardBootInv` has that no request runs then.
- `TokensFollowCredentials`: a token, issued or about to be issued by a request in
  flight, has at most the row's version, and if it has that version it has the
  row's password and era (`SessionFollows`). A change raises the version past all of
  them.
- `HandlerActsForOneUser`: a request at the strategy carries a user that passed every
  check in one reading, or none and no token, with which the strategy refuses it; the
  guard of the MFA controller, which reads again and asks for less, never sees a guarded
  route (`GuardsRequestInv`).

Backend:

- `LinksDoNotPileUp`: a call that has spent the open links keeps room for the one it
  will issue. Open links and issuing calls together are no more than the operators
  (`TenantRoom`, a cardinality).
- `CompletedWasCarriedOut`: a run has carried out the steps behind it
  (`DeletionJobsDid`), and no request of the user, exports included, says COMPLETED
  before those are done.

Agent:

- `QueueInOrder` is not inductive: the next event is appended to whatever a drain has
  left. `Spaced` says of the file and of the batch's rest that events increase, and
  that from each line to the end there are no more lines than events were made since;
  lines that do not parse take a place and name no event. The counting half is what
  makes a drop a drop of the oldest.
- `OnlyOldestGivenUp`: what the agent held and no longer will, once the file is
  truncated (`Dropped`), is older than `MaxQueue` newer events and than all it still
  holds (`Kept`), and neither file nor rest is longer than `MaxQueue` (`Lengths`).
- `Implements`: `KeptInv` lets each step of `AgentQueue` map to one step of
  `EventDelivery` under the mapping of section 3, or to a stutter: a lemma per action.
- `DeviceIdStable`: until an id is saved there is one process, it has registered
  nothing and it is at the load (`LifeOneFirst`); from then on every process past the
  load has the saved id, and none is about to save another (`LifeOneId`).

Services:

- `FailuresBounded`: a wrong password that a login in flight has not recorded is in
  nobody's count (`LockoutCountInv`). From the account's count, and from the count
  each login has read, only so many wrong passwords can be recorded before the lock;
  what two logins can do by overwriting each other grows with the square of the
  larger, and a recorded one takes two from that weight (`LockoutTriesWeighed`).
- `AdmittedBounded`: with a sorted set, all that was let through in an open window is
  in the set, and no more wait to be let through than found it below the limit
  (`LimiterSorted`). With a counter, what began since its key was made is counted by
  the key, and a stretch of a window meets two keys at most (`LimiterKeyed`).
- `VerdictsAreTrue`: an edited row is no longer one of those written (`TrailMarked`);
  without overlap and edits each row carries the hash of the row before it
  (`TrailLinked`), which needs that a writer in flight is alone and has read the
  newest hash (`TrailAlone`). That the k-th row of a valid listing has all rows before
  it as its hash's prefixes is an induction on k, made as a least counterexample.
- `TokenUsesBounded`: uses of a token and calls that hold it are no more than calls,
  because a token not marked used was signed by nobody (`ReviewInv`).
- `RedirectsBounded`: the redirects so far and those still ahead (`ConsoleAhead`) are
  at most two. `VerifyPageWorks` of `DemoServers`: an enabled second factor has a
  secret, and a tab was sent to the verify page only when there was one.
- `DuplicatesBounded`: rows of an address and scans that found none of it are no more
  than scans (`ScannerRowsFit`); notices: each current one has a publication of its
  own that has not seen it (`PersonalOwned`, an injection).
- `AnsweredWasCarriedOut`: of pages, a change that is owed leaves one load in flight,
  which began after it, or is shown (`TenantOwes`, `InsightOwes`); of settings, a save
  that read the row merges into what is due (`SettingSaved`), and a name has a live
  key or a call that is between revoking and creating (`SettingKeyed`); of
  accounts, the row's secret is known, lost with an answer, or in an answer on its way
  (`AccountTraced`); of requests, a call about to write APPROVED has applied it
  (`RequestsFits`).

### Found while proving

`VerdictsAreTrue` and `AdmittedBounded` could not be stated over sums of functions
with an induction the provers can use, so `RateLimits` counts what it let through as
the cardinality of a union. Two `CASE` expressions, in `InsightPages` and
`DemoServers`, had guards that overlap, with which TLA+ may choose either branch; TLC
takes the first. They are disjoint now. Every other invariant held of the modules as
they were.

### Only model-checked

`IdentitiesGetSynced`, `ErasureComes` and `CollectorComesBack`: liveness under fairness
needs ENABLED, which the provers do not have. `UpdatesSettle` needs no fairness but an
induction on a measure under temporal operators, whose theorem would take a formula
as a parameter. The violated properties have the counterexamples of section 3.

## 5. Abstractions

Titles, notes, names and metadata; the wording of errors; encryption; expiry of
tokens (an expired token only refuses more); roles of group members. Two tenants
share no row, and every query is by tenant, so one tenant is modelled except
where a module says otherwise. Passwords and codes are right or wrong. A hash is
injective. A copy on a page is a version number. `agent.yaml` is saved whole: a
crash in `saveDeviceID` that cuts it short is left out.

### Facts of the code that no run states

Met while modelling, contradicted by no document of the repository:

- Control plane: a sync deletes a membership granted after it listed Google, until
  the next one; `reject` looks at no status; with `Reuse = TRUE` TLC refutes
  `IdentitiesGetSynced`, since the row whose address is needed is removed after the
  upserts; an identity whose new address belongs to no user keeps its old mapping
  (`integrations.service.ts:182`); a retried approval gets 409 from Google
  (`:518`); `verify` enables MFA for a secret that a second `setup` wrote
  (`mfa.service.ts:78`); a crash between the tenant and its user in the seed
  leaves a tenant nobody can sign in to (`tenants.service.ts:115`).
- Agent: a queue is drained only at a start (`main.go:67`); "will retry later"
  (`main.go:73`) never retries; `update_check_interval: 0` cannot switch updates off
  (`config.go:128`); under systemd the rename of an update always fails; on Windows a
  failed second rename leaves no binary; two processes of a re-exec may write one
  queue file (`updater.go:177`).
- Backend: a link may be used by two overlapping visits, and completing revives a
  SUSPENDED tenant (`tenants.service.ts:180`); a task with status `error` is never
  taken up again; a legal hold placed later is not asked for again; PROCESSING stays
  after a crash; `LoginSecurityService` lets a stale failing login take a lock away;
  operator logs of a tenant fail verification because their chain is global;
  `RateLimitMiddleware` counts what it refuses, fails open, and the gateway's counter
  fails closed; rejecting may be written over an executed approval.
- Accounts: a set-up of MFA replaces a secret in use, and if its answer is lost the
  user is locked out; an enabling over a disabling leaves a second factor that no
  code satisfies, not even to disable it; the activation of a tenant after its first
  password is never repeated (`auth.service.backup.ts:522`). In `auth.service.ts`
  `enableMfa` decrypts twice, so MFA can never be enabled there.
- Personal data: two overlapping publications leave two active notices; rectifying
  after an erasure puts the name back; answered archives are never removed.
- Settings: the page saves nothing, because it asks PUT where the gateway serves PATCH
  (`settings.controller.ts:71`) and a path it does not have; overlapping saves lose
  a field; rotating from a stale list makes another live key; the audit row of a
  setting fails once an old value exists.
- Pages: approving and rejecting on the governance page always fails
  (`approverId`); contain and investigate leave a threat Active; the dashboard's
  total of identities is always 0; a failed read of threats shows "No active threats";
  `control-plane-ui` can neither create a tenant nor save its settings (DTO); an
  overlapping load may leave an older copy; a wrong current password signs the console
  out.
- Discovery: members that leave a source stay "active"; a failed lookup of admins
  writes `isAdmin` false.
- Stand-alone servers: the secret that a set-up page shows is never stored, and no
  server compares a code with one; `handle_invite_accept` does not exist
  (`real-control-plane-server.py:91`).

## 6. Not modelled

- The collectors and discovery of the agent (parsing per platform), its logger, and
  settings other than the device id.
- Providers that are stubs, and encryption. Configuration, logging, event-bus and
  type packages; `shared-auth`'s `AuditLoggerService`, which sends nothing.
- The worker queue (`services/worker-queue`): it fills a queue that no worker in the
  repository reads. Mail, health, `itdr` and `ispm` of the backend: reads, single
  inserts and metrics.
- Of the consoles, layout and pages that only list, the MFA pages of
  `control-plane-ui`. Of the gateway, routes that forward one read. Of Settings, the
  toggle of an integration and the audit listing.
- Deployment scripts and `test_mfa_server.py`, a page of fixed answers.

## 7. Plan

Done: everything in section 2, its safety proved. What would add most next:

1. An abstract specification of group access (a membership is granted or revoked, and
   decisions follow) that `AccessGovernance` implements, and the step simulation.
2. `FailuresBounded` with the bound for any number of overlapping logins.
3. The queue file under the two processes of a re-exec; the listing of Google's groups
   and members in two steps.
4. The cache of secrets in `legacy/common/secrets`, where a lookup in flight puts an old
   value back after an update took it out; the legacy `itdr` service, whose
   acknowledgements overwrite each other's metadata.
