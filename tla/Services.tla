------------------------------ MODULE Services -------------------------------
(***************************************************************************)
(* The remaining services and the web consoles: components that share no   *)
(* row as far as they are modelled.  A behaviour exercises one of them,    *)
(* `active`; the variables of the others are Off.                          *)
(***************************************************************************)
EXTENDS Naturals, Sequences, FiniteSets

CONSTANTS
    Calls,                                  \* calls, scans or tabs at once
    Tenants, Members, Operators, Tokens,
    MaxAttempts, MaxWrong,                  \* of LoginLockout
    MaxRows, MaxNow, MaxEdits,              \* of AuditTrail
    MaxRequests, Window, Slowest, MaxClock, \* of RateLimits
    MaxMoves, MaxChanges, MaxUsers, MaxInvites, MaxRev, MaxKeys, MaxSaves, MaxSecrets,
    MaxNotices, MaxStarts                   \* of the others

ASSUME CallsAssumption   == IsFiniteSet(Calls) /\ Calls # {}
ASSUME LockoutAssumption == MaxAttempts \in Nat \ {0} /\ MaxWrong \in Nat
ASSUME TrailAssumption   == MaxRows \in Nat /\ MaxNow \in Nat /\ MaxEdits \in Nat
ASSUME LimiterAssumption ==
    MaxRequests \in Nat /\ Window \in Nat \ {0} /\ Slowest \in Nat /\ MaxClock \in Nat
ASSUME BoundsAssumption  ==
    /\ MaxMoves \in Nat /\ MaxChanges \in Nat /\ MaxUsers \in Nat /\ MaxInvites \in Nat
    /\ MaxSecrets \in Nat /\ MaxStarts \in Nat
    /\ MaxRev \in Nat \ {0} /\ MaxKeys \in Nat \ {0} /\ MaxSaves \in Nat \ {0}
    /\ MaxNotices \in Nat \ {0}

VARIABLES
    active,
    code, account, login, wrong, tries,
    perTenant, log, writer, now, written, overlapped, edits,
    limit, clock, hits, counter, check, passed,
    console, page, stage, flag, session, asked, leaving, moves, hops,
    source, apps, rows, connectors, scan, changes,
    user, users, invites, request, call, admitted, applied,
    operators, review, token, act, signed,
    tab, tenant, shown, loading, modal, result, step, busy, saving, handler, owed,
    screen, rank, versions, kept, waiting, failed, pressed, worker, debt,
    pane, row, keys, query, form, listed, fetching, storing, saves, due, ended,
    desk, entry, owner, link, cookie, dial, known, secrets, lost, raced, halfway,
    topic, notices, current, person, accepted, consent, filed, plea, left, broken,
    host, operator, tabs, unheard, starts

Lockout  == INSTANCE LoginLockout WITH Logins <- Calls
Trail    == INSTANCE AuditTrail WITH Writers <- Calls
Limiter  == INSTANCE RateLimits WITH
                MaxNow <- MaxClock, now <- clock, call <- check, admitted <- passed
Console  == INSTANCE WebConsole
Scanner  == INSTANCE Discovery WITH Scans <- Calls
Requests == INSTANCE LegacyRequests WITH Callers <- Calls
Review   == INSTANCE BreakGlass WITH Callers <- Calls, active <- operators
Tenant   == INSTANCE TenantPages WITH page <- tab, server <- tenant, call <- handler
Insight  == INSTANCE InsightPages WITH
                page <- screen, role <- rank, data <- versions, got <- kept,
                loading <- waiting, error <- failed, busy <- pressed, call <- worker,
                owed <- debt
Setting  == INSTANCE Settings WITH
                tab <- pane, call <- query, shown <- listed, loading <- fetching,
                saving <- storing, owed <- due
Account  == INSTANCE TenantAccount WITH
                row <- entry, tenant <- owner, session <- cookie, call <- dial
Personal == INSTANCE PersonalData WITH active <- current, rows <- filed, call <- plea
Demo     == INSTANCE DemoServers WITH Tabs <- Calls, server <- host

lockoutVars  == <<code, account, login, wrong, tries>>
trailVars    == <<perTenant, log, writer, now, written, overlapped, edits>>
limiterVars  == <<limit, clock, hits, counter, check, passed>>
consoleVars  == <<console, page, stage, flag, session, asked, leaving, moves, hops>>
scannerVars  == <<source, apps, rows, connectors, scan, changes>>
requestsVars == <<user, users, invites, request, call, admitted, applied>>
reviewVars   == <<operators, review, token, act, signed>>
tenantVars   == <<tab, tenant, shown, loading, modal, result, step, busy, saving, handler, owed>>
insightVars  == <<screen, rank, versions, kept, waiting, failed, pressed, worker, debt>>
settingVars  == <<pane, row, keys, query, form, listed, fetching, storing, saves, due, ended>>
accountVars  == <<desk, entry, owner, link, cookie, dial, known, secrets, lost, raced, halfway>>
personalVars == <<topic, notices, current, person, accepted, consent, filed, plea, left, broken>>
demoVars     == <<host, operator, tabs, unheard, starts>>

Off == "off"

LockoutOff == code = Off /\ account = Off /\ login = Off /\ wrong = Off /\ tries = Off
TrailOff ==
    /\ perTenant = Off /\ log = Off /\ writer = Off /\ now = Off /\ written = Off
    /\ overlapped = Off /\ edits = Off
LimiterOff ==
    limit = Off /\ clock = Off /\ hits = Off /\ counter = Off /\ check = Off /\ passed = Off
ConsoleOff ==
    /\ console = Off /\ page = Off /\ stage = Off /\ flag = Off /\ session = Off
    /\ asked = Off /\ leaving = Off /\ moves = Off /\ hops = Off
ScannerOff ==
    source = Off /\ apps = Off /\ rows = Off /\ connectors = Off /\ scan = Off /\ changes = Off
RequestsOff ==
    /\ user = Off /\ users = Off /\ invites = Off /\ request = Off /\ call = Off
    /\ admitted = Off /\ applied = Off
ReviewOff == operators = Off /\ review = Off /\ token = Off /\ act = Off /\ signed = Off
TenantOff ==
    /\ tab = Off /\ tenant = Off /\ shown = Off /\ loading = Off /\ modal = Off /\ result = Off
    /\ step = Off /\ busy = Off /\ saving = Off /\ handler = Off /\ owed = Off
InsightOff ==
    /\ screen = Off /\ rank = Off /\ versions = Off /\ kept = Off /\ waiting = Off
    /\ failed = Off /\ pressed = Off /\ worker = Off /\ debt = Off
SettingOff ==
    /\ pane = Off /\ row = Off /\ keys = Off /\ query = Off /\ form = Off /\ listed = Off
    /\ fetching = Off /\ storing = Off /\ saves = Off /\ due = Off /\ ended = Off
AccountOff ==
    /\ desk = Off /\ entry = Off /\ owner = Off /\ link = Off /\ cookie = Off /\ dial = Off
    /\ known = Off /\ secrets = Off /\ lost = Off /\ raced = Off /\ halfway = Off
PersonalOff ==
    /\ topic = Off /\ notices = Off /\ current = Off /\ person = Off /\ accepted = Off
    /\ consent = Off /\ filed = Off /\ plea = Off /\ left = Off /\ broken = Off
DemoOff ==
    host = Off /\ operator = Off /\ tabs = Off /\ unheard = Off /\ starts = Off

Init ==
    /\ active \in {"lockout", "trail", "limiter", "console", "scanner", "requests",
                  "review", "tenant", "insight", "setting", "account", "personal",
                  "demo"}
    /\ IF active = "lockout"  THEN Lockout!Init  ELSE LockoutOff
    /\ IF active = "trail"    THEN Trail!Init    ELSE TrailOff
    /\ IF active = "limiter"  THEN Limiter!Init  ELSE LimiterOff
    /\ IF active = "console"  THEN Console!Init  ELSE ConsoleOff
    /\ IF active = "scanner"  THEN Scanner!Init  ELSE ScannerOff
    /\ IF active = "requests" THEN Requests!Init ELSE RequestsOff
    /\ IF active = "review"   THEN Review!Init   ELSE ReviewOff
    /\ IF active = "tenant"   THEN Tenant!Init   ELSE TenantOff
    /\ IF active = "insight"  THEN Insight!Init  ELSE InsightOff
    /\ IF active = "setting"  THEN Setting!Init  ELSE SettingOff
    /\ IF active = "account"  THEN Account!Init  ELSE AccountOff
    /\ IF active = "personal" THEN Personal!Init ELSE PersonalOff
    /\ IF active = "demo"     THEN Demo!Init     ELSE DemoOff

Next ==
    /\ UNCHANGED active
    /\ IF active = "lockout"  THEN Lockout!Next  ELSE UNCHANGED lockoutVars
    /\ IF active = "trail"    THEN Trail!Next    ELSE UNCHANGED trailVars
    /\ IF active = "limiter"  THEN Limiter!Next  ELSE UNCHANGED limiterVars
    /\ IF active = "console"  THEN Console!Next  ELSE UNCHANGED consoleVars
    /\ IF active = "scanner"  THEN Scanner!Next  ELSE UNCHANGED scannerVars
    /\ IF active = "requests" THEN Requests!Next ELSE UNCHANGED requestsVars
    /\ IF active = "review"   THEN Review!Next   ELSE UNCHANGED reviewVars
    /\ IF active = "tenant"   THEN Tenant!Next   ELSE UNCHANGED tenantVars
    /\ IF active = "insight"  THEN Insight!Next  ELSE UNCHANGED insightVars
    /\ IF active = "setting"  THEN Setting!Next  ELSE UNCHANGED settingVars
    /\ IF active = "account"  THEN Account!Next  ELSE UNCHANGED accountVars
    /\ IF active = "personal" THEN Personal!Next ELSE UNCHANGED personalVars
    /\ IF active = "demo"     THEN Demo!Next     ELSE UNCHANGED demoVars

vars == <<active, lockoutVars, trailVars, limiterVars, consoleVars, scannerVars,
          requestsVars, reviewVars, tenantVars, insightVars, settingVars, accountVars,
          personalVars, demoVars>>

Spec == Init /\ [][Next]_vars

(***************************************************************************)
(* The properties of the components                                        *)
(***************************************************************************)

\* Every component keeps the shape of its state.
TypeOK ==
    /\ active = "lockout"  => Lockout!TypeOK
    /\ active = "trail"    => Trail!TypeOK
    /\ active = "limiter"  => Limiter!TypeOK
    /\ active = "console"  => Console!TypeOK
    /\ active = "scanner"  => Scanner!TypeOK
    /\ active = "requests" => Requests!TypeOK
    /\ active = "review"   => Review!TypeOK
    /\ active = "tenant"   => Tenant!TypeOK
    /\ active = "insight"  => Insight!TypeOK
    /\ active = "setting"  => Setting!TypeOK
    /\ active = "account"  => Account!TypeOK
    /\ active = "personal" => Personal!TypeOK
    /\ active = "demo"     => Demo!TypeOK

\* LoginLockout: an account takes a bounded number of wrong passwords between two
\* resets of its counter, whichever logins overlap.
FailuresBounded == active = "lockout" => Lockout!FailuresBounded

\* AuditTrail: the verdict of verifyIntegrity on a log is right, but for rows that
\* overlapping writers chained to the same row.
VerdictsAreTrue == active = "trail" => Trail!VerdictsAreTrue

\* RateLimits: a limit lets through what it says, and as many more as checks can
\* overlap.
AdmittedBounded == active = "limiter" => Limiter!AdmittedBounded

\* WebConsole: the pages do not keep redirecting each other.  DemoServers: the page
\* a login leads to can let the operator through.
RedirectsBounded ==
    /\ active = "console" => Console!RedirectsBounded
    /\ active = "demo"    => Demo!VerifyPageWorks

\* Discovery: an address has no more rows than scans can overlap.  PersonalData: no
\* more notices are active than publications can overlap.
DuplicatesBounded ==
    /\ active = "scanner"  => Scanner!DuplicatesBounded
    /\ active = "personal" => Personal!ActiveNoticesBounded

\* LegacyRequests: an invite that says ACCEPTED and a request that says APPROVED
\* were carried out.  TenantPages and InsightPages: a change that was answered is on
\* the page once the load that follows it has come.  Settings: what a save set stays, and
\* a rotation leaves a live key.  TenantAccount: a second factor that is on can be
\* used, and a first password activates the tenant.  PersonalData: an export is whole,
\* and one that failed leaves nothing behind.
AnsweredWasCarriedOut ==
    /\ active = "requests" => Requests!AnsweredWasCarriedOut
    /\ active = "tenant"   => Tenant!ShowsWhatItDid
    /\ active = "insight"  => Insight!ShowsWhatItDid
    /\ active = "setting"  => Setting!SavedIsKept /\ Setting!RotationKeepsAKey
    /\ active = "account"  => Account!SecondFactorUsable /\ Account!FirstPasswordActivates
    /\ active = "personal" => Personal!ExportIsWhole /\ Personal!NothingLeftBehind

\* BreakGlass: a token signs its operator in no more often than calls can overlap,
\* and not without being used up.
TokenUsesBounded == active = "review" => Review!TokenUsesBounded
=============================================================================
