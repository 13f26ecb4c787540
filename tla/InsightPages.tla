---------------------------- MODULE InsightPages ----------------------------
(***************************************************************************)
(* The pages of the admin dashboard that show what the services found out  *)
(* about a tenant, the API gateway they ask and the services behind it.    *)
(* A page asks several routes at once and keeps what came of those that    *)
(* were answered; the gateway checks the role of the token, and composes   *)
(* some answers of several services, with zeros for those that failed.     *)
(* The tenant's rows are a sequence of versions; of each only the one row  *)
(* matters that a page has a button for, a threat or a workflow.           *)
(***************************************************************************)
EXTENDS Naturals, Sequences

CONSTANTS
    Calls,        \* handlers of the page in flight at once
    MaxRev        \* versions of the tenant's rows in a behaviour

VARIABLES
    page,
    role,         \* of the session's token, as normalizeTenantRole gives it
    data,         \* versions of the tenant's rows: the row is open or closed
    got,          \* the version the page keeps of each route, 0 for none
    loading,
    error,
    busy,         \* scanning, responding, acting
    call,
    \* history, read by properties only
    owed          \* the change the page owes to show

vars == <<page, role, data, got, loading, error, busy, call, owed>>

(***************************************************************************)
(* The routes of the gateway                                               *)
(***************************************************************************)

\* expandRoleAliases
Roles(alias) ==
    CASE alias = "admin"    -> {"tenant_admin"}
      [] alias = "analyst"  -> {"tenant_admin", "tenant_user"}
      [] alias = "readonly" -> {"tenant_admin", "tenant_user", "viewer"}

To(alias, names) == {[name |-> n, alias |-> alias] : n \in names}

IdentityRoutes ==
    To("analyst", {"identities", "identity", "identitySummary"}) \cup
    To("admin", {"createUser", "updateUserRisk"})
DiscoveryRoutes ==
    To("analyst", {"applications", "appIntelligence"}) \cup To("admin", {"scan"})
RiskRoutes ==
    To("analyst", {"scores", "events", "threats", "trends"}) \cup
    To("admin", {"contain", "investigate", "resolve"})
GovernanceRoutes ==
    To("analyst", {"workflows", "jml"}) \cup
    To("admin", {"createWorkflow", "createJml", "approve", "reject"})
GraphRoutes ==
    To("analyst", {"identityGraph", "toxic", "paths", "creep", "stale", "recommendations"})
PolicyRoutes ==
    To("analyst", {"policies", "violations"}) \cup To("readonly", {"checkPolicy"})
OtherRoutes ==
    To("admin", {"logs", "verify", "notify", "enqueue"}) \cup To("analyst", {"job"})
Summaries == To("analyst", {"summary", "compliance", "posture"})

Routes == IdentityRoutes \cup DiscoveryRoutes \cup RiskRoutes \cup GovernanceRoutes
          \cup GraphRoutes \cup PolicyRoutes \cup OtherRoutes \cup Summaries
Allowed == {r.name : r \in {q \in Routes : role \in Roles(q.alias)}}

\* The services whose failure leaves a zero in an answer: Promise.allSettled.
SummaryOf    == {"identity", "discovery", "risk", "governance"}
ComplianceOf == {"policy", "risk"}
PostureOf    == {"identity", "discovery", "risk"}

\* The graph service answers a query that failed with an empty list.
GraphLists == {"toxic", "paths", "creep", "stale", "recommendations"}

Hushed(n) ==
    CASE n = "summary"    -> SummaryOf
      [] n = "compliance" -> ComplianceOf
      [] n = "posture"    -> PostureOf
      [] n \in GraphLists -> {"graph"}
      [] OTHER -> {}

(***************************************************************************)
(* The pages: the routes one asks, when it shows an error, its buttons     *)
(***************************************************************************)

Page(reads, err, acts) == [reads |-> reads, err |-> err, acts |-> acts]

DashboardPage    == Page({"summary", "threats", "trends", "posture"}, "never", {"scan"})
IdentitiesPage   == Page({"identities"}, "all", {})
ApplicationsPage == Page({"applications"}, "all", {"scan"})
RiskPage         == Page({"events", "scores"}, "all", {})
ItdrPage         == Page({"threats"}, "all", {"contain", "investigate"})
GovernancePage   == Page({"workflows", "jml"}, "workflows", {"approve", "reject"})
GraphPage        == Page({"toxic", "paths"}, "all", {})
CompliancePage   == Page({"compliance", "violations"}, "all", {})
AuditPage        == Page({"logs"}, "all", {})
AnalyticsPage    == Page({"trends", "identitySummary", "appIntelligence"}, "all", {})
PosturePage      == Page({"posture"}, "all", {})

PageOf(p) ==
    CASE p = "dashboard"    -> DashboardPage
      [] p = "identities"   -> IdentitiesPage
      [] p = "applications" -> ApplicationsPage
      [] p = "risk"         -> RiskPage
      [] p = "itdr"         -> ItdrPage
      [] p = "governance"   -> GovernancePage
      [] p = "graph"        -> GraphPage
      [] p = "compliance"   -> CompliancePage
      [] p = "audit"        -> AuditPage
      [] p = "analytics"    -> AnalyticsPage
      [] p = "posture"      -> PosturePage
Pages == {"dashboard", "identities", "applications", "risk", "itdr", "governance",
          "graph", "compliance", "audit", "analytics", "posture"}
Left  == "left"       \* for the login page, or by the user

Reads == IF page = Left THEN {} ELSE PageOf(page).reads
Acts  == IF page = Left THEN {} ELSE PageOf(page).acts

Now    == Len(data)
NoDebt == [route |-> "none", version |-> 0]
Idle   == [pc |-> "idle"]
Loads(c) == call[c].pc = "load"

\* What the page shows once an action of its is done
ShownBy(op) == CASE op = "scan" /\ page = "dashboard" -> "summary"
                 [] op = "scan" /\ page # "dashboard" -> "applications"
                 [] OTHER -> "threats"

Init ==
    /\ page \in Pages /\ role \in {"tenant_admin", "tenant_user", "viewer"}
    /\ data = <<"open">>
    /\ got = [n \in Reads |-> 0]
    /\ loading = TRUE /\ error = FALSE /\ busy = FALSE
    /\ \E c \in Calls : call = [d \in Calls |->
           IF d = c THEN [pc |-> "load", op |-> "load", from |-> 1] ELSE Idle]
    /\ owed = NoDebt

\* The token expires, apiFetch sees a 401 and opens the login page; or the user
\* goes elsewhere.
Leaves ==
    /\ page # Left
    /\ page' = Left /\ got' = [n \in {} |-> 0]
    /\ call' = [c \in Calls |-> Idle]
    /\ loading' = FALSE /\ busy' = FALSE /\ error' = FALSE /\ owed' = NoDebt
    /\ UNCHANGED <<role, data>>

(***************************************************************************)
(* Loading                                                                 *)
(***************************************************************************)

LoadStarts(c, op) ==
    /\ call' = [call EXCEPT ![c] = [pc |-> "load", op |-> op, from |-> Now]]
    /\ loading' = TRUE

\* The Refresh button of the dashboard is never disabled.
Refresh(c) ==
    /\ page = "dashboard" /\ call[c] = Idle
    /\ LoadStarts(c, "load")
    /\ owed' = IF \E d \in Calls : Loads(d) THEN NoDebt ELSE owed
    /\ UNCHANGED <<page, role, data, got, error, busy>>

\* Promise.allSettled: a route was read at some time since the load began, or it
\* threw, 0: RpcException or no answer; one the RolesGuard refuses throws.  What
\* failed leaves what the page had of it.  `zeros`: a service behind the route that
\* owes something had failed and left zeros in its answer.
Came(at, n) == n \in DOMAIN at /\ at[n] # 0

Loaded(c, at, zeros) ==
    /\ zeros => owed # NoDebt /\ Hushed(owed.route) # {}
    /\ got' = [n \in Reads |-> IF Came(at, n) THEN at[n] ELSE got[n]]
    /\ error' = CASE PageOf(page).err = "never" -> FALSE
                  [] PageOf(page).err = "all" -> \A n \in Reads : ~Came(at, n)
                  [] OTHER -> error \/ ~Came(at, PageOf(page).err)
    /\ loading' = FALSE
    /\ busy' = (busy /\ ~(page = "dashboard" /\ call[c].op = "scan"))
    /\ call' = [call EXCEPT ![c] = Idle]
    /\ owed' = IF owed # NoDebt /\ (~Came(at, owed.route) \/ zeros) THEN NoDebt ELSE owed
    /\ UNCHANGED <<page, role, data>>

Settles(c) ==
    /\ Loads(c)
    /\ \E at \in [Reads \cap Allowed -> {0} \cup call[c].from .. Now], zeros \in BOOLEAN :
           Loaded(c, at, zeros)

(***************************************************************************)
(* The buttons                                                             *)
(***************************************************************************)

\* The row is there with a button: a threat is Active, a workflow pending.
Open(n) == got[n] # 0 /\ data[got[n]] = "open"

\* SetupPrompt, which the dashboard always shows because the answer of the
\* identity service has no `total`, and Investigate are not disabled.
Clickable(op) ==
    CASE op = "scan" -> ~busy \/ (page = "dashboard" /\ ~loading)
      [] op = "contain" -> ~busy /\ ~loading /\ Open("threats")
      [] op = "investigate" -> ~loading /\ Open("threats")
      [] OTHER -> ~busy /\ ~loading /\ Open("workflows")

\* handleScan, handleRespond, handleAction
Send(c, op) ==
    /\ call[c] = Idle /\ op \in Acts /\ Clickable(op)
    /\ call' = [call EXCEPT ![c] = [pc |-> "sent", op |-> op]]
    /\ busy' = TRUE
    /\ UNCHANGED <<page, role, data, got, loading, error, owed>>

\* approve and reject say who decided, or WorkflowHistory refuses the row; the
\* page does not.
Complete(op) == op \notin {"approve", "reject"}

\* respondToThreat: anything but resolve opens the event again.
Effect(op, row) ==
    CASE op \in {"resolve", "approve", "reject"} -> "closed"
      [] op \in {"contain", "investigate"} -> "open"
      [] OTHER -> row

Serve(c) ==
    /\ call[c].pc = "sent" /\ call[c].op \in Allowed /\ Complete(call[c].op)
    /\ Now < MaxRev
    /\ data' = Append(data, Effect(call[c].op, data[Now]))
    /\ call' = [call EXCEPT ![c] = [pc |-> "done", op |-> @.op, version |-> Now + 1]]
    /\ UNCHANGED <<page, role, got, loading, error, busy, owed>>

\* Refused, or not answered though it may have been carried out.
Fails(c) ==
    /\ call[c].pc \in {"sent", "done"}
    /\ call' = [call EXCEPT ![c] = Idle]
    /\ busy' = FALSE
    /\ UNCHANGED <<page, role, data, got, loading, error, owed>>

\* Only the dashboard waits for the load before it lets its button go.
Done(c) ==
    LET op == call[c].op IN
    /\ call[c].pc = "done"
    /\ LoadStarts(c, op)
    /\ busy' = (page = "dashboard" /\ busy)
    /\ owed' = IF \E d \in Calls : Loads(d) THEN NoDebt
               ELSE [route |-> ShownBy(op), version |-> call[c].version]
    /\ UNCHANGED <<page, role, data, got, error>>

\* Scans, other users of the API, the services themselves.
OthersChange ==
    /\ Now < MaxRev
    /\ \E op \in {"scan", "contain", "resolve"} : data' = Append(data, Effect(op, data[Now]))
    /\ UNCHANGED <<page, role, got, loading, error, busy, call, owed>>

CallStep(c) ==
    \/ Refresh(c) \/ Settles(c) \/ \E op \in Acts : Send(c, op)
    \/ Serve(c) \/ Fails(c) \/ Done(c)

Next == Leaves \/ OthersChange \/ \E c \in Calls : CallStep(c)

Spec == Init /\ [][Next]_vars

(***************************************************************************)
(* Properties                                                              *)
(***************************************************************************)

\* The shape of the state; a page that waits for nothing can be used.
TypeOK ==
    /\ page \in Pages \cup {Left} /\ role \in Roles("readonly")
    /\ data \in Seq({"open", "closed"}) /\ Now \in 1 .. MaxRev
    /\ got \in [Reads -> 0 .. Now]
    /\ loading \in BOOLEAN /\ error \in BOOLEAN /\ busy \in BOOLEAN
    /\ \A c \in Calls : call[c].pc \in {"idle", "load", "sent", "done"}
    /\ (\A c \in Calls : call[c] = Idle) => ~busy /\ ~loading
    /\ owed.version \in 0 .. MaxRev

\* What a button of the page was told is done is on the page once the load that
\* follows has come, unless that route failed or another load was on its way.
ShowsWhatItDid ==
    (\A c \in Calls : call[c] = Idle) /\ owed # NoDebt => got[owed.route] >= owed.version
=============================================================================
