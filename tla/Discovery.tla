----------------------------- MODULE Discovery -----------------------------
(***************************************************************************)
(* The scans of the discovery service: triggerScan fetches the members of a *)
(* source (Google, Microsoft, Slack, GitHub: the four are alike) and writes *)
(* a row for each, looked up first and then updated or created, as is the   *)
(* row of the connector.  No unique index stands behind the lookups, and    *)
(* scans overlap.                                                          *)
(***************************************************************************)
EXTENDS Naturals, Sequences, FiniteSets

CONSTANTS
    Scans,        \* calls of triggerScan that may run at once
    Members,      \* addresses of the source's members
    MaxChanges    \* changes at the source

VARIABLES
    source,       \* which source, and its members with what it says of them
    apps,         \* the rows of discoveredApp: its own, those seen in OAuth logs
    rows,         \* per address, the rows of discoveredUser
    connectors,   \* the rows of discoveryConnector: their status
    scan,         \* the scans in flight
    changes

vars == <<source, apps, rows, connectors, scan, changes>>

Kinds    == {"google", "microsoft", "slack", "github"}
Says     == {"user", "admin", "inactive"}   \* permissions, isAdmin and status
Away     == "away"
Statuses == {"active", "error"}
NoMember == <<Away, Away>>
Idle     == [pc |-> "idle", left |-> {}, now |-> NoMember, found |-> 0, status |-> "active"]

Init ==
    /\ source \in [kind : Kinds, of : [Members -> Says \cup {Away}]]
    /\ apps = {}
    /\ rows = [m \in Members |-> <<>>]
    /\ connectors = <<>>
    /\ scan = [s \in Scans |-> Idle]
    /\ changes = 0

Goto(s, pc) == scan' = [scan EXCEPT ![s].pc = pc]
Ends(s)     == scan' = [scan EXCEPT ![s] = Idle]

\* The catch of scanGoogle and its likes: the connector is to say "error".
Caught(s) == scan' = [scan EXCEPT ![s] = [Idle EXCEPT !.pc = "connector", !.status = "error"]]

SourceChanges ==
    /\ changes < MaxChanges
    /\ changes' = changes + 1
    /\ \E m \in Members, says \in Says \cup {Away} : source' = [source EXCEPT !.of[m] = says]
    /\ UNCHANGED <<apps, rows, connectors, scan>>

\* The answer of a connector's scan().  Slack's leaves out members that were
\* deleted.  Microsoft's and GitHub's ask for the administrators separately and
\* go on without: the members are then all users.
Listed(m, adminsKnown) ==
    CASE source.kind = "slack" /\ source.of[m] = "inactive" -> Away
      [] source.of[m] = "admin" /\ ~adminsKnown             -> "user"
      [] OTHER                                              -> source.of[m]

Fetch(s) ==
    /\ scan[s].pc = "idle"
    /\ \E adminsKnown \in {TRUE} \cup IF source.kind \in {"microsoft", "github"} THEN {FALSE} ELSE {} :
       LET present == {m \in Members : Listed(m, adminsKnown) # Away} IN
       /\ present # {}   \* else nothing is written, not even the connector
       /\ scan' = [scan EXCEPT ![s] =
              [Idle EXCEPT !.pc = "app", !.left = {<<m, Listed(m, adminsKnown)>> : m \in present}]]
    /\ UNCHANGED <<source, apps, rows, connectors, changes>>

FetchFails(s) ==
    /\ scan[s].pc = "idle"
    /\ Caught(s)
    /\ UNCHANGED <<source, apps, rows, connectors, changes>>

\* upsert on the unique (tenantId, name)
UpsertApp(s) ==
    /\ scan[s].pc = "app"
    /\ apps' = apps \cup {"own"}
    /\ Goto(s, "find")
    /\ UNCHANGED <<source, rows, connectors, changes>>

FoundWhenActive(m) == {i \in DOMAIN rows[m] : rows[m][i] # "inactive"}   \* mutant: where status is active

Found(m) == DOMAIN rows[m]

FindUser(s) ==
    /\ scan[s].pc = "find"
    /\ \E member \in scan[s].left :
       \E i \in IF Found(member[1]) = {} THEN {0} ELSE Found(member[1]) :
           scan' = [scan EXCEPT ![s].pc = "write", ![s].now = member, ![s].found = i]
    /\ UNCHANGED <<source, apps, rows, connectors, changes>>

\* The row that was found is updated, whatever it says by now.
WriteUser(s) ==
    /\ scan[s].pc = "write"
    /\ LET m == scan[s].now[1]  says == scan[s].now[2]  i == scan[s].found IN
       rows' = [rows EXCEPT ![m] = IF i = 0 THEN Append(@, says) ELSE [@ EXCEPT ![i] = says]]
    /\ LET left == scan[s].left \ {scan[s].now} IN
       scan' = [scan EXCEPT ![s] = [@ EXCEPT
                   !.pc = IF left # {} THEN "find" ELSE IF source.kind = "google" THEN "oauth"
                          ELSE "connector",
                   !.left = left, !.now = NoMember, !.found = 0]]
    /\ UNCHANGED <<source, apps, connectors, changes>>

\* discoverOAuthApps and an upsert each; what fails is left out ("optional").
UpsertOAuthApps(s) ==
    /\ scan[s].pc = "oauth"
    /\ apps' \in {apps, apps \cup {"shadow"}}
    /\ Goto(s, "connector")
    /\ UNCHANGED <<source, rows, connectors, changes>>

FindConnector(s) ==
    /\ scan[s].pc = "connector"
    /\ \E i \in IF connectors = <<>> THEN {0} ELSE DOMAIN connectors :
           scan' = [scan EXCEPT ![s].pc = "status", ![s].found = i]
    /\ UNCHANGED <<source, apps, rows, connectors, changes>>

WriteConnector(s) ==
    /\ scan[s].pc = "status"
    /\ LET i == scan[s].found  status == scan[s].status IN
       connectors' = IF i = 0 THEN Append(connectors, status) ELSE [connectors EXCEPT ![i] = status]
    /\ Ends(s)
    /\ UNCHANGED <<source, apps, rows, changes>>

\* The database refuses a statement; within the catch, triggerScan throws.
WriteFails(s) ==
    /\ scan[s].pc \notin {"idle", "oauth"}
    /\ IF scan[s].status = "error" THEN Ends(s) ELSE Caught(s)
    /\ UNCHANGED <<source, apps, rows, connectors, changes>>

Next ==
    \/ \E s \in Scans :
           \/ Fetch(s) \/ FetchFails(s) \/ UpsertApp(s) \/ FindUser(s) \/ WriteUser(s)
           \/ UpsertOAuthApps(s) \/ FindConnector(s) \/ WriteConnector(s) \/ WriteFails(s)
    \/ SourceChanges

Spec == Init /\ [][Next]_vars

(***************************************************************************)
(* Properties                                                              *)
(***************************************************************************)

\* The shape of the rows and of the scans.
TypeOK ==
    /\ source \in [kind : Kinds, of : [Members -> Says \cup {Away}]]
    /\ apps \subseteq {"own", "shadow"}
    /\ rows \in [Members -> Seq(Says)]
    /\ connectors \in Seq(Statuses)
    /\ \A s \in Scans :
           /\ scan[s].pc \in {"idle", "app", "find", "write", "oauth", "connector", "status"}
           /\ scan[s].left \subseteq Members \X Says
           /\ scan[s].found \in Nat
           /\ scan[s].status \in Statuses
    /\ changes \in 0 .. MaxChanges

\* However often the sources are scanned, an address has no more rows than scans
\* can overlap, and so has the connector: a lookup finds the row of a scan that
\* is over, whatever that one wrote into it.
DuplicatesBounded ==
    /\ \A m \in Members : Len(rows[m]) <= Cardinality(Scans)
    /\ Len(connectors) <= Cardinality(Scans)
=============================================================================
