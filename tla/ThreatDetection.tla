--------------------------- MODULE ThreatDetection ---------------------------
(***************************************************************************)
(* ITDR's detection and ISPM's snapshot of a connected Google domain: the  *)
(* loop that audits signals and stores a risk score per identity, over     *)
(* tables that syncs change and delete from while it runs.                 *)
(***************************************************************************)
EXTENDS Naturals, FiniteSets

CONSTANTS
    People,       \* Google accounts
    Teams,        \* Google groups
    Detections,   \* detections that may run at once
    MaxIds,       \* how often the row of an account is created
    MaxChanges    \* rows that syncs change after the first

VARIABLES
    row,          \* external_identities: the row of each account
    link,         \* external_group_memberships of each account and group
    ids,          \* how often the row of each account was created
    changes,      \* rows changed so far
    detection,    \* detections in flight
    signalled     \* audit_events of the detections: signal and row

vars == <<row, link, ids, changes, detection, signalled>>

Signals == {"inactive", "privilege", "multiple"}
Points  == [s \in Signals |-> CASE s = "inactive"  -> 10
                                [] s = "privilege" -> 20
                                [] s = "multiple"  -> 15]

\* Points add up to a different score for each set of signals.
Score(signals) ==
    LET points(s) == IF s \in signals THEN Points[s] ELSE 0 IN
    points("inactive") + points("privilege") + points("multiple")
Scores == {Score(signals) : signals \in SUBSET Signals}

\* elevated: isAdmin, isDelegatedAdmin or a role name.
Row   == [id : 1 .. MaxIds, inactive : BOOLEAN, elevated : BOOLEAN, risk : Scores]
NoRow == [id |-> 0]

\* A membership names the identity row it belongs to, 0 for null.
Membership   == [of : 0 .. MaxIds, leads : BOOLEAN]
NoMembership == [of |-> 0, leads |-> FALSE, there |-> FALSE]
Linked(m)    == m # NoMembership /\ m.of # 0

Resting == [pc |-> "idle"]

\* The tables as a first sync leaves them.
Init ==
    /\ row \in [People -> {r \in Row : r.id = 1 /\ r.risk = 0}]
    /\ link \in [People -> [Teams -> {m \in Membership : m.of = 1} \cup {NoMembership}]]
    /\ ids = [p \in People |-> 1]
    /\ changes = 0
    /\ detection = [d \in Detections |-> Resting]
    /\ signalled = {}

(***************************************************************************)
(* What the syncs do to the tables                                         *)
(***************************************************************************)

Changes ==
    /\ changes < MaxChanges
    /\ changes' = changes + 1

\* The upsert of sync-users; an existing row keeps its id and its score.
IdentitySynced(p) ==
    /\ Changes
    /\ \E inactive, elevated \in BOOLEAN :
         IF row[p] = NoRow
         THEN /\ ids[p] < MaxIds
              /\ ids' = [ids EXCEPT ![p] = @ + 1]
              /\ row' = [row EXCEPT ![p] = [id |-> ids[p] + 1, inactive |-> inactive,
                                            elevated |-> elevated, risk |-> 0]]
         ELSE /\ row' = [row EXCEPT ![p].inactive = inactive, ![p].elevated = elevated]
              /\ UNCHANGED ids
    /\ UNCHANGED <<link, detection, signalled>>

DropOnly(p) == link   \* mutant: the memberships keep the id of the deleted row

\* onDelete: SetNull of externalIdentityId
SetNull(p) ==
    [link EXCEPT ![p] = [t \in Teams |-> IF link[p][t] = NoMembership THEN NoMembership
                                         ELSE [link[p][t] EXCEPT !.of = 0]]]

IdentityDropped(p) ==
    /\ Changes
    /\ row[p] # NoRow
    /\ row' = [row EXCEPT ![p] = NoRow]
    /\ link' = SetNull(p)
    /\ UNCHANGED <<ids, detection, signalled>>

MembershipSynced(p, t) ==
    /\ Changes
    /\ \/ \E leads \in BOOLEAN :
            link' = [link EXCEPT ![p][t] = [of |-> row[p].id, leads |-> leads]]
       \/ link' = [link EXCEPT ![p][t] = NoMembership]
    /\ UNCHANGED <<row, ids, detection, signalled>>

(***************************************************************************)
(* detectGoogleSignals                                                     *)
(***************************************************************************)

Moves(d, next) == detection' = [detection EXCEPT ![d] = next]

\* The signals of a row of a listing of identities, by a listing of
\* memberships.
SignalsOf(r, memberships, p) ==
    LET mine == {t \in Teams : memberships[p][t] # NoMembership /\ memberships[p][t].of = r.id} IN
    (IF r.inactive THEN {"inactive"} ELSE {})
        \cup (IF r.elevated \/ \E t \in mine : memberships[p][t].leads THEN {"privilege"} ELSE {})
        \cup (IF Cardinality(mine) > 1 THEN {"multiple"} ELSE {})

\* What the loop is left with once both listings are in: the rows it read and
\* the signals each is to be given.
Plan(rows, memberships) ==
    [p \in People |->
        IF rows[p] = NoRow THEN NoRow
        ELSE [id |-> rows[p].id, signals |-> SignalsOf(rows[p], memberships, p)]]

\* The two listings are queried at once, and answered in either order.
ListIdentities(d) ==
    /\ \/ /\ detection[d] = Resting
          /\ Moves(d, [pc |-> "rows", rows |-> row])
       \/ /\ detection[d].pc = "memberships"
          /\ Moves(d, [pc |-> "loop", todo |-> Plan(row, detection[d].memberships)])
    /\ UNCHANGED <<row, link, ids, changes, signalled>>

ListMemberships(d) ==
    /\ \/ /\ detection[d] = Resting
          /\ Moves(d, [pc |-> "memberships", memberships |-> link])
       \/ /\ detection[d].pc = "rows"
          /\ Moves(d, [pc |-> "loop", todo |-> Plan(detection[d].rows, link)])
    /\ UNCHANGED <<row, link, ids, changes, signalled>>

\* Of the identity whose turn it is, one signal is audited at a time.
AuditSignal(d, p) ==
    /\ detection[d].pc = "loop"
    /\ detection[d].todo[p] # NoRow
    /\ LET id == detection[d].todo[p].id IN
       \E s \in detection[d].todo[p].signals :
           /\ <<s, p, id>> \notin signalled
           /\ signalled' = signalled \cup {<<s, p, id>>}
    /\ UNCHANGED <<row, link, ids, changes, detection>>

ScoreBeforeAudit(d, p) ==   \* mutant: the score is stored before the signals are audited
    /\ detection[d].pc = "loop"
    /\ detection[d].todo[p] # NoRow
    /\ row[p].id = detection[d].todo[p].id
    /\ row' = [row EXCEPT ![p].risk = Score(detection[d].todo[p].signals)]
    /\ Moves(d, [detection[d] EXCEPT !.todo[p] = NoRow])
    /\ UNCHANGED <<link, ids, changes, signalled>>

AddScore(d, p) ==   \* mutant: the points are added to the score there is
    /\ detection[d].pc = "loop"
    /\ detection[d].todo[p] # NoRow
    /\ row[p].id = detection[d].todo[p].id
    /\ row' = [row EXCEPT ![p].risk = @ + Score(detection[d].todo[p].signals)]
    /\ Moves(d, [detection[d] EXCEPT !.todo[p] = NoRow])
    /\ UNCHANGED <<link, ids, changes, signalled>>

\* Then its score is stored; the update of a row that is gone throws, and the
\* rest of the loop is not run.
StoreScore(d, p) ==
    /\ detection[d].pc = "loop"
    /\ detection[d].todo[p] # NoRow
    /\ LET found == detection[d].todo[p] IN
       /\ \A s \in found.signals : <<s, p, found.id>> \in signalled
       /\ IF row[p].id = found.id
          THEN /\ row' = [row EXCEPT ![p].risk = Score(found.signals)]
               /\ Moves(d, [detection[d] EXCEPT !.todo[p] = NoRow])
          ELSE /\ Moves(d, Resting)
               /\ UNCHANGED row
    /\ UNCHANGED <<link, ids, changes, signalled>>

DetectionEnds(d) ==
    /\ detection[d].pc = "loop"
    /\ \A p \in People : detection[d].todo[p] = NoRow
    /\ Moves(d, Resting)
    /\ UNCHANGED <<row, link, ids, changes, signalled>>

DetectionFails(d) ==
    /\ detection[d] # Resting
    /\ Moves(d, Resting)
    /\ UNCHANGED <<row, link, ids, changes, signalled>>

Next ==
    \/ \E p \in People :
           \/ IdentitySynced(p) \/ IdentityDropped(p)
           \/ \E t \in Teams : MembershipSynced(p, t)
    \/ \E d \in Detections :
           \/ ListIdentities(d) \/ ListMemberships(d)
           \/ \E p \in People : AuditSignal(d, p) \/ StoreScore(d, p)
           \/ DetectionEnds(d) \/ DetectionFails(d)

Spec == Init /\ [][Next]_vars

(***************************************************************************)
(* ISPM: buildIntegrationSnapshot                                          *)
(***************************************************************************)

\* The rows counted as high privilege: those whose row says so, and those a
\* membership of an owner or manager names, listed or not.
HighPrivilege ==
    {<<p, row[p].id>> : p \in {q \in People : row[q] # NoRow /\ row[q].elevated}}
        \cup {<<m[1], link[m[1]][m[2]].of>> :
                 m \in {x \in People \X Teams :
                           Linked(link[x[1]][x[2]]) /\ link[x[1]][x[2]].leads}}

(***************************************************************************)
(* Properties                                                              *)
(***************************************************************************)

\* What a detection has read, or is still to do for each account.
Planned == [id : 1 .. MaxIds, signals : SUBSET Signals]
Tables  == [People -> [Teams -> Membership \cup {NoMembership}]]
Detection ==
    [pc : {"rows"}, rows : [People -> Row \cup {NoRow}]]
        \cup [pc : {"memberships"}, memberships : Tables]
        \cup [pc : {"loop"}, todo : [People -> Planned \cup {NoRow}]]

\* The shape of the tables and of the detections.
TypeOK ==
    /\ row \in [People -> Row \cup {NoRow}]
    /\ link \in Tables
    /\ ids \in [People -> 1 .. MaxIds]
    /\ changes \in 0 .. MaxChanges
    /\ \A p \in People : row[p].id \in {0, ids[p]}
    /\ detection \in [Detections -> Detection \cup {Resting}]
    /\ signalled \subseteq Signals \X People \X (1 .. MaxIds)

\* Whatever detections overlap, and wherever one of them stops, a stored risk
\* score is the sum of signals that are in the audit trail for that very row.
ScoreIsAudited ==
    \A p \in People : row[p] # NoRow =>
        \E signals \in SUBSET Signals :
            /\ row[p].risk = Score(signals)
            /\ \A s \in signals : <<s, p, row[p].id>> \in signalled

\* ISPM and ITDR, which decide it apart, call the same identities privileged
\* of the same tables: no membership speaks for a row that is not there.
ConsolesAgree ==
    HighPrivilege =
        {<<p, row[p].id>> : p \in {q \in People : row[q] # NoRow /\
                                      "privilege" \in SignalsOf(row[q], link, q)}}
==============================================================================
