------------------------- MODULE AccessGovernance -------------------------
(***************************************************************************)
(* Access requests (IVIP) and access reviews (IGA) of one tenant, over the *)
(* Google group memberships they change and over the rows that mirror them *)
(* in PostgreSQL.  Every `await` of a handler that another handler can     *)
(* observe is a step of its own; a handler may stop after any of them      *)
(* (an exception, a timeout, a crash).                                     *)
(***************************************************************************)
EXTENDS Naturals, FiniteSets

CONSTANTS
    Identities,   \* Google accounts
    Groups,       \* Google groups
    Requests,     \* ids of identity_requests rows
    Reviews,      \* ids of access_reviews rows
    Admins,       \* calls of approve or revoke that may be in flight at once
    Syncers,      \* calls of sync-groups that may be in flight at once
    MaxRows,      \* how often the row of an account or group is created
    MaxEdits,     \* how many changes are made in Google behind the backend
    Failures      \* whether a call may fail half-way

ASSUME AccessAssumption ==
    /\ MaxRows \in Nat
    /\ MaxEdits \in Nat
    /\ Failures \in BOOLEAN

Pairs == Identities \X Groups

VARIABLES
    \* Google
    accounts,     \* accounts that exist
    gGroups,      \* groups that exist
    gMembers,     \* memberships that exist
    \* PostgreSQL
    identity,     \* external_identities rows
    group,        \* external_groups rows
    membership,   \* external_group_memberships rows
    request,      \* identity_requests rows
    review,       \* access_reviews rows
    audit,        \* audit_events rows of membership changes
    \* the backend's memory
    call,         \* approve and revoke calls
    sync,         \* sync-groups calls
    \* history, read by properties only
    everMember,   \* memberships that have existed in Google
    edits         \* changes made behind the backend so far

google  == <<accounts, gGroups, gMembers, everMember>>
rows    == <<identity, group, membership, request, review, audit>>
vars    == <<google, rows, call, sync, edits>>

(***************************************************************************)
(* Rows                                                                    *)
(***************************************************************************)

\* The row of an account or group.  A row that is deleted and created again
\* has another uuid: id counts the rows there have been.
EntityRow == [id : 0 .. MaxRows, live : BOOLEAN]
NoEntity  == [id |-> 0, live |-> FALSE]
CanInsert(e)  == ~e.live => e.id < MaxRows
UpsertedAnew(e) == [id |-> e.id + 1, live |-> TRUE]   \* mutant: never an update
Upserted(e)   == IF e.live THEN e ELSE [id |-> e.id + 1, live |-> TRUE]

\* A foreign key to row n of an account or group.
Refers(e, n) == e.live /\ e.id = n

\* A membership row carries a nullable reference to the live identity row.
MembershipStates == {"none", "unlinked", "linked"}

RequestStatus == {"PENDING", "APPLIED", "REJECTED"}
ReviewStatus  == {"PENDING", "APPROVED", "REVOKED"}
NoRow   == [status |-> "absent"]
Deleted == [status |-> "deleted"]
RequestRow == [status : RequestStatus, pair : Pairs]
ReviewRow  == [status : ReviewStatus, pair : Pairs]

Exists(row) == row.status \notin {"absent", "deleted"}

CascadeNothing(table, doomed) == table   \* mutant: no ON DELETE clause

\* ON DELETE CASCADE from identities and groups to the rows that name them.
Cascade(table, doomed) ==
    [k \in DOMAIN table |->
        IF Exists(table[k]) /\ table[k].pair \in doomed THEN Deleted ELSE table[k]]

AuditEvents == {"granted", "revoked"} \X Pairs

(***************************************************************************)
(* Calls in flight                                                         *)
(***************************************************************************)

Idle == [pc |-> "idle"]

\* at is the uuid, as a row count, of the identity and of the group.
CallOn(op, k, p) ==
    [pc |-> "lookup", op |-> op, row |-> k, pair |-> p, at |-> <<identity[p[1]].id, group[p[2]].id>>]

CallSteps   == {"lookup", "google", "mirror", "audit", "close"}
RowIds      == (0 .. MaxRows) \X (0 .. MaxRows)
ApproveCall == [pc : CallSteps, op : {"approve"}, row : Requests, pair : Pairs, at : RowIds]
RevokeCall  == [pc : CallSteps, op : {"revoke"}, row : Reviews, pair : Pairs, at : RowIds]

\* What a sync holds: the members Google listed, those not yet upserted, the
\* identity rows and group rows it knows (0: none).  touched is history: the
\* memberships someone else changed, in Google or in the mirror, meanwhile.
SyncCall ==
    [pc : {"identities", "groups", "members", "stale"},
     groups : SUBSET Groups, members : SUBSET Pairs, todo : SUBSET Pairs,
     known : [Identities -> 0 .. MaxRows], saved : [Groups -> 0 .. MaxRows],
     touched : SUBSET Pairs]

Touch(ps) ==
    [s \in Syncers |->
        IF sync[s] = Idle THEN Idle ELSE [sync[s] EXCEPT !.touched = @ \cup ps]]

Init ==
    /\ accounts = Identities
    /\ gGroups = Groups
    /\ gMembers \in SUBSET Pairs
    /\ everMember = gMembers
    /\ identity = [i \in Identities |-> NoEntity]
    /\ group = [g \in Groups |-> NoEntity]
    /\ membership = [p \in Pairs |-> "none"]
    /\ request = [q \in Requests |-> NoRow]
    /\ review = [v \in Reviews |-> NoRow]
    /\ audit = {}
    /\ call = [a \in Admins |-> Idle]
    /\ sync = [s \in Syncers |-> Idle]
    /\ edits = 0

(***************************************************************************)
(* Google, changed by its own administrators                               *)
(***************************************************************************)

Edit(ps) ==
    /\ edits < MaxEdits
    /\ edits' = edits + 1
    /\ sync' = Touch(ps)
    /\ UNCHANGED <<rows, call>>

EditMember(p) ==
    /\ Edit({p})
    /\ p[1] \in accounts
    /\ p[2] \in gGroups
    /\ gMembers' = IF p \in gMembers THEN gMembers \ {p} ELSE gMembers \cup {p}
    /\ everMember' = everMember \cup {p}
    /\ UNCHANGED <<accounts, gGroups>>

DeleteAccount(i) ==
    /\ Edit({i} \X Groups)
    /\ i \in accounts
    /\ accounts' = accounts \ {i}
    /\ gMembers' = {p \in gMembers : p[1] # i}
    /\ UNCHANGED <<gGroups, everMember>>

DeleteGroup(g) ==
    /\ Edit(Identities \X {g})
    /\ g \in gGroups
    /\ gGroups' = gGroups \ {g}
    /\ gMembers' = {p \in gMembers : p[2] # g}
    /\ UNCHANGED <<accounts, everMember>>

(***************************************************************************)
(* What sync-users does to the rows this module reads                      *)
(***************************************************************************)

IdentityUpserted(i) ==
    /\ CanInsert(identity[i])
    /\ identity' = [identity EXCEPT ![i] = Upserted(@)]
    /\ UNCHANGED <<google, group, membership, request, review, audit, call, sync, edits>>

\* removeStaleExternalIdentities: requests and reviews cascade, the reference
\* of a membership is set to null.
IdentityRemoved(i) ==
    /\ identity[i].live
    /\ i \notin accounts
    /\ identity' = [identity EXCEPT ![i].live = FALSE]
    /\ membership' = [p \in Pairs |->
                        IF p[1] = i /\ membership[p] = "linked" THEN "unlinked" ELSE membership[p]]
    /\ request' = Cascade(request, {i} \X Groups)
    /\ review' = Cascade(review, {i} \X Groups)
    /\ UNCHANGED <<google, group, audit, call, sync, edits>>

(***************************************************************************)
(* IVIP                                                                    *)
(***************************************************************************)

CreateRequest(q, p) ==
    /\ request[q] = NoRow
    /\ identity[p[1]].live
    /\ group[p[2]].live
    /\ membership[p] # "linked"
    /\ request' = [request EXCEPT ![q] = [status |-> "PENDING", pair |-> p]]
    /\ UNCHANGED <<google, identity, group, membership, review, audit, call, sync, edits>>

RejectRequest(q) ==
    /\ Exists(request[q])
    /\ request' = [request EXCEPT ![q].status = "REJECTED"]
    /\ UNCHANGED <<google, identity, group, membership, review, audit, call, sync, edits>>

\* findRequestOrThrow: the status of the request is not looked at.
ApproveRequest(a, q) ==
    /\ call[a] = Idle
    /\ Exists(request[q])
    /\ call' = [call EXCEPT ![a] = CallOn("approve", q, request[q].pair)]
    /\ UNCHANGED <<google, rows, sync, edits>>

(***************************************************************************)
(* IGA                                                                     *)
(***************************************************************************)

CreateReview(v, p) ==
    /\ review[v] = NoRow
    /\ membership[p] = "linked"
    /\ review' = [review EXCEPT ![v] = [status |-> "PENDING", pair |-> p]]
    /\ UNCHANGED <<google, identity, group, membership, request, audit, call, sync, edits>>

ApproveReview(v) ==
    /\ Exists(review[v])
    /\ review' = [review EXCEPT ![v].status = "APPROVED"]
    /\ UNCHANGED <<google, identity, group, membership, request, audit, call, sync, edits>>

RevokeReview(a, v) ==
    /\ call[a] = Idle
    /\ Exists(review[v])
    /\ call' = [call EXCEPT ![a] = CallOn("revoke", v, review[v].pair)]
    /\ UNCHANGED <<google, rows, sync, edits>>

(***************************************************************************)
(* grantGroupAccess and revokeGroupAccess, called by approve and revoke    *)
(***************************************************************************)

At(a, pc, op) == call[a] # Idle /\ call[a].pc = pc /\ call[a].op = op

Goto(a, pc) == call' = [call EXCEPT ![a].pc = pc]
Stop(a)     == call' = [call EXCEPT ![a] = Idle]

RowsFound(a) ==
    /\ Refers(identity[call[a].pair[1]], call[a].at[1])
    /\ Refers(group[call[a].pair[2]], call[a].at[2])

\* Both rows are looked up again; 404 when either is gone.
Lookup(a) ==
    /\ call[a].pc = "lookup"
    /\ IF RowsFound(a) THEN Goto(a, "google") ELSE Stop(a)
    /\ UNCHANGED <<google, rows, sync, edits>>

InsertMemberIgnoring409(a) ==   \* mutant: the answer of Google is not looked at
    /\ At(a, "google", "approve")
    /\ Goto(a, "mirror")
    /\ UNCHANGED <<google, rows, sync, edits>>

\* members.insert: 409 for a member, 404 for an account or group that is gone.
InsertMember(a) ==
    /\ At(a, "google", "approve")
    /\ LET p == call[a].pair IN
       IF p[1] \in accounts /\ p[2] \in gGroups /\ p \notin gMembers
       THEN /\ gMembers' = gMembers \cup {p}
            /\ everMember' = everMember \cup {p}
            /\ Goto(a, "mirror")
            /\ sync' = Touch({p})
       ELSE /\ Stop(a)
            /\ UNCHANGED <<gMembers, everMember, sync>>
    /\ UNCHANGED <<accounts, gGroups, rows, edits>>

\* members.delete: 404 when the account is not a member.
DeleteMember(a) ==
    /\ At(a, "google", "revoke")
    /\ LET p == call[a].pair IN
       IF p \in gMembers
       THEN /\ gMembers' = gMembers \ {p}
            /\ Goto(a, "mirror")
            /\ sync' = Touch({p})
       ELSE /\ Stop(a)
            /\ UNCHANGED <<gMembers, sync>>
    /\ UNCHANGED <<accounts, gGroups, everMember, rows, edits>>

\* The upsert of the membership row; its foreign keys must still hold.
UpsertMembership(a) ==
    /\ At(a, "mirror", "approve")
    /\ IF RowsFound(a)
       THEN /\ membership' = [membership EXCEPT ![call[a].pair] = "linked"]
            /\ Goto(a, "audit")
            /\ sync' = Touch({call[a].pair})
       ELSE /\ Stop(a)
            /\ UNCHANGED <<membership, sync>>
    /\ UNCHANGED <<google, identity, group, request, review, audit, edits>>

\* deleteMany on the group's uuid: it removes nothing under a newer group row.
DeleteMembership(a) ==
    /\ At(a, "mirror", "revoke")
    /\ membership' = IF Refers(group[call[a].pair[2]], call[a].at[2])
                     THEN [membership EXCEPT ![call[a].pair] = "none"] ELSE membership
    /\ Goto(a, "audit")
    /\ sync' = Touch({call[a].pair})
    /\ UNCHANGED <<google, identity, group, request, review, audit, edits>>

AuditLost(a) ==   \* mutant: the audit row is not written
    /\ call[a].pc = "audit"
    /\ Goto(a, "close")
    /\ UNCHANGED <<google, rows, sync, edits>>

AuditChange(a) ==
    /\ call[a].pc = "audit"
    /\ audit' = audit \cup
         {<<IF call[a].op = "approve" THEN "granted" ELSE "revoked", call[a].pair>>}
    /\ Goto(a, "close")
    /\ UNCHANGED <<google, identity, group, membership, request, review, sync, edits>>

\* Update of the request or review; throws when a cascade has deleted it.
CloseRequest(a) ==
    /\ At(a, "close", "approve")
    /\ LET q == call[a].row IN
       request' = IF Exists(request[q])
                  THEN [request EXCEPT ![q].status = "APPLIED"] ELSE request
    /\ Stop(a)
    /\ UNCHANGED <<google, identity, group, membership, review, audit, sync, edits>>

CloseReview(a) ==
    /\ At(a, "close", "revoke")
    /\ LET v == call[a].row IN
       review' = IF Exists(review[v])
                 THEN [review EXCEPT ![v].status = "REVOKED"] ELSE review
    /\ Stop(a)
    /\ UNCHANGED <<google, identity, group, membership, request, audit, sync, edits>>

CallFails(a) ==
    /\ Failures
    /\ call[a] # Idle
    /\ Stop(a)
    /\ UNCHANGED <<google, rows, sync, edits>>

(***************************************************************************)
(* syncGoogleGroups                                                        *)
(***************************************************************************)

\* syncPermissions: the groups and members Google lists.
FetchGroups(s) ==
    /\ sync[s] = Idle
    /\ sync' = [sync EXCEPT ![s] =
         [pc |-> "identities", groups |-> gGroups, members |-> gMembers, todo |-> gMembers,
          known |-> [i \in Identities |-> 0], saved |-> [g \in Groups |-> 0],
          touched |-> {}]]
    /\ UNCHANGED <<google, rows, call, edits>>

ReadIdentities(s) ==
    /\ sync[s].pc = "identities"
    /\ sync' = [sync EXCEPT ![s].pc = "groups",
                  ![s].known = [i \in Identities |-> IF identity[i].live THEN identity[i].id ELSE 0]]
    /\ UNCHANGED <<google, rows, call, edits>>

UpsertGroups(s) ==
    /\ sync[s].pc = "groups"
    /\ \A g \in sync[s].groups : CanInsert(group[g])
    /\ group' = [g \in Groups |-> IF g \in sync[s].groups THEN Upserted(group[g]) ELSE group[g]]
    /\ sync' = [sync EXCEPT ![s].pc = "members",
                  ![s].saved = [g \in Groups |-> IF g \in sync[s].groups THEN group'[g].id ELSE 0]]
    /\ UNCHANGED <<google, identity, membership, request, review, audit, call, edits>>

\* sync s moves on, having changed the rows of ps under the other syncs.
Proceed(s, r, ps) == sync' = [Touch(ps) EXCEPT ![s] = r]

\* An update without a known identity leaves the reference as it is; a create
\* leaves it null.  A reference to a row deleted meanwhile is refused.
UpsertMember(s, p) ==
    /\ sync[s].pc = "members"
    /\ p \in sync[s].todo
    /\ LET known == sync[s].known[p[1]] IN
       IF Refers(group[p[2]], sync[s].saved[p[2]]) /\ (known # 0 => Refers(identity[p[1]], known))
       THEN /\ membership' = [membership EXCEPT ![p] =
                 IF known # 0 THEN "linked" ELSE IF @ = "none" THEN "unlinked" ELSE @]
            /\ Proceed(s, [sync[s] EXCEPT !.todo = @ \ {p}], {p})
       ELSE /\ sync' = [sync EXCEPT ![s] = Idle]
            /\ UNCHANGED membership
    /\ UNCHANGED <<google, identity, group, request, review, audit, call, edits>>

RemoveStaleGroups(s) ==
    /\ sync[s].pc = "members"
    /\ sync[s].todo = {}
    /\ LET stale == {g \in Groups : group[g].live /\ g \notin sync[s].groups}
           under == Identities \X stale IN
       /\ group' = [g \in Groups |->
                      IF g \in stale THEN [group[g] EXCEPT !.live = FALSE] ELSE group[g]]
       /\ membership' = [p \in Pairs |-> IF p \in under THEN "none" ELSE membership[p]]
       /\ request' = Cascade(request, under)
       /\ review' = Cascade(review, under)
       /\ Proceed(s, [sync[s] EXCEPT !.pc = "stale"], under)
    /\ UNCHANGED <<google, identity, audit, call, edits>>

KeepStaleMemberships(s) ==   \* mutant: a membership that left Google stays
    /\ sync[s].pc = "stale"
    /\ sync' = [sync EXCEPT ![s] = Idle]
    /\ UNCHANGED <<google, rows, call, edits>>

RemoveStaleMemberships(s) ==
    /\ sync[s].pc = "stale"
    /\ LET listed == {p \in sync[s].members : group[p[2]].id = sync[s].saved[p[2]]} IN
       /\ membership' = [p \in Pairs |-> IF p \in listed THEN membership[p] ELSE "none"]
       /\ Proceed(s, Idle, Pairs \ listed)
    /\ UNCHANGED <<google, identity, group, request, review, audit, call, edits>>

SyncFails(s) ==
    /\ Failures
    /\ sync[s] # Idle
    /\ sync' = [sync EXCEPT ![s] = Idle]
    /\ UNCHANGED <<google, rows, call, edits>>

(***************************************************************************)
(* The specification                                                       *)
(***************************************************************************)

GoogleEdits ==
    \/ \E p \in Pairs : EditMember(p)
    \/ \E i \in Identities : DeleteAccount(i)
    \/ \E g \in Groups : DeleteGroup(g)

IdentitySync == \E i \in Identities : IdentityUpserted(i) \/ IdentityRemoved(i)

Requesting ==
    \E q \in Requests :
        \/ \E p \in Pairs : CreateRequest(q, p)
        \/ RejectRequest(q)
        \/ \E a \in Admins : ApproveRequest(a, q)

Reviewing ==
    \E v \in Reviews :
        \/ \E p \in Pairs : CreateReview(v, p)
        \/ ApproveReview(v)
        \/ \E a \in Admins : RevokeReview(a, v)

CallStep(a) ==
    \/ Lookup(a) \/ InsertMember(a) \/ DeleteMember(a)
    \/ UpsertMembership(a) \/ DeleteMembership(a)
    \/ AuditChange(a) \/ CloseRequest(a) \/ CloseReview(a) \/ CallFails(a)

SyncStep(s) ==
    \/ FetchGroups(s) \/ ReadIdentities(s) \/ UpsertGroups(s)
    \/ \E p \in Pairs : UpsertMember(s, p)
    \/ RemoveStaleGroups(s) \/ RemoveStaleMemberships(s) \/ SyncFails(s)

Next ==
    \/ GoogleEdits
    \/ IdentitySync
    \/ Requesting
    \/ Reviewing
    \/ \E a \in Admins : CallStep(a)
    \/ \E s \in Syncers : SyncStep(s)

Spec == Init /\ [][Next]_vars

(***************************************************************************)
(* Properties                                                              *)
(***************************************************************************)

\* The shape of the tables and of the calls in flight.
TypeOK ==
    /\ accounts \subseteq Identities
    /\ gGroups \subseteq Groups
    /\ gMembers \subseteq Pairs
    /\ everMember \subseteq Pairs
    /\ identity \in [Identities -> EntityRow]
    /\ group \in [Groups -> EntityRow]
    /\ membership \in [Pairs -> MembershipStates]
    /\ request \in [Requests -> RequestRow \cup {NoRow, Deleted}]
    /\ review \in [Reviews -> ReviewRow \cup {NoRow, Deleted}]
    /\ audit \subseteq AuditEvents
    /\ call \in [Admins -> ApproveCall \cup RevokeCall \cup {Idle}]
    /\ sync \in [Syncers -> SyncCall \cup {Idle}]
    /\ edits \in 0 .. MaxEdits

\* Whatever sync-users, sync-groups, approve and revoke do to each other, no
\* row is left naming a row that was deleted: requests and reviews go with
\* their identity and group, a membership with its group, and a membership is
\* linked only to a live identity (schema.prisma's onDelete clauses and the
\* foreign keys an upsert made from an old read runs into).
ReferentialIntegrity ==
    /\ \A q \in Requests : Exists(request[q]) =>
         identity[request[q].pair[1]].live /\ group[request[q].pair[2]].live
    /\ \A v \in Reviews : Exists(review[v]) =>
         identity[review[v].pair[1]].live /\ group[review[v].pair[2]].live
    /\ \A p \in Pairs :
         /\ membership[p] # "none" => group[p[2]].live
         /\ membership[p] = "linked" => identity[p[1]].live

\* A request is APPLIED only after a membership it asked for was inserted in
\* Google, mirrored and audited, and a review is REVOKED only after the
\* membership was deleted and the deletion audited, however many handlers stop
\* half-way or work on the same row.
DecisionsAreAudited ==
    /\ \A q \in Requests :
         request[q].status = "APPLIED" => <<"granted", request[q].pair>> \in audit
    /\ \A v \in Reviews :
         review[v].status = "REVOKED" => <<"revoked", review[v].pair>> \in audit

\* Neither a sync from an old listing nor an approval that fails half-way puts
\* a membership in the mirror, or in the audit trail, that Google never had.
MirrorWasReal ==
    /\ \A p \in Pairs : membership[p] # "none" => p \in everMember
    /\ \A e \in audit : e[2] \in everMember

\* When sync-groups ends, the mirror shows exactly the memberships Google has,
\* but for those that an approval, a revocation, an edit in Google or another
\* sync changed while it ran.
SyncIsExact ==
    [][\A s \in Syncers : RemoveStaleMemberships(s) =>
         \A p \in Pairs \ sync[s].touched : membership'[p] # "none" <=> p \in gMembers']_vars
===========================================================================
