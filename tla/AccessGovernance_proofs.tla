---------------------- MODULE AccessGovernance_proofs ----------------------
(***************************************************************************)
(* Proofs about AccessGovernance, for any sets of accounts, groups, rows   *)
(* and handlers and any bounds.                                            *)
(***************************************************************************)
EXTENDS AccessGovernance, TLAPS

(***************************************************************************)
(* Lemmas about the operators                                              *)
(***************************************************************************)

\* An upsert that has an id left makes a live row.
LEMMA UpsertedType ==
    ASSUME NEW e \in EntityRow, CanInsert(e)
    PROVE  Upserted(e) \in EntityRow /\ Upserted(e).live
BY AccessAssumption DEF EntityRow, CanInsert, Upserted

\* A cascade deletes rows and changes no other one.
LEMMA CascadeType ==
    ASSUME NEW K, NEW R, NoRow \notin R, NEW table \in [K -> R \cup {NoRow, Deleted}],
           NEW doomed
    PROVE  /\ Cascade(table, doomed) \in [K -> R \cup {NoRow, Deleted}]
           /\ \A k \in K : Cascade(table, doomed)[k] \in {table[k], Deleted}
BY DEF Cascade

\* No row of a request or a review is absent or deleted.
LEMMA RowsExist ==
    /\ \A r \in RequestRow : Exists(r)
    /\ \A r \in ReviewRow : Exists(r)
    /\ ~Exists(NoRow) /\ ~Exists(Deleted)
BY DEF RequestRow, ReviewRow, Exists, NoRow, Deleted, RequestStatus, ReviewStatus

\* Recording a change made beside them leaves the syncs what they are.
LEMMA TouchType ==
    ASSUME NEW ps \in SUBSET Pairs, sync \in [Syncers -> SyncCall \cup {Idle}]
    PROVE  Touch(ps) \in [Syncers -> SyncCall \cup {Idle}]
<1>1. ASSUME NEW s \in Syncers, sync[s] # Idle
      PROVE  [sync[s] EXCEPT !.touched = @ \cup ps] \in SyncCall
  <2>1. sync[s] \in SyncCall
    BY <1>1
  <2> QED BY <2>1 DEF SyncCall
<1> QED BY <1>1 DEF Touch

\* A call goes to another step of its own.
LEMMA GotoType ==
    ASSUME TypeOK, NEW a \in Admins, call[a] # Idle, NEW pc \in CallSteps, Goto(a, pc)
    PROVE  call' \in [Admins -> ApproveCall \cup RevokeCall \cup {Idle}]
<1>1. [call[a] EXCEPT !.pc = pc] \in ApproveCall \cup RevokeCall
  <2>1. CASE call[a] \in ApproveCall
    BY <2>1 DEF ApproveCall
  <2>2. CASE call[a] \in RevokeCall
    BY <2>2 DEF RevokeCall
  <2> QED BY <2>1, <2>2 DEF TypeOK
<1> QED BY <1>1 DEF TypeOK, Goto

\* What a call that is not idle holds.
LEMMA CallFields ==
    ASSUME TypeOK, NEW a \in Admins, call[a] # Idle
    PROVE  /\ call[a].pair \in Pairs
           /\ call[a].pc \in CallSteps
           /\ call[a].op \in {"approve", "revoke"}
           /\ call[a].op = "approve" => call[a].row \in Requests
           /\ call[a].op = "revoke" => call[a].row \in Reviews
BY DEF TypeOK, ApproveCall, RevokeCall

(***************************************************************************)
(* Types                                                                   *)
(***************************************************************************)

\* Changes behind the backend and the rows sync-users writes.
LEMMA EnvironmentTypes ==
    ASSUME TypeOK, GoogleEdits \/ IdentitySync
    PROVE  TypeOK'
<1>1. ASSUME NEW p \in Pairs, EditMember(p) PROVE TypeOK'
  <2>1. Touch({p}) \in [Syncers -> SyncCall \cup {Idle}]
    BY TouchType DEF TypeOK
  <2>2. edits' \in 0 .. MaxEdits
    BY <1>1, AccessAssumption DEF TypeOK, EditMember, Edit
  <2>3. gMembers' \subseteq Pairs /\ everMember' \subseteq Pairs
    BY <1>1 DEF TypeOK, EditMember
  <2>4. accounts' \subseteq Identities /\ gGroups' \subseteq Groups
    BY <1>1 DEF TypeOK, EditMember
  <2> QED BY <1>1, <2>1, <2>2, <2>3, <2>4 DEF TypeOK, EditMember, Edit, rows
<1>2. ASSUME NEW i \in Identities, DeleteAccount(i) PROVE TypeOK'
  <2>1. Touch({i} \X Groups) \in [Syncers -> SyncCall \cup {Idle}]
    BY TouchType DEF TypeOK, Pairs
  <2>2. edits' \in 0 .. MaxEdits
    BY <1>2, AccessAssumption DEF TypeOK, DeleteAccount, Edit
  <2>3. gMembers' \subseteq Pairs /\ everMember' \subseteq Pairs
    BY <1>2 DEF TypeOK, DeleteAccount
  <2>4. accounts' \subseteq Identities /\ gGroups' \subseteq Groups
    BY <1>2 DEF TypeOK, DeleteAccount
  <2> QED BY <1>2, <2>1, <2>2, <2>3, <2>4 DEF TypeOK, DeleteAccount, Edit, rows
<1>3. ASSUME NEW g \in Groups, DeleteGroup(g) PROVE TypeOK'
  <2>1. Touch(Identities \X {g}) \in [Syncers -> SyncCall \cup {Idle}]
    BY TouchType DEF TypeOK, Pairs
  <2>2. edits' \in 0 .. MaxEdits
    BY <1>3, AccessAssumption DEF TypeOK, DeleteGroup, Edit
  <2>3. gMembers' \subseteq Pairs /\ everMember' \subseteq Pairs
    BY <1>3 DEF TypeOK, DeleteGroup
  <2>4. accounts' \subseteq Identities /\ gGroups' \subseteq Groups
    BY <1>3 DEF TypeOK, DeleteGroup
  <2> QED BY <1>3, <2>1, <2>2, <2>3, <2>4 DEF TypeOK, DeleteGroup, Edit, rows
<1>4. ASSUME NEW i \in Identities, IdentityUpserted(i) PROVE TypeOK'
  <2>1. Upserted(identity[i]) \in EntityRow
    BY <1>4, UpsertedType DEF TypeOK, IdentityUpserted
  <2> QED BY <1>4, <2>1 DEF TypeOK, IdentityUpserted, google
<1>5. ASSUME NEW i \in Identities, IdentityRemoved(i) PROVE TypeOK'
  <2>1. request' \in [Requests -> RequestRow \cup {NoRow, Deleted}]
    BY <1>5, CascadeType, RowsExist DEF TypeOK, IdentityRemoved
  <2>2. review' \in [Reviews -> ReviewRow \cup {NoRow, Deleted}]
    BY <1>5, CascadeType, RowsExist DEF TypeOK, IdentityRemoved
  <2>3. identity' \in [Identities -> EntityRow]
    BY <1>5 DEF TypeOK, IdentityRemoved, EntityRow
  <2>4. membership' \in [Pairs -> MembershipStates]
    BY <1>5 DEF TypeOK, IdentityRemoved, MembershipStates
  <2> QED BY <1>5, <2>1, <2>2, <2>3, <2>4 DEF TypeOK, IdentityRemoved, google
<1> QED BY <1>1, <1>2, <1>3, <1>4, <1>5 DEF GoogleEdits, IdentitySync

\* A call starts with what the row and the two entity rows say.
LEMMA CallOnType ==
    ASSUME TypeOK, NEW p \in Pairs
    PROVE  /\ \A q \in Requests : CallOn("approve", q, p) \in ApproveCall
           /\ \A v \in Reviews : CallOn("revoke", v, p) \in RevokeCall
BY DEF TypeOK, Pairs, CallOn, ApproveCall, RevokeCall, CallSteps, RowIds, EntityRow

\* The requests and reviews, and the calls that start on them.
LEMMA DecisionTypes ==
    ASSUME TypeOK, Requesting \/ Reviewing
    PROVE  TypeOK'
<1>1. ASSUME NEW q \in Requests, NEW p \in Pairs, CreateRequest(q, p) PROVE TypeOK'
  BY <1>1 DEF TypeOK, CreateRequest, google, RequestRow, RequestStatus
<1>2. ASSUME NEW q \in Requests, RejectRequest(q) PROVE TypeOK'
  <2>1. request[q] \in RequestRow
    BY <1>2, RowsExist DEF TypeOK, RejectRequest
  <2>2. [request[q] EXCEPT !.status = "REJECTED"] \in RequestRow
    BY <2>1 DEF RequestRow, RequestStatus
  <2> QED BY <1>2, <2>2 DEF TypeOK, RejectRequest, google
<1>3. ASSUME NEW a \in Admins, NEW q \in Requests, ApproveRequest(a, q) PROVE TypeOK'
  <2>1. request[q].pair \in Pairs
    BY <1>3, RowsExist DEF TypeOK, ApproveRequest, RequestRow
  <2>2. CallOn("approve", q, request[q].pair) \in ApproveCall
    BY <2>1, CallOnType
  <2> QED BY <1>3, <2>2 DEF TypeOK, ApproveRequest, google, rows
<1>4. ASSUME NEW v \in Reviews, NEW p \in Pairs, CreateReview(v, p) PROVE TypeOK'
  BY <1>4 DEF TypeOK, CreateReview, google, ReviewRow, ReviewStatus
<1>5. ASSUME NEW v \in Reviews, ApproveReview(v) PROVE TypeOK'
  <2>1. review[v] \in ReviewRow
    BY <1>5, RowsExist DEF TypeOK, ApproveReview
  <2>2. [review[v] EXCEPT !.status = "APPROVED"] \in ReviewRow
    BY <2>1 DEF ReviewRow, ReviewStatus
  <2> QED BY <1>5, <2>2 DEF TypeOK, ApproveReview, google
<1>6. ASSUME NEW a \in Admins, NEW v \in Reviews, RevokeReview(a, v) PROVE TypeOK'
  <2>1. review[v].pair \in Pairs
    BY <1>6, RowsExist DEF TypeOK, RevokeReview, ReviewRow
  <2>2. CallOn("revoke", v, review[v].pair) \in RevokeCall
    BY <2>1, CallOnType
  <2> QED BY <1>6, <2>2 DEF TypeOK, RevokeReview, google, rows
<1> QED BY <1>1, <1>2, <1>3, <1>4, <1>5, <1>6 DEF Requesting, Reviewing

\* The steps of an approval or a revocation.
LEMMA CallTypes ==
    ASSUME TypeOK, NEW a \in Admins, CallStep(a)
    PROVE  TypeOK'
<1> DEFINE Calls == [Admins -> ApproveCall \cup RevokeCall \cup {Idle}]
           Syncs == [Syncers -> SyncCall \cup {Idle}]
<1>1. call[a] # Idle
  BY DEF CallStep, Lookup, InsertMember, DeleteMember, UpsertMembership, DeleteMembership,
         AuditChange, CloseRequest, CloseReview, CallFails, At, Idle
<1>2. call[a].pair \in Pairs
  BY <1>1, CallFields
<1>3. \A pc \in CallSteps : Goto(a, pc) => call' \in Calls
  BY <1>1, GotoType
<1>4. Stop(a) => call' \in Calls
  BY DEF TypeOK, Stop
<1>5. Touch({call[a].pair}) \in Syncs
  BY <1>2, TouchType DEF TypeOK
<1>6. {"google", "mirror", "audit", "close"} \subseteq CallSteps
  BY DEF CallSteps
<1>7. ASSUME Lookup(a) PROVE TypeOK'
  BY <1>3, <1>4, <1>6, <1>7 DEF TypeOK, Lookup, google, rows
<1>8. ASSUME InsertMember(a) PROVE TypeOK'
  BY <1>2, <1>3, <1>4, <1>5, <1>6, <1>8 DEF TypeOK, InsertMember, rows
<1>9. ASSUME DeleteMember(a) PROVE TypeOK'
  BY <1>2, <1>3, <1>4, <1>5, <1>6, <1>9 DEF TypeOK, DeleteMember, rows
<1>10. ASSUME UpsertMembership(a) PROVE TypeOK'
  BY <1>2, <1>3, <1>4, <1>5, <1>6, <1>10
     DEF TypeOK, UpsertMembership, google, MembershipStates
<1>11. ASSUME DeleteMembership(a) PROVE TypeOK'
  BY <1>2, <1>3, <1>4, <1>5, <1>6, <1>11
     DEF TypeOK, DeleteMembership, google, MembershipStates
<1>12. ASSUME AuditChange(a) PROVE TypeOK'
  BY <1>2, <1>3, <1>6, <1>12 DEF TypeOK, AuditChange, google, AuditEvents
<1>13. ASSUME CloseRequest(a) PROVE TypeOK'
  <2>1. call[a].row \in Requests
    BY <1>1, <1>13, CallFields DEF CloseRequest, At
  <2>2. ASSUME Exists(request[call[a].row])
        PROVE  [request[call[a].row] EXCEPT !.status = "APPLIED"] \in RequestRow
    <3>1. request[call[a].row] \in RequestRow
      BY <2>1, <2>2, RowsExist DEF TypeOK
    <3> QED BY <3>1 DEF RequestRow, RequestStatus
  <2>3. request' \in [Requests -> RequestRow \cup {NoRow, Deleted}]
    BY <1>13, <2>1, <2>2 DEF TypeOK, CloseRequest
  <2> QED BY <1>4, <1>13, <2>3 DEF TypeOK, CloseRequest, google
<1>14. ASSUME CloseReview(a) PROVE TypeOK'
  <2>1. call[a].row \in Reviews
    BY <1>1, <1>14, CallFields DEF CloseReview, At
  <2>2. ASSUME Exists(review[call[a].row])
        PROVE  [review[call[a].row] EXCEPT !.status = "REVOKED"] \in ReviewRow
    <3>1. review[call[a].row] \in ReviewRow
      BY <2>1, <2>2, RowsExist DEF TypeOK
    <3> QED BY <3>1 DEF ReviewRow, ReviewStatus
  <2>3. review' \in [Reviews -> ReviewRow \cup {NoRow, Deleted}]
    BY <1>14, <2>1, <2>2 DEF TypeOK, CloseReview
  <2> QED BY <1>4, <1>14, <2>3 DEF TypeOK, CloseReview, google
<1>15. ASSUME CallFails(a) PROVE TypeOK'
  BY <1>4, <1>15 DEF TypeOK, CallFails, google, rows
<1> QED BY <1>7, <1>8, <1>9, <1>10, <1>11, <1>12, <1>13, <1>14, <1>15 DEF CallStep

\* The steps of a sync.
LEMMA SyncTypes ==
    ASSUME TypeOK, NEW s \in Syncers, SyncStep(s)
    PROVE  TypeOK'
<1> DEFINE Syncs == [Syncers -> SyncCall \cup {Idle}]
<1>1. \A ps \in SUBSET Pairs, r \in SyncCall \cup {Idle} : Proceed(s, r, ps) =>
        sync' \in Syncs
  BY TouchType DEF TypeOK, Proceed
<1>2. ASSUME FetchGroups(s) PROVE TypeOK'
  <2>1. [pc |-> "identities", groups |-> gGroups, members |-> gMembers, todo |-> gMembers,
         known |-> [i \in Identities |-> 0], saved |-> [g \in Groups |-> 0],
         touched |-> {}] \in SyncCall
    BY AccessAssumption DEF TypeOK, SyncCall
  <2> QED BY <1>2, <2>1 DEF TypeOK, FetchGroups, google, rows
<1>3. ASSUME ReadIdentities(s) PROVE TypeOK'
  <2>1. sync[s] \in SyncCall
    BY <1>3 DEF TypeOK, ReadIdentities, Idle
  <2>2. [i \in Identities |-> IF identity[i].live THEN identity[i].id ELSE 0]
          \in [Identities -> 0 .. MaxRows]
    BY AccessAssumption DEF TypeOK, EntityRow
  <2>3. sync'[s] \in SyncCall /\ sync' \in Syncs
    BY <1>3, <2>1, <2>2 DEF TypeOK, ReadIdentities, SyncCall
  <2> QED BY <1>3, <2>3 DEF TypeOK, ReadIdentities, google, rows
<1>4. ASSUME UpsertGroups(s) PROVE TypeOK'
  <2>1. sync[s] \in SyncCall
    BY <1>4 DEF TypeOK, UpsertGroups, Idle
  <2>2. group' \in [Groups -> EntityRow]
    BY <1>4, UpsertedType DEF TypeOK, UpsertGroups
  <2>3. [g \in Groups |-> IF g \in sync[s].groups THEN group'[g].id ELSE 0]
          \in [Groups -> 0 .. MaxRows]
    BY <2>2, AccessAssumption DEF EntityRow
  <2>4. sync' \in Syncs
    BY <1>4, <2>1, <2>3 DEF TypeOK, UpsertGroups, SyncCall
  <2> QED BY <1>4, <2>2, <2>4 DEF TypeOK, UpsertGroups, google
<1>5. ASSUME NEW p \in Pairs, UpsertMember(s, p) PROVE TypeOK'
  <2>1. sync[s] \in SyncCall
    BY <1>5 DEF TypeOK, UpsertMember, Idle
  <2>2. [sync[s] EXCEPT !.todo = @ \ {p}] \in SyncCall
    BY <2>1 DEF SyncCall
  <2>3. sync' \in Syncs
    BY <1>1, <1>5, <2>2 DEF TypeOK, UpsertMember
  <2>4. membership' \in [Pairs -> MembershipStates]
    BY <1>5 DEF TypeOK, UpsertMember, MembershipStates
  <2> QED BY <1>5, <2>3, <2>4 DEF TypeOK, UpsertMember, google
<1>6. ASSUME RemoveStaleGroups(s) PROVE TypeOK'
  <2> DEFINE stale == {g \in Groups : group[g].live /\ g \notin sync[s].groups}
             under == Identities \X stale
  <2>1. sync[s] \in SyncCall
    BY <1>6 DEF TypeOK, RemoveStaleGroups, Idle
  <2>2. [sync[s] EXCEPT !.pc = "stale"] \in SyncCall
    BY <2>1 DEF SyncCall
  <2>3. under \in SUBSET Pairs
    BY DEF Pairs
  <2>4. Proceed(s, [sync[s] EXCEPT !.pc = "stale"], under)
    BY <1>6 DEF RemoveStaleGroups
  <2>5. sync' \in Syncs
    BY <1>1, <2>2, <2>3, <2>4
  <2>6. request' \in [Requests -> RequestRow \cup {NoRow, Deleted}]
    BY <1>6, CascadeType, RowsExist DEF TypeOK, RemoveStaleGroups
  <2>7. review' \in [Reviews -> ReviewRow \cup {NoRow, Deleted}]
    BY <1>6, CascadeType, RowsExist DEF TypeOK, RemoveStaleGroups
  <2>8. group' \in [Groups -> EntityRow]
    BY <1>6 DEF TypeOK, RemoveStaleGroups, EntityRow
  <2>9. membership' \in [Pairs -> MembershipStates]
    BY <1>6 DEF TypeOK, RemoveStaleGroups, MembershipStates
  <2> QED BY <1>6, <2>5, <2>6, <2>7, <2>8, <2>9 DEF TypeOK, RemoveStaleGroups, google
<1>7. ASSUME RemoveStaleMemberships(s) PROVE TypeOK'
  <2>1. sync' \in Syncs
    BY <1>1, <1>7 DEF RemoveStaleMemberships
  <2>2. membership' \in [Pairs -> MembershipStates]
    BY <1>7 DEF TypeOK, RemoveStaleMemberships, MembershipStates
  <2> QED BY <1>7, <2>1, <2>2 DEF TypeOK, RemoveStaleMemberships, google
<1>8. ASSUME SyncFails(s) PROVE TypeOK'
  BY <1>8 DEF TypeOK, SyncFails, google, rows
<1> QED BY <1>2, <1>3, <1>4, <1>5, <1>6, <1>7, <1>8 DEF SyncStep

LEMMA InitTypes == Init => TypeOK
BY AccessAssumption DEF Init, TypeOK, NoEntity, EntityRow, MembershipStates

LEMMA NextTypes == TypeOK /\ [Next]_vars => TypeOK'
<1> SUFFICES ASSUME TypeOK, [Next]_vars PROVE TypeOK'
  OBVIOUS
<1>1. CASE Next
  BY <1>1, EnvironmentTypes, DecisionTypes, CallTypes, SyncTypes DEF Next
<1>2. CASE UNCHANGED vars
  BY <1>2 DEF vars, google, rows, TypeOK
<1> QED BY <1>1, <1>2

\* The tables and the calls in flight keep their shape.
THEOREM TypeCorrect == Spec => []TypeOK
BY InitTypes, NextTypes, PTL DEF Spec

(***************************************************************************)
(* Foreign keys                                                            *)
(***************************************************************************)

\* The requests, reviews and memberships of ReferentialIntegrity, one by one.
RequestRefs ==
    \A q \in Requests : Exists(request[q]) =>
        identity[request[q].pair[1]].live /\ group[request[q].pair[2]].live
ReviewRefs ==
    \A v \in Reviews : Exists(review[v]) =>
        identity[review[v].pair[1]].live /\ group[review[v].pair[2]].live
MembershipRefs ==
    \A p \in Pairs :
        /\ membership[p] # "none" => group[p[2]].live
        /\ membership[p] = "linked" => identity[p[1]].live

\* A cascade leaves the rows that name none of the doomed pairs.
LEMMA CascadeRefs ==
    ASSUME NEW K, NEW table, DOMAIN table = K, NEW doomed, NEW k \in K,
           Exists(Cascade(table, doomed)[k])
    PROVE  /\ Cascade(table, doomed)[k] = table[k]
           /\ Exists(table[k])
           /\ table[k].pair \notin doomed
BY RowsExist DEF Cascade

\* The two steps that delete identities and groups.
LEMMA RemovalKeepsRefs ==
    ASSUME TypeOK, ReferentialIntegrity,
           \/ \E i \in Identities : IdentityRemoved(i)
           \/ \E s \in Syncers : RemoveStaleGroups(s)
    PROVE  ReferentialIntegrity'
<1>1. ASSUME NEW i \in Identities, IdentityRemoved(i) PROVE ReferentialIntegrity'
  <2>1. RequestRefs'
    <3> SUFFICES ASSUME NEW q \in Requests, Exists(request'[q])
                 PROVE  identity'[request'[q].pair[1]].live
                          /\ group'[request'[q].pair[2]].live
      BY DEF RequestRefs
    <3>1. request'[q] = request[q] /\ Exists(request[q])
            /\ request[q].pair \notin {i} \X Groups
      BY <1>1, CascadeRefs DEF TypeOK, IdentityRemoved
    <3>2. request[q].pair \in Identities \X Groups
      BY <3>1, RowsExist DEF TypeOK, RequestRow, Pairs
    <3>3. request[q].pair[1] # i
      BY <3>1, <3>2
    <3> QED BY <1>1, <3>1, <3>2, <3>3 DEF TypeOK, ReferentialIntegrity, IdentityRemoved
  <2>2. ReviewRefs'
    <3> SUFFICES ASSUME NEW v \in Reviews, Exists(review'[v])
                 PROVE  identity'[review'[v].pair[1]].live
                          /\ group'[review'[v].pair[2]].live
      BY DEF ReviewRefs
    <3>1. review'[v] = review[v] /\ Exists(review[v]) /\ review[v].pair \notin {i} \X Groups
      BY <1>1, CascadeRefs DEF TypeOK, IdentityRemoved
    <3>2. review[v].pair \in Identities \X Groups
      BY <3>1, RowsExist DEF TypeOK, ReviewRow, Pairs
    <3>3. review[v].pair[1] # i
      BY <3>1, <3>2
    <3> QED BY <1>1, <3>1, <3>2, <3>3 DEF TypeOK, ReferentialIntegrity, IdentityRemoved
  <2>3. MembershipRefs'
    BY <1>1
       DEF TypeOK, ReferentialIntegrity, MembershipRefs, IdentityRemoved, Pairs,
           MembershipStates
  <2> QED BY <2>1, <2>2, <2>3 DEF ReferentialIntegrity, RequestRefs, ReviewRefs, MembershipRefs
<1>2. ASSUME NEW s \in Syncers, RemoveStaleGroups(s) PROVE ReferentialIntegrity'
  <2> DEFINE stale == {g \in Groups : group[g].live /\ g \notin sync[s].groups}
  <2>1. RequestRefs'
    <3> SUFFICES ASSUME NEW q \in Requests, Exists(request'[q])
                 PROVE  identity'[request'[q].pair[1]].live
                          /\ group'[request'[q].pair[2]].live
      BY DEF RequestRefs
    <3>1. request'[q] = request[q] /\ Exists(request[q])
            /\ request[q].pair \notin Identities \X stale
      BY <1>2, CascadeRefs DEF TypeOK, RemoveStaleGroups
    <3>2. request[q].pair \in Identities \X Groups
      BY <3>1, RowsExist DEF TypeOK, RequestRow, Pairs
    <3>3. request[q].pair[2] \notin stale
      BY <3>1, <3>2
    <3> QED BY <1>2, <3>1, <3>2, <3>3 DEF TypeOK, ReferentialIntegrity, RemoveStaleGroups
  <2>2. ReviewRefs'
    <3> SUFFICES ASSUME NEW v \in Reviews, Exists(review'[v])
                 PROVE  identity'[review'[v].pair[1]].live
                          /\ group'[review'[v].pair[2]].live
      BY DEF ReviewRefs
    <3>1. review'[v] = review[v] /\ Exists(review[v])
            /\ review[v].pair \notin Identities \X stale
      BY <1>2, CascadeRefs DEF TypeOK, RemoveStaleGroups
    <3>2. review[v].pair \in Identities \X Groups
      BY <3>1, RowsExist DEF TypeOK, ReviewRow, Pairs
    <3>3. review[v].pair[2] \notin stale
      BY <3>1, <3>2
    <3> QED BY <1>2, <3>1, <3>2, <3>3 DEF TypeOK, ReferentialIntegrity, RemoveStaleGroups
  <2>3. MembershipRefs'
    BY <1>2
       DEF TypeOK, ReferentialIntegrity, MembershipRefs, RemoveStaleGroups, Pairs,
           MembershipStates
  <2> QED BY <2>1, <2>2, <2>3 DEF ReferentialIntegrity, RequestRefs, ReviewRefs, MembershipRefs
<1> QED BY <1>1, <1>2

\* The steps that create identities, groups, requests and reviews, or write a
\* request or a review.
LEMMA RowStepKeepsRefs ==
    ASSUME TypeOK, ReferentialIntegrity,
           \/ \E i \in Identities : IdentityUpserted(i)
           \/ \E s \in Syncers : UpsertGroups(s)
           \/ Requesting \/ Reviewing
           \/ \E a \in Admins : CloseRequest(a) \/ CloseReview(a)
    PROVE  ReferentialIntegrity'
<1>1. ASSUME NEW i \in Identities, IdentityUpserted(i) PROVE ReferentialIntegrity'
  BY <1>1 DEF TypeOK, ReferentialIntegrity, IdentityUpserted, Upserted
<1>2. ASSUME NEW s \in Syncers, UpsertGroups(s) PROVE ReferentialIntegrity'
  <2>1. \A g \in Groups : group[g].live => group'[g].live
    BY <1>2 DEF TypeOK, UpsertGroups, Upserted
  <2>2. \A r \in RequestRow \cup ReviewRow : r.pair[2] \in Groups
    BY DEF RequestRow, ReviewRow, Pairs
  <2>3. \A q \in Requests : Exists(request[q]) => request[q] \in RequestRow
    BY RowsExist DEF TypeOK
  <2>4. \A v \in Reviews : Exists(review[v]) => review[v] \in ReviewRow
    BY RowsExist DEF TypeOK
  <2> QED BY <1>2, <2>1, <2>2, <2>3, <2>4 DEF ReferentialIntegrity, UpsertGroups, Pairs
<1>3. ASSUME NEW q \in Requests, NEW p \in Pairs, CreateRequest(q, p)
      PROVE  ReferentialIntegrity'
  BY <1>3 DEF TypeOK, ReferentialIntegrity, CreateRequest
<1>4. ASSUME NEW q \in Requests, RejectRequest(q) PROVE ReferentialIntegrity'
  <2>1. request[q] \in RequestRow
    BY <1>4, RowsExist DEF TypeOK, RejectRequest
  <2>2. request'[q].pair = request[q].pair
    BY <1>4, <2>1 DEF TypeOK, RejectRequest, RequestRow
  <2>3. \A r \in Requests \ {q} : request'[r] = request[r]
    BY <1>4 DEF TypeOK, RejectRequest
  <2> QED BY <1>4, <2>2, <2>3 DEF ReferentialIntegrity, RejectRequest
<1>5. ASSUME NEW v \in Reviews, NEW p \in Pairs, CreateReview(v, p)
      PROVE  ReferentialIntegrity'
  BY <1>5 DEF TypeOK, ReferentialIntegrity, CreateReview
<1>6. ASSUME NEW v \in Reviews, ApproveReview(v) PROVE ReferentialIntegrity'
  <2>1. review[v] \in ReviewRow
    BY <1>6, RowsExist DEF TypeOK, ApproveReview
  <2>2. review'[v].pair = review[v].pair
    BY <1>6, <2>1 DEF TypeOK, ApproveReview, ReviewRow
  <2>3. \A r \in Reviews \ {v} : review'[r] = review[r]
    BY <1>6 DEF TypeOK, ApproveReview
  <2> QED BY <1>6, <2>2, <2>3 DEF ReferentialIntegrity, ApproveReview
<1>7. ASSUME NEW a \in Admins,
             (\E q \in Requests : ApproveRequest(a, q)) \/ (\E v \in Reviews : RevokeReview(a, v))
      PROVE  ReferentialIntegrity'
  BY <1>7 DEF ReferentialIntegrity, ApproveRequest, RevokeReview, rows
<1>8. ASSUME NEW a \in Admins, CloseRequest(a) PROVE ReferentialIntegrity'
  <2>1. call[a].row \in Requests
    BY <1>8, CallFields DEF CloseRequest, At
  <2>2. CASE Exists(request[call[a].row])
    <3>1. request[call[a].row] \in RequestRow
      BY <2>1, <2>2, RowsExist DEF TypeOK
    <3>2. request'[call[a].row].pair = request[call[a].row].pair
      BY <1>8, <2>1, <2>2, <3>1 DEF TypeOK, CloseRequest, RequestRow
    <3>3. \A r \in Requests \ {call[a].row} : request'[r] = request[r]
      BY <1>8, <2>1, <2>2 DEF TypeOK, CloseRequest
    <3> QED BY <1>8, <2>1, <2>2, <3>2, <3>3 DEF ReferentialIntegrity, CloseRequest
  <2>3. CASE ~Exists(request[call[a].row])
    BY <1>8, <2>3 DEF ReferentialIntegrity, CloseRequest
  <2> QED BY <2>2, <2>3
<1>9. ASSUME NEW a \in Admins, CloseReview(a) PROVE ReferentialIntegrity'
  <2>1. call[a].row \in Reviews
    BY <1>9, CallFields DEF CloseReview, At
  <2>2. CASE Exists(review[call[a].row])
    <3>1. review[call[a].row] \in ReviewRow
      BY <2>1, <2>2, RowsExist DEF TypeOK
    <3>2. review'[call[a].row].pair = review[call[a].row].pair
      BY <1>9, <2>1, <2>2, <3>1 DEF TypeOK, CloseReview, ReviewRow
    <3>3. \A r \in Reviews \ {call[a].row} : review'[r] = review[r]
      BY <1>9, <2>1, <2>2 DEF TypeOK, CloseReview
    <3> QED BY <1>9, <2>1, <2>2, <3>2, <3>3 DEF ReferentialIntegrity, CloseReview
  <2>3. CASE ~Exists(review[call[a].row])
    BY <1>9, <2>3 DEF ReferentialIntegrity, CloseReview
  <2> QED BY <2>2, <2>3
<1> QED BY <1>1, <1>2, <1>3, <1>4, <1>5, <1>6, <1>7, <1>8, <1>9 DEF Requesting, Reviewing

\* The steps that write memberships, and those that write no row of the three.
LEMMA MembershipStepKeepsRefs ==
    ASSUME TypeOK, ReferentialIntegrity,
           \/ GoogleEdits
           \/ \E a \in Admins : CallStep(a) /\ ~CloseRequest(a) /\ ~CloseReview(a)
           \/ \E s \in Syncers : SyncStep(s) /\ ~UpsertGroups(s) /\ ~RemoveStaleGroups(s)
    PROVE  ReferentialIntegrity'
<1>1. CASE GoogleEdits
  BY <1>1
     DEF GoogleEdits, EditMember, DeleteAccount, DeleteGroup, Edit, rows,
         ReferentialIntegrity
<1>2. ASSUME NEW a \in Admins, CallStep(a), ~CloseRequest(a), ~CloseReview(a)
      PROVE  ReferentialIntegrity'
  <2>1. ASSUME UpsertMembership(a) PROVE ReferentialIntegrity'
    BY <2>1 DEF TypeOK, ReferentialIntegrity, UpsertMembership, RowsFound, Refers
  <2>2. ASSUME DeleteMembership(a) PROVE ReferentialIntegrity'
    BY <2>2 DEF TypeOK, ReferentialIntegrity, DeleteMembership
  <2>3. ASSUME Lookup(a) \/ InsertMember(a) \/ DeleteMember(a) \/ AuditChange(a) \/ CallFails(a)
        PROVE  ReferentialIntegrity'
    BY <2>3
       DEF ReferentialIntegrity, Lookup, InsertMember, DeleteMember, AuditChange, CallFails,
           rows
  <2> QED BY <1>2, <2>1, <2>2, <2>3 DEF CallStep
<1>3. ASSUME NEW s \in Syncers, SyncStep(s), ~UpsertGroups(s), ~RemoveStaleGroups(s)
      PROVE  ReferentialIntegrity'
  <2>1. ASSUME NEW p \in Pairs, UpsertMember(s, p) PROVE ReferentialIntegrity'
    BY <2>1 DEF TypeOK, ReferentialIntegrity, UpsertMember, Refers
  <2>2. ASSUME RemoveStaleMemberships(s) PROVE ReferentialIntegrity'
    BY <2>2 DEF TypeOK, ReferentialIntegrity, RemoveStaleMemberships
  <2>3. ASSUME FetchGroups(s) \/ ReadIdentities(s) \/ SyncFails(s)
        PROVE  ReferentialIntegrity'
    BY <2>3 DEF ReferentialIntegrity, FetchGroups, ReadIdentities, SyncFails, rows
  <2> QED BY <1>3, <2>1, <2>2, <2>3 DEF SyncStep
<1> QED BY <1>1, <1>2, <1>3

\* A step leaves no row that names a deleted one.
LEMMA NextRefs == TypeOK /\ ReferentialIntegrity /\ [Next]_vars => ReferentialIntegrity'
<1> SUFFICES ASSUME TypeOK, ReferentialIntegrity, [Next]_vars PROVE ReferentialIntegrity'
  OBVIOUS
<1>1. CASE Next
  BY <1>1, RemovalKeepsRefs, RowStepKeepsRefs, MembershipStepKeepsRefs
     DEF Next, IdentitySync, CallStep, SyncStep
<1>2. CASE UNCHANGED vars
  BY <1>2 DEF vars, rows, ReferentialIntegrity
<1> QED BY <1>1, <1>2

\* No interleaving of the handlers leaves a row that names a deleted one.
THEOREM NoDanglingRows == Spec => []ReferentialIntegrity
<1>1. Init => ReferentialIntegrity
  BY RowsExist DEF Init, ReferentialIntegrity
<1> QED BY <1>1, NextRefs, TypeCorrect, PTL DEF Spec

(***************************************************************************)
(* Decisions                                                               *)
(***************************************************************************)

\* A request or a review keeps its pair until a cascade deletes it, so the
\* pair a call read is the pair of the row it closes; and a call that is about
\* to close the row has written its audit event.
CallAgrees(a) ==
    call[a] # Idle =>
        /\ call[a].op = "approve" => /\ request[call[a].row] # NoRow
                                     /\ Exists(request[call[a].row]) =>
                                          request[call[a].row].pair = call[a].pair
        /\ call[a].op = "revoke" => /\ review[call[a].row] # NoRow
                                    /\ Exists(review[call[a].row]) =>
                                         review[call[a].row].pair = call[a].pair
        /\ call[a].pc = "close" =>
             <<IF call[a].op = "approve" THEN "granted" ELSE "revoked", call[a].pair>> \in audit

DecisionInv ==
    /\ TypeOK
    /\ DecisionsAreAudited
    /\ \A a \in Admins : CallAgrees(a)

\* What the other steps may do to the requests: a row is created, changes its
\* status to anything but APPLIED, or is deleted.
RequestsEvolve ==
    \A q \in Requests :
        \/ request[q] = NoRow
        \/ request'[q] = request[q]
        \/ request'[q] = Deleted
        \/ request'[q] \in RequestRow /\ request[q] \in RequestRow
             /\ request'[q].pair = request[q].pair /\ request'[q].status # "APPLIED"
NewRequestsPend ==
    \A q \in Requests : request[q] = NoRow => request'[q] = NoRow \/ request'[q].status # "APPLIED"
ReviewsEvolve ==
    \A v \in Reviews :
        \/ review[v] = NoRow
        \/ review'[v] = review[v]
        \/ review'[v] = Deleted
        \/ review'[v] \in ReviewRow /\ review[v] \in ReviewRow
             /\ review'[v].pair = review[v].pair /\ review'[v].status # "REVOKED"
NewReviewsPend ==
    \A v \in Reviews : review[v] = NoRow => review'[v] = NoRow \/ review'[v].status # "REVOKED"

\* Under such a step the decisions that were taken stay audited.
LEMMA EvolutionKeepsDecisions ==
    ASSUME TypeOK, DecisionsAreAudited, RequestsEvolve, NewRequestsPend,
           ReviewsEvolve, NewReviewsPend, audit \subseteq audit'
    PROVE  DecisionsAreAudited'
<1>1. ASSUME NEW q \in Requests, request'[q].status = "APPLIED"
      PROVE  <<"granted", request'[q].pair>> \in audit'
  BY <1>1 DEF DecisionsAreAudited, RequestsEvolve, NewRequestsPend, Deleted, NoRow
<1>2. ASSUME NEW v \in Reviews, review'[v].status = "REVOKED"
      PROVE  <<"revoked", review'[v].pair>> \in audit'
  BY <1>2 DEF DecisionsAreAudited, ReviewsEvolve, NewReviewsPend, Deleted, NoRow
<1> QED BY <1>1, <1>2 DEF DecisionsAreAudited

\* And a call that the step leaves alone still agrees with its row.
LEMMA EvolutionKeepsCall ==
    ASSUME TypeOK, NEW a \in Admins, CallAgrees(a), RequestsEvolve, ReviewsEvolve,
           audit \subseteq audit', call'[a] = call[a]
    PROVE  CallAgrees(a)'
<1>1. CASE call[a] = Idle
  BY <1>1 DEF CallAgrees
<1>2. CASE call[a] # Idle /\ call[a].op = "approve"
  BY <1>2, CallFields, RowsExist DEF CallAgrees, RequestsEvolve, Deleted, NoRow
<1>3. CASE call[a] # Idle /\ call[a].op = "revoke"
  BY <1>3, CallFields, RowsExist DEF CallAgrees, ReviewsEvolve, Deleted, NoRow
<1> QED BY <1>1, <1>2, <1>3, CallFields

\* Every step but the two that close a row is such a step.
LEMMA StepsEvolve ==
    ASSUME TypeOK, Next, \A a \in Admins : ~CloseRequest(a) /\ ~CloseReview(a)
    PROVE  /\ RequestsEvolve /\ NewRequestsPend
           /\ ReviewsEvolve /\ NewReviewsPend
           /\ audit \subseteq audit'
<1> DEFINE Claim == /\ RequestsEvolve /\ NewRequestsPend
                    /\ ReviewsEvolve /\ NewReviewsPend
                    /\ audit \subseteq audit'
<1>1. ASSUME UNCHANGED <<request, review>>, audit \subseteq audit' PROVE Claim
  BY <1>1 DEF RequestsEvolve, NewRequestsPend, ReviewsEvolve, NewReviewsPend
<1>2. CASE GoogleEdits
  BY <1>1, <1>2 DEF GoogleEdits, EditMember, DeleteAccount, DeleteGroup, Edit, rows
<1>3. ASSUME NEW doomed, request' = Cascade(request, doomed),
             review' = Cascade(review, doomed),
             audit' = audit
      PROVE  Claim
  BY <1>3, RowsExist
     DEF TypeOK, Cascade, RequestsEvolve, NewRequestsPend, ReviewsEvolve, NewReviewsPend
<1>4. CASE IdentitySync
  BY <1>1, <1>3, <1>4 DEF IdentitySync, IdentityUpserted, IdentityRemoved
<1>5. CASE Requesting
  <2>1. ASSUME NEW q \in Requests, NEW p \in Pairs, CreateRequest(q, p) PROVE Claim
    BY <2>1
       DEF TypeOK, CreateRequest, RequestsEvolve, NewRequestsPend, ReviewsEvolve,
           NewReviewsPend
  <2>2. ASSUME NEW q \in Requests, RejectRequest(q) PROVE Claim
    <3>1. request[q] \in RequestRow /\ request[q] # NoRow
      BY <2>2, RowsExist DEF TypeOK, RejectRequest
    <3>2. request'[q] \in RequestRow /\ request'[q].pair = request[q].pair
            /\ request'[q].status = "REJECTED"
      BY <2>2, <3>1 DEF TypeOK, RejectRequest, RequestRow, RequestStatus
    <3>3. \A r \in Requests \ {q} : request'[r] = request[r]
      BY <2>2 DEF TypeOK, RejectRequest
    <3>4. RequestsEvolve /\ NewRequestsPend
      BY <3>1, <3>2, <3>3 DEF RequestsEvolve, NewRequestsPend
    <3> QED BY <2>2, <3>4 DEF RejectRequest, ReviewsEvolve, NewReviewsPend
  <2>3. ASSUME NEW a \in Admins, NEW q \in Requests, ApproveRequest(a, q) PROVE Claim
    BY <1>1, <2>3 DEF ApproveRequest, rows
  <2> QED BY <1>5, <2>1, <2>2, <2>3 DEF Requesting
<1>6. CASE Reviewing
  <2>1. ASSUME NEW v \in Reviews, NEW p \in Pairs, CreateReview(v, p) PROVE Claim
    BY <2>1
       DEF TypeOK, CreateReview, RequestsEvolve, NewRequestsPend, ReviewsEvolve,
           NewReviewsPend
  <2>2. ASSUME NEW v \in Reviews, ApproveReview(v) PROVE Claim
    <3>1. review[v] \in ReviewRow /\ review[v] # NoRow
      BY <2>2, RowsExist DEF TypeOK, ApproveReview
    <3>2. review'[v] \in ReviewRow /\ review'[v].pair = review[v].pair
            /\ review'[v].status = "APPROVED"
      BY <2>2, <3>1 DEF TypeOK, ApproveReview, ReviewRow, ReviewStatus
    <3>3. \A r \in Reviews \ {v} : review'[r] = review[r]
      BY <2>2 DEF TypeOK, ApproveReview
    <3>4. ReviewsEvolve /\ NewReviewsPend
      BY <3>1, <3>2, <3>3 DEF ReviewsEvolve, NewReviewsPend
    <3> QED BY <2>2, <3>4 DEF ApproveReview, RequestsEvolve, NewRequestsPend
  <2>3. ASSUME NEW a \in Admins, NEW v \in Reviews, RevokeReview(a, v) PROVE Claim
    BY <1>1, <2>3 DEF RevokeReview, rows
  <2> QED BY <1>6, <2>1, <2>2, <2>3 DEF Reviewing
<1>7. ASSUME NEW a \in Admins, CallStep(a) PROVE Claim
  BY <1>1, <1>7
     DEF CallStep, Lookup, InsertMember, DeleteMember, UpsertMembership, DeleteMembership,
         AuditChange, CallFails, rows
<1>8. ASSUME NEW s \in Syncers, SyncStep(s) PROVE Claim
  <2>1. ASSUME RemoveStaleGroups(s) PROVE Claim
    BY <1>3, <2>1 DEF RemoveStaleGroups
  <2> QED BY <1>1, <1>8, <2>1 DEF SyncStep, FetchGroups, ReadIdentities, UpsertGroups, UpsertMember,
          RemoveStaleMemberships, SyncFails, rows
<1> QED BY <1>2, <1>4, <1>5, <1>6, <1>7, <1>8 DEF Next

\* The calls that such a step does move: they start on the row they name, or
\* write the audit event before they come to the close.
LEMMA MovedCallsAgree ==
    ASSUME TypeOK, Next, \A a \in Admins : ~CloseRequest(a) /\ ~CloseReview(a),
           NEW a \in Admins, CallAgrees(a), call'[a] # call[a]
    PROVE  CallAgrees(a)'
<1>1. ASSUME NEW b \in Admins, NEW q \in Requests, ApproveRequest(b, q) PROVE CallAgrees(a)'
  <2>1. b = a /\ call'[a] = CallOn("approve", q, request[q].pair)
    BY <1>1 DEF TypeOK, ApproveRequest
  <2>2. request'[q] = request[q] /\ request[q] # NoRow
    BY <1>1, RowsExist DEF ApproveRequest, rows
  <2> QED BY <2>1, <2>2 DEF CallAgrees, CallOn
<1>2. ASSUME NEW b \in Admins, NEW v \in Reviews, RevokeReview(b, v) PROVE CallAgrees(a)'
  <2>1. b = a /\ call'[a] = CallOn("revoke", v, review[v].pair)
    BY <1>2 DEF TypeOK, RevokeReview
  <2>2. review'[v] = review[v] /\ review[v] # NoRow
    BY <1>2, RowsExist DEF RevokeReview, rows
  <2> QED BY <2>1, <2>2 DEF CallAgrees, CallOn
<1>3. ASSUME NEW b \in Admins, CallStep(b) PROVE CallAgrees(a)'
  <2>1. call[b] # Idle
    BY <1>3
       DEF CallStep, Lookup, InsertMember, DeleteMember, UpsertMembership, DeleteMembership,
           AuditChange, CloseRequest, CloseReview, CallFails, At, Idle
  <2>2. UNCHANGED <<request, review>>
    BY <1>3
       DEF CallStep, Lookup, InsertMember, DeleteMember, UpsertMembership, DeleteMembership,
           AuditChange, CallFails, rows
  <2>3. b = a
    BY <1>3
       DEF TypeOK, CallStep, Lookup, InsertMember, DeleteMember, UpsertMembership,
           DeleteMembership, AuditChange, CallFails, Goto, Stop
  <2>4. call[a].pc \in CallSteps /\ call[a] \in ApproveCall \cup RevokeCall
    BY <2>1, <2>3 DEF TypeOK, ApproveCall, RevokeCall
  <2>5. CASE Stop(a)
    BY <2>5 DEF TypeOK, Stop, CallAgrees
  <2>6. ASSUME NEW pc \in {"google", "mirror", "audit"}, Goto(a, pc) PROVE CallAgrees(a)'
    <3>1. call'[a] = [call[a] EXCEPT !.pc = pc]
      BY <2>6 DEF TypeOK, Goto
    <3>2. call'[a].op = call[a].op /\ call'[a].row = call[a].row /\ call'[a].pair = call[a].pair
            /\ call'[a].pc = pc
      BY <2>4, <3>1 DEF ApproveCall, RevokeCall
    <3> QED BY <2>1, <2>2, <2>3, <3>2 DEF CallAgrees
  <2>7. CASE AuditChange(a)
    <3>1. call'[a] = [call[a] EXCEPT !.pc = "close"]
      BY <2>7 DEF TypeOK, AuditChange, Goto
    <3>2. call'[a].op = call[a].op /\ call'[a].row = call[a].row
            /\ call'[a].pair = call[a].pair
      BY <2>4, <3>1 DEF ApproveCall, RevokeCall
    <3> QED BY <2>1, <2>2, <2>3, <2>7, <3>2 DEF CallAgrees, AuditChange
  <2> QED BY <1>3, <2>3, <2>5, <2>6, <2>7 DEF CallStep, Lookup, InsertMember, DeleteMember,
          UpsertMembership, DeleteMembership, CallFails
<1>4. GoogleEdits \/ IdentitySync => UNCHANGED call
  BY DEF GoogleEdits, EditMember, DeleteAccount, DeleteGroup, Edit, IdentitySync,
         IdentityUpserted, IdentityRemoved
<1>5. \A q \in Requests, p \in Pairs, v \in Reviews :
        CreateRequest(q, p) \/ RejectRequest(q) \/ CreateReview(v, p) \/ ApproveReview(v)
          => UNCHANGED call
  BY DEF CreateRequest, RejectRequest, CreateReview, ApproveReview
<1>6. \A s \in Syncers : SyncStep(s) => UNCHANGED call
  BY DEF SyncStep, FetchGroups, ReadIdentities, UpsertGroups, UpsertMember,
         RemoveStaleGroups, RemoveStaleMemberships, SyncFails
<1>7. Requesting \/ Reviewing => CallAgrees(a)'
  <2>1. ASSUME NEW q \in Requests, NEW p \in Pairs, CreateRequest(q, p) PROVE FALSE
    BY <2>1 DEF CreateRequest
  <2>2. ASSUME NEW q \in Requests, RejectRequest(q) PROVE FALSE
    BY <2>2 DEF RejectRequest
  <2>3. ASSUME NEW v \in Reviews, NEW p \in Pairs, CreateReview(v, p) PROVE FALSE
    BY <2>3 DEF CreateReview
  <2>4. ASSUME NEW v \in Reviews, ApproveReview(v) PROVE FALSE
    BY <2>4 DEF ApproveReview
  <2> QED BY <1>1, <1>2, <2>1, <2>2, <2>3, <2>4 DEF Requesting, Reviewing
<1> QED BY <1>3, <1>4, <1>6, <1>7 DEF Next

\* A call that closes its row has audited the pair of the row.
LEMMA CloseKeepsDecisions ==
    ASSUME DecisionInv, NEW a \in Admins, CloseRequest(a) \/ CloseReview(a)
    PROVE  DecisionsAreAudited' /\ \A b \in Admins : CallAgrees(b)'
<1>1. ASSUME CloseRequest(a) PROVE DecisionsAreAudited' /\ \A b \in Admins : CallAgrees(b)'
  <2> DEFINE q == call[a].row
  <2>1. call[a] # Idle /\ q \in Requests
    BY <1>1, CallFields DEF DecisionInv, CloseRequest, At
  <2>2. request'[q] = IF Exists(request[q]) THEN [request[q] EXCEPT !.status = "APPLIED"] ELSE request[q]
    BY <1>1, <2>1 DEF DecisionInv, TypeOK, CloseRequest
  <2>3. \A r \in Requests \ {q} : request'[r] = request[r]
    BY <1>1, <2>1 DEF DecisionInv, TypeOK, CloseRequest
  <2>4. Exists(request[q]) => request[q] \in RequestRow
    BY <2>1, RowsExist DEF DecisionInv, TypeOK
  <2>5. Exists(request[q]) =>
          request'[q] \in RequestRow /\ request'[q].pair = request[q].pair
    BY <2>2, <2>4 DEF RequestRow, RequestStatus
  <2>6. Exists(request[q]) => <<"granted", request[q].pair>> \in audit
    BY <1>1, <2>1 DEF DecisionInv, CallAgrees, CloseRequest, At
  <2>7. UNCHANGED <<review, audit>>
          /\ \A b \in Admins : call'[b] = IF b = a THEN Idle ELSE call[b]
    BY <1>1 DEF DecisionInv, TypeOK, CloseRequest, Stop
  <2>8. DecisionsAreAudited'
    BY <2>2, <2>3, <2>5, <2>6, <2>7 DEF DecisionInv, DecisionsAreAudited
  <2>9. ASSUME NEW b \in Admins, b # a, call[b] # Idle PROVE CallAgrees(b)'
    <3>1. call'[b] = call[b] /\ CallAgrees(b)
      BY <2>7, <2>9 DEF DecisionInv
    <3>2. CASE call[b].op = "approve" /\ call[b].row = q
      BY <2>2, <2>4, <2>5, <2>7, <3>1, <3>2, RowsExist DEF CallAgrees
    <3>3. CASE call[b].op = "approve" /\ call[b].row # q
      <4>1. call[b].row \in Requests
        BY <2>9, <3>3, CallFields DEF DecisionInv
      <4> QED BY <2>3, <2>7, <3>1, <3>3, <4>1 DEF CallAgrees
    <3>4. CASE call[b].op = "revoke"
      BY <2>7, <3>1, <3>4 DEF CallAgrees
    <3> QED BY <2>9, <3>2, <3>3, <3>4, CallFields DEF DecisionInv
  <2> QED BY <2>7, <2>8, <2>9 DEF CallAgrees
<1>2. ASSUME CloseReview(a) PROVE DecisionsAreAudited' /\ \A b \in Admins : CallAgrees(b)'
  <2> DEFINE v == call[a].row
  <2>1. call[a] # Idle /\ v \in Reviews
    BY <1>2, CallFields DEF DecisionInv, CloseReview, At
  <2>2. review'[v] = IF Exists(review[v]) THEN [review[v] EXCEPT !.status = "REVOKED"] ELSE review[v]
    BY <1>2, <2>1 DEF DecisionInv, TypeOK, CloseReview
  <2>3. \A r \in Reviews \ {v} : review'[r] = review[r]
    BY <1>2, <2>1 DEF DecisionInv, TypeOK, CloseReview
  <2>4. Exists(review[v]) => review[v] \in ReviewRow
    BY <2>1, RowsExist DEF DecisionInv, TypeOK
  <2>5. Exists(review[v]) => review'[v] \in ReviewRow /\ review'[v].pair = review[v].pair
    BY <2>2, <2>4 DEF ReviewRow, ReviewStatus
  <2>6. Exists(review[v]) => <<"revoked", review[v].pair>> \in audit
    BY <1>2, <2>1 DEF DecisionInv, CallAgrees, CloseReview, At
  <2>7. UNCHANGED <<request, audit>>
          /\ \A b \in Admins : call'[b] = IF b = a THEN Idle ELSE call[b]
    BY <1>2 DEF DecisionInv, TypeOK, CloseReview, Stop
  <2>8. DecisionsAreAudited'
    BY <2>2, <2>3, <2>5, <2>6, <2>7 DEF DecisionInv, DecisionsAreAudited
  <2>9. ASSUME NEW b \in Admins, b # a, call[b] # Idle PROVE CallAgrees(b)'
    <3>1. call'[b] = call[b] /\ CallAgrees(b)
      BY <2>7, <2>9 DEF DecisionInv
    <3>2. CASE call[b].op = "revoke" /\ call[b].row = v
      BY <2>2, <2>4, <2>5, <2>7, <3>1, <3>2, RowsExist DEF CallAgrees
    <3>3. CASE call[b].op = "revoke" /\ call[b].row # v
      <4>1. call[b].row \in Reviews
        BY <2>9, <3>3, CallFields DEF DecisionInv
      <4> QED BY <2>3, <2>7, <3>1, <3>3, <4>1 DEF CallAgrees
    <3>4. CASE call[b].op = "approve"
      BY <2>7, <3>1, <3>4 DEF CallAgrees
    <3> QED BY <2>9, <3>2, <3>3, <3>4, CallFields DEF DecisionInv
  <2> QED BY <2>7, <2>8, <2>9 DEF CallAgrees
<1> QED BY <1>1, <1>2

\* A request is APPLIED, and a review REVOKED, only with the change in the
\* audit trail.
THEOREM DecisionsAudited == Spec => []DecisionsAreAudited
<1>1. Init => DecisionInv
  BY InitTypes DEF Init, DecisionInv, DecisionsAreAudited, CallAgrees, NoRow
<1>2. DecisionInv /\ [Next]_vars => DecisionInv'
  <2> SUFFICES ASSUME DecisionInv, [Next]_vars PROVE DecisionInv'
    OBVIOUS
  <2>1. TypeOK'
    BY NextTypes DEF DecisionInv
  <2>2. DecisionsAreAudited' /\ \A a \in Admins : CallAgrees(a)'
    <3>1. CASE Next /\ \A a \in Admins : ~CloseRequest(a) /\ ~CloseReview(a)
      <4>1. DecisionsAreAudited'
        BY <3>1, StepsEvolve, EvolutionKeepsDecisions DEF DecisionInv
      <4>2. ASSUME NEW a \in Admins PROVE CallAgrees(a)'
        BY <3>1, StepsEvolve, EvolutionKeepsCall, MovedCallsAgree DEF DecisionInv
      <4> QED BY <4>1, <4>2
    <3>2. CASE \E a \in Admins : CloseRequest(a) \/ CloseReview(a)
      BY <3>2, CloseKeepsDecisions
    <3>3. CASE UNCHANGED vars
      BY <3>3 DEF vars, rows, DecisionInv, DecisionsAreAudited, CallAgrees
    <3> QED BY <3>1, <3>2, <3>3
  <2> QED BY <2>1, <2>2 DEF DecisionInv
<1>3. DecisionInv => DecisionsAreAudited
  BY DEF DecisionInv
<1> QED BY <1>1, <1>2, <1>3, PTL DEF Spec

(***************************************************************************)
(* The mirror                                                              *)
(***************************************************************************)

\* A call that is past Google holds a pair that was a membership in Google.
CallsReal == \A a \in Admins : call[a].pc \in {"mirror", "audit"} => call[a].pair \in everMember

\* So does a sync that holds a listing.
SyncsReal == \A s \in Syncers : sync[s] # Idle => sync[s].todo \subseteq everMember

MirrorInv ==
    /\ TypeOK
    /\ MirrorWasReal
    /\ gMembers \subseteq everMember
    /\ CallsReal
    /\ SyncsReal

\* Memberships are only ever added to the history.
LEMMA EverGrows ==
    ASSUME MirrorInv, [Next]_vars
    PROVE  everMember \subseteq everMember' /\ gMembers' \subseteq everMember'
<1>1. CASE GoogleEdits
  BY <1>1 DEF MirrorInv, GoogleEdits, EditMember, DeleteAccount, DeleteGroup
<1>2. CASE IdentitySync
  BY <1>2 DEF MirrorInv, IdentitySync, IdentityUpserted, IdentityRemoved, google
<1>3. CASE Requesting \/ Reviewing
  BY <1>3
     DEF MirrorInv, Requesting, Reviewing, CreateRequest, RejectRequest, ApproveRequest,
         CreateReview, ApproveReview, RevokeReview, google
<1>4. ASSUME NEW a \in Admins, CallStep(a)
      PROVE  everMember \subseteq everMember' /\ gMembers' \subseteq everMember'
  BY <1>4
     DEF MirrorInv, CallStep, Lookup, InsertMember, DeleteMember, UpsertMembership,
         DeleteMembership, AuditChange, CloseRequest, CloseReview, CallFails, google
<1>5. ASSUME NEW s \in Syncers, SyncStep(s)
      PROVE  everMember \subseteq everMember' /\ gMembers' \subseteq everMember'
  BY <1>5
     DEF MirrorInv, SyncStep, FetchGroups, ReadIdentities, UpsertGroups, UpsertMember,
         RemoveStaleGroups, RemoveStaleMemberships, SyncFails, google
<1>6. CASE UNCHANGED vars
  BY <1>6 DEF MirrorInv, vars, google
<1> QED BY <1>1, <1>2, <1>3, <1>4, <1>5, <1>6 DEF Next

\* A call comes to the mirror only from Google's answer.
LEMMA CallsStayReal ==
    ASSUME MirrorInv, [Next]_vars
    PROVE  CallsReal'
<1> SUFFICES ASSUME NEW a \in Admins, call'[a].pc \in {"mirror", "audit"}
             PROVE  call'[a].pair \in everMember'
  BY DEF CallsReal
<1>1. everMember \subseteq everMember'
  BY EverGrows
<1>2. CASE call'[a] = call[a]
  BY <1>1, <1>2 DEF MirrorInv, CallsReal, SyncsReal
<1>3. CASE call'[a] # call[a]
  <2>1. ASSUME NEW b \in Admins, NEW op \in {"approve", "revoke"}, NEW k, NEW p,
               call' = [call EXCEPT ![b] = CallOn(op, k, p)]
        PROVE  FALSE
    BY <1>3, <2>1 DEF MirrorInv, TypeOK, CallOn
  <2>2. ASSUME NEW b \in Admins, CallStep(b) PROVE call'[a].pair \in everMember'
    <3>1. b = a
      BY <1>3, <2>2
         DEF MirrorInv, TypeOK, CallStep, Lookup, InsertMember, DeleteMember,
             UpsertMembership, DeleteMembership, AuditChange, CloseRequest, CloseReview,
             CallFails, Goto, Stop
    <3>2. call[a] # Idle
      BY <2>2, <3>1
         DEF CallStep, Lookup, InsertMember, DeleteMember, UpsertMembership,
             DeleteMembership, AuditChange, CloseRequest, CloseReview, CallFails, At, Idle
    <3>3. ~Stop(a)
      BY DEF MirrorInv, TypeOK, Stop, Idle
    <3>4. ASSUME NEW pc \in CallSteps, Goto(a, pc)
          PROVE  call'[a].pair = call[a].pair /\ call'[a].pc = pc
      <4>1. call'[a] = [call[a] EXCEPT !.pc = pc] /\ call[a] \in ApproveCall \cup RevokeCall
        BY <3>2, <3>4 DEF MirrorInv, TypeOK, Goto
      <4> QED BY <4>1 DEF ApproveCall, RevokeCall
    <3>5. {"google", "mirror", "audit", "close"} \subseteq CallSteps
      BY DEF CallSteps
    <3>6. CASE Lookup(a) \/ AuditChange(a)
      BY <3>3, <3>4, <3>5, <3>6 DEF Lookup, AuditChange
    <3>7. CASE InsertMember(a)
      BY <3>3, <3>4, <3>5, <3>7 DEF InsertMember
    <3>8. CASE DeleteMember(a)
      BY <1>1, <3>3, <3>4, <3>5, <3>8 DEF MirrorInv, CallsReal, DeleteMember
    <3>9. CASE UpsertMembership(a) \/ DeleteMembership(a)
      <4>1. call[a].pc = "mirror" /\ Goto(a, "audit")
        BY <3>3, <3>9 DEF UpsertMembership, DeleteMembership, At
      <4> QED BY <1>1, <3>4, <3>5, <4>1 DEF MirrorInv, CallsReal
    <3> QED BY <2>2, <3>1, <3>3, <3>6, <3>7, <3>8, <3>9 DEF CallStep, CloseRequest, CloseReview, CallFails
  <2>3. GoogleEdits \/ IdentitySync => UNCHANGED call
    BY DEF GoogleEdits, EditMember, DeleteAccount, DeleteGroup, Edit, IdentitySync,
           IdentityUpserted, IdentityRemoved
  <2>4. Requesting \/ Reviewing => FALSE
    BY <1>3, <2>1
       DEF Requesting, Reviewing, CreateRequest, RejectRequest, ApproveRequest,
           CreateReview, ApproveReview, RevokeReview
  <2>5. \A s \in Syncers : SyncStep(s) => UNCHANGED call
    BY DEF SyncStep, FetchGroups, ReadIdentities, UpsertGroups, UpsertMember,
           RemoveStaleGroups, RemoveStaleMemberships, SyncFails
  <2> QED BY <1>3, <2>2, <2>3, <2>4, <2>5 DEF Next, vars
<1> QED BY <1>2, <1>3

\* A sync holds what Google listed, or less.
LEMMA SyncsStayReal ==
    ASSUME MirrorInv, [Next]_vars
    PROVE  SyncsReal'
<1> SUFFICES ASSUME NEW s \in Syncers, sync'[s] # Idle
             PROVE  sync'[s].todo \subseteq everMember'
  BY DEF SyncsReal
<1> DEFINE Shrinks == sync[s] # Idle /\ sync'[s].todo \subseteq sync[s].todo
<1>1. everMember \subseteq everMember'
  BY EverGrows
<1>2. ASSUME Shrinks PROVE sync'[s].todo \subseteq everMember'
  BY <1>1, <1>2 DEF MirrorInv, CallsReal, SyncsReal
<1>3. ASSUME NEW ps, sync'[s] = Touch(ps)[s] PROVE Shrinks
  <2>1. sync[s] # Idle /\ sync[s] \in SyncCall
    BY <1>3 DEF MirrorInv, TypeOK, Touch
  <2> QED BY <1>3, <2>1 DEF Touch, SyncCall
<1>4. ASSUME UNCHANGED sync PROVE Shrinks
  BY <1>4
<1>5. CASE GoogleEdits
  BY <1>2, <1>3, <1>5 DEF GoogleEdits, EditMember, DeleteAccount, DeleteGroup, Edit
<1>6. CASE IdentitySync \/ Requesting \/ Reviewing
  BY <1>2, <1>4, <1>6
     DEF IdentitySync, IdentityUpserted, IdentityRemoved, Requesting, Reviewing,
         CreateRequest, RejectRequest, ApproveRequest, CreateReview, ApproveReview,
         RevokeReview
<1>7. ASSUME NEW a \in Admins, CallStep(a) PROVE sync'[s].todo \subseteq everMember'
  BY <1>2, <1>3, <1>4, <1>7
     DEF CallStep, Lookup, InsertMember, DeleteMember, UpsertMembership, DeleteMembership,
         AuditChange, CloseRequest, CloseReview, CallFails
<1>8. ASSUME NEW t \in Syncers, SyncStep(t) PROVE sync'[s].todo \subseteq everMember'
  <2>1. ASSUME t # s PROVE Shrinks
    <3>1. (\E ps : sync'[s] = Touch(ps)[s]) \/ sync'[s] = sync[s]
      BY <1>8, <2>1
         DEF MirrorInv, TypeOK, SyncStep, FetchGroups, ReadIdentities, UpsertGroups,
             UpsertMember, RemoveStaleGroups, RemoveStaleMemberships, SyncFails, Proceed,
             Touch
    <3> QED BY <1>3, <3>1
  <2>2. ASSUME t = s, FetchGroups(t) PROVE sync'[s].todo \subseteq everMember'
    BY <1>1, <2>2 DEF MirrorInv, TypeOK, FetchGroups
  <2>3. ASSUME t = s, ReadIdentities(t) \/ UpsertGroups(t) PROVE Shrinks
    <3>1. sync[s] \in SyncCall
      BY <2>3 DEF MirrorInv, TypeOK, ReadIdentities, UpsertGroups, Idle
    <3> QED BY <2>3, <3>1 DEF MirrorInv, TypeOK, ReadIdentities, UpsertGroups, SyncCall, Idle
  <2>4. ASSUME t = s, NEW p \in Pairs, UpsertMember(t, p) PROVE Shrinks
    <3>1. sync[s] \in SyncCall
      BY <2>4 DEF MirrorInv, TypeOK, UpsertMember, Idle
    <3>2. sync'[s] = [sync[s] EXCEPT !.todo = @ \ {p}]
      BY <2>4 DEF MirrorInv, TypeOK, UpsertMember, Proceed, Touch
    <3> QED BY <2>4, <3>1, <3>2 DEF SyncCall, UpsertMember, Idle
  <2>5. ASSUME t = s, RemoveStaleGroups(t) PROVE Shrinks
    <3>1. sync[s] \in SyncCall
      BY <2>5 DEF MirrorInv, TypeOK, RemoveStaleGroups, Idle
    <3>2. sync'[s] = [sync[s] EXCEPT !.pc = "stale"]
      BY <2>5 DEF RemoveStaleGroups, Proceed, Touch
    <3> QED BY <2>5, <3>1, <3>2 DEF SyncCall, RemoveStaleGroups, Idle
  <2>6. ASSUME t = s, RemoveStaleMemberships(t) \/ SyncFails(t) PROVE FALSE
    BY <2>6 DEF MirrorInv, TypeOK, RemoveStaleMemberships, SyncFails, Proceed, Touch
  <2> QED BY <1>2, <1>8, <2>1, <2>2, <2>3, <2>4, <2>5, <2>6 DEF SyncStep
<1>9. CASE UNCHANGED vars
  BY <1>2, <1>4, <1>9 DEF vars
<1> QED BY <1>5, <1>6, <1>7, <1>8, <1>9 DEF Next

\* So what they write into the mirror and the audit trail was real.
LEMMA MirrorStaysReal ==
    ASSUME MirrorInv, [Next]_vars
    PROVE  MirrorWasReal'
<1>1. everMember \subseteq everMember'
  BY EverGrows
<1> DEFINE Rows == \A p \in Pairs : membership'[p] # "none" => membership[p] # "none" \/ p \in everMember
           Trail == \A e \in audit' : e \in audit \/ e[2] \in everMember
<1>2. ASSUME Rows, Trail PROVE MirrorWasReal'
  BY <1>1, <1>2 DEF MirrorInv, MirrorWasReal
<1>3. CASE GoogleEdits
  BY <1>2, <1>3 DEF GoogleEdits, EditMember, DeleteAccount, DeleteGroup, Edit, rows
<1>4. CASE IdentitySync
  <2>1. Rows /\ audit' = audit
    BY <1>4 DEF IdentitySync, IdentityUpserted, IdentityRemoved
  <2> QED BY <1>2, <2>1
<1>5. CASE Requesting \/ Reviewing
  <2>1. UNCHANGED <<membership, audit>>
    BY <1>5
       DEF Requesting, Reviewing, CreateRequest, RejectRequest, ApproveRequest,
           CreateReview, ApproveReview, RevokeReview, rows
  <2> QED BY <1>2, <2>1
<1>6. ASSUME NEW a \in Admins, CallStep(a) PROVE MirrorWasReal'
  <2>1. CASE UpsertMembership(a)
    BY <1>2, <2>1 DEF MirrorInv, CallsReal, TypeOK, UpsertMembership, At
  <2>2. CASE DeleteMembership(a)
    BY <1>2, <2>2 DEF MirrorInv, TypeOK, DeleteMembership
  <2>3. CASE AuditChange(a)
    BY <1>2, <2>3 DEF MirrorInv, CallsReal, AuditChange
  <2> QED BY <1>2, <1>6, <2>1, <2>2, <2>3 DEF CallStep, Lookup, InsertMember, DeleteMember,
          CloseRequest, CloseReview, CallFails, rows
<1>7. ASSUME NEW s \in Syncers, SyncStep(s) PROVE MirrorWasReal'
  <2>1. ASSUME NEW p \in Pairs, UpsertMember(s, p) PROVE MirrorWasReal'
    <3>1. p \in everMember
      BY <2>1 DEF MirrorInv, SyncsReal, UpsertMember, Idle
    <3>2. Rows /\ audit' = audit
      BY <2>1, <3>1 DEF MirrorInv, TypeOK, UpsertMember
    <3> QED BY <1>2, <3>2
  <2>2. CASE RemoveStaleGroups(s) \/ RemoveStaleMemberships(s)
    <3>1. Rows /\ audit' = audit
      BY <2>2 DEF RemoveStaleGroups, RemoveStaleMemberships
    <3> QED BY <1>2, <3>1
  <2> QED BY <1>2, <1>7, <2>1, <2>2 DEF SyncStep, FetchGroups, ReadIdentities, UpsertGroups, SyncFails, rows
<1>8. CASE UNCHANGED vars
  BY <1>2, <1>8 DEF vars, rows
<1> QED BY <1>3, <1>4, <1>5, <1>6, <1>7, <1>8 DEF Next

\* The mirror and the audit trail name only memberships that Google had.
THEOREM MirrorReal == Spec => []MirrorWasReal
<1>1. Init => MirrorInv
  BY InitTypes DEF Init, MirrorInv, CallsReal, SyncsReal, MirrorWasReal, Idle
<1>2. MirrorInv /\ [Next]_vars => MirrorInv'
  BY NextTypes, EverGrows, CallsStayReal, SyncsStayReal, MirrorStaysReal DEF MirrorInv
<1>3. MirrorInv => MirrorWasReal
  BY DEF MirrorInv
<1> QED BY <1>1, <1>2, <1>3, PTL DEF Spec

(***************************************************************************)
(* What a sync knows                                                       *)
(***************************************************************************)

\* Google has no membership in a group that is gone.
GoogleHasGroups == \A p \in gMembers : p[2] \in gGroups

\* But for what was touched, the listing of a sync is what Google has, and the
\* memberships upserted so far are in the mirror, under the group rows it saved.
Exact(r, members, mirror, groups) ==
    /\ r.pc \in {"identities", "groups"} => r.todo = r.members
    /\ r.pc = "stale" => r.todo = {}
    /\ \A p \in r.members : p[2] \in r.groups
    /\ \A p \in Pairs \ r.touched : p \in r.members <=> p \in members
    /\ \A p \in (r.members \ r.todo) \ r.touched :
          mirror[p] # "none" /\ Refers(groups[p[2]], r.saved[p[2]])

SyncsExact == \A s \in Syncers : sync[s] # Idle => Exact(sync[s], gMembers, membership, group)

ExactInv == TypeOK /\ ReferentialIntegrity /\ GoogleHasGroups /\ SyncsExact

\* A step changes Google, the mirror and the groups under the mirror's rows for
\* the memberships of ps only.
Beside(ps) ==
    /\ \A p \in Pairs \ ps : p \in gMembers' <=> p \in gMembers
    /\ \A p \in Pairs \ ps : membership[p] # "none" =>
          membership'[p] # "none" /\ group'[p[2]] = group[p[2]]

\* A sync goes on as it was, but for ps being touched.
Told(r, q, ps) ==
    /\ r # Idle
    /\ q.pc = r.pc /\ q.groups = r.groups /\ q.members = r.members /\ q.todo = r.todo
    /\ q.saved = r.saved
    /\ r.touched \cup ps \subseteq q.touched

\* A sync that is told what a step changes beside it still knows what it knew.
LEMMA ToldStaysExact ==
    ASSUME ExactInv, NEW s \in Syncers, NEW ps, Beside(ps), Told(sync[s], sync'[s], ps)
    PROVE  Exact(sync'[s], gMembers', membership', group')
<1> DEFINE r == sync[s]
           q == sync'[s]
<1>1. r \in SyncCall /\ Exact(r, gMembers, membership, group)
  BY DEF ExactInv, TypeOK, SyncsExact, Told
<1>2. r.members \subseteq Pairs
  BY <1>1 DEF SyncCall
<1>3. /\ q.pc = r.pc /\ q.groups = r.groups /\ q.members = r.members /\ q.todo = r.todo
      /\ q.saved = r.saved
      /\ \A p \in Pairs \ q.touched : p \in Pairs \ r.touched /\ p \in Pairs \ ps
  BY DEF Told
<1>4. \A p \in Pairs \ q.touched : p \in q.members <=> p \in gMembers'
  BY <1>1, <1>3 DEF Exact, Beside
<1>5. ASSUME NEW p \in (q.members \ q.todo) \ q.touched
      PROVE  membership'[p] # "none" /\ Refers(group'[p[2]], q.saved[p[2]])
  <2>1. p \in Pairs \ ps /\ p \in (r.members \ r.todo) \ r.touched
    BY <1>2, <1>3, <1>5
  <2>2. membership[p] # "none" /\ Refers(group[p[2]], r.saved[p[2]])
    BY <1>1, <2>1 DEF Exact
  <2> QED BY <1>3, <2>1, <2>2 DEF Beside
<1>6. /\ q.pc \in {"identities", "groups"} => q.todo = q.members
      /\ q.pc = "stale" => q.todo = {}
      /\ \A p \in q.members : p[2] \in q.groups
  BY <1>1, <1>3 DEF Exact
<1> QED BY <1>4, <1>5, <1>6 DEF Exact

\* Touch tells every sync, and an untouched one is told of nothing.
LEMMA TouchTells ==
    ASSUME TypeOK, NEW s \in Syncers, NEW ps, sync'[s] = Touch(ps)[s], sync'[s] # Idle
    PROVE  Told(sync[s], sync'[s], ps)
<1>1. sync[s] # Idle /\ sync[s] \in SyncCall
  BY DEF TypeOK, Touch
<1>2. sync'[s] = [sync[s] EXCEPT !.touched = @ \cup ps]
  BY <1>1 DEF Touch
<1> QED BY <1>1, <1>2 DEF Told, SyncCall

LEMMA UntouchedTold ==
    ASSUME NEW s \in Syncers, sync'[s] = sync[s], sync'[s] # Idle
    PROVE  Told(sync[s], sync'[s], {})
BY DEF Told

\* A step that touches what it changes leaves every sync exact.
LEMMA TouchingStep ==
    ASSUME ExactInv, NEW ps, Beside(ps), sync' = Touch(ps)
    PROVE  SyncsExact'
BY TouchTells, ToldStaysExact DEF ExactInv, SyncsExact

\* So does one that changes nothing of it.
LEMMA QuietStep ==
    ASSUME ExactInv, Beside({}), UNCHANGED sync
    PROVE  SyncsExact'
BY UntouchedTold, ToldStaysExact DEF SyncsExact

LEMMA UnchangedIsBeside ==
    ASSUME UNCHANGED <<gMembers, membership, group>>
    PROVE  Beside({})
BY DEF Beside

(***************************************************************************)
(* The steps of others                                                     *)
(***************************************************************************)

LEMMA EnvironmentExact ==
    ASSUME ExactInv, GoogleEdits \/ IdentitySync
    PROVE  SyncsExact'
<1>1. ASSUME NEW p \in Pairs, EditMember(p) PROVE SyncsExact'
  <2>1. Beside({p})
    BY <1>1 DEF Beside, EditMember, Edit, rows
  <2> QED BY <1>1, <2>1, TouchingStep DEF EditMember, Edit
<1>2. ASSUME NEW i \in Identities, DeleteAccount(i) PROVE SyncsExact'
  <2>1. Beside({i} \X Groups)
    BY <1>2 DEF Beside, DeleteAccount, Edit, rows, Pairs
  <2> QED BY <1>2, <2>1, TouchingStep DEF DeleteAccount, Edit
<1>3. ASSUME NEW g \in Groups, DeleteGroup(g) PROVE SyncsExact'
  <2>1. Beside(Identities \X {g})
    BY <1>3 DEF Beside, DeleteGroup, Edit, rows, Pairs
  <2> QED BY <1>3, <2>1, TouchingStep DEF DeleteGroup, Edit
<1>4. ASSUME NEW i \in Identities, IdentityUpserted(i) PROVE SyncsExact'
  <2>1. Beside({})
    BY <1>4, UnchangedIsBeside DEF IdentityUpserted, google
  <2> QED BY <1>4, <2>1, QuietStep DEF IdentityUpserted
<1>5. ASSUME NEW i \in Identities, IdentityRemoved(i) PROVE SyncsExact'
  <2>1. Beside({})
    BY <1>5 DEF Beside, IdentityRemoved, google
  <2> QED BY <1>5, <2>1, QuietStep DEF IdentityRemoved
<1> QED BY <1>1, <1>2, <1>3, <1>4, <1>5 DEF GoogleEdits, IdentitySync

LEMMA DecisionsExact ==
    ASSUME ExactInv, Requesting \/ Reviewing
    PROVE  SyncsExact'
<1>1. UNCHANGED <<gMembers, membership, group>> /\ UNCHANGED sync
  BY DEF Requesting, Reviewing, CreateRequest, RejectRequest, ApproveRequest, CreateReview,
         ApproveReview, RevokeReview, google, rows
<1> QED BY <1>1, UnchangedIsBeside, QuietStep

LEMMA CallsExact ==
    ASSUME ExactInv, NEW a \in Admins, CallStep(a)
    PROVE  SyncsExact'
<1>1. CASE /\ UNCHANGED <<gMembers, membership, group>>
           /\ UNCHANGED sync
  BY <1>1, UnchangedIsBeside, QuietStep
<1>2. CASE InsertMember(a) /\ sync' = Touch({call[a].pair})
  <2>1. Beside({call[a].pair})
    BY <1>2 DEF Beside, InsertMember, rows
  <2> QED BY <1>2, <2>1, TouchingStep
<1>3. CASE DeleteMember(a) /\ sync' = Touch({call[a].pair})
  <2>1. Beside({call[a].pair})
    BY <1>3 DEF Beside, DeleteMember, rows
  <2> QED BY <1>3, <2>1, TouchingStep
<1>4. CASE UpsertMembership(a) /\ sync' = Touch({call[a].pair})
  <2>1. Beside({call[a].pair})
    BY <1>4 DEF ExactInv, TypeOK, Beside, UpsertMembership, google
  <2> QED BY <1>4, <2>1, TouchingStep
<1>5. CASE DeleteMembership(a)
  <2>1. Beside({call[a].pair})
    BY <1>5 DEF ExactInv, TypeOK, Beside, DeleteMembership, google
  <2> QED BY <1>5, <2>1, TouchingStep DEF DeleteMembership
<1>6. Lookup(a) \/ AuditChange(a) \/ CloseRequest(a) \/ CloseReview(a) \/ CallFails(a) =>
        UNCHANGED <<gMembers, membership, group>> /\ UNCHANGED sync
  BY DEF Lookup, AuditChange, CloseRequest, CloseReview, CallFails, google, rows
<1>7. InsertMember(a) \/ DeleteMember(a) =>
        \/ sync' = Touch({call[a].pair})
        \/ UNCHANGED <<gMembers, membership, group>> /\ UNCHANGED sync
  BY DEF InsertMember, DeleteMember, rows
<1>8. UpsertMembership(a) =>
        \/ sync' = Touch({call[a].pair})
        \/ UNCHANGED <<gMembers, membership, group>> /\ UNCHANGED sync
  BY DEF UpsertMembership, google
<1> QED BY <1>1, <1>2, <1>3, <1>4, <1>5, <1>6, <1>7, <1>8 DEF CallStep

(***************************************************************************)
(* The steps of a sync                                                     *)
(***************************************************************************)

\* One that proceeds tells the others.
LEMMA ProceedTells ==
    ASSUME ExactInv, NEW s \in Syncers, NEW r, NEW ps, Beside(ps), Proceed(s, r, ps),
           r # Idle => Exact(r, gMembers', membership', group')
    PROVE  SyncsExact'
<1>1. sync'[s] = r /\ \A t \in Syncers \ {s} : sync'[t] = Touch(ps)[t]
  BY DEF Proceed, Touch
<1>2. ASSUME NEW t \in Syncers \ {s}, sync'[t] # Idle
      PROVE  Exact(sync'[t], gMembers', membership', group')
  BY <1>1, <1>2, TouchTells, ToldStaysExact DEF ExactInv
<1> QED BY <1>1, <1>2 DEF SyncsExact

\* One that says nothing leaves the others.
LEMMA AloneExact ==
    ASSUME ExactInv, NEW s \in Syncers, Beside({}),
           \A t \in Syncers \ {s} : sync'[t] = sync[t],
           sync'[s] # Idle => Exact(sync'[s], gMembers', membership', group')
    PROVE  SyncsExact'
BY UntouchedTold, ToldStaysExact DEF SyncsExact

LEMMA ListingExact ==
    ASSUME ExactInv, NEW s \in Syncers,
           FetchGroups(s) \/ ReadIdentities(s) \/ UpsertGroups(s) \/ SyncFails(s)
    PROVE  SyncsExact'
<1>1. ASSUME FetchGroups(s) PROVE SyncsExact'
  <2>1. Beside({}) /\ \A t \in Syncers \ {s} : sync'[t] = sync[t]
    BY <1>1, UnchangedIsBeside DEF ExactInv, TypeOK, FetchGroups, google, rows
  <2>2. /\ sync'[s].pc = "identities" /\ sync'[s].groups = gGroups
        /\ sync'[s].members = gMembers /\ sync'[s].todo = gMembers
    BY <1>1 DEF ExactInv, TypeOK, FetchGroups
  <2>3. Exact(sync'[s], gMembers', membership', group')
    BY <1>1, <2>2 DEF ExactInv, GoogleHasGroups, Exact, FetchGroups, google
  <2> QED BY <2>1, <2>3, AloneExact
<1>2. ASSUME ReadIdentities(s) PROVE SyncsExact'
  <2>1. Beside({}) /\ \A t \in Syncers \ {s} : sync'[t] = sync[t]
    BY <1>2, UnchangedIsBeside DEF ExactInv, TypeOK, ReadIdentities, google, rows
  <2>2. sync[s] \in SyncCall /\ sync[s] # Idle
    BY <1>2 DEF ExactInv, TypeOK, ReadIdentities, Idle
  <2>3. /\ sync'[s].pc = "groups" /\ sync'[s].groups = sync[s].groups
        /\ sync'[s].members = sync[s].members /\ sync'[s].todo = sync[s].todo
        /\ sync'[s].saved = sync[s].saved /\ sync'[s].touched = sync[s].touched
    BY <1>2, <2>2 DEF ExactInv, TypeOK, ReadIdentities, SyncCall
  <2>4. Exact(sync[s], gMembers, membership, group)
    BY <2>2 DEF ExactInv, SyncsExact
  <2>5. UNCHANGED <<gMembers, membership, group>> /\ sync[s].pc = "identities"
    BY <1>2 DEF ReadIdentities, google, rows
  <2>6. Exact(sync'[s], gMembers', membership', group')
    BY <2>3, <2>4, <2>5 DEF Exact
  <2> QED BY <2>1, <2>6, AloneExact
<1>3. ASSUME UpsertGroups(s) PROVE SyncsExact'
  <2>1. \A t \in Syncers \ {s} : sync'[t] = sync[t]
    BY <1>3 DEF ExactInv, TypeOK, UpsertGroups
  <2>2. \A g \in Groups : group[g].live => group'[g] = group[g]
    BY <1>3 DEF UpsertGroups, Upserted
  <2>3. Beside({})
    BY <1>3, <2>2 DEF Beside, ExactInv, ReferentialIntegrity, UpsertGroups, google, Pairs
  <2>4. sync[s] \in SyncCall /\ sync[s] # Idle
    BY <1>3 DEF ExactInv, TypeOK, UpsertGroups, Idle
  <2>5. /\ sync'[s].pc = "members" /\ sync'[s].groups = sync[s].groups
        /\ sync'[s].members = sync[s].members /\ sync'[s].todo = sync[s].todo
        /\ sync'[s].touched = sync[s].touched
    BY <1>3, <2>4 DEF ExactInv, TypeOK, UpsertGroups, SyncCall
  <2>6. Exact(sync[s], gMembers, membership, group) /\ sync[s].pc = "groups"
    BY <1>3, <2>4 DEF ExactInv, SyncsExact, UpsertGroups
  <2>7. gMembers' = gMembers
    BY <1>3 DEF UpsertGroups, google
  <2>8. sync'[s].members \ sync'[s].todo = {}
    BY <2>5, <2>6 DEF Exact
  <2>9. Exact(sync'[s], gMembers', membership', group')
    BY <2>5, <2>6, <2>7, <2>8 DEF Exact
  <2> QED BY <2>1, <2>3, <2>9, AloneExact
<1>4. ASSUME SyncFails(s) PROVE SyncsExact'
  <2>1. Beside({}) /\ \A t \in Syncers \ {s} : sync'[t] = sync[t]
    BY <1>4, UnchangedIsBeside DEF ExactInv, TypeOK, SyncFails, google, rows
  <2>2. sync'[s] = Idle
    BY <1>4 DEF ExactInv, TypeOK, SyncFails
  <2> QED BY <2>1, <2>2, AloneExact
<1> QED BY <1>1, <1>2, <1>3, <1>4

LEMMA UpsertingExact ==
    ASSUME ExactInv, NEW s \in Syncers, NEW p \in Pairs, UpsertMember(s, p)
    PROVE  SyncsExact'
<1>1. sync[s] \in SyncCall /\ sync[s] # Idle /\ sync[s].pc = "members"
  BY DEF ExactInv, TypeOK, UpsertMember, Idle
<1>2. Exact(sync[s], gMembers, membership, group)
  BY <1>1 DEF ExactInv, SyncsExact
<1> DEFINE r == [sync[s] EXCEPT !.todo = @ \ {p}]
<1>3. CASE sync' = [sync EXCEPT ![s] = Idle] /\ UNCHANGED membership
  <2>1. Beside({}) /\ \A t \in Syncers \ {s} : sync'[t] = sync[t]
    BY <1>3, UnchangedIsBeside DEF ExactInv, TypeOK, UpsertMember, google
  <2>2. sync'[s] = Idle
    BY <1>3 DEF ExactInv, TypeOK
  <2> QED BY <2>1, <2>2, AloneExact
<1>4. CASE Proceed(s, r, {p}) /\ Refers(group[p[2]], sync[s].saved[p[2]])
             /\ membership'[p] # "none"
  <2>1. \A k \in Pairs \ {p} : membership'[k] = membership[k]
    BY DEF ExactInv, TypeOK, UpsertMember
  <2>2. UNCHANGED <<gMembers, group>>
    BY DEF UpsertMember, google
  <2>3. Beside({p})
    BY <2>1, <2>2 DEF Beside
  <2>4. /\ r.pc = "members" /\ r.groups = sync[s].groups /\ r.members = sync[s].members
        /\ r.todo = sync[s].todo \ {p} /\ r.saved = sync[s].saved /\ r.touched = sync[s].touched
    BY <1>1 DEF SyncCall
  <2>5. ASSUME NEW k \in (r.members \ r.todo) \ r.touched
        PROVE  membership'[k] # "none" /\ Refers(group'[k[2]], r.saved[k[2]])
    <3>1. CASE k = p
      BY <1>4, <2>2, <2>4, <3>1
    <3>2. CASE k # p
      <4>1. k \in (sync[s].members \ sync[s].todo) \ sync[s].touched /\ k \in Pairs
        BY <1>1, <2>4, <2>5, <3>2 DEF SyncCall
      <4> QED BY <1>2, <2>1, <2>2, <2>4, <3>2, <4>1 DEF Exact
    <3> QED BY <3>1, <3>2
  <2>6. Exact(r, gMembers', membership', group')
    BY <1>2, <2>2, <2>4, <2>5 DEF Exact
  <2> QED BY <1>4, <2>3, <2>6, ProceedTells
<1>5. \/ sync' = [sync EXCEPT ![s] = Idle] /\ UNCHANGED membership
      \/ /\ Proceed(s, r, {p}) /\ Refers(group[p[2]], sync[s].saved[p[2]])
         /\ membership'[p] # "none"
  BY DEF ExactInv, TypeOK, UpsertMember, MembershipStates
<1> QED BY <1>3, <1>4, <1>5

LEMMA RemovingExact ==
    ASSUME ExactInv, NEW s \in Syncers, RemoveStaleGroups(s) \/ RemoveStaleMemberships(s)
    PROVE  SyncsExact'
<1>1. ASSUME RemoveStaleGroups(s) PROVE SyncsExact'
  <2> DEFINE stale == {g \in Groups : group[g].live /\ g \notin sync[s].groups}
             under == Identities \X stale
             r == [sync[s] EXCEPT !.pc = "stale"]
  <2>1. sync[s] \in SyncCall /\ sync[s] # Idle
    BY <1>1 DEF ExactInv, TypeOK, RemoveStaleGroups, Idle
  <2>2. Exact(sync[s], gMembers, membership, group)
    BY <2>1 DEF ExactInv, SyncsExact
  <2>3. gMembers' = gMembers
    BY <1>1 DEF RemoveStaleGroups, google
  <2>4. \A p \in Pairs \ under : membership'[p] = membership[p]
          /\ group'[p[2]] = group[p[2]]
    BY <1>1 DEF ExactInv, TypeOK, RemoveStaleGroups, Pairs
  <2>5. Beside(under)
    BY <2>3, <2>4 DEF Beside
  <2>6. /\ r.pc = "stale" /\ r.groups = sync[s].groups /\ r.members = sync[s].members
        /\ r.todo = sync[s].todo /\ r.saved = sync[s].saved /\ r.touched = sync[s].touched
        /\ r.todo = {}
    BY <1>1, <2>1 DEF SyncCall, RemoveStaleGroups
  <2>7. \A p \in r.members : p \in Pairs \ under
    BY <2>1, <2>2, <2>6 DEF Exact, SyncCall
  <2>8. Exact(r, gMembers', membership', group')
    BY <2>2, <2>3, <2>4, <2>6, <2>7 DEF Exact
  <2>9. Proceed(s, r, under)
    BY <1>1 DEF RemoveStaleGroups
  <2> QED BY <2>5, <2>8, <2>9, ProceedTells
<1>2. ASSUME RemoveStaleMemberships(s) PROVE SyncsExact'
  <2> DEFINE listed == {p \in sync[s].members : group[p[2]].id = sync[s].saved[p[2]]}
  <2>1. Beside(Pairs \ listed)
    BY <1>2 DEF Beside, RemoveStaleMemberships, google
  <2>2. Proceed(s, Idle, Pairs \ listed)
    BY <1>2 DEF RemoveStaleMemberships
  <2> QED BY <2>1, <2>2, ProceedTells
<1> QED BY <1>1, <1>2

(***************************************************************************)
(* Together                                                                *)
(***************************************************************************)

\* Groups go with their memberships, and only those that are there get one.
LEMMA GoogleKeepsGroups ==
    ASSUME ExactInv, [Next]_vars
    PROVE  GoogleHasGroups'
<1>1. CASE GoogleEdits
  BY <1>1
     DEF ExactInv, TypeOK, GoogleHasGroups, GoogleEdits, EditMember, DeleteAccount,
         DeleteGroup
<1>2. CASE IdentitySync \/ Requesting \/ Reviewing
  BY <1>2
     DEF ExactInv, GoogleHasGroups, IdentitySync, IdentityUpserted, IdentityRemoved,
         Requesting, Reviewing, CreateRequest, RejectRequest, ApproveRequest, CreateReview,
         ApproveReview, RevokeReview, google
<1>3. ASSUME NEW a \in Admins, CallStep(a) PROVE GoogleHasGroups'
  BY <1>3
     DEF ExactInv, GoogleHasGroups, CallStep, Lookup, InsertMember, DeleteMember,
         UpsertMembership, DeleteMembership, AuditChange, CloseRequest, CloseReview,
         CallFails, google
<1>4. ASSUME NEW s \in Syncers, SyncStep(s) PROVE GoogleHasGroups'
  BY <1>4
     DEF ExactInv, GoogleHasGroups, SyncStep, FetchGroups, ReadIdentities, UpsertGroups,
         UpsertMember, RemoveStaleGroups, RemoveStaleMemberships, SyncFails, google
<1>5. CASE UNCHANGED vars
  BY <1>5 DEF ExactInv, GoogleHasGroups, vars, google
<1> QED BY <1>1, <1>2, <1>3, <1>4, <1>5 DEF Next

LEMMA NextExact == ExactInv /\ [Next]_vars => ExactInv'
<1> SUFFICES ASSUME ExactInv, [Next]_vars PROVE ExactInv'
  OBVIOUS
<1>1. TypeOK' /\ ReferentialIntegrity'
  BY NextTypes, NextRefs DEF ExactInv
<1>2. SyncsExact'
  <2>1. CASE Next
    BY <2>1, EnvironmentExact, DecisionsExact, CallsExact, ListingExact, UpsertingExact,
       RemovingExact
       DEF Next, SyncStep
  <2>2. CASE UNCHANGED vars
    BY <2>2, UnchangedIsBeside, QuietStep DEF vars, google, rows
  <2> QED BY <2>1, <2>2
<1> QED BY <1>1, <1>2, GoogleKeepsGroups DEF ExactInv

\* A sync that ends leaves the mirror as Google is, where nothing was touched.
LEMMA EndIsExact ==
    ASSUME ExactInv, NEW s \in Syncers, RemoveStaleMemberships(s),
           NEW p \in Pairs \ sync[s].touched
    PROVE  membership'[p] # "none" <=> p \in gMembers'
<1> DEFINE listed == {k \in sync[s].members : group[k[2]].id = sync[s].saved[k[2]]}
<1>1. sync[s] # Idle /\ sync[s].pc = "stale"
  BY DEF RemoveStaleMemberships, Idle
<1>2. Exact(sync[s], gMembers, membership, group)
  BY <1>1 DEF ExactInv, SyncsExact
<1>3. membership'[p] = IF p \in listed THEN membership[p] ELSE "none"
  BY DEF RemoveStaleMemberships
<1>4. gMembers' = gMembers
  BY DEF RemoveStaleMemberships, google
<1>5. CASE p \in sync[s].members
  <2>1. membership[p] # "none" /\ Refers(group[p[2]], sync[s].saved[p[2]])
    BY <1>1, <1>2, <1>5 DEF Exact
  <2> QED BY <1>2, <1>3, <1>4, <1>5, <2>1 DEF Exact, Refers
<1>6. CASE p \notin sync[s].members
  BY <1>2, <1>3, <1>4, <1>6 DEF Exact
<1> QED BY <1>5, <1>6

\* When sync-groups ends, the mirror has the memberships Google has, but for those
\* that another handler, another sync or Google's administrators changed meanwhile.
THEOREM SyncExact == Spec => SyncIsExact
<1>1. Init => ExactInv
  BY InitTypes, RowsExist
     DEF Init, ExactInv, ReferentialIntegrity, GoogleHasGroups, SyncsExact, Pairs
<1>2. ExactInv /\ [Next]_vars => ExactInv'
  BY NextExact
<1>3. ExactInv /\ [Next]_vars =>
        [\A s \in Syncers : RemoveStaleMemberships(s) =>
           \A p \in Pairs \ sync[s].touched : membership'[p] # "none" <=> p \in gMembers']_vars
  BY EndIsExact
<1> QED BY <1>1, <1>2, <1>3, PTL DEF Spec, SyncIsExact
=============================================================================
