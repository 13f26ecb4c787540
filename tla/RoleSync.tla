------------------------------ MODULE RoleSync ------------------------------
(***************************************************************************)
(* syncGoogleRoles: the roles, the role assignments and the users of a     *)
(* Google domain are listed at the same time, each page by page, while     *)
(* Google changes; then the identities are updated one by one.             *)
(***************************************************************************)
EXTENDS Naturals, FiniteSets, FiniteSetsExt

CONSTANTS
    Users,        \* Google users, as places in the order of a listing
    RoleIds,      \* admin roles, likewise
    PageSize,     \* maxResults
    RoleSyncs,    \* syncs of the roles that may run at once
    MaxChanges    \* changes in Google

VARIABLES
    gUsers,       \* Google: the users
    gRoles,       \* Google: the roles
    gAssigned,    \* Google: the role of each user, 0 for none
    gChanges,     \* changes in Google so far
    roleNames,    \* external_identities: roleNames of each user's row
    rows,         \* external_identities: the users that have a row
    roleSync      \* syncs in flight

google == <<gUsers, gRoles, gAssigned, gChanges>>
vars   == <<google, roleNames, rows, roleSync>>

RoleOrNone == RoleIds \cup {0}
Listings   == {"roles", "assignments", "users"}
Quiet      == [pc |-> "idle"]

\* The answers so far: keys listed, the place a listing has come to, what the
\* assignments said; changed is history: users whose role changed meanwhile.
Listing ==
    [pc : {"list", "write"}, open : SUBSET Listings, roles : SUBSET RoleIds,
     users : SUBSET Users, role : [Users -> RoleOrNone],
     at : [Listings -> Nat], changed : SUBSET Users]

Init ==
    /\ gUsers = Users
    /\ gRoles = RoleIds
    /\ gAssigned \in [Users -> RoleOrNone]
    /\ gChanges = 0
    /\ rows \in SUBSET Users
    /\ roleNames = [u \in Users |-> {}]
    /\ roleSync = [s \in RoleSyncs |-> Quiet]

(***************************************************************************)
(* Google                                                                  *)
(***************************************************************************)

GoogleChanges(changed) ==
    /\ gChanges < MaxChanges
    /\ gChanges' = gChanges + 1
    /\ roleSync' = [s \in RoleSyncs |-> IF roleSync[s] = Quiet THEN Quiet
                        ELSE [roleSync[s] EXCEPT !.changed = @ \cup changed]]
    /\ UNCHANGED <<roleNames, rows>>

Assigned(u, r) ==
    /\ GoogleChanges({u})
    /\ u \in gUsers
    /\ r \in gRoles \cup {0}
    /\ gAssigned' = [gAssigned EXCEPT ![u] = r]
    /\ UNCHANGED <<gUsers, gRoles>>

UserDeleted(u) ==
    /\ GoogleChanges({u})
    /\ u \in gUsers
    /\ gUsers' = gUsers \ {u}
    /\ gAssigned' = [gAssigned EXCEPT ![u] = 0]
    /\ UNCHANGED gRoles

\* A role that nobody has may be deleted.
RoleDeleted(r) ==
    /\ GoogleChanges({})
    /\ r \in gRoles
    /\ \A u \in Users : gAssigned[u] # r
    /\ gRoles' = gRoles \ {r}
    /\ UNCHANGED <<gUsers, gAssigned>>

(***************************************************************************)
(* The three listings                                                      *)
(***************************************************************************)

Continues(s, next) == roleSync' = [roleSync EXCEPT ![s] = next]

RoleSyncStarts(s) ==
    /\ roleSync[s] = Quiet
    /\ Continues(s, [pc |-> "list", open |-> Listings, roles |-> {}, users |-> {},
                     role |-> [u \in Users |-> 0], at |-> [l \in Listings |-> 0],
                     changed |-> {}])
    /\ UNCHANGED <<google, roleNames, rows>>

Keys(l) ==
    CASE l = "roles"       -> gRoles
      [] l = "assignments" -> {u \in gUsers : gAssigned[u] # 0}
      [] l = "users"       -> gUsers

\* A page is the first PageSize keys beyond the last page; with no more behind
\* it there is no nextPageToken.
Beyond(keys, place)  == {k \in keys : k > place}
PageOf(keys, place)  == {k \in Beyond(keys, place) : Cardinality({j \in Beyond(keys, place) : j < k}) < PageSize}
IsLast(keys, place)  == PageOf(keys, place) = Beyond(keys, place)

FirstPageOnly(keys, place) == TRUE   \* mutant: paginate does not follow nextPageToken

NoMorePages(keys, place) == IsLast(keys, place)

\* One page of one listing of paginate.
FetchPage(s, l) ==
    /\ roleSync[s].pc = "list"
    /\ l \in roleSync[s].open
    /\ LET q    == roleSync[s]
           page == PageOf(Keys(l), q.at[l])
           last == NoMorePages(Keys(l), q.at[l]) IN
       Continues(s, [q EXCEPT
           !.open  = IF last THEN @ \ {l} ELSE @,
           !.pc    = IF last /\ q.open = {l} THEN "write" ELSE @,
           !.at    = IF page = {} THEN @ ELSE [@ EXCEPT ![l] = Max(page)],
           !.roles = IF l = "roles" THEN @ \cup page ELSE @,
           !.users = IF l = "users" THEN @ \cup page ELSE @,
           !.role  = IF l = "assignments"
                     THEN [u \in Users |-> IF u \in page THEN gAssigned[u] ELSE q.role[u]]
                     ELSE @])
    /\ UNCHANGED <<google, roleNames, rows>>

\* The role of a listed user by the assignments, if the roles had it.
NamesOf(q, u) == {q.role[u]} \cap q.roles

\* updateMany writes nothing for a user without a row.
UpdateIdentity(s, u) ==
    /\ roleSync[s].pc = "write"
    /\ u \in roleSync[s].users
    /\ roleNames' = IF u \in rows
                    THEN [roleNames EXCEPT ![u] = NamesOf(roleSync[s], u)]
                    ELSE roleNames
    /\ roleSync' = [t \in RoleSyncs |->
                       IF t = s THEN [roleSync[s] EXCEPT !.users = @ \ {u}]
                       ELSE IF roleSync[t] = Quiet THEN Quiet
                       ELSE [roleSync[t] EXCEPT !.changed = @ \cup {u}]]
    /\ UNCHANGED <<google, rows>>

RoleSyncEnds(s) ==
    /\ roleSync[s].pc = "write"
    /\ roleSync[s].users = {}
    /\ Continues(s, Quiet)
    /\ UNCHANGED <<google, roleNames, rows>>

RoleSyncFails(s) ==
    /\ roleSync[s] # Quiet
    /\ Continues(s, Quiet)
    /\ UNCHANGED <<google, roleNames, rows>>

Next ==
    \/ \E u \in Users : UserDeleted(u) \/ \E r \in RoleOrNone : Assigned(u, r)
    \/ \E r \in RoleIds : RoleDeleted(r)
    \/ \E s \in RoleSyncs :
           \/ RoleSyncStarts(s) \/ RoleSyncEnds(s) \/ RoleSyncFails(s)
           \/ \E l \in Listings : FetchPage(s, l)
           \/ \E u \in Users : UpdateIdentity(s, u)

Spec == Init /\ [][Next]_vars

(***************************************************************************)
(* Properties                                                              *)
(***************************************************************************)

\* The shape of the rows and of the syncs.
TypeOK ==
    /\ gUsers \subseteq Users /\ gRoles \subseteq RoleIds
    /\ gAssigned \in [Users -> RoleOrNone]
    /\ gChanges \in 0 .. MaxChanges
    /\ rows \subseteq Users
    /\ roleNames \in [Users -> SUBSET RoleIds]
    /\ roleSync \in [RoleSyncs -> Listing \cup {Quiet}]

\* When a sync of the roles ends, every identity of the domain has the roles
\* Google gives it, but for users whose role Google or another sync changed
\* meanwhile: no page of the three listings is missed or read twice, and users
\* and roles that vanish between the pages do no harm to the others.
ExactAtTheEnd ==
    \A s \in RoleSyncs : RoleSyncEnds(s) =>
        \A u \in (rows \cap gUsers) \ roleSync[s].changed :
            roleNames[u] = {gAssigned[u]} \ {0}

RolesAreExact == [][ExactAtTheEnd]_vars
=============================================================================
