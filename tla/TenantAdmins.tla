--------------------------- MODULE TenantAdmins ---------------------------
(***************************************************************************)
(* Who administers a tenant: the role and status columns of its            *)
(* tenant_users rows under UsersService.create, update and remove, and     *)
(* under the two sign-ins that write them (password login, Google OAuth).  *)
(* A call of update or remove reads the target, counts the other admins    *)
(* and writes in three separate queries, with no transaction around them.  *)
(***************************************************************************)
EXTENDS Naturals, FiniteSets

CONSTANTS
    Users,     \* ids of tenant_users rows; an id is used once
    Calls,     \* calls of update or remove that may be in flight at once
    Logins     \* sign-ins that may be in flight at once

VARIABLES
    user,      \* the tenant_users rows
    call,      \* update and remove calls
    login      \* sign-ins

vars == <<user, call, login>>

\* READONLY is to these handlers what USER is.
Roles      == {"PLATFORM_ADMIN", "TENANT_ADMIN", "USER"}
AdminRoles == {"PLATFORM_ADMIN", "TENANT_ADMIN"}
Statuses   == {"ACTIVE", "INVITED", "DISABLED"}

Row     == [role : Roles, status : Statuses]
NeverWas == [role |-> "NONE", status |-> "NEVER"]
Removed  == [role |-> "NONE", status |-> "REMOVED"]

Exists(u)      == user[u] \in Row
ActiveAdmin(r) == r.role \in AdminRoles /\ r.status = "ACTIVE"
ActiveAdmins   == {u \in Users : ActiveAdmin(user[u])}

(***************************************************************************)
(* Calls in flight.  A request body names a new role, a new status, both   *)
(* or neither: "KEEP" is a field that is not in the body.                  *)
(***************************************************************************)

Idle == [pc |-> "idle"]
UserCall ==
    [pc : {"count", "write"}, op : {"update", "remove"}, target : Users,
     role : Roles \cup {"KEEP"}, status : Statuses \cup {"KEEP"}]

LoginCall ==
    [pc : {"status"}, who : Users, status : Statuses]
        \cup [pc : {"oauth"}, who : Users, role : AdminRoles]

MergeAll(r, role, status) == [role |-> role, status |-> status]   \* mutant: absent fields too

Merge(r, role, status) ==
    [role |-> IF role = "KEEP" THEN r.role ELSE role,
     status |-> IF status = "KEEP" THEN r.status ELSE status]

Init ==
    /\ user \in [Users -> Row \cup {NeverWas}]
    /\ ActiveAdmins # {}
    /\ call = [c \in Calls |-> Idle]
    /\ login = [l \in Logins |-> Idle]

(***************************************************************************)
(* UsersService                                                            *)
(***************************************************************************)

\* assertAdminActor: the role the guards read from the actor's row.
Acting(actor) == ActiveAdmin(user[actor])

\* assertManageableTarget and assertAssignableRole
MayManage(actor, targetRole, nextRole) ==
    user[actor].role = "PLATFORM_ADMIN" \/ "PLATFORM_ADMIN" \notin {targetRole, nextRole}

Create(actor, u, role) ==
    /\ Acting(actor)
    /\ MayManage(actor, role, role)
    /\ user[u] = NeverWas
    /\ user' = [user EXCEPT ![u] = [role |-> role, status |-> "ACTIVE"]]
    /\ UNCHANGED <<call, login>>

\* assertAdminSafety returns at once unless an admin stops being an active one.
NeedsCount(r, next) == r.role \in AdminRoles /\ ~ActiveAdmin(next)

\* findFirst and the guards on what it returned
StartUpdate(c, actor, u, role, status) ==
    /\ call[c] = Idle
    /\ Acting(actor)
    /\ Exists(u)
    /\ LET next == Merge(user[u], role, status) IN
       /\ MayManage(actor, user[u].role, next.role)
       /\ call' = [call EXCEPT ![c] =
            [pc |-> IF NeedsCount(user[u], next) THEN "count" ELSE "write",
             op |-> "update", target |-> u, role |-> role, status |-> status]]
    /\ UNCHANGED <<user, login>>

StartRemove(c, actor, u) ==
    /\ call[c] = Idle
    /\ Acting(actor)
    /\ Exists(u)
    /\ MayManage(actor, user[u].role, "USER")
    /\ call' = [call EXCEPT ![c] =
         [pc |-> IF user[u].role \in AdminRoles THEN "count" ELSE "write",
          op |-> "remove", target |-> u, role |-> "USER", status |-> "DISABLED"]]
    /\ UNCHANGED <<user, login>>

CountAnyAdmin(c) ==   \* mutant: the target itself is counted
    /\ call[c].pc = "count"
    /\ call' = [call EXCEPT ![c] =
         IF ActiveAdmins = {} THEN Idle ELSE [call[c] EXCEPT !.pc = "write"]]
    /\ UNCHANGED <<user, login>>

\* The count of the other active admins; with none the call throws.
CountAdmins(c) ==
    /\ call[c].pc = "count"
    /\ call' = [call EXCEPT ![c] =
         IF ActiveAdmins \ {call[c].target} = {} THEN Idle ELSE [call[c] EXCEPT !.pc = "write"]]
    /\ UNCHANGED <<user, login>>

\* The update writes the fields of the body; a row that is gone throws.
WriteUpdate(c) ==
    /\ call[c].pc = "write"
    /\ call[c].op = "update"
    /\ LET u == call[c].target IN
       user' = IF Exists(u)
               THEN [user EXCEPT ![u] = Merge(@, call[c].role, call[c].status)] ELSE user
    /\ call' = [call EXCEPT ![c] = Idle]
    /\ UNCHANGED login

WriteRemove(c) ==
    /\ call[c].pc = "write"
    /\ call[c].op = "remove"
    /\ LET u == call[c].target IN
       user' = IF Exists(u) THEN [user EXCEPT ![u] = Removed] ELSE user
    /\ call' = [call EXCEPT ![c] = Idle]
    /\ UNCHANGED login

CallFails(c) ==
    /\ call[c] # Idle
    /\ call' = [call EXCEPT ![c] = Idle]
    /\ UNCHANGED <<user, login>>

(***************************************************************************)
(* AuthService: the sign-ins that write role or status                     *)
(***************************************************************************)

\* login reads the row, compares passwords, and writes the status it read
\* (ACTIVE for INVITED).
LoginRead(l, u) ==
    /\ login[l] = Idle
    /\ Exists(u)
    /\ user[u].status # "DISABLED"
    /\ login' = [login EXCEPT ![l] = [pc |-> "status", who |-> u, status |-> user[u].status]]
    /\ UNCHANGED <<user, call>>

LoginWriteBack(l) ==   \* mutant: INVITED is written back as it was read
    /\ login[l].pc = "status"
    /\ LET u == login[l].who IN
       user' = IF Exists(u) THEN [user EXCEPT ![u].status = login[l].status] ELSE user
    /\ login' = [login EXCEPT ![l] = Idle]
    /\ UNCHANGED call

LoginWrite(l) ==
    /\ login[l].pc = "status"
    /\ LET u == login[l].who IN
       user' = IF Exists(u)
               THEN [user EXCEPT ![u].status =
                       IF login[l].status = "INVITED" THEN "ACTIVE" ELSE login[l].status]
               ELSE user
    /\ login' = [login EXCEPT ![l] = Idle]
    /\ UNCHANGED call

\* completeGoogleAuthorization: a platform admin stays one, anybody else who
\* is not disabled becomes an active tenant admin.
OauthRead(l, u) ==
    /\ login[l] = Idle
    /\ Exists(u)
    /\ user[u].status # "DISABLED"
    /\ login' = [login EXCEPT ![l] =
         [pc |-> "oauth", who |-> u,
          role |-> IF user[u].role = "PLATFORM_ADMIN" THEN "PLATFORM_ADMIN" ELSE "TENANT_ADMIN"]]
    /\ UNCHANGED <<user, call>>

OauthWrite(l) ==
    /\ login[l].pc = "oauth"
    /\ LET u == login[l].who IN
       user' = IF Exists(u)
               THEN [user EXCEPT ![u] = [role |-> login[l].role, status |-> "ACTIVE"]]
               ELSE user
    /\ login' = [login EXCEPT ![l] = Idle]
    /\ UNCHANGED call

\* OAuth of an address without a row creates a tenant admin.
OauthCreate(u) ==
    /\ user[u] = NeverWas
    /\ user' = [user EXCEPT ![u] = [role |-> "TENANT_ADMIN", status |-> "ACTIVE"]]
    /\ UNCHANGED <<call, login>>

LoginFails(l) ==
    /\ login[l] # Idle
    /\ login' = [login EXCEPT ![l] = Idle]
    /\ UNCHANGED <<user, call>>

(***************************************************************************)
(* The specification                                                       *)
(***************************************************************************)

UsersStep(c) ==
    \/ \E actor, u \in Users, role \in Roles \cup {"KEEP"}, status \in Statuses \cup {"KEEP"} :
          StartUpdate(c, actor, u, role, status)
    \/ \E actor, u \in Users : StartRemove(c, actor, u)
    \/ CountAdmins(c) \/ WriteUpdate(c) \/ WriteRemove(c) \/ CallFails(c)

SignIn(l) ==
    \/ \E u \in Users : LoginRead(l, u) \/ OauthRead(l, u)
    \/ LoginWrite(l) \/ OauthWrite(l) \/ LoginFails(l)

NewUser ==
    \E u \in Users :
        \/ \E actor \in Users, role \in Roles : Create(actor, u, role)
        \/ OauthCreate(u)

Next ==
    \/ NewUser
    \/ \E c \in Calls : UsersStep(c)
    \/ \E l \in Logins : SignIn(l)

Spec == Init /\ [][Next]_vars

(***************************************************************************)
(* Properties                                                              *)
(***************************************************************************)

\* The shape of the rows and of the calls in flight.
TypeOK ==
    /\ user \in [Users -> Row \cup {NeverWas, Removed}]
    /\ call \in [Calls -> UserCall \cup {Idle}]
    /\ login \in [Logins -> LoginCall \cup {Idle}]

\* "Cannot remove or disable the last active admin in the tenant"
\* (users.service.ts:263): a tenant that has an active admin keeps one.  It
\* holds when calls of update and remove do not overlap, whatever sign-ins do
\* between their steps, and fails when two of them do.
AnAdminRemains == ActiveAdmins # {}

\* A sign-in writes back a status it read before comparing passwords.  Whatever
\* an administrator changed meanwhile, no sign-in takes an active admin away.
SignInsKeepAdmins ==
    [][\A l \in Logins : SignIn(l) => ActiveAdmins \subseteq ActiveAdmins']_vars
===========================================================================
