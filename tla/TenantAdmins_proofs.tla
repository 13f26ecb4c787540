------------------------ MODULE TenantAdmins_proofs ------------------------
(***************************************************************************)
(* Proofs about TenantAdmins, for any numbers of users, calls and          *)
(* sign-ins.                                                               *)
(***************************************************************************)
EXTENDS TenantAdmins, TLAPS

(***************************************************************************)
(* Types                                                                   *)
(***************************************************************************)

\* What the fields of a body make of a row is a row.
LEMMA MergeIsRow ==
    ASSUME NEW r \in Row, NEW role \in Roles \cup {"KEEP"},
           NEW status \in Statuses \cup {"KEEP"}
    PROVE  Merge(r, role, status) \in Row
BY DEF Merge, Row

\* Every step of update, remove and create keeps the shape of the state.
LEMMA UsersTypes ==
    ASSUME TypeOK, NewUser \/ \E c \in Calls : UsersStep(c)
    PROVE  TypeOK'
<1>1. ASSUME NewUser PROVE TypeOK'
  BY <1>1 DEF TypeOK, NewUser, Create, OauthCreate, Row, Roles, Statuses
<1>2. ASSUME NEW c \in Calls, UsersStep(c) PROVE TypeOK'
  <2>1. ASSUME NEW actor \in Users, NEW u \in Users, NEW role \in Roles \cup {"KEEP"},
               NEW status \in Statuses \cup {"KEEP"}, StartUpdate(c, actor, u, role, status)
        PROVE  TypeOK'
    <3>1. [pc |-> IF NeedsCount(user[u], Merge(user[u], role, status)) THEN "count" ELSE "write",
           op |-> "update", target |-> u, role |-> role, status |-> status] \in UserCall
      BY DEF UserCall
    <3> QED BY <2>1, <3>1 DEF TypeOK, StartUpdate
  <2>2. ASSUME NEW actor \in Users, NEW u \in Users, StartRemove(c, actor, u) PROVE TypeOK'
    <3>1. [pc |-> IF user[u].role \in AdminRoles THEN "count" ELSE "write",
           op |-> "remove", target |-> u, role |-> "USER", status |-> "DISABLED"] \in UserCall
      BY DEF UserCall, Roles, Statuses
    <3> QED BY <2>2, <3>1 DEF TypeOK, StartRemove
  <2>3. ASSUME CountAdmins(c) PROVE TypeOK'
    <3>1. call[c] \in UserCall
      BY <2>3 DEF TypeOK, CountAdmins, Idle
    <3>2. [call[c] EXCEPT !.pc = "write"] \in UserCall
      BY <3>1 DEF UserCall
    <3> QED BY <2>3, <3>2 DEF TypeOK, CountAdmins
  <2>4. ASSUME WriteUpdate(c) PROVE TypeOK'
    <3>1. call[c] \in UserCall
      BY <2>4 DEF TypeOK, WriteUpdate, Idle
    <3>2. user' \in [Users -> Row \cup {NeverWas, Removed}]
      BY <2>4, <3>1, MergeIsRow DEF TypeOK, WriteUpdate, Exists, UserCall
    <3> QED BY <2>4, <3>2 DEF TypeOK, WriteUpdate
  <2>5. ASSUME WriteRemove(c) PROVE TypeOK'
    BY <2>5 DEF TypeOK, WriteRemove
  <2>6. ASSUME CallFails(c) PROVE TypeOK'
    BY <2>6 DEF TypeOK, CallFails
  <2> QED BY <1>2, <2>1, <2>2, <2>3, <2>4, <2>5, <2>6 DEF UsersStep
<1> QED BY <1>1, <1>2

\* So does every step of a sign-in.
LEMMA SignInTypes ==
    ASSUME TypeOK, NEW l \in Logins, SignIn(l)
    PROVE  TypeOK'
<1>1. ASSUME NEW u \in Users, LoginRead(l, u) PROVE TypeOK'
  <2>1. [pc |-> "status", who |-> u, status |-> user[u].status] \in LoginCall
    BY <1>1 DEF LoginRead, Exists, Row, LoginCall
  <2> QED BY <1>1, <2>1 DEF TypeOK, LoginRead
<1>2. ASSUME NEW u \in Users, OauthRead(l, u) PROVE TypeOK'
  <2>1. [pc |-> "oauth", who |-> u,
         role |-> IF user[u].role = "PLATFORM_ADMIN" THEN "PLATFORM_ADMIN" ELSE "TENANT_ADMIN"]
           \in LoginCall
    BY DEF LoginCall, AdminRoles
  <2> QED BY <1>2, <2>1 DEF TypeOK, OauthRead
<1>3. ASSUME LoginWrite(l) PROVE TypeOK'
  <2>1. login[l].who \in Users /\ login[l].status \in Statuses
    BY <1>3 DEF TypeOK, LoginWrite, LoginCall, Idle
  <2>2. ASSUME Exists(login[l].who), NEW s \in Statuses
        PROVE  [user EXCEPT ![login[l].who].status = s] \in [Users -> Row \cup {NeverWas, Removed}]
    BY <2>1, <2>2 DEF TypeOK, Exists, Row
  <2>3. user' \in [Users -> Row \cup {NeverWas, Removed}]
    BY <1>3, <2>1, <2>2 DEF TypeOK, LoginWrite, Statuses
  <2> QED BY <1>3, <2>3 DEF TypeOK, LoginWrite
<1>4. ASSUME OauthWrite(l) PROVE TypeOK'
  <2>1. login[l].who \in Users /\ login[l].role \in AdminRoles
    BY <1>4 DEF TypeOK, OauthWrite, LoginCall, Idle
  <2> QED BY <1>4, <2>1 DEF TypeOK, OauthWrite, Row, Roles, AdminRoles, Statuses
<1>5. ASSUME LoginFails(l) PROVE TypeOK'
  BY <1>5 DEF TypeOK, LoginFails
<1> QED BY <1>1, <1>2, <1>3, <1>4, <1>5 DEF SignIn

\* The rows and the calls in flight keep their shape.
THEOREM TypeCorrect == Spec => []TypeOK
<1>1. Init => TypeOK
  BY DEF Init, TypeOK
<1>2. TypeOK /\ [Next]_vars => TypeOK'
  <2> SUFFICES ASSUME TypeOK, [Next]_vars PROVE TypeOK'
    OBVIOUS
  <2>1. CASE Next
    BY <2>1, UsersTypes, SignInTypes DEF Next
  <2>2. CASE UNCHANGED vars
    BY <2>2 DEF vars, TypeOK
  <2> QED BY <2>1, <2>2
<1> QED BY <1>1, <1>2, PTL DEF Spec

(***************************************************************************)
(* Sign-ins                                                                *)
(***************************************************************************)

\* A sign-in in flight never holds the status DISABLED.
LoginsEnabled == \A l \in Logins : login[l].pc = "status" => login[l].status # "DISABLED"

\* login refuses a disabled row before it goes on.
LEMMA LoginsStayEnabled ==
    ASSUME TypeOK, LoginsEnabled, [Next]_vars
    PROVE  LoginsEnabled'
<1>1. ASSUME NEW l \in Logins, SignIn(l) PROVE LoginsEnabled'
  BY <1>1
     DEF TypeOK, LoginsEnabled, SignIn, LoginRead, OauthRead, LoginWrite, OauthWrite,
         LoginFails, Idle
<1>2. ASSUME UNCHANGED login PROVE LoginsEnabled'
  BY <1>2 DEF LoginsEnabled
<1>3. NewUser \/ (\E c \in Calls : UsersStep(c)) => UNCHANGED login
  BY DEF NewUser, Create, OauthCreate, UsersStep, StartUpdate, StartRemove, CountAdmins,
         WriteUpdate, WriteRemove, CallFails
<1> QED BY <1>1, <1>2, <1>3 DEF Next, vars

\* A sign-in that writes leaves an active admin an active admin.
LEMMA SignInPromotes ==
    ASSUME TypeOK, LoginsEnabled, NEW l \in Logins, SignIn(l)
    PROVE  ActiveAdmins \subseteq ActiveAdmins'
<1>1. ASSUME UNCHANGED user PROVE ActiveAdmins \subseteq ActiveAdmins'
  BY <1>1 DEF ActiveAdmins
<1>2. ASSUME LoginWrite(l) PROVE ActiveAdmins \subseteq ActiveAdmins'
  <2>1. login[l].who \in Users /\ login[l].status \in {"ACTIVE", "INVITED"}
    BY <1>2 DEF TypeOK, LoginsEnabled, LoginWrite, LoginCall, Idle, Statuses
  <2>2. ASSUME NEW v \in Users, ActiveAdmin(user[v]) PROVE ActiveAdmin(user'[v])
    BY <1>2, <2>1, <2>2 DEF TypeOK, LoginWrite, Exists, ActiveAdmin, Row
  <2> QED BY <2>2 DEF ActiveAdmins
<1>3. ASSUME OauthWrite(l) PROVE ActiveAdmins \subseteq ActiveAdmins'
  <2>1. login[l].who \in Users /\ login[l].role \in AdminRoles
    BY <1>3 DEF TypeOK, OauthWrite, LoginCall, Idle
  <2>2. ASSUME NEW v \in Users, ActiveAdmin(user[v]) PROVE ActiveAdmin(user'[v])
    BY <1>3, <2>1, <2>2 DEF TypeOK, OauthWrite, ActiveAdmin
  <2> QED BY <2>2 DEF ActiveAdmins
<1> QED BY <1>1, <1>2, <1>3 DEF SignIn, LoginRead, OauthRead, LoginFails

\* Whatever is in flight, no sign-in takes an active admin away: the status it
\* writes back is one it read from a row that was not disabled.
THEOREM SignInsSafe == Spec => SignInsKeepAdmins
<1>1. Init => LoginsEnabled
  BY DEF Init, LoginsEnabled, Idle
<1>2. TypeOK /\ LoginsEnabled /\ [Next]_vars =>
        [\A l \in Logins : SignIn(l) => ActiveAdmins \subseteq ActiveAdmins']_vars
  BY SignInPromotes
<1>3. TypeOK /\ LoginsEnabled /\ [Next]_vars => LoginsEnabled'
  BY LoginsStayEnabled
<1> QED BY <1>1, <1>2, <1>3, TypeCorrect, PTL DEF Spec, SignInsKeepAdmins

(***************************************************************************)
(* The last admin                                                          *)
(***************************************************************************)

\* A call about to write leaves another active admin, or its target is one
\* after the write.
WriteIsSafe(c) ==
    call[c].pc = "write" =>
        \/ ActiveAdmins \ {call[c].target} # {}
        \/ /\ call[c].op = "update"
           /\ ActiveAdmin(Merge(user[call[c].target], call[c].role, call[c].status))

\* The count of the admins holds until the write, because between the two
\* steps only sign-ins and new users, which make admins, write the rows.
AdminInv ==
    /\ TypeOK
    /\ LoginsEnabled
    /\ AnAdminRemains
    /\ \A c \in Calls : WriteIsSafe(c)

\* A new user is one more row.
LEMMA NewUserKeeps ==
    ASSUME AdminInv, NewUser
    PROVE  AnAdminRemains' /\ \A c \in Calls : WriteIsSafe(c)'
<1>1. PICK u \in Users, r \in Row :
        user[u] = NeverWas /\ user' = [user EXCEPT ![u] = r] /\ UNCHANGED call
  BY DEF NewUser, Create, OauthCreate, Row, Roles, Statuses
<1>2. ActiveAdmins \subseteq ActiveAdmins'
  BY <1>1 DEF AdminInv, TypeOK, ActiveAdmins, ActiveAdmin, NeverWas
<1>3. ASSUME NEW c \in Calls, call[c].pc = "write" PROVE WriteIsSafe(c)'
  <2>1. call[c] \in UserCall
    BY <1>3 DEF AdminInv, TypeOK, Idle
  <2>2. CASE ActiveAdmins \ {call[c].target} # {}
    BY <1>1, <1>2, <2>2 DEF WriteIsSafe
  <2>3. CASE call[c].op = "update"
               /\ ActiveAdmin(Merge(user[call[c].target], call[c].role, call[c].status))
    BY <1>1, <2>1, <2>3
       DEF AdminInv, TypeOK, WriteIsSafe, ActiveAdmin, Merge, UserCall, NeverWas, AdminRoles
  <2> QED BY <1>3, <2>2, <2>3 DEF AdminInv, WriteIsSafe
<1> QED BY <1>1, <1>2, <1>3 DEF AdminInv, AnAdminRemains, WriteIsSafe

\* A sign-in makes its user active, and an admin stays one.
LEMMA SignInKeeps ==
    ASSUME AdminInv, NEW l \in Logins, SignIn(l)
    PROVE  AnAdminRemains' /\ \A c \in Calls : WriteIsSafe(c)'
<1>1. ActiveAdmins \subseteq ActiveAdmins'
  BY SignInPromotes DEF AdminInv
<1>2. UNCHANGED call
  BY DEF SignIn, LoginRead, OauthRead, LoginWrite, OauthWrite, LoginFails
<1>3. ASSUME NEW v \in Users
      PROVE  \/ user'[v] = user[v]
             \/ /\ user[v] \in Row
                /\ user'[v].status = "ACTIVE"
                /\ user'[v].role = user[v].role \/ user'[v].role \in AdminRoles
  <2>1. CASE LoginWrite(l)
    <3>1. login[l].who \in Users /\ login[l].status \in {"ACTIVE", "INVITED"}
      BY <2>1 DEF AdminInv, TypeOK, LoginsEnabled, LoginWrite, LoginCall, Idle, Statuses
    <3> QED BY <2>1, <3>1 DEF AdminInv, TypeOK, LoginWrite, Exists, Row
  <2>2. CASE OauthWrite(l)
    <3>1. login[l].who \in Users /\ login[l].role \in AdminRoles
      BY <2>2 DEF AdminInv, TypeOK, OauthWrite, LoginCall, Idle
    <3> QED BY <2>2, <3>1 DEF AdminInv, TypeOK, OauthWrite, Exists
  <2> QED BY <2>1, <2>2 DEF SignIn, LoginRead, OauthRead, LoginFails
<1>4. ASSUME NEW c \in Calls, call[c].pc = "write" PROVE WriteIsSafe(c)'
  <2>1. call[c] \in UserCall
    BY <1>4 DEF AdminInv, TypeOK, Idle
  <2>2. CASE ActiveAdmins \ {call[c].target} # {}
    BY <1>1, <1>2, <2>2 DEF WriteIsSafe
  <2>3. CASE call[c].op = "update"
               /\ ActiveAdmin(Merge(user[call[c].target], call[c].role, call[c].status))
    <3>1. call[c].target \in Users
      BY <2>1 DEF UserCall
    <3>2. ActiveAdmin(Merge(user'[call[c].target], call[c].role, call[c].status))
      BY <1>3, <2>1, <2>3, <3>1 DEF ActiveAdmin, Merge, UserCall
    <3> QED BY <1>2, <2>3, <3>2 DEF WriteIsSafe
  <2> QED BY <1>4, <2>2, <2>3 DEF AdminInv, WriteIsSafe
<1> QED BY <1>1, <1>2, <1>4 DEF AdminInv, AnAdminRemains, WriteIsSafe

\* The steps of the only call in flight.
LEMMA CallKeeps ==
    ASSUME AdminInv, NEW c \in Calls, UsersStep(c), \A d \in Calls : d = c
    PROVE  AnAdminRemains' /\ \A d \in Calls : WriteIsSafe(d)'
<1> SUFFICES AnAdminRemains' /\ WriteIsSafe(c)'
  OBVIOUS
<1>1. ASSUME NEW actor \in Users, NEW u \in Users, NEW role \in Roles \cup {"KEEP"},
             NEW status \in Statuses \cup {"KEEP"}, StartUpdate(c, actor, u, role, status)
      PROVE  AnAdminRemains' /\ WriteIsSafe(c)'
  <2>1. call'[c] = [pc |-> IF NeedsCount(user[u], Merge(user[u], role, status))
                           THEN "count" ELSE "write",
                    op |-> "update", target |-> u, role |-> role, status |-> status]
    BY <1>1 DEF AdminInv, TypeOK, StartUpdate
  <2>2. user' = user
    BY <1>1 DEF StartUpdate
  <2>3. CASE NeedsCount(user[u], Merge(user[u], role, status))
    BY <2>1, <2>2, <2>3 DEF AdminInv, AnAdminRemains, ActiveAdmins, WriteIsSafe
  <2>4. CASE ActiveAdmin(Merge(user[u], role, status))
    BY <2>1, <2>2, <2>4 DEF AdminInv, AnAdminRemains, ActiveAdmins, WriteIsSafe
  <2>5. CASE user[u].role \notin AdminRoles
    <3>1. u \notin ActiveAdmins
      BY <2>5 DEF ActiveAdmins, ActiveAdmin
    <3> QED BY <2>1, <2>2, <3>1 DEF AdminInv, AnAdminRemains, ActiveAdmins, WriteIsSafe
  <2> QED BY <2>3, <2>4, <2>5 DEF NeedsCount
<1>2. ASSUME NEW actor \in Users, NEW u \in Users, StartRemove(c, actor, u)
      PROVE  AnAdminRemains' /\ WriteIsSafe(c)'
  <2>1. call'[c] = [pc |-> IF user[u].role \in AdminRoles THEN "count" ELSE "write",
                    op |-> "remove", target |-> u, role |-> "USER", status |-> "DISABLED"]
    BY <1>2 DEF AdminInv, TypeOK, StartRemove
  <2>2. user' = user
    BY <1>2 DEF StartRemove
  <2>3. CASE user[u].role \in AdminRoles
    BY <2>1, <2>2, <2>3 DEF AdminInv, AnAdminRemains, ActiveAdmins, WriteIsSafe
  <2>4. CASE user[u].role \notin AdminRoles
    <3>1. u \notin ActiveAdmins
      BY <2>4 DEF ActiveAdmins, ActiveAdmin
    <3> QED BY <2>1, <2>2, <3>1 DEF AdminInv, AnAdminRemains, ActiveAdmins, WriteIsSafe
  <2> QED BY <2>3, <2>4
<1>3. ASSUME CountAdmins(c) PROVE AnAdminRemains' /\ WriteIsSafe(c)'
  <2>1. call[c] \in UserCall
    BY <1>3 DEF AdminInv, TypeOK, CountAdmins, Idle
  <2>2. user' = user /\ ActiveAdmins' = ActiveAdmins
    BY <1>3 DEF CountAdmins, ActiveAdmins
  <2>3. CASE ActiveAdmins \ {call[c].target} = {}
    BY <1>3, <2>2, <2>3 DEF AdminInv, TypeOK, AnAdminRemains, CountAdmins, WriteIsSafe, Idle
  <2>4. CASE ActiveAdmins \ {call[c].target} # {}
    <3>1. call'[c].target = call[c].target
      BY <1>3, <2>1, <2>4 DEF AdminInv, TypeOK, CountAdmins, UserCall
    <3> QED BY <2>2, <2>4, <3>1 DEF AdminInv, AnAdminRemains, WriteIsSafe
  <2> QED BY <2>3, <2>4
<1>4. ASSUME WriteUpdate(c) \/ WriteRemove(c) PROVE AnAdminRemains' /\ WriteIsSafe(c)'
  <2>1. call[c] \in UserCall /\ call[c].target \in Users /\ call[c].pc = "write"
    BY <1>4 DEF AdminInv, TypeOK, WriteUpdate, WriteRemove, Idle, UserCall
  <2>2. WriteIsSafe(c)'
    BY <1>4 DEF AdminInv, TypeOK, WriteUpdate, WriteRemove, WriteIsSafe, Idle
  <2>3. CASE ActiveAdmins \ {call[c].target} # {}
    <3>1. PICK v \in ActiveAdmins : v # call[c].target
      BY <2>3
    <3>2. v \in Users /\ user'[v] = user[v]
      BY <1>4, <2>1, <3>1 DEF AdminInv, TypeOK, WriteUpdate, WriteRemove, ActiveAdmins
    <3> QED BY <2>2, <3>1, <3>2 DEF AnAdminRemains, ActiveAdmins
  <2>4. CASE call[c].op = "update"
               /\ ActiveAdmin(Merge(user[call[c].target], call[c].role, call[c].status))
    <3>1. CASE Exists(call[c].target)
      <4>1. ActiveAdmin(user'[call[c].target])
        BY <1>4, <2>1, <2>4, <3>1 DEF AdminInv, TypeOK, WriteUpdate, WriteRemove
      <4> QED BY <2>1, <2>2, <4>1 DEF AnAdminRemains, ActiveAdmins
    <3>2. CASE ~Exists(call[c].target)
      <4>1. user' = user
        BY <1>4, <3>2 DEF WriteUpdate, WriteRemove
      <4> QED BY <2>2, <4>1 DEF AdminInv, AnAdminRemains, ActiveAdmins
    <3> QED BY <3>1, <3>2
  <2> QED BY <2>1, <2>3, <2>4 DEF AdminInv, WriteIsSafe
<1>5. ASSUME CallFails(c) PROVE AnAdminRemains' /\ WriteIsSafe(c)'
  BY <1>5 DEF AdminInv, TypeOK, CallFails, AnAdminRemains, ActiveAdmins, WriteIsSafe, Idle
<1> QED BY <1>1, <1>2, <1>3, <1>4, <1>5 DEF UsersStep

\* With no two calls of update or remove in flight at once, a tenant that has
\* an active admin keeps one, however many sign-ins and new users come between
\* the count of the admins and the write.
THEOREM LastAdminKept ==
    ASSUME \A c, d \in Calls : c = d
    PROVE  Spec => []AnAdminRemains
<1>1. Init => AdminInv
  BY DEF Init, AdminInv, TypeOK, LoginsEnabled, AnAdminRemains, WriteIsSafe, Idle
<1>2. AdminInv /\ [Next]_vars => AdminInv'
  <2> SUFFICES ASSUME AdminInv, [Next]_vars PROVE AdminInv'
    OBVIOUS
  <2>1. TypeOK'
    <3>1. CASE Next
      BY <3>1, UsersTypes, SignInTypes DEF Next, AdminInv
    <3>2. CASE UNCHANGED vars
      BY <3>2 DEF vars, AdminInv, TypeOK
    <3> QED BY <3>1, <3>2
  <2>2. LoginsEnabled'
    BY LoginsStayEnabled DEF AdminInv
  <2>3. AnAdminRemains' /\ \A c \in Calls : WriteIsSafe(c)'
    <3>1. CASE Next
      BY <3>1, NewUserKeeps, SignInKeeps, CallKeeps DEF Next
    <3>2. CASE UNCHANGED vars
      BY <3>2 DEF vars, AdminInv, AnAdminRemains, ActiveAdmins, WriteIsSafe
    <3> QED BY <3>1, <3>2
  <2> QED BY <2>1, <2>2, <2>3 DEF AdminInv
<1>3. AdminInv => AnAdminRemains
  BY DEF AdminInv
<1> QED BY <1>1, <1>2, <1>3, PTL DEF Spec
=============================================================================
