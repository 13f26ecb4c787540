--------------------------- MODULE LegacyRequests ---------------------------
(***************************************************************************)
(* Invites, users and identity requests of the legacy backend, of one       *)
(* address of a tenant.  InvitesService, UsersService and IvipService check *)
(* a row and write it an await or several later, without a transaction and  *)
(* with `where: { id }` only; accepting an invite and approving a request   *)
(* take two writes.  Roles and statuses of the user are left out, but for   *)
(* whether a requested role was written.  The tenant has other admins, so   *)
(* that the guard on the last one does not bite here.                       *)
(***************************************************************************)
EXTENDS Naturals, Sequences

CONSTANTS
    Callers,       \* calls that may be in flight at once
    MaxUsers,      \* rows of tenantUser the address has, one after the other
    MaxInvites     \* rows of invite

VARIABLES
    user,          \* the id of the address's row, 0 when there is none
    users,         \* rows made so far: the last id
    invites,
    request,       \* one identityRequest: its type, target and status
    call,          \* the calls in flight: [what, pc, i]
    \* history, read by properties only
    admitted,      \* invites whose acceptance created the user
    applied        \* the role of the request was written

vars == <<user, users, invites, request, call, admitted, applied>>

Nobody == 0
\* The status of an invite; "overdue" is PENDING after expiresAt.
Invite == {"PENDING", "overdue", "ACCEPTED", "REVOKED", "EXPIRED", "deleted"}
Open   == {"PENDING", "overdue"}
Idle   == [what |-> "none", pc |-> "idle", i |-> 0]

Init ==
    /\ user = Nobody
    /\ users = 0
    /\ invites = <<>>
    /\ request = [type |-> "none", target |-> 0, status |-> "none"]
    /\ call = [c \in Callers |-> Idle]
    /\ admitted = {}
    /\ applied = FALSE

At(c, what, pc)         == call[c].what = what /\ call[c].pc = pc
Starts(c, what, pc, i)  == /\ call[c] = Idle
                           /\ call' = [call EXCEPT ![c] = [what |-> what, pc |-> pc, i |-> i]]
Goto(c, pc)             == call' = [call EXCEPT ![c].pc = pc]
Ends(c)                 == call' = [call EXCEPT ![c] = Idle]

rows == <<user, users, invites, request, admitted, applied>>

\* @@unique([tenantId, email]): a second row is refused.
NewUser ==
    /\ user = Nobody /\ users < MaxUsers
    /\ user' = users + 1
    /\ users' = users + 1

(***************************************************************************)
(* UsersService                                                            *)
(***************************************************************************)

CreateUserRead(c) ==
    /\ user = Nobody /\ users < MaxUsers
    /\ Starts(c, "create user", "write", 0)
    /\ UNCHANGED rows

CreateUserWrite(c) ==
    /\ At(c, "create user", "write")
    /\ NewUser \/ (user # Nobody /\ UNCHANGED <<user, users>>)
    /\ Ends(c)
    /\ UNCHANGED <<invites, request, admitted, applied>>

RemoveUserRead(c) ==
    /\ user # Nobody
    /\ Starts(c, "remove user", "write", user)
    /\ UNCHANGED rows

RemoveUserWrite(c) ==
    /\ At(c, "remove user", "write")
    /\ user' = IF user = call[c].i THEN Nobody ELSE user
    /\ Ends(c)
    /\ UNCHANGED <<users, invites, request, admitted, applied>>

(***************************************************************************)
(* InvitesService                                                          *)
(***************************************************************************)

CreateInviteRead(c) ==
    /\ \/ user = Nobody /\ Starts(c, "invite", "pending", 0)
       \/ /\ At(c, "invite", "pending")
          /\ IF \E i \in DOMAIN invites : invites[i] \in Open
             THEN Ends(c) ELSE Goto(c, "write")
    /\ UNCHANGED rows

CreateInviteWrite(c) ==
    /\ At(c, "invite", "write")
    /\ Len(invites) < MaxInvites
    /\ invites' = Append(invites, "PENDING")
    /\ Ends(c)
    /\ UNCHANGED <<user, users, request, admitted, applied>>

\* accept: findByToken
AcceptRead(c, i) ==
    /\ invites[i] = "PENDING"
    /\ Starts(c, "accept", "create", i)
    /\ UNCHANGED rows

AcceptCreate(c) ==
    /\ At(c, "accept", "create")
    /\ \/ /\ NewUser
          /\ admitted' = admitted \cup {call[c].i}
          /\ Goto(c, "mark")
       \/ user # Nobody /\ Ends(c) /\ UNCHANGED <<user, users, admitted>>
    /\ UNCHANGED <<invites, request, applied>>

\* An update of a row that was deleted throws.
SetInvite(i, status) ==
    IF invites[i] = "deleted" THEN UNCHANGED invites
    ELSE invites' = [invites EXCEPT ![i] = status]

AcceptMark(c) ==
    /\ At(c, "accept", "mark")
    /\ SetInvite(call[c].i, "ACCEPTED")
    /\ Ends(c)
    /\ UNCHANGED <<user, users, request, admitted, applied>>

ChangeInviteRead(c, i) ==
    /\ \/ invites[i] \in Open /\ \E what \in {"revoke", "resend"} : Starts(c, what, "write", i)
       \/ invites[i] \notin Open \cup {"deleted"} /\ Starts(c, "delete", "write", i)
    /\ UNCHANGED rows

ChangeInviteWrite(c) ==
    /\ LET i == call[c].i IN
       \/ call[c].what = "revoke" /\ SetInvite(i, "REVOKED")
       \/ call[c].what = "delete" /\ SetInvite(i, "deleted")
       \/ /\ call[c].what = "resend"   \* a new expiresAt
          /\ invites' = [invites EXCEPT ![i] = IF @ = "overdue" THEN "PENDING" ELSE @]
    /\ Ends(c)
    /\ UNCHANGED <<user, users, request, admitted, applied>>

InviteExpires(i) ==
    /\ invites[i] = "PENDING"
    /\ invites' = [invites EXCEPT ![i] = "overdue"]
    /\ UNCHANGED <<user, users, request, call, admitted, applied>>

CleanupExpired ==
    /\ \E i \in DOMAIN invites : invites[i] = "overdue"
    /\ invites' = [i \in DOMAIN invites |-> IF invites[i] = "overdue" THEN "EXPIRED" ELSE invites[i]]
    /\ UNCHANGED <<user, users, request, call, admitted, applied>>

(***************************************************************************)
(* IvipService                                                             *)
(***************************************************************************)

\* The other types of request ask for nothing the backend carries out.
CreateRequest ==
    /\ request.status = "none"
    /\ \E type \in {"ROLE_CHANGE", "other"} :
           /\ type = "ROLE_CHANGE" => user # Nobody
           /\ request' = [type |-> type, target |-> user, status |-> "PENDING"]
    /\ UNCHANGED <<user, users, invites, call, admitted, applied>>

RequestRead(c) ==
    /\ request.status = "PENDING"
    /\ \/ Starts(c, "approve", "execute", 0)
       \/ Starts(c, "reject", "write", 0)
    /\ UNCHANGED rows

WriteMany(c) ==   \* mutant: updateMany, which a deleted user does not stop
    applied' = (applied \/ user = request.target) /\ Goto(c, "write")

WriteRole(c) ==
    IF user = request.target
    THEN applied' = TRUE /\ Goto(c, "write")
    ELSE Ends(c) /\ UNCHANGED applied

ExecuteApproval(c) ==
    /\ At(c, "approve", "execute")
    /\ IF request.type = "ROLE_CHANGE"
       THEN WriteRole(c)
       ELSE Goto(c, "write") /\ UNCHANGED applied
    /\ UNCHANGED <<user, users, invites, request, admitted>>

AnswerRequest(c) ==
    /\ \/ At(c, "approve", "write") /\ request' = [request EXCEPT !.status = "APPROVED"]
       \/ At(c, "reject", "write") /\ request' = [request EXCEPT !.status = "REJECTED"]
    /\ Ends(c)
    /\ UNCHANGED <<user, users, invites, admitted, applied>>

\* An await of a call throws, or the process stops.
CallFails(c) == call[c] # Idle /\ Ends(c) /\ UNCHANGED rows

Next ==
    \/ \E c \in Callers :
           \/ CreateUserRead(c) \/ CreateUserWrite(c) \/ RemoveUserRead(c) \/ RemoveUserWrite(c)
           \/ CreateInviteRead(c) \/ CreateInviteWrite(c)
           \/ AcceptCreate(c) \/ AcceptMark(c) \/ ChangeInviteWrite(c)
           \/ RequestRead(c) \/ ExecuteApproval(c) \/ AnswerRequest(c) \/ CallFails(c)
           \/ \E i \in DOMAIN invites : AcceptRead(c, i) \/ ChangeInviteRead(c, i)
    \/ \E i \in DOMAIN invites : InviteExpires(i)
    \/ CleanupExpired \/ CreateRequest

Spec == Init /\ [][Next]_vars

(***************************************************************************)
(* Properties                                                              *)
(***************************************************************************)

\* The shape of the rows and of the calls.
TypeOK ==
    /\ user \in 0 .. users
    /\ users \in 0 .. MaxUsers
    /\ invites \in Seq(Invite) /\ Len(invites) <= MaxInvites
    /\ request.type \in {"none", "ROLE_CHANGE", "other"}
    /\ request.target \in 0 .. users
    /\ request.status \in {"none", "PENDING", "APPROVED", "REJECTED"}
    /\ \A c \in Callers : call[c].pc \in {"idle", "pending", "create", "execute", "mark", "write"}
    /\ admitted \subseteq DOMAIN invites
    /\ applied \in BOOLEAN

\* What a row says was answered with yes was carried out, whatever users,
\* invites and requests became in between: an ACCEPTED invite created its user,
\* and an APPROVED change of role was written.  (The converse does not hold: a
\* revocation or a rejection may be written over it.)
AnsweredWasCarriedOut ==
    /\ \A i \in DOMAIN invites : invites[i] = "ACCEPTED" => i \in admitted
    /\ request.status = "APPROVED" /\ request.type = "ROLE_CHANGE" => applied
=============================================================================
