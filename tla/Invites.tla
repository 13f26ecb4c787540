------------------------------ MODULE Invites ------------------------------
(***************************************************************************)
(* The invites to one address: create, revoke and acceptInvite, each of    *)
(* which reads, awaits and writes, beside the administrator who creates    *)
(* and removes the user of that address.  Addresses share no row.          *)
(***************************************************************************)
EXTENDS Naturals

CONSTANTS
    Issued,       \* invites that are ever created
    Callers,      \* requests that may be in flight at once
    MaxUsers      \* how often a user of the address is created

VARIABLES
    invite,       \* invites: status, acceptedBy, and whether expiresAt is past
    user,         \* tenant_users: the id of the user of the address, 0 if none
    users,        \* ids given out
    inflight,     \* requests in flight
    made          \* history: the users made from each invite

vars == <<invite, user, users, inflight, made>>

Ids     == 0 .. MaxUsers
NoInvite == [status |-> "none", acceptedBy |-> 0, late |-> FALSE]
Waiting  == [pc |-> "idle"]
Caller   == [pc : {"look", "accept", "revoke"}, of : Issued]

Init ==
    /\ invite = [i \in Issued |-> NoInvite]
    /\ user \in {0, 1} \cap Ids
    /\ users = user
    /\ inflight = [c \in Callers |-> Waiting]
    /\ made = [i \in Issued |-> {}]

Goes(c, next) == inflight' = [inflight EXCEPT ![c] = next]

NewUser ==
    /\ user = 0
    /\ users < MaxUsers
    /\ users' = users + 1
    /\ user' = users + 1

\* InvitesService.create, by an admin who may give the role.
CreateInvite(i) ==
    /\ invite[i] = NoInvite
    /\ invite' = [invite EXCEPT ![i].status = "PENDING"]
    /\ UNCHANGED <<user, users, inflight, made>>

\* Its seven days are over.
InviteExpires(i) ==
    /\ invite[i].status # "none"
    /\ invite' = [invite EXCEPT ![i].late = TRUE]
    /\ UNCHANGED <<user, users, inflight, made>>

\* getInvite shows an invite that acceptInvite would take.
Acceptable(i) == invite[i].status = "PENDING" /\ ~invite[i].late

(***************************************************************************)
(* acceptInvite                                                            *)
(***************************************************************************)

ReadInvite(c, i) ==
    /\ inflight[c] = Waiting
    /\ Acceptable(i)
    /\ Goes(c, [pc |-> "look", of |-> i])
    /\ UNCHANGED <<invite, user, users, made>>

LookForExisting(c) ==
    /\ inflight[c].pc = "look"
    /\ Goes(c, IF user = 0 THEN [inflight[c] EXCEPT !.pc = "accept"] ELSE Waiting)
    /\ UNCHANGED <<invite, user, users, made>>

AcceptedBy(i, id) ==
    invite' = [invite EXCEPT ![i].status = "ACCEPTED", ![i].acceptedBy = id]

AcceptUserOnly(c) ==   \* mutant: no transaction, and the update of the invite fails
    /\ inflight[c].pc = "accept"
    /\ IF user = 0
       THEN /\ NewUser
            /\ made' = [made EXCEPT ![inflight[c].of] = @ \cup {user'}]
       ELSE UNCHANGED <<user, users, made>>
    /\ Goes(c, Waiting)
    /\ UNCHANGED invite

\* The transaction: the user, the invite, the audit row and the identities of
\* the address, or, when the address has a user by now, nothing.
Accept(c) ==
    /\ inflight[c].pc = "accept"
    /\ LET i == inflight[c].of IN
       IF user = 0
       THEN /\ NewUser
            /\ AcceptedBy(i, user')
            /\ made' = [made EXCEPT ![i] = @ \cup {user'}]
       ELSE UNCHANGED <<invite, user, users, made>>
    /\ Goes(c, Waiting)

(***************************************************************************)
(* revoke, and the user's other comings and goings                         *)
(***************************************************************************)

RevokeRead(c, i) ==
    /\ inflight[c] = Waiting
    /\ invite[i].status = "PENDING"
    /\ Goes(c, [pc |-> "revoke", of |-> i])
    /\ UNCHANGED <<invite, user, users, made>>

RevokeReset(c) ==   \* mutant: the row goes back to what create made of it
    /\ inflight[c].pc = "revoke"
    /\ invite' = [invite EXCEPT ![inflight[c].of] = [NoInvite EXCEPT !.status = "PENDING"]]
    /\ Goes(c, Waiting)
    /\ UNCHANGED <<user, users, made>>

RevokeWrite(c) ==
    /\ inflight[c].pc = "revoke"
    /\ invite' = [invite EXCEPT ![inflight[c].of].status = "REVOKED"]
    /\ Goes(c, Waiting)
    /\ UNCHANGED <<user, users, made>>

CallerFails(c) ==
    /\ inflight[c] # Waiting
    /\ Goes(c, Waiting)
    /\ UNCHANGED <<invite, user, users, made>>

\* UsersService.create and the Google sign-in, which ask for no invite.
UserCreated ==
    /\ NewUser
    /\ UNCHANGED <<invite, inflight, made>>

\* UsersService.remove; acceptedBy is no foreign key.
UserRemoved ==
    /\ user # 0
    /\ user' = 0
    /\ UNCHANGED <<invite, users, inflight, made>>

Next ==
    \/ \E i \in Issued : CreateInvite(i) \/ InviteExpires(i)
    \/ \E c \in Callers :
           \/ \E i \in Issued : ReadInvite(c, i) \/ RevokeRead(c, i)
           \/ LookForExisting(c) \/ Accept(c) \/ RevokeWrite(c) \/ CallerFails(c)
    \/ UserCreated \/ UserRemoved

Spec == Init /\ [][Next]_vars

(***************************************************************************)
(* Properties                                                              *)
(***************************************************************************)

\* The shape of the rows and of the requests in flight.
TypeOK ==
    /\ invite \in [Issued -> [status : {"none", "PENDING", "ACCEPTED", "REVOKED"},
                              acceptedBy : Ids, late : BOOLEAN]]
    /\ user \in 0 .. users
    /\ users \in Ids
    /\ inflight \in [Callers -> Caller \cup {Waiting}]
    /\ made \in [Issued -> SUBSET (1 .. users)]

\* An invite tells what became of it, although revoke and acceptInvite write
\* it from old readings: while it is PENDING nobody was made from it, and
\* acceptedBy is always the last user that was.
InviteTellsItsUser ==
    \A i \in Issued :
        /\ invite[i].status = "PENDING" => made[i] = {}
        /\ invite[i].status = "ACCEPTED" => invite[i].acceptedBy # 0
        /\ invite[i].acceptedBy = 0 <=> made[i] = {}
        /\ \A id \in made[i] : id <= invite[i].acceptedBy
=============================================================================
