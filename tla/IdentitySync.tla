---------------------------- MODULE IdentitySync ----------------------------
(***************************************************************************)
(* syncGoogleUsers, called by an administrator or by the scheduler's cron: *)
(* the Google accounts of a tenant are fetched, and upserted one by one in *)
(* external_identities; rows of accounts that are gone are deleted after   *)
(* the last upsert.  Nothing is in a transaction: a sync that throws       *)
(* leaves what it has written.                                             *)
(***************************************************************************)
EXTENDS Naturals, FiniteSetsExt

CONSTANTS
    Accounts,     \* Google account ids; an id is never used again
    MaxEmail,     \* e-mail addresses are 1 .. MaxEmail, in their order
    Users,        \* ids of tenant_users rows
    Manual,       \* calls of sync-users that may be in flight at once
    Cron,         \* runs of the cron that may be in flight at once
    Nobody,       \* a null mappedTenantUserId
    System,       \* the user id 'system', under which the scheduler acts
    Reuse,        \* whether Google gives an address to a second account
    MapsByHand,   \* whether administrators map identities
    MaxEdits,     \* changes in Google, and of users and mappings by hand, in a behaviour
    MaxFails,     \* failures of a sync in a behaviour
    MaxLinks      \* changes of users that may be in flight at once

ASSUME SyncAssumption ==
    /\ MaxEmail \in Nat
    /\ MaxEdits \in Nat /\ MaxFails \in Nat /\ MaxLinks \in Nat
    /\ Nobody \notin Users
    /\ System \notin Users   \* ids are uuids
    /\ Reuse \in BOOLEAN /\ MapsByHand \in BOOLEAN
    /\ Manual \cap Cron = {}

VARIABLES
    google,       \* the address of an account, 0 for none
    user,         \* the address of a tenant_users row, 0 for no row
    row,          \* external_identities rows
    status,       \* integration.status
    sync,         \* syncs in flight
    links,        \* users written, whose identities are still to be linked
    edits,        \* changes in Google so far
    fails,        \* failures of syncs so far
    \* history
    former,       \* users that were removed, whose ids are used up
    used          \* addresses that were given to an account

vars == <<google, user, row, status, sync, links, edits, fails, former, used>>

Emails == 1 .. MaxEmail
NoRow  == [email |-> 0, mapped |-> Nobody]
Row    == [email : Emails, mapped : Users \cup {Nobody}] \cup {NoRow}

Injective(f) == \A x, y \in DOMAIN f : f[x] = f[y] /\ f[x] # 0 => x = y

Handlers == Manual \cup Cron
Idle == [pc |-> "idle"]
Steps == {"users", "upsert", "stale", "mark", "audit", "groups"}

\* touched is history: accounts whose address, row or mapping something else
\* than this sync changed since it started.
SyncCall ==
    [pc : Steps, op : {"sync", "connect", "cron"}, actor : Users \cup {System}, listing : [Accounts -> 0 .. MaxEmail],
     local : [Emails -> Users \cup {Nobody}], todo : SUBSET Accounts, touched : SUBSET Accounts]

Touch(as) ==
    [s \in Handlers |-> IF sync[s] = Idle THEN Idle ELSE [sync[s] EXCEPT !.touched = @ \cup as]]

Init ==
    /\ google \in {f \in [Accounts -> 0 .. MaxEmail] : Injective(f)}
    /\ used = {google[a] : a \in Accounts} \ {0}
    /\ user \in {f \in [Users -> 0 .. MaxEmail] : Injective(f)}
    /\ row = [a \in Accounts |-> NoRow]
    /\ status = "CONNECTED"
    /\ sync = [s \in Handlers |-> Idle]
    /\ links = {}
    /\ edits = 0
    /\ fails = 0
    /\ former = {}

(***************************************************************************)
(* Google, tenant users, manual mapping                                    *)
(***************************************************************************)

Free(e) == IF Reuse THEN \A a \in Accounts : google[a] # e ELSE e \notin used

\* An account is created, or renamed, or deleted (e = 0).
EditAccount(a, e) ==
    /\ edits < MaxEdits
    /\ google[a] # e
    /\ e # 0 => Free(e)
    /\ google' = [google EXCEPT ![a] = e]
    /\ used' = used \cup ({e} \ {0})
    /\ edits' = edits + 1
    /\ sync' = Touch({a})
    /\ UNCHANGED <<user, row, status, links, fails, former>>

\* create and acceptInvite write the row, and then link it to the identities
\* with its address; update does so whatever it changed.
UserWritten(u, e) ==
    /\ user[u] = 0 => u \notin former
    /\ \A v \in Users \ {u} : user[v] # e
    /\ Cardinality(links) < MaxLinks
    /\ edits < MaxEdits
    /\ user' = [user EXCEPT ![u] = e]
    /\ links' = links \cup {[user |-> u, email |-> e]}
    /\ edits' = edits + 1
    /\ UNCHANGED <<google, row, status, sync, fails, former, used>>

\* externalIdentity.updateMany, under the foreign key to the user
LinkIdentities(l) ==
    /\ l \in links
    /\ user[l.user] # 0
    /\ LET same == {a \in Accounts : row[a].email = l.email} IN
       /\ row' = [a \in Accounts |->
                    IF a \in same THEN [row[a] EXCEPT !.mapped = l.user] ELSE row[a]]
       /\ sync' = Touch(same)
    /\ links' = links \ {l}
    /\ UNCHANGED <<google, user, status, edits, fails, former, used>>

\* The user was removed meanwhile, the database failed, or the process ended.
LinkLost(l) ==
    /\ l \in links
    /\ links' = links \ {l}
    /\ UNCHANGED <<google, user, row, status, sync, edits, fails, former, used>>

UserRemovedOnly(u) ==   \* mutant: the references to the user stay
    /\ user[u] # 0
    /\ user' = [user EXCEPT ![u] = 0]
    /\ former' = former \cup {u}
    /\ UNCHANGED <<google, row, status, sync, links, edits, fails, used>>

\* mappedTenantUser is set to null when the user goes.
UserRemoved(u) ==
    /\ user[u] # 0
    /\ user' = [user EXCEPT ![u] = 0]
    /\ former' = former \cup {u}
    /\ row' = [a \in Accounts |->
                 IF row[a].mapped = u THEN [row[a] EXCEPT !.mapped = Nobody] ELSE row[a]]
    /\ sync' = Touch({a \in Accounts : row[a].mapped = u})
    /\ UNCHANGED <<google, status, links, edits, fails, used>>

MapIdentity(a, u) ==
    /\ MapsByHand
    /\ row[a] # NoRow
    /\ user[u] # 0
    /\ edits < MaxEdits
    /\ row' = [row EXCEPT ![a].mapped = u]
    /\ sync' = Touch({a})
    /\ edits' = edits + 1
    /\ UNCHANGED <<google, user, status, links, fails, former, used>>

(***************************************************************************)
(* syncGoogleUsers                                                         *)
(***************************************************************************)

\* Sync s goes on as r, having changed the rows of as under the other syncs.
Proceed(s, r, as) == sync' = [Touch(as) EXCEPT ![s] = r]
Goto(s, pc) == Proceed(s, [sync[s] EXCEPT !.pc = pc], {})

\* A sync that throws; the scheduler catches and sets the status.
Throw(s) ==
    /\ Proceed(s, Idle, {})
    /\ status' = IF sync[s].op = "cron" THEN "ERROR" ELSE status

Fetch(s, op, actor) ==
    /\ sync[s] = Idle
    /\ Proceed(s, [pc |-> "users", op |-> op, actor |-> actor, listing |-> google,
                   local |-> [e \in Emails |-> Nobody],
                   todo |-> {a \in Accounts : google[a] # 0}, touched |-> {}], {})
    /\ UNCHANGED <<google, user, row, links, edits, fails, former, used>>

SyncRequested(s, u) ==
    /\ user[u] # 0
    /\ Fetch(s, "sync", u)
    /\ UNCHANGED status

\* connectGoogle of a tenant that is connected already
ConnectRequested(s, u) ==
    /\ user[u] # 0
    /\ Fetch(s, "connect", u)
    /\ status' = "CONNECTED"

\* Every 30 minutes, for an integration that is CONNECTED or in ERROR.
CronTick(s) ==
    /\ Fetch(s, "cron", System)
    /\ UNCHANGED status

\* localUserIdsByEmail
UserIdsByEmail ==
    [e \in Emails |-> IF \E u \in Users : user[u] = e
                      THEN CHOOSE u \in Users : user[u] = e ELSE Nobody]

ReadUsers(s) ==
    /\ sync[s].pc = "users"
    /\ Proceed(s, [sync[s] EXCEPT !.pc = "upsert",
                     !.local = UserIdsByEmail], {})
    /\ UNCHANGED <<google, user, row, status, links, edits, fails, former, used>>

\* Google lists the accounts by address.
NextAccount(s) ==
    CHOOSE a \in sync[s].todo : \A b \in sync[s].todo : sync[s].listing[a] <= sync[s].listing[b]

\* An address without a local user leaves the mapping of an existing row alone.
MappedTo(old, u) == IF u = Nobody THEN old ELSE u

AcceptedUnindexed(a, e, u) ==   \* mutant: no unique index on the address
    u # Nobody => user[u] # 0

\* The unique index on (integration, primary_email) and the foreign key to the
\* user can both refuse an upsert.
Accepted(a, e, u) ==
    /\ \A b \in Accounts \ {a} : row[b].email # e
    /\ u # Nobody => user[u] # 0

Upsert(s) ==
    /\ sync[s].pc = "upsert"
    /\ sync[s].todo # {}
    /\ LET a == NextAccount(s)
           e == sync[s].listing[a]
           u == sync[s].local[e] IN
       IF Accepted(a, e, u)
       THEN /\ row' = [row EXCEPT ![a] = [email |-> e, mapped |-> MappedTo(@.mapped, u)]]
            /\ Proceed(s, [sync[s] EXCEPT !.todo = @ \ {a}], {a})
            /\ UNCHANGED status
       ELSE /\ Throw(s)
            /\ UNCHANGED row
    /\ UNCHANGED <<google, user, links, edits, fails, former, used>>

KeepStaleIdentities(s) ==   \* mutant: nothing is deleted
    /\ sync[s].pc = "upsert"
    /\ sync[s].todo = {}
    /\ Goto(s, "mark")
    /\ UNCHANGED <<google, user, row, status, links, edits, fails, former, used>>

RemoveStaleIdentities(s) ==
    /\ sync[s].pc = "upsert"
    /\ sync[s].todo = {}
    /\ LET stale == {a \in Accounts : sync[s].listing[a] = 0} IN
       /\ row' = [a \in Accounts |-> IF a \in stale THEN NoRow ELSE row[a]]
       /\ Proceed(s, [sync[s] EXCEPT !.pc = "mark"], stale)
    /\ UNCHANGED <<google, user, status, links, edits, fails, former, used>>

MarkSynced(s) ==
    /\ sync[s].pc = "mark"
    /\ status' = "CONNECTED"
    /\ Goto(s, "audit")
    /\ UNCHANGED <<google, user, row, links, edits, fails, former, used>>

\* The audit row names the actor, under a foreign key to tenant_users.
AuditSync(s) ==
    /\ sync[s].pc = "audit"
    /\ IF \E u \in Users : u = sync[s].actor /\ user[u] # 0
       THEN /\ IF sync[s].op = "sync" THEN Proceed(s, Idle, {}) ELSE Goto(s, "groups")
            /\ UNCHANGED status
       ELSE Throw(s)
    /\ UNCHANGED <<google, user, row, links, edits, fails, former, used>>

\* syncGoogleGroups and syncGoogleRoles, which change none of these rows but
\* mark the integration as synced.
SyncGroups(s) ==
    /\ sync[s].pc = "groups"
    /\ status' = "CONNECTED"
    /\ Proceed(s, Idle, {})
    /\ UNCHANGED <<google, user, row, links, edits, fails, former, used>>

\* Google or the database fails.
SyncFails(s) ==
    /\ fails < MaxFails
    /\ sync[s] # Idle
    /\ fails' = fails + 1
    /\ Throw(s)
    /\ UNCHANGED <<google, user, row, links, edits, former, used>>

(***************************************************************************)
(* The specification                                                       *)
(***************************************************************************)

Environment ==
    \/ \E a \in Accounts, e \in 0 .. MaxEmail : EditAccount(a, e)
    \/ \E u \in Users, e \in Emails : UserWritten(u, e)
    \/ \E l \in links : LinkIdentities(l) \/ LinkLost(l)
    \/ \E u \in Users : UserRemoved(u)
    \/ \E a \in Accounts, u \in Users : MapIdentity(a, u)

SyncStep(s) ==
    \/ ReadUsers(s) \/ Upsert(s) \/ RemoveStaleIdentities(s)
    \/ MarkSynced(s) \/ AuditSync(s) \/ SyncGroups(s)

Next ==
    \/ Environment
    \/ \E s \in Manual, u \in Users : SyncRequested(s, u) \/ ConnectRequested(s, u)
    \/ \E s \in Cron : CronTick(s)
    \/ \E s \in Handlers : SyncStep(s) \/ SyncFails(s)

Spec == Init /\ [][Next]_vars

\* The cron ticks and a run of it is scheduled; administrators owe nothing.
FairSpec == Spec /\ \A s \in Cron : WF_vars(CronTick(s) \/ SyncStep(s))

(***************************************************************************)
(* Properties                                                              *)
(***************************************************************************)

\* The shape of the rows and of the syncs in flight; an address is in one row
\* of external_identities and in one of tenant_users.
TypeOK ==
    /\ google \in [Accounts -> 0 .. MaxEmail]
    /\ user \in [Users -> 0 .. MaxEmail]
    /\ row \in [Accounts -> Row]
    /\ Injective([a \in Accounts |-> row[a].email]) /\ Injective(google) /\ Injective(user)
    /\ status \in {"CONNECTED", "ERROR"}
    /\ sync \in [Handlers -> SyncCall \cup {Idle}]
    /\ links \subseteq [user : Users, email : Emails]
    /\ edits \in 0 .. MaxEdits /\ fails \in 0 .. MaxFails
    /\ former \subseteq Users
    /\ used \subseteq Emails

\* No identity is mapped to a user that was removed, though a sync reads the
\* users once and maps by what it read (schema.prisma: onDelete SetNull, and
\* the foreign key of mapped_tenant_user_id).
MappedUserExists ==
    \A a \in Accounts : row[a].mapped # Nobody => user[row[a].mapped] # 0

\* When a sync has removed the stale rows, external_identities is what Google
\* has, and an account with the address of a local user the sync knew of is
\* mapped to it; but for accounts that something else changed meanwhile.  An address
\* without a local user leaves an older mapping as it is.
MirrorsGoogle ==
    \A s \in Handlers : RemoveStaleIdentities(s) =>
        \A a \in Accounts \ sync[s].touched :
           /\ row'[a].email = google[a]
           /\ google[a] # 0 =>
                LET u == sync[s].local[google[a]] IN u # Nobody => row'[a].mapped = u

SyncMirrorsGoogle == [][MirrorsGoogle]_vars

\* "ExternalIdentity: synced Google users" (docs/ARCHITECTURE.md:43).  Once
\* Google is left alone, the cron's syncs bring the rows to what Google has,
\* whatever half-done syncs left behind.  It holds as long as Google gives no
\* address to a second account, and fails when it does.
Agree == \A a \in Accounts : row[a].email = google[a]
IdentitiesGetSynced == <>[]Agree

\* "Periodic Google sync scheduler" (README.md:17): with Google left alone, the
\* cron comes to syncGoogleGroups again and again.
CronSyncsGroups == []<>(\E s \in Cron : sync[s].pc = "groups")
=============================================================================
