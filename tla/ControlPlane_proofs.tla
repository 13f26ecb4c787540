--------------------------- MODULE ControlPlane_proofs ---------------------------
(***************************************************************************)
(* Proofs about the control plane's components, one after the other, and   *)
(* of the properties of ControlPlane from them.                            *)
(***************************************************************************)
EXTENDS ControlPlane, FiniteSetTheorems, NaturalsInduction, WellFoundedInduction, TLAPS

(***************************************************************************)
(* Invites: an invite tells what became of it                              *)
(***************************************************************************)

InvitesRow == [status : {"none", "PENDING", "ACCEPTED", "REVOKED"}, acceptedBy : Invite!Ids,
           late : BOOLEAN]

\* A request goes on as one of its kind, or ends.
LEMMA InvitesGoesKeepsType ==
    ASSUME Invite!TypeOK, NEW c \in Callers,
           NEW next \in Invite!Caller \cup {Invite!Waiting},
           Invite!Goes(c, next)
    PROVE  inflight' \in [Callers -> Invite!Caller \cup {Invite!Waiting}]
  BY DEF Invite!TypeOK, Invite!Goes

\* A request that is under way is of one invite.
LEMMA InvitesUnderWay ==
    ASSUME Invite!TypeOK, NEW c \in Callers, inflight[c] # Invite!Waiting
    PROVE  inflight[c] \in Invite!Caller /\ inflight[c].of \in Issued
  BY DEF Invite!TypeOK, Invite!Caller

\* A new user gets an id that nobody had.
LEMMA InvitesNewUserKeepsType ==
    ASSUME MaxUsers \in Nat, Invite!TypeOK, Invite!NewUser
    PROVE  /\ users \in Nat /\ users' \in Invite!Ids /\ user' \in 1 .. users' /\ users' = users + 1
           /\ 1 .. users \subseteq 1 .. users'
  BY DEF Invite!TypeOK, Invite!NewUser, Invite!Ids

\* Every step keeps the shape of the rows and of the requests.
LEMMA InvitesTypeInvariant ==
    ASSUME MaxUsers \in Nat, Invite!TypeOK, [Invite!Next]_inviteVars
    PROVE  Invite!TypeOK'
<1>0. invite \in [Issued -> InvitesRow]
  BY DEF Invite!TypeOK, InvitesRow
<1> SUFFICES /\ invite' \in [Issued -> InvitesRow]
             /\ user' \in 0 .. users' /\ users' \in Invite!Ids
             /\ inflight' \in [Callers -> Invite!Caller \cup {Invite!Waiting}]
             /\ made' \in [Issued -> SUBSET (1 .. users')]
  BY DEF Invite!TypeOK, InvitesRow
<1>1. ASSUME NEW i \in Issued, Invite!CreateInvite(i) \/ Invite!InviteExpires(i)
      PROVE  /\ invite' \in [Issued -> InvitesRow] /\ UNCHANGED <<user, users, inflight, made>>
  BY <1>0, <1>1 DEF Invite!CreateInvite, Invite!InviteExpires, InvitesRow
<1>2. ASSUME NEW c \in Callers, NEW i \in Issued, Invite!ReadInvite(c,
             i) \/ Invite!RevokeRead(c, i)
      PROVE  /\ inflight' \in [Callers -> Invite!Caller \cup {Invite!Waiting}]
             /\ UNCHANGED <<invite, user, users, made>>
  <2>1. [pc |-> "look", of |-> i] \in Invite!Caller /\ [pc |-> "revoke",
        of |-> i] \in Invite!Caller
    BY DEF Invite!Caller
  <2> QED
    BY <1>2, <2>1, InvitesGoesKeepsType DEF Invite!ReadInvite, Invite!RevokeRead
<1>3. ASSUME NEW c \in Callers, Invite!LookForExisting(c)
      PROVE  /\ inflight' \in [Callers -> Invite!Caller \cup {Invite!Waiting}]
             /\ UNCHANGED <<invite, user, users, made>>
  <2>1. inflight[c] \in Invite!Caller
    BY <1>3, InvitesUnderWay DEF Invite!LookForExisting, Invite!Waiting
  <2>2. [inflight[c] EXCEPT !.pc = "accept"] \in Invite!Caller
    BY <2>1 DEF Invite!Caller
  <2> QED
    BY <1>3, <2>2, InvitesGoesKeepsType DEF Invite!LookForExisting
<1>4. ASSUME NEW c \in Callers, Invite!Accept(c)
      PROVE  /\ invite' \in [Issued -> InvitesRow]
             /\ user' \in 0 .. users' /\ users' \in Invite!Ids
             /\ inflight' \in [Callers -> Invite!Caller \cup {Invite!Waiting}]
             /\ made' \in [Issued -> SUBSET (1 .. users')]
  <2> DEFINE i == inflight[c].of
  <2>1. i \in Issued
    BY <1>4, InvitesUnderWay DEF Invite!Accept, Invite!Waiting
  <2>2. inflight' \in [Callers -> Invite!Caller \cup {Invite!Waiting}]
    BY <1>4, InvitesGoesKeepsType DEF Invite!Accept
  <2>3. CASE user # 0
    BY <1>0, <1>4, <2>2, <2>3 DEF Invite!Accept, Invite!TypeOK
  <2>4. CASE user = 0
    <3>1. Invite!NewUser /\ Invite!AcceptedBy(i,
          user') /\ made' = [made EXCEPT ![i] = @ \cup {user'}]
      BY <1>4, <2>4 DEF Invite!Accept
    <3>2. /\ users' \in Invite!Ids /\ user' \in 1 .. users'
          /\ 1 .. users \subseteq 1 .. users' /\ user' \in Invite!Ids
      BY <3>1, InvitesNewUserKeepsType DEF Invite!Ids
    <3>3. invite' \in [Issued -> InvitesRow]
      BY <1>0, <2>1, <3>1, <3>2 DEF Invite!AcceptedBy, InvitesRow
    <3>4. made' \in [Issued -> SUBSET (1 .. users')]
      BY <2>1, <3>1, <3>2 DEF Invite!TypeOK
    <3> QED
      BY <2>2, <3>2, <3>3, <3>4
  <2> QED
    BY <2>3, <2>4
<1>5. ASSUME NEW c \in Callers, Invite!RevokeWrite(c)
      PROVE  /\ invite' \in [Issued -> InvitesRow]
             /\ inflight' \in [Callers -> Invite!Caller \cup {Invite!Waiting}]
             /\ UNCHANGED <<user, users, made>>
  <2>1. inflight[c].of \in Issued
    BY <1>5, InvitesUnderWay DEF Invite!RevokeWrite, Invite!Waiting
  <2>2. inflight' \in [Callers -> Invite!Caller \cup {Invite!Waiting}]
    BY <1>5, InvitesGoesKeepsType DEF Invite!RevokeWrite
  <2> QED
    BY <1>0, <1>5, <2>1, <2>2 DEF Invite!RevokeWrite, InvitesRow
<1>6. ASSUME NEW c \in Callers, Invite!CallerFails(c)
      PROVE  /\ inflight' \in [Callers -> Invite!Caller \cup {Invite!Waiting}]
             /\ UNCHANGED <<invite, user, users, made>>
  BY <1>6, InvitesGoesKeepsType DEF Invite!CallerFails
<1>7. CASE Invite!UserCreated
  <2>1. /\ users' \in Invite!Ids /\ user' \in 0 .. users' /\ 1 .. users \subseteq 1 .. users'
    BY <1>7, InvitesNewUserKeepsType DEF Invite!UserCreated
  <2>2. made' \in [Issued -> SUBSET (1 .. users')]
    BY <1>7, <2>1 DEF Invite!UserCreated, Invite!TypeOK
  <2> QED
    BY <1>0, <1>7, <2>1, <2>2 DEF Invite!UserCreated, Invite!TypeOK
<1>8. CASE Invite!UserRemoved \/ UNCHANGED inviteVars
  BY <1>0, <1>8 DEF Invite!UserRemoved, inviteVars, Invite!TypeOK, Invite!Ids
<1> QED
  BY <1>0, <1>1, <1>2, <1>3, <1>4, <1>5, <1>6, <1>7, <1>8 DEF Invite!Next, Invite!TypeOK

\* Every step keeps the word of the invites: an accepting request writes the newest id
\* there is, and nothing makes a row PENDING that was not new.
LEMMA InvitesTellsInvariant ==
    ASSUME MaxUsers \in Nat, Invite!TypeOK, Invite!InviteTellsItsUser,
           [Invite!Next]_inviteVars
    PROVE  Invite!InviteTellsItsUser'
<1>0. invite \in [Issued -> InvitesRow]
  BY DEF Invite!TypeOK, InvitesRow
<1>1. ASSUME NEW i \in Issued, Invite!CreateInvite(i) \/ Invite!InviteExpires(i)
      PROVE  Invite!InviteTellsItsUser'
  BY <1>0, <1>1
     DEF Invite!CreateInvite, Invite!InviteExpires, Invite!InviteTellsItsUser, InvitesRow,
         Invite!NoInvite
<1>2. ASSUME NEW c \in Callers, Invite!Accept(c)
      PROVE  Invite!InviteTellsItsUser'
  <2> DEFINE i == inflight[c].of
  <2>1. i \in Issued
    BY <1>2, InvitesUnderWay DEF Invite!Accept, Invite!Waiting
  <2>2. CASE user # 0
    BY <1>2, <2>2 DEF Invite!Accept, Invite!InviteTellsItsUser
  <2>3. CASE user = 0
    <3>1. /\ user' = users + 1 /\ Invite!AcceptedBy(i, user')
          /\ made' = [made EXCEPT ![i] = @ \cup {user'}]
      BY <1>2, <2>3 DEF Invite!Accept, Invite!NewUser
    <3>2. users \in Nat /\ \A id \in made[i] : id \in 1 .. users
      BY <2>1 DEF Invite!TypeOK, Invite!Ids
    <3>3. /\ invite'[i].status = "ACCEPTED" /\ invite'[i].acceptedBy = users + 1
          /\ made'[i] = made[i] \cup {users + 1}
      BY <1>0, <2>1, <3>1 DEF Invite!AcceptedBy, Invite!TypeOK, InvitesRow
    <3>4. \A j \in Issued : j # i => invite'[j] = invite[j] /\ made'[j] = made[j]
      BY <1>0, <3>1 DEF Invite!AcceptedBy, Invite!TypeOK
    <3>5. \A id \in made'[i] : id <= invite'[i].acceptedBy
      BY <3>2, <3>3
    <3> QED
      BY <3>2, <3>3, <3>4, <3>5 DEF Invite!InviteTellsItsUser
  <2> QED
    BY <2>2, <2>3
<1>3. ASSUME NEW c \in Callers, Invite!RevokeWrite(c)
      PROVE  Invite!InviteTellsItsUser'
  <2> DEFINE i == inflight[c].of
  <2>1. i \in Issued
    BY <1>3, InvitesUnderWay DEF Invite!RevokeWrite, Invite!Waiting
  <2>2. /\ invite'[i].status = "REVOKED" /\ invite'[i].acceptedBy = invite[i].acceptedBy
        /\ \A j \in Issued : j # i => invite'[j] = invite[j]
    BY <1>0, <1>3, <2>1 DEF Invite!RevokeWrite, InvitesRow
  <2> QED
    BY <1>3, <2>2 DEF Invite!RevokeWrite, Invite!InviteTellsItsUser
<1>4. CASE UNCHANGED <<invite, made>>
  BY <1>4 DEF Invite!InviteTellsItsUser
<1> QED
  BY <1>1, <1>2, <1>3, <1>4
     DEF Invite!Next, Invite!ReadInvite, Invite!RevokeRead, Invite!LookForExisting,
         Invite!CallerFails, Invite!UserCreated, Invite!UserRemoved, inviteVars

\* The initial states: no invite, and perhaps a user.
LEMMA InvitesInitInvariant ==
    ASSUME MaxUsers \in Nat, Invite!Init
    PROVE  Invite!TypeOK /\ Invite!InviteTellsItsUser
  BY DEF Invite!Init, Invite!TypeOK, Invite!InviteTellsItsUser, Invite!NoInvite, Invite!Ids

(***************************************************************************)
(* ThreatDetection: stored scores are audited, and the consoles agree      *)
(***************************************************************************)

DetectionBounds == MaxIds \in Nat \ {0} /\ MaxRowChanges \in Nat

\* A membership names the row its account has, or none.
DetectionLinkInv == \A p \in People, t \in Teams : link[p][t].of \in {0, row[p].id}

DetectionInv == Detect!TypeOK /\ DetectionLinkInv /\ Detect!ScoreIsAudited

\* No signals, no points.
LEMMA DetectionNoPoints == Detect!Score({}) = 0 /\ 0 \in Detect!Scores
<1>1. Detect!Score({}) = 0 + 0 + 0
  BY DEF Detect!Score
<1>2. Detect!Score({}) \in Detect!Scores
  BY DEF Detect!Scores
<1> QED
  BY <1>1, <1>2

\* What is planned for an account names its row and signals there are.
LEMMA DetectionPlansAreShaped ==
    ASSUME NEW rws \in [People -> Detect!Row \cup {Detect!NoRow}], NEW ms
    PROVE  [pc |-> "loop", todo |-> Detect!Plan(rws, ms)] \in Detect!Detection
<1>1. ASSUME NEW p \in People, rws[p] # Detect!NoRow
      PROVE  [id |-> rws[p].id, signals |-> Detect!SignalsOf(rws[p], ms, p)] \in Detect!Planned
  <2>1. rws[p] \in Detect!Row
    BY <1>1
  <2>2. Detect!SignalsOf(rws[p], ms, p) \subseteq Detect!Signals
    BY DEF Detect!SignalsOf, Detect!Signals
  <2> QED
    BY <2>1, <2>2 DEF Detect!Planned, Detect!Row
<1>2. Detect!Plan(rws, ms) \in [People -> Detect!Planned \cup {Detect!NoRow}]
  BY <1>1 DEF Detect!Plan
<1> QED
  BY <1>2 DEF Detect!Detection

\* A detection that moves on keeps the shape of the detections.
LEMMA DetectionMovesKeeps ==
    ASSUME Detect!TypeOK, NEW d \in Detections,
           NEW next \in Detect!Detection \cup {Detect!Resting}, Detect!Moves(d, next)
    PROVE  detection' \in [Detections -> Detect!Detection \cup {Detect!Resting}]
  BY DEF Detect!Moves, Detect!TypeOK

\* What a detection in its loop has to do for an account.
LEMMA DetectionToDo ==
    ASSUME Detect!TypeOK, NEW d \in Detections, detection[d].pc = "loop"
    PROVE  /\ detection[d].todo \in [People -> Detect!Planned \cup {Detect!NoRow}]
           /\ detection[d] = [pc |-> "loop", todo |-> detection[d].todo]
  BY DEF Detect!TypeOK, Detect!Detection, Detect!Resting

\* A membership that loses its row keeps its shape.
LEMMA DetectionSetNullKeeps ==
    ASSUME DetectionBounds, Detect!TypeOK, NEW p \in People
    PROVE  /\ Detect!SetNull(p) \in Detect!Tables
           /\ \A q \in People, t \in Teams :
                 Detect!SetNull(p)[q][t].of = IF q = p THEN 0 ELSE link[q][t].of
<1>1. \A t \in Teams : link[p][t] # Detect!NoMembership => link[p][t] \in Detect!Membership
  BY DEF Detect!TypeOK, Detect!Tables
<1>2. ASSUME NEW t \in Teams, link[p][t] # Detect!NoMembership
      PROVE  /\ [link[p][t] EXCEPT !.of = 0] \in Detect!Membership
             /\ [link[p][t] EXCEPT !.of = 0].of = 0
  BY <1>1, <1>2 DEF DetectionBounds, Detect!Membership
<1>3. /\ link \in Detect!Tables /\ Detect!NoMembership.of = 0
      /\ \A t \in Teams : link[p][t] = Detect!NoMembership \/ link[p][t] \in Detect!Membership
  BY <1>1 DEF Detect!TypeOK, Detect!NoMembership
<1> DEFINE new == [t \in Teams |-> IF link[p][t] = Detect!NoMembership THEN Detect!NoMembership
                                   ELSE [link[p][t] EXCEPT !.of = 0]]
<1>4. /\ new \in [Teams -> Detect!Membership \cup {Detect!NoMembership}]
      /\ \A t \in Teams : new[t].of = 0
  BY <1>2, <1>3
<1> HIDE DEF new
<1>5. Detect!SetNull(p) = [link EXCEPT ![p] = new]
  BY DEF Detect!SetNull, new
<1> QED
  BY <1>3, <1>4, <1>5 DEF Detect!Tables

LEMMA DetectionConsolesFollow ==
    ASSUME Detect!TypeOK, DetectionLinkInv
    PROVE  Detect!ConsolesAgree
<1> DEFINE Both == {<<p,
     row[p].id>> : p \in {q \in People : row[q] # Detect!NoRow /\ "privilege" \in Detect!SignalsOf(row[q], link, q)}}
<1>0. \A p \in People : row[p] # Detect!NoRow => row[p].id # 0
  BY DEF Detect!TypeOK, Detect!Row, Detect!NoRow
<1>1. \A p \in People : "privilege" \in Detect!SignalsOf(row[p], link, p) <=>
            row[p].elevated \/ \E t \in Teams : link[p][t] # Detect!NoMembership /\ link[p][t].of = row[p].id /\ link[p][t].leads
  BY DEF Detect!SignalsOf
<1>2. ASSUME NEW x \in Detect!HighPrivilege PROVE x \in Both
  <2>1. CASE \E p \in {q \in People : row[q] # Detect!NoRow /\ row[q].elevated} : x = <<p,
             row[p].id>>
    BY <2>1, <1>1
  <2>2. CASE \E p \in People,
             t \in Teams : Detect!Linked(link[p][t]) /\ link[p][t].leads /\ x = <<p,
                  link[p][t].of>>
    <3>1. PICK p \in People,
               t \in Teams : Detect!Linked(link[p][t]) /\ link[p][t].leads /\ x = <<p,
                    link[p][t].of>>
      BY <2>2
    <3>2. link[p][t].of = row[p].id /\ row[p].id # 0
      BY <3>1 DEF DetectionLinkInv, Detect!Linked
    <3>3. row[p] # Detect!NoRow
      BY <3>2 DEF Detect!NoRow
    <3>4. "privilege" \in Detect!SignalsOf(row[p], link, p)
      BY <1>1, <3>1, <3>2 DEF Detect!Linked
    <3> QED
      BY <3>1, <3>2, <3>3, <3>4
  <2> QED
    BY <2>1, <2>2, <1>2 DEF Detect!HighPrivilege
<1>3. ASSUME NEW p \in People, row[p] # Detect!NoRow,
             "privilege" \in Detect!SignalsOf(row[p],
             link, p)
      PROVE  <<p, row[p].id>> \in Detect!HighPrivilege
  <2>1. CASE row[p].elevated
    BY <2>1, <1>3 DEF Detect!HighPrivilege
  <2>2. CASE \E t \in Teams : link[p][t] # Detect!NoMembership /\ link[p][t].of = row[p].id
               /\ link[p][t].leads
    <3>1. PICK t \in Teams : link[p][t] # Detect!NoMembership /\ link[p][t].of = row[p].id
            /\ link[p][t].leads
      BY <2>2
    <3>2. Detect!Linked(link[p][t])
      BY <3>1, <1>0, <1>3 DEF Detect!Linked
    <3>3. <<p,
          t>> \in {x \in People \X Teams : Detect!Linked(link[x[1]][x[2]]) /\ link[x[1]][x[2]].leads}
      BY <3>1, <3>2
    <3> QED
      BY <3>1, <3>3 DEF Detect!HighPrivilege
  <2> QED
    BY <2>1, <2>2, <1>1, <1>3
<1>4. Detect!HighPrivilege = Both
  BY <1>2, <1>3
<1> QED
  BY <1>4 DEF Detect!ConsolesAgree

LEMMA DetectionTableStep ==
    ASSUME DetectionBounds, DetectionInv, NEW p \in People,
           \/ Detect!IdentitySynced(p) \/ Detect!IdentityDropped(p)
           \/ \E t \in Teams : Detect!MembershipSynced(p, t)
    PROVE  DetectionInv'
<1> USE DEF DetectionBounds
<1>0. /\ row \in [People -> Detect!Row \cup {Detect!NoRow}] /\ link \in Detect!Tables
      /\ ids \in [People -> 1 .. MaxIds] /\ changes' \in 0 .. MaxRowChanges
      /\ detection' = detection /\ signalled' = signalled
  BY DEF DetectionInv, Detect!TypeOK, Detect!Changes, Detect!IdentitySynced,
         Detect!IdentityDropped, Detect!MembershipSynced
<1>1. CASE Detect!IdentitySynced(p)
  <2>1. PICK inactive \in BOOLEAN, elevated \in BOOLEAN :
         IF row[p] = Detect!NoRow
         THEN /\ ids[p] < MaxIds
              /\ ids' = [ids EXCEPT ![p] = @ + 1]
              /\ row' = [row EXCEPT ![p] = [id |-> ids[p] + 1, inactive |-> inactive,
                                            elevated |-> elevated, risk |-> 0]]
         ELSE /\ row' = [row EXCEPT ![p].inactive = inactive, ![p].elevated = elevated]
              /\ UNCHANGED ids
    BY <1>1 DEF Detect!IdentitySynced
  <2>2. link' = link
    BY <1>1 DEF Detect!IdentitySynced
  <2>3. CASE row[p] = Detect!NoRow
    <3> DEFINE new == [id |-> ids[p] + 1, inactive |-> inactive, elevated |-> elevated,
         risk |-> 0]
    <3>1. ids[p] + 1 \in 1 .. MaxIds /\ ids' = [ids EXCEPT ![p] = ids[p] + 1]
      BY <1>0, <2>1, <2>3
    <3>2. Detect!Score({}) = 0 /\ {} \in SUBSET Detect!Signals /\ 0 \in Detect!Scores
      BY DetectionNoPoints
    <3>3. new \in Detect!Row /\ new.id = ids[p] + 1 /\ new.risk = 0
      BY <3>1, <3>2 DEF Detect!Row
    <3>4. row' = [row EXCEPT ![p] = new]
      BY <2>1, <2>3
    <3> HIDE DEF new
    <3>5. row' \in [People -> Detect!Row \cup {Detect!NoRow}]
            /\ ids' \in [People -> 1 .. MaxIds]
      BY <1>0, <3>1, <3>3, <3>4
    <3>6. \A q \in People : row'[q].id \in {0, ids'[q]}
      BY <1>0, <3>1, <3>3, <3>4 DEF DetectionInv, Detect!TypeOK
    <3>7. \A q \in People, t \in Teams : link[q][t].of \in {0, row'[q].id}
      BY <1>0, <2>3, <3>3, <3>4 DEF DetectionInv, DetectionLinkInv, Detect!NoRow
    <3>8. Detect!ScoreIsAudited'
      BY <1>0, <3>2, <3>3, <3>4 DEF DetectionInv, Detect!ScoreIsAudited
    <3> QED
      BY <1>0, <2>2, <3>5, <3>6, <3>7, <3>8
         DEF DetectionInv, Detect!TypeOK, DetectionLinkInv
  <2>4. CASE row[p] # Detect!NoRow
    <3>1. row[p] \in Detect!Row
      BY <1>0, <2>4
    <3>2. /\ row'[p] \in Detect!Row /\ row'[p].id = row[p].id /\ row'[p].risk = row[p].risk
          /\ \A q \in People : q # p => row'[q] = row[q]
          /\ row' \in [People -> Detect!Row \cup {Detect!NoRow}]
      BY <1>0, <2>1, <2>4, <3>1 DEF Detect!Row
    <3>3. ids' = ids
      BY <2>1, <2>4
    <3>4. \A q \in People : row'[q].id = row[q].id
      BY <3>2
    <3>5. Detect!ScoreIsAudited'
      BY <1>0, <2>4, <3>2 DEF DetectionInv, Detect!ScoreIsAudited
    <3> QED
      BY <1>0, <2>2, <3>2, <3>3, <3>4, <3>5
         DEF DetectionInv, Detect!TypeOK, DetectionLinkInv
  <2> QED
    BY <2>3, <2>4
<1>2. CASE Detect!IdentityDropped(p)
  <2>1. row' = [row EXCEPT ![p] = Detect!NoRow] /\ link' = Detect!SetNull(p) /\ ids' = ids
    BY <1>2 DEF Detect!IdentityDropped
  <2>2. Detect!NoRow.id = 0
    BY DEF Detect!NoRow
  <2>3. /\ row'[p] = Detect!NoRow /\ \A q \in People : q # p => row'[q] = row[q]
        /\ row' \in [People -> Detect!Row \cup {Detect!NoRow}]
    BY <1>0, <2>1
  <2>4. link' \in Detect!Tables /\ DetectionLinkInv'
    BY <2>1, <2>3, DetectionSetNullKeeps DEF DetectionInv, DetectionLinkInv
  <2>5. \A q \in People : row'[q].id \in {0, ids'[q]}
    BY <2>1, <2>2, <2>3 DEF DetectionInv, Detect!TypeOK
  <2>6. Detect!ScoreIsAudited'
    BY <1>0, <2>3 DEF DetectionInv, Detect!ScoreIsAudited
  <2> QED
    BY <1>0, <2>1, <2>3, <2>4, <2>5, <2>6 DEF DetectionInv, Detect!TypeOK
<1>3. ASSUME NEW t \in Teams, Detect!MembershipSynced(p, t)
      PROVE  DetectionInv'
  <2>1. row' = row /\ ids' = ids
    BY <1>3 DEF Detect!MembershipSynced
  <2>2. row[p].id \in 0 .. MaxIds
    BY <1>0 DEF DetectionInv, Detect!TypeOK, Detect!Row, Detect!NoRow
  <2>3. PICK m \in Detect!Membership \cup {Detect!NoMembership} :
            m.of \in {0, row[p].id} /\ link' = [link EXCEPT ![p][t] = m]
    <3>1. CASE link' = [link EXCEPT ![p][t] = Detect!NoMembership]
      BY <3>1 DEF Detect!NoMembership
    <3>2. ASSUME NEW leads \in BOOLEAN, link' = [link EXCEPT ![p][t] = [of |-> row[p].id,
                 leads |-> leads]]
          PROVE  \E m \in Detect!Membership \cup {Detect!NoMembership} :
                    m.of \in {0, row[p].id} /\ link' = [link EXCEPT ![p][t] = m]
      BY <2>2, <3>2 DEF Detect!Membership
    <3> QED
      BY <1>3, <3>1, <3>2 DEF Detect!MembershipSynced
  <2>4. link' \in Detect!Tables /\ DetectionLinkInv'
    BY <1>0, <2>1, <2>3 DEF DetectionInv, DetectionLinkInv, Detect!Tables
  <2> QED
    BY <1>0, <2>1, <2>4 DEF DetectionInv, Detect!TypeOK, Detect!ScoreIsAudited
<1> QED
  BY <1>1, <1>2, <1>3

LEMMA DetectionMoves ==
    ASSUME DetectionBounds, DetectionInv, NEW d \in Detections,
           \/ Detect!ListIdentities(d) \/ Detect!ListMemberships(d)
           \/ \E p \in People : Detect!AuditSignal(d, p) \/ Detect!StoreScore(d, p)
           \/ Detect!DetectionEnds(d) \/ Detect!DetectionFails(d)
    PROVE  DetectionInv'
<1>0. /\ Detect!TypeOK /\ row \in [People -> Detect!Row \cup {Detect!NoRow}] /\ link \in Detect!Tables
      /\ detection[d] \in Detect!Detection \cup {Detect!Resting}
      /\ link' = link /\ ids' = ids /\ changes' = changes
  BY DEF DetectionInv, Detect!TypeOK, Detect!ListIdentities, Detect!ListMemberships,
         Detect!AuditSignal, Detect!StoreScore, Detect!DetectionEnds, Detect!DetectionFails
<1>1. ASSUME NEW next \in Detect!Detection \cup {Detect!Resting}, Detect!Moves(d, next),
             row' = row, signalled' = signalled
      PROVE  DetectionInv'
  BY <1>0, <1>1, DetectionMovesKeeps
     DEF DetectionInv, Detect!TypeOK, DetectionLinkInv, Detect!ScoreIsAudited
<1>2. CASE Detect!ListIdentities(d)
  <2>1. [pc |-> "rows", rows |-> row] \in Detect!Detection
    BY <1>0 DEF Detect!Detection
  <2> QED
    BY <1>0, <1>1, <1>2, <2>1, DetectionPlansAreShaped DEF Detect!ListIdentities
<1>3. CASE Detect!ListMemberships(d)
  <2>1. [pc |-> "memberships", memberships |-> link] \in Detect!Detection
    BY <1>0 DEF Detect!Detection
  <2>2. detection[d].pc = "rows" =>
          detection[d].rows \in [People -> Detect!Row \cup {Detect!NoRow}]
    BY <1>0 DEF Detect!Detection, Detect!Resting
  <2> QED
    BY <1>0, <1>1, <1>3, <2>1, <2>2, DetectionPlansAreShaped DEF Detect!ListMemberships
<1>4. ASSUME NEW p \in People, Detect!AuditSignal(d, p)
      PROVE  DetectionInv'
  <2>1. detection[d].todo[p] \in Detect!Planned
    BY <1>0, <1>4, DetectionToDo DEF Detect!AuditSignal
  <2>2. PICK s \in Detect!Signals : signalled' = signalled \cup {<<s, p,
             detection[d].todo[p].id>>}
    BY <1>4, <2>1 DEF Detect!AuditSignal, Detect!Planned
  <2>3. signalled' \subseteq Detect!Signals \X People \X (1 .. MaxIds)
    BY <1>0, <2>1, <2>2 DEF Detect!TypeOK, Detect!Planned
  <2>4. row' = row /\ detection' = detection /\ signalled \subseteq signalled'
    BY <1>4, <2>2 DEF Detect!AuditSignal
  <2>5. Detect!ScoreIsAudited'
    BY <2>4 DEF DetectionInv, Detect!ScoreIsAudited
  <2> QED
    BY <1>0, <2>3, <2>4, <2>5 DEF DetectionInv, Detect!TypeOK, DetectionLinkInv
<1>5. ASSUME NEW p \in People, Detect!StoreScore(d, p)
      PROVE  DetectionInv'
  <2> DEFINE found == detection[d].todo[p]
  <2>1. /\ found \in Detect!Planned /\ found # Detect!NoRow /\ signalled' = signalled
        /\ \A s \in found.signals : <<s, p, found.id>> \in signalled
        /\ detection[d].todo \in [People -> Detect!Planned \cup {Detect!NoRow}]
        /\ detection[d] = [pc |-> "loop", todo |-> detection[d].todo]
    BY <1>0, <1>5, DetectionToDo DEF Detect!StoreScore
  <2>2. CASE row[p].id # found.id
    BY <1>1, <1>5, <2>1, <2>2 DEF Detect!StoreScore
  <2>3. CASE row[p].id = found.id
    <3>1. row' = [row EXCEPT ![p].risk = Detect!Score(found.signals)]
      BY <1>5, <2>3 DEF Detect!StoreScore
    <3>2. Detect!Moves(d, [detection[d] EXCEPT !.todo[p] = Detect!NoRow])
      BY <1>5, <2>3 DEF Detect!StoreScore
    <3>3. [detection[d] EXCEPT !.todo[p] = Detect!NoRow] \in Detect!Detection
      <4> DEFINE rest == [detection[d].todo EXCEPT ![p] = Detect!NoRow]
      <4>1. rest \in [People -> Detect!Planned \cup {Detect!NoRow}]
        BY <2>1
      <4>2. [detection[d] EXCEPT !.todo[p] = Detect!NoRow] = [pc |-> "loop", todo |-> rest]
        BY <2>1
      <4> QED
        BY <4>1, <4>2 DEF Detect!Detection
    <3>4. detection' \in [Detections -> Detect!Detection \cup {Detect!Resting}]
      BY <1>0, <3>2, <3>3, DetectionMovesKeeps
    <3>5. found.signals \in SUBSET Detect!Signals /\ found.id \in 1 .. MaxIds
      BY <2>1 DEF Detect!Planned
    <3>6. row[p] \in Detect!Row
      <4>1. row[p] # Detect!NoRow
        BY <2>3, <3>5 DEF Detect!NoRow
      <4> QED
        BY <4>1, <1>0
    <3>7. Detect!Score(found.signals) \in Detect!Scores
      BY <3>5 DEF Detect!Scores
    <3> HIDE DEF found
    <3>8. /\ row'[p] \in Detect!Row /\ row'[p].id = row[p].id /\ row'[p].risk = Detect!Score(found.signals)
          /\ \A q \in People : q # p => row'[q] = row[q]
          /\ row' \in [People -> Detect!Row \cup {Detect!NoRow}]
      BY <1>0, <3>1, <3>6, <3>7 DEF Detect!Row
    <3>9. Detect!ScoreIsAudited'
      BY <2>1, <2>3, <3>5, <3>8 DEF DetectionInv, Detect!ScoreIsAudited
    <3>10. \A q \in People : row'[q].id = row[q].id
      BY <3>8
    <3> QED
      BY <1>0, <2>1, <3>4, <3>8, <3>9, <3>10
         DEF DetectionInv, Detect!TypeOK, DetectionLinkInv
  <2> QED
    BY <2>2, <2>3
<1>6. CASE Detect!DetectionEnds(d) \/ Detect!DetectionFails(d)
  BY <1>1, <1>6 DEF Detect!DetectionEnds, Detect!DetectionFails
<1> QED
  BY <1>2, <1>3, <1>4, <1>5, <1>6

LEMMA DetectionInvariant ==
    ASSUME DetectionBounds, DetectionInv, [Detect!Next]_detectVars
    PROVE  DetectionInv'
<1>1. CASE UNCHANGED detectVars
  BY <1>1
     DEF detectVars, DetectionInv, Detect!TypeOK, DetectionLinkInv, Detect!ScoreIsAudited
<1> QED
  BY <1>1, DetectionTableStep, DetectionMoves DEF Detect!Next

LEMMA DetectionInitInvariant ==
    ASSUME DetectionBounds, Detect!Init
    PROVE  DetectionInv
<1>1. \A p \in People : row[p] \in Detect!Row /\ row[p].id = 1 /\ row[p].risk = 0
  BY DEF Detect!Init
<1>2. \A p \in People, t \in Teams :
        link[p][t] \in Detect!Membership \cup {Detect!NoMembership} /\ link[p][t].of \in {0, 1}
  BY DEF Detect!Init, Detect!NoMembership
<1>3. link \in Detect!Tables
  BY DEF Detect!Init, Detect!Tables
<1>5. Detect!ScoreIsAudited
  BY <1>1, DetectionNoPoints DEF Detect!ScoreIsAudited
<1>6. Detect!TypeOK
  BY <1>1, <1>3 DEF Detect!Init, Detect!TypeOK, DetectionBounds
<1> QED
  BY <1>1, <1>2, <1>5, <1>6 DEF DetectionInv, DetectionLinkInv

(***************************************************************************)
(* RequestGuards: a handler acts for one reading of its user               *)
(***************************************************************************)

(***************************************************************************)
(* Types                                                                   *)
(***************************************************************************)

\* The tokens a request can bring are those of the type.
LEMMA GuardsTokensGrow ==
    ASSUME MaxVersions \in Nat, NEW v \in 0 .. MaxVersions
    PROVE  Guards!Tokens(v) \subseteq Guards!Tokens(MaxVersions)
  BY DEF Guards!Tokens

\* A guard that lets a request on keeps it a request.
LEMMA GuardsPassesKeepsType ==
    ASSUME Guards!TypeOK, NEW f \in Flights, flight[f] # Guards!Free,
           NEW person \in Guards!Account \cup {Guards!NoUser},
           NEW next \in {"security", "strategy", "mfa", "roles", "handler"},
           Guards!Passes(f, person, next)
    PROVE  Guards!TypeOK'
<1>1. flight[f] \in Guards!Flight
  BY DEF Guards!TypeOK
<1>2. [flight[f] EXCEPT !.user = person, !.pc = next] \in Guards!Flight
  BY <1>1 DEF Guards!Flight
<1> QED
  BY <1>2 DEF Guards!TypeOK, Guards!Passes

LEMMA GuardsRefuseKeepsType ==
    ASSUME Guards!TypeOK, NEW f \in Flights, Guards!Refuse(f)
    PROVE  Guards!TypeOK'
  BY DEF Guards!TypeOK, Guards!Refuse

\* Every step keeps the shape of the row and of the requests.
LEMMA GuardsTypeInvariant ==
    ASSUME MaxVersions \in Nat, Guards!TypeOK, [Guards!Next]_guardsVars
    PROVE  Guards!TypeOK'
<1> USE DEF Guards!Account
<1>1. CASE Guards!UserChanges
  <2>1. PICK role \in Guards!Ranks, standing \in {"ACTIVE", "INVITED", "DISABLED"} :
            account' = [account EXCEPT !.role = role, !.status = standing, !.ver = @ + 1]
    BY <1>1 DEF Guards!UserChanges
  <2>2. account.ver + 1 \in 0 .. MaxVersions
    BY <1>1 DEF Guards!UserChanges, Guards!TypeOK
  <2>3. account' \in Guards!Account
    BY <2>1, <2>2 DEF Guards!TypeOK
  <2> QED
    BY <1>1, <2>3 DEF Guards!UserChanges, Guards!TypeOK
<1>2. CASE Guards!MfaChanges
  BY <1>2 DEF Guards!MfaChanges, Guards!TypeOK
<1>3. ASSUME NEW f \in Flights, Guards!Arrives(f)
      PROVE  Guards!TypeOK'
  <2>1. PICK route \in Guards!Routes, token \in Guards!Tokens(account.ver), about \in Tenants :
            flight' = [flight EXCEPT ![f] = [pc |-> "security", route |-> route,
                              token |-> token, tenant |-> about, user |-> Guards!NoUser]]
    BY <1>3 DEF Guards!Arrives
  <2>2. token \in Guards!Tokens(MaxVersions)
    BY <2>1, GuardsTokensGrow DEF Guards!TypeOK
  <2>3. [pc |-> "security", route |-> route, token |-> token, tenant |-> about,
         user |-> Guards!NoUser] \in Guards!Flight
    BY <2>2 DEF Guards!Flight
  <2> QED
    BY <1>3, <2>1, <2>3 DEF Guards!Arrives, Guards!TypeOK
<1>4. ASSUME NEW f \in Flights, Guards!SecurityGuard(f)
      PROVE  Guards!TypeOK'
  <2>1. flight[f] # Guards!Free /\ account \in Guards!Account
    BY <1>4 DEF Guards!SecurityGuard, Guards!Free, Guards!TypeOK
  <2>2. Guards!ControllerGuard(flight[f].route) \in {"security", "strategy", "mfa", "roles",
        "handler"}
    BY DEF Guards!ControllerGuard
  <2>3. CASE Guards!Passes(f, Guards!NoUser, Guards!ControllerGuard(flight[f].route))
    BY <2>1, <2>2, <2>3, GuardsPassesKeepsType
  <2>4. CASE Guards!Passes(f, account, Guards!ControllerGuard(flight[f].route))
    BY <2>1, <2>2, <2>4, GuardsPassesKeepsType
  <2>5. CASE Guards!Refuse(f)
    BY <2>5, GuardsRefuseKeepsType
  <2> QED
    BY <1>4, <2>3, <2>4, <2>5 DEF Guards!SecurityGuard
<1>5. ASSUME NEW f \in Flights, Guards!Strategy(f)
      PROVE  Guards!TypeOK'
  <2>1. flight[f] # Guards!Free /\ account \in Guards!Account
    BY <1>5 DEF Guards!Strategy, Guards!Free, Guards!TypeOK
  <2>2. flight[f].user \in Guards!Account \cup {Guards!NoUser}
    BY <2>1 DEF Guards!TypeOK, Guards!Flight
  <2>3. CASE Guards!Passes(f, flight[f].user, "roles")
    BY <2>1, <2>2, <2>3, GuardsPassesKeepsType
  <2>4. CASE Guards!Passes(f, account, "roles")
    BY <2>1, <2>4, GuardsPassesKeepsType
  <2>5. CASE Guards!Refuse(f)
    BY <2>5, GuardsRefuseKeepsType
  <2> QED
    BY <1>5, <2>3, <2>4, <2>5 DEF Guards!Strategy
<1>6. ASSUME NEW f \in Flights, Guards!MfaGuard(f)
      PROVE  Guards!TypeOK'
  <2>1. flight[f] # Guards!Free /\ account \in Guards!Account
    BY <1>6 DEF Guards!MfaGuard, Guards!Free, Guards!TypeOK
  <2>2. CASE Guards!Passes(f, account, "handler")
    BY <2>1, <2>2, GuardsPassesKeepsType
  <2>3. CASE Guards!Refuse(f)
    BY <2>3, GuardsRefuseKeepsType
  <2> QED
    BY <1>6, <2>2, <2>3 DEF Guards!MfaGuard
<1>7. ASSUME NEW f \in Flights, Guards!Roles(f)
      PROVE  Guards!TypeOK'
  <2>1. flight[f] # Guards!Free
    BY <1>7 DEF Guards!Roles, Guards!Free
  <2>2. flight[f].user \in Guards!Account \cup {Guards!NoUser}
    BY <2>1 DEF Guards!TypeOK, Guards!Flight
  <2>3. CASE Guards!Passes(f, flight[f].user, "handler")
    BY <2>1, <2>2, <2>3, GuardsPassesKeepsType
  <2>4. CASE Guards!Refuse(f)
    BY <2>4, GuardsRefuseKeepsType
  <2> QED
    BY <1>7, <2>3, <2>4 DEF Guards!Roles
<1>8. ASSUME NEW f \in Flights, Guards!Answers(f)
      PROVE  Guards!TypeOK'
  BY <1>8, GuardsRefuseKeepsType DEF Guards!Answers
<1>9. CASE UNCHANGED guardsVars
  BY <1>9 DEF guardsVars, Guards!TypeOK
<1> QED
  BY <1>1, <1>2, <1>3, <1>4, <1>5, <1>6, <1>7, <1>8, <1>9 DEF Guards!Next

GuardsGuarded == {"user", "admin", "platform"}

\* What RequestSecurityGuard or the strategy asked of the row, all at once.
GuardsChecked(q) ==
    /\ q.user # Guards!NoUser
    /\ q.user.status = "ACTIVE"
    /\ q.token = Guards!Access(q.user.ver)
    /\ Guards!HasMfa(q.user)
    /\ Guards!InContext(q.user, q.tenant)

\* A request carries a user that passed every check in one reading, or none and no
\* token, with which the strategy refuses it.  The guard of the MFA controller, which
\* reads again and asks for less, never sees a guarded route.
GuardsRequestInv(q) ==
    /\ q.pc = "mfa" => q.route \in Guards!MfaRoutes
    /\ q.pc = "strategy" => GuardsChecked(q) \/ (q.user = Guards!NoUser /\ q.token = Guards!NoToken)
    /\ q.pc = "roles" => GuardsChecked(q)
    /\ q.pc = "handler" /\ q.route \in GuardsGuarded =>
          GuardsChecked(q) /\ (Guards!RolesOf(q.route) = {} \/ q.user.role \in Guards!RolesOf(q.route))

GuardsInv == \A f \in Flights : flight[f] # Guards!Free => GuardsRequestInv(flight[f])

\* A row is a user.
LEMMA GuardsAccountIsUser ==
    ASSUME NEW a \in Guards!Account
    PROVE  a # Guards!NoUser
<1>1. a.role # Guards!NoUser.role
  BY DEF Guards!Account, Guards!Ranks, Guards!NoUser
<1> QED
  BY <1>1

\* The request that a guard let on is the old one but for its user and its guard, and no
\* other request is touched.
LEMMA GuardsPassesOn ==
    ASSUME Guards!TypeOK, GuardsInv, NEW f \in Flights, flight[f] # Guards!Free, NEW person,
           NEW next,
           Guards!Passes(f, person, next), GuardsRequestInv([flight[f] EXCEPT !.user = person,
                !.pc = next])
    PROVE  GuardsInv'
<1>1. flight' = [flight EXCEPT ![f] = [flight[f] EXCEPT !.user = person, !.pc = next]]
  BY DEF Guards!Passes, Guards!TypeOK, Guards!Flight
<1> QED
  BY <1>1 DEF GuardsInv, Guards!TypeOK

\* A step of a request leaves its invariant, and that of the others, intact.
LEMMA GuardsInvariant ==
    ASSUME Guards!TypeOK, GuardsInv, [Guards!Next]_guardsVars
    PROVE  GuardsInv'
<1>1. CASE Guards!UserChanges \/ Guards!MfaChanges \/ UNCHANGED guardsVars
  BY <1>1 DEF Guards!UserChanges, Guards!MfaChanges, guardsVars, GuardsInv
<1>2. ASSUME NEW f \in Flights, Guards!Arrives(f)
      PROVE  GuardsInv'
  <2>1. \A q : q.pc = "security" => GuardsRequestInv(q)
    BY DEF GuardsRequestInv
  <2> QED
    BY <1>2, <2>1 DEF Guards!Arrives, GuardsInv, Guards!TypeOK
<1>3. ASSUME NEW f \in Flights, Guards!SecurityGuard(f)
      PROVE  GuardsInv'
  <2> DEFINE q == flight[f]
             next == Guards!ControllerGuard(q.route)
  <2>1. q # Guards!Free /\ q \in Guards!Flight /\ account \in Guards!Account
    BY <1>3 DEF Guards!SecurityGuard, Guards!Free, Guards!TypeOK
  <2>2. q.route \in GuardsGuarded \cup Guards!MfaRoutes \cup {"public"}
    BY <2>1 DEF Guards!Flight, Guards!Routes, GuardsGuarded, Guards!MfaRoutes
  <2>3. /\ next = "handler" => q.route = "public"
        /\ next = "mfa" => q.route \in Guards!MfaRoutes
        /\ next = "strategy" => q.route \in GuardsGuarded
        /\ next \in {"handler", "mfa", "strategy"}
    BY <2>2 DEF Guards!ControllerGuard, Guards!MfaRoutes, GuardsGuarded
  <2>4. ASSUME q.route \in Guards!OpenToMfa \cup {"public"} \/ q.token = Guards!NoToken,
               Guards!Passes(f, Guards!NoUser, next)
        PROVE  GuardsInv'
    <3>1. GuardsRequestInv([q EXCEPT !.user = Guards!NoUser, !.pc = next])
      BY <2>1, <2>3, <2>4
         DEF GuardsRequestInv, Guards!Flight, Guards!OpenToMfa, GuardsGuarded
    <3> QED
      BY <2>1, <2>4, <3>1, GuardsPassesOn
  <2>5. ASSUME Guards!Validates(q.token), Guards!InContext(account, q.tenant),
               Guards!HasMfa(account),
               Guards!Passes(f, account, next)
        PROVE  GuardsInv'
    <3>1. GuardsChecked([q EXCEPT !.user = account, !.pc = next])
      BY <2>1, <2>5, GuardsAccountIsUser DEF GuardsChecked, Guards!Validates, Guards!Flight
    <3>2. GuardsRequestInv([q EXCEPT !.user = account, !.pc = next])
      BY <2>1, <2>3, <3>1 DEF GuardsRequestInv, Guards!Flight, GuardsGuarded
    <3> QED
      BY <2>1, <2>5, <3>2, GuardsPassesOn
  <2>6. CASE Guards!Refuse(f)
    BY <2>6 DEF Guards!Refuse, GuardsInv, Guards!TypeOK
  <2> QED
    BY <1>3, <2>4, <2>5, <2>6 DEF Guards!SecurityGuard
<1>4. ASSUME NEW f \in Flights, Guards!Strategy(f)
      PROVE  GuardsInv'
  <2> DEFINE q == flight[f]
  <2>1. q # Guards!Free /\ q \in Guards!Flight /\ q.pc = "strategy"
    BY <1>4 DEF Guards!Strategy, Guards!Free, Guards!TypeOK
  <2>2. GuardsRequestInv(q)
    BY <2>1 DEF GuardsInv
  <2>3. ASSUME q.user # Guards!NoUser, Guards!Passes(f, q.user, "roles")
        PROVE  GuardsInv'
    <3>1. GuardsRequestInv([q EXCEPT !.user = q.user, !.pc = "roles"])
      BY <2>1, <2>2, <2>3 DEF GuardsRequestInv, GuardsChecked, Guards!Flight
    <3> QED
      BY <2>1, <2>3, <3>1, GuardsPassesOn
  <2>4. CASE q.user = Guards!NoUser
    BY <1>4, <2>1, <2>2, <2>4
       DEF Guards!Strategy, GuardsRequestInv, GuardsChecked, Guards!Refuse, GuardsInv,
           Guards!TypeOK
  <2> QED
    BY <1>4, <2>3, <2>4 DEF Guards!Strategy
<1>5. ASSUME NEW f \in Flights, Guards!MfaGuard(f)
      PROVE  GuardsInv'
  <2> DEFINE q == flight[f]
  <2>1. q # Guards!Free /\ q \in Guards!Flight /\ q.pc = "mfa"
    BY <1>5 DEF Guards!MfaGuard, Guards!Free, Guards!TypeOK
  <2>2. q.route \in Guards!MfaRoutes
    BY <2>1 DEF GuardsInv, GuardsRequestInv
  <2>3. CASE Guards!Passes(f, account, "handler")
    <3>1. GuardsRequestInv([q EXCEPT !.user = account, !.pc = "handler"])
      BY <2>1, <2>2 DEF GuardsRequestInv, Guards!Flight, Guards!MfaRoutes, GuardsGuarded
    <3> QED
      BY <2>1, <2>3, <3>1, GuardsPassesOn
  <2>4. CASE Guards!Refuse(f)
    BY <2>4 DEF Guards!Refuse, GuardsInv, Guards!TypeOK
  <2> QED
    BY <1>5, <2>3, <2>4 DEF Guards!MfaGuard
<1>6. ASSUME NEW f \in Flights, Guards!Roles(f)
      PROVE  GuardsInv'
  <2> DEFINE q == flight[f]
  <2>1. q # Guards!Free /\ q \in Guards!Flight /\ q.pc = "roles"
    BY <1>6 DEF Guards!Roles, Guards!Free, Guards!TypeOK
  <2>2. GuardsChecked(q)
    BY <2>1 DEF GuardsInv, GuardsRequestInv
  <2>3. ASSUME Guards!RolesOf(q.route) = {} \/ q.user.role \in Guards!RolesOf(q.route),
               Guards!Passes(f, q.user, "handler")
        PROVE  GuardsInv'
    <3>1. GuardsRequestInv([q EXCEPT !.user = q.user, !.pc = "handler"])
      BY <2>1, <2>2, <2>3 DEF GuardsRequestInv, GuardsChecked, Guards!Flight
    <3> QED
      BY <2>1, <2>3, <3>1, GuardsPassesOn
  <2>4. CASE Guards!Refuse(f)
    BY <2>4 DEF Guards!Refuse, GuardsInv, Guards!TypeOK
  <2> QED
    BY <1>6, <2>3, <2>4 DEF Guards!Roles
<1>7. ASSUME NEW f \in Flights, Guards!Answers(f)
      PROVE  GuardsInv'
  BY <1>7 DEF Guards!Answers, Guards!Refuse, GuardsInv, Guards!TypeOK
<1> QED
  BY <1>1, <1>2, <1>3, <1>4, <1>5, <1>6, <1>7 DEF Guards!Next

LEMMA GuardsInitInvariant ==
    ASSUME MaxVersions \in Nat, Guards!Init
    PROVE  Guards!TypeOK /\ GuardsInv
  BY DEF Guards!Init, Guards!TypeOK, Guards!Account, GuardsInv

LEMMA GuardsActForOne ==
    ASSUME Guards!TypeOK, GuardsInv
    PROVE  Guards!HandlerActsForOneUser
  BY DEF GuardsInv, GuardsRequestInv, GuardsChecked, GuardsGuarded,
         Guards!HandlerActsForOneUser, Guards!Free

(***************************************************************************)
(* RoleSync: a sync that ends has written the roles Google gives           *)
(***************************************************************************)

\* The places of users and roles in a listing, counted from 1.
RolesBounds ==
    /\ Directory \subseteq Nat \ {0} /\ IsFiniteSet(Directory)
    /\ RoleIds \subseteq Nat \ {0} /\ IsFiniteSet(RoleIds)
    /\ PageSize \in Nat /\ MaxGoogleChanges \in Nat

\* Listing l of a sync has passed the place of k.
RolesPassed(q, l, k) == l \notin q.open \/ k <= q.at[l]

\* What a sync in flight knows of Google: whatever a listing has passed is in
\* its answer, and what it has written is what Google says.
RolesKnows(q, people, roles, assigned, names, held) ==
    /\ q.pc = "write" => q.open = {}
    /\ \A r \in roles : RolesPassed(q, "roles", r) => r \in q.roles
    /\ \A u \in people \ q.changed :
          /\ q.role[u] \in {0, assigned[u]}
          /\ RolesPassed(q, "assignments", u) => q.role[u] = assigned[u]
    /\ q.pc = "list" => \A u \in people : RolesPassed(q, "users", u) => u \in q.users
    /\ q.pc = "write" => \A u \in (held \cap people) \ q.changed :
                            u \in q.users \/ names[u] = {assigned[u]} \ {0}

RolesInFlight(q, people, roles, assigned, names, held) ==
    q = Roles!Quiet \/ (q \in Roles!Listing /\ RolesKnows(q, people, roles, assigned, names,
         held))

RolesSyncsKnow == \A s \in RoleSyncs : RolesInFlight(roleSync[s], gUsers, gRoles, gAssigned,
     roleNames, rows)

RolesInv ==
    /\ Roles!TypeOK
    /\ \A u \in Directory : gAssigned[u] \in gRoles \cup {0}
    /\ RolesSyncsKnow

LEMMA RolesLeastNatural ==
    ASSUME NEW T, T \subseteq Nat, T # {}
    PROVE  \E x \in T : \A y \in T : x <= y
<1>1. PICK x \in T : \A y \in T : ~ (<<y, x>> \in OpToRel(<, Nat))
  BY NatLessThanWellFounded, WFMin
<1>2. \A y \in T : ~ (y < x)
  BY <1>1 DEF OpToRel
<1> QED
  BY <1>2

\* A finite set of numbers has a greatest: the one with the fewest above it.
LEMMA RolesMaxOfPage ==
    ASSUME NEW S, S \subseteq Nat, IsFiniteSet(S), S # {}
    PROVE  Roles!Max(S) \in S /\ \A k \in S : k <= Roles!Max(S)
<1> DEFINE above(k) == {j \in S : j > k}
<1>1. \A k \in S : IsFiniteSet(above(k)) /\ Cardinality(above(k)) \in Nat
  BY FS_Subset, FS_CardinalityType
<1>2. PICK m \in S : \A k \in S : Cardinality(above(m)) <= Cardinality(above(k))
  <2> DEFINE counts == {Cardinality(above(k)) : k \in S}
  <2>1. counts \subseteq Nat /\ counts # {}
    BY <1>1
  <2>2. PICK n \in counts : \A c \in counts : n <= c
    <3> HIDE DEF counts
    <3> QED
      BY <2>1, RolesLeastNatural
  <2>3. PICK m \in S : n = Cardinality(above(m))
    BY <2>2
  <2>4. \A k \in S : Cardinality(above(k)) \in counts
    OBVIOUS
  <2> QED
    BY <2>2, <2>3, <2>4
<1>3. ASSUME NEW k \in S, k > m PROVE FALSE
  <2>0. m \in Nat /\ k \in Nat /\ \A j \in S : j \in Nat
    OBVIOUS
  <2>1. above(k) \in SUBSET above(m) /\ k \in above(m) /\ k \notin above(k)
    <3>1. \A j \in S : j > k => j > m
      BY <1>3, <2>0
    <3>2. k \in above(m)
      BY <1>3
    <3>3. k \notin above(k)
      BY <2>0
    <3> QED
      BY <3>1, <3>2, <3>3
  <2>2. Cardinality(above(k)) <= Cardinality(above(m))
          /\ Cardinality(above(k)) # Cardinality(above(m))
    BY <1>1, <2>1, FS_Subset
  <2> QED
    BY <1>1, <1>2, <2>2
<1>4. \E x \in S : \A y \in S : x >= y
  BY <1>3
<1> QED
  BY <1>4 DEF Roles!Max

LEMMA RolesCardinality == \A S : Roles!Cardinality(S) = Cardinality(S)
  BY DEF Roles!Cardinality, Cardinality

\* A page leaves out nothing between the last page and the place it comes to,
\* and the last page leaves out nothing.
LEMMA RolesPagesMissNothing ==
    ASSUME NEW keys, keys \subseteq Nat, IsFiniteSet(keys), NEW place \in Nat,
           PageSize \in Nat,
           NEW next, next = IF Roles!PageOf(keys,
                place) = {} THEN place ELSE Roles!Max(Roles!PageOf(keys, place))
    PROVE  /\ next \in Nat
           /\ \A k \in keys : k <= next => k <= place \/ k \in Roles!PageOf(keys, place)
           /\ Roles!NoMorePages(keys,
                place) => \A k \in keys : k <= place \/ k \in Roles!PageOf(keys, place)
           /\ Roles!PageOf(keys, place) \subseteq keys
<1> DEFINE page == Roles!PageOf(keys, place)
           before(k) == {j \in Roles!Beyond(keys, place) : j < k}
<1>1. page \subseteq Roles!Beyond(keys, place) /\ Roles!Beyond(keys, place) \subseteq keys
  BY DEF Roles!PageOf, Roles!Beyond
<1>2. IsFiniteSet(page)
  BY <1>1, FS_Subset
<1>3. \A k \in keys : k <= place \/ k \in Roles!Beyond(keys, place)
  BY DEF Roles!Beyond
<1>4. Roles!NoMorePages(keys, place) => \A k \in keys : k <= place \/ k \in page
  BY <1>3 DEF Roles!NoMorePages, Roles!IsLast
<1>5. CASE page = {}
  BY <1>1, <1>4, <1>5
<1>6. CASE page # {}
  <2>1. next \in page /\ next = Roles!Max(page)
    BY <1>1, <1>2, <1>6, RolesMaxOfPage
  <2>2. ASSUME NEW k \in keys, k <= next, ~ (k <= place) PROVE k \in page
    <3>1. k \in Roles!Beyond(keys, place) /\ next \in Nat
      BY <1>1, <1>3, <2>1, <2>2
    <3>2. before(k) \in SUBSET before(next) /\ before(next) \in SUBSET keys
      <4>1. \A j \in Roles!Beyond(keys, place) : j \in Nat /\ k \in Nat
        BY <1>1
      <4>2. \A j \in Roles!Beyond(keys, place) : j < k => j < next
        BY <2>2, <3>1, <4>1
      <4> QED
        BY <1>1, <4>2
    <3>3. IsFiniteSet(before(next)) /\ Cardinality(before(k)) <= Cardinality(before(next))
      BY <3>2, FS_Subset
    <3>4. Cardinality(before(k)) \in Nat /\ Cardinality(before(next)) \in Nat
      BY <3>2, <3>3, FS_Subset, FS_CardinalityType
    <3>5. Cardinality(before(next)) < PageSize
      BY <2>1, RolesCardinality DEF Roles!PageOf
    <3> QED
      BY <3>1, <3>3, <3>4, <3>5, RolesCardinality DEF Roles!PageOf
  <2> QED
    BY <1>1, <1>4, <2>1, <2>2
<1> QED
  BY <1>5, <1>6

\* The pages of a sync name only users and roles there are.
LEMMA RolesKeysOfListings ==
    ASSUME RolesBounds, Roles!TypeOK, NEW l \in Roles!Listings
    PROVE  /\ Roles!Keys(l) \subseteq Nat /\ IsFiniteSet(Roles!Keys(l))
           /\ l = "roles" => Roles!Keys(l) = gRoles
           /\ l = "assignments" => Roles!Keys(l) = {u \in gUsers : gAssigned[u] # 0}
           /\ l = "users" => Roles!Keys(l) = gUsers
<1>1. CASE l = "roles"
  BY <1>1, FS_Subset DEF Roles!Keys, Roles!TypeOK, RolesBounds
<1>2. CASE l = "assignments"
  BY <1>2, FS_Subset DEF Roles!Keys, Roles!TypeOK, RolesBounds
<1>3. CASE l = "users"
  BY <1>3, FS_Subset DEF Roles!Keys, Roles!TypeOK, RolesBounds
<1> QED
  BY <1>1, <1>2, <1>3 DEF Roles!Listings

\* What a sync knows stays true while Google changes, but of the users changed.
LEMMA RolesTouchKeeps ==
    ASSUME RolesBounds, RolesInv, NEW changed \in SUBSET Directory, NEW q, RolesInFlight(q,
           gUsers, gRoles, gAssigned, roleNames, rows),
           NEW us \in SUBSET gUsers, NEW rs \in SUBSET gRoles, NEW as, NEW names,
           \A u \in us \ changed : as[u] = gAssigned[u],
           \A u \in us \ changed : names[u] = roleNames[u],
           q # Roles!Quiet
    PROVE  RolesInFlight([q EXCEPT !.changed = @ \cup changed], us, rs, as, names, rows)
<1> DEFINE new == [q EXCEPT !.changed = @ \cup changed]
<1>1. q \in Roles!Listing /\ RolesKnows(q, gUsers, gRoles, gAssigned, roleNames, rows)
  BY DEF RolesInFlight
<1>2. /\ new \in Roles!Listing /\ new.pc = q.pc /\ new.open = q.open /\ new.roles = q.roles
      /\ new.users = q.users /\ new.role = q.role /\ new.at = q.at
      /\ new.changed = q.changed \cup changed
  BY <1>1 DEF Roles!Listing
<1> HIDE DEF new
<1>3. \A l, k : RolesPassed(new, l, k) <=> RolesPassed(q, l, k)
  BY <1>2 DEF RolesPassed
<1>4. RolesKnows(new, us, rs, as, names, rows)
  BY <1>1, <1>2, <1>3 DEF RolesKnows
<1> QED
  BY <1>2, <1>4 DEF RolesInFlight, new

\* What every sync knows after a step.
LEMMA RolesStillKnown ==
    ASSUME \A s \in RoleSyncs : RolesInFlight(roleSync'[s], gUsers', gRoles', gAssigned',
           roleNames', rows')
    PROVE  RolesSyncsKnow'
  BY DEF RolesSyncsKnow, RolesInFlight, RolesKnows, RolesPassed

\* A change in Google.
LEMMA RolesGoogleKeeps ==
    ASSUME RolesBounds, RolesInv, NEW changed \in SUBSET Directory,
           Roles!GoogleChanges(changed),
           gUsers' \subseteq gUsers, gRoles' \subseteq gRoles,
           gAssigned' \in [Directory -> Roles!RoleOrNone],
           \A u \in gUsers' \ changed : gAssigned'[u] = gAssigned[u],
           \A u \in Directory : gAssigned'[u] \in gRoles' \cup {0}
    PROVE  RolesInv'
<1>1. /\ gChanges' \in 0 .. MaxGoogleChanges /\ roleNames' = roleNames /\ rows' = rows
      /\ roleSync' = [s \in RoleSyncs |-> IF roleSync[s] = Roles!Quiet THEN Roles!Quiet
                        ELSE [roleSync[s] EXCEPT !.changed = @ \cup changed]]
  BY DEF Roles!GoogleChanges, RolesInv, Roles!TypeOK, RolesBounds
<1>2. ASSUME NEW s \in RoleSyncs
      PROVE  /\ roleSync'[s] \in Roles!Listing \cup {Roles!Quiet}
             /\ RolesInFlight(roleSync'[s], gUsers', gRoles', gAssigned', roleNames, rows)
  <2>1. RolesInFlight(roleSync[s], gUsers, gRoles, gAssigned, roleNames, rows)
    BY DEF RolesInv, RolesSyncsKnow
  <2>2. CASE roleSync[s] = Roles!Quiet
    BY <1>1, <2>2 DEF RolesInFlight
  <2>3. CASE roleSync[s] # Roles!Quiet
    <3>1. RolesInFlight([roleSync[s] EXCEPT !.changed = @ \cup changed], gUsers', gRoles',
          gAssigned', roleNames, rows)
      BY <2>1, <2>3, RolesTouchKeeps
    <3> QED
      BY <1>1, <2>3, <3>1 DEF RolesInFlight
  <2> QED
    BY <2>2, <2>3
<1>3. Roles!TypeOK'
  BY <1>1, <1>2 DEF RolesInv, Roles!TypeOK
<1>4. RolesSyncsKnow'
  BY <1>1, <1>2, RolesStillKnown
<1> QED
  BY <1>3, <1>4 DEF RolesInv

\* A step of one sync that leaves Google and the other syncs alone.
LEMMA RolesContinuesKeeps ==
    ASSUME RolesBounds, RolesInv, NEW s \in RoleSyncs, NEW next, Roles!Continues(s, next),
           UNCHANGED <<Roles!google, roleNames, rows>>,
           RolesInFlight(next, gUsers, gRoles, gAssigned, roleNames, rows)
    PROVE  RolesInv'
<1>1. /\ gUsers' = gUsers /\ gRoles' = gRoles /\ gAssigned' = gAssigned /\ gChanges' = gChanges
      /\ roleNames' = roleNames /\ rows' = rows /\ roleSync' = [roleSync EXCEPT ![s] = next]
  BY DEF Roles!google, Roles!Continues
<1>2. Roles!TypeOK'
  BY <1>1 DEF RolesInv, Roles!TypeOK, RolesInFlight
<1>3. \A t \in RoleSyncs : RolesInFlight(roleSync'[t], gUsers, gRoles, gAssigned, roleNames, rows)
  BY <1>1 DEF RolesInv, RolesSyncsKnow, Roles!TypeOK
<1>4. RolesSyncsKnow'
  BY <1>1, <1>3, RolesStillKnown
<1> QED
  BY <1>1, <1>2, <1>4 DEF RolesInv

LEMMA RolesStartsKeeps ==
    ASSUME RolesBounds, RolesInv, NEW s \in RoleSyncs, Roles!RoleSyncStarts(s)
    PROVE  RolesInv'
<1> DEFINE new == [pc |-> "list", open |-> Roles!Listings, roles |-> {}, users |-> {},
                     role |-> [u \in Directory |-> 0], at |-> [l \in Roles!Listings |-> 0],
                     changed |-> {}]
<1>1. /\ new \in Roles!Listing /\ new.pc = "list" /\ new.open = Roles!Listings /\ new.role = [u \in Directory |-> 0]
      /\ new.at = [l \in Roles!Listings |-> 0]
  BY DEF Roles!Listing, Roles!RoleOrNone
<1>2. Roles!Continues(s, new) /\ UNCHANGED <<Roles!google, roleNames, rows>>
  BY DEF Roles!RoleSyncStarts
<1> HIDE DEF new
<1>3. gUsers \subseteq Nat \ {0} /\ gRoles \subseteq Nat \ {0} /\ gUsers \subseteq Directory
  BY DEF RolesInv, Roles!TypeOK, RolesBounds
<1>4. \A l \in Roles!Listings : \A k \in Nat \ {0} : ~ RolesPassed(new, l, k)
  BY <1>1 DEF RolesPassed
<1>5. RolesKnows(new, gUsers, gRoles, gAssigned, roleNames, rows)
  BY <1>1, <1>3, <1>4 DEF RolesKnows, Roles!Listings
<1> QED
  BY <1>1, <1>2, <1>5, RolesContinuesKeeps DEF RolesInFlight

\* One page of a listing: whatever it passes is in the answers.
LEMMA RolesFetchKeeps ==
    ASSUME RolesBounds, RolesInv, NEW s \in RoleSyncs, NEW l \in Roles!Listings,
           Roles!FetchPage(s, l)
    PROVE  RolesInv'
<1> DEFINE q == roleSync[s]
           page == Roles!PageOf(Roles!Keys(l), q.at[l])
           last == Roles!NoMorePages(Roles!Keys(l), q.at[l])
           place == IF page = {} THEN q.at[l] ELSE Roles!Max(page)
           asked == [u \in Directory |-> IF u \in page THEN gAssigned[u] ELSE q.role[u]]
           new == [q EXCEPT
           !.open  = IF last THEN @ \ {l} ELSE @,
           !.pc    = IF last /\ q.open = {l} THEN "write" ELSE @,
           !.at    = IF page = {} THEN @ ELSE [@ EXCEPT ![l] = Roles!Max(page)],
           !.roles = IF l = "roles" THEN @ \cup page ELSE @,
           !.users = IF l = "users" THEN @ \cup page ELSE @,
           !.role  = IF l = "assignments" THEN asked ELSE @]
<1>1. /\ q.pc = "list" /\ l \in q.open /\ UNCHANGED <<Roles!google, roleNames, rows>>
      /\ Roles!Continues(s, new)
  BY DEF Roles!FetchPage
<1>2. q \in Roles!Listing /\ RolesKnows(q, gUsers, gRoles, gAssigned, roleNames, rows)
  BY <1>1 DEF RolesInv, RolesSyncsKnow, RolesInFlight, Roles!Quiet
<1>3. q.at \in [Roles!Listings -> Nat] /\ q.role \in [Directory -> Roles!RoleOrNone]
  BY <1>2 DEF Roles!Listing
<1>4. Roles!Keys(l) \subseteq Nat /\ IsFiniteSet(Roles!Keys(l)) /\ q.at[l] \in Nat
        /\ PageSize \in Nat
  BY <1>3, RolesKeysOfListings DEF RolesInv, RolesBounds
<1>5. /\ place \in Nat
      /\ \A k \in Roles!Keys(l) : k <= place => k <= q.at[l] \/ k \in page
      /\ last => \A k \in Roles!Keys(l) : k <= q.at[l] \/ k \in page
      /\ page \subseteq Roles!Keys(l)
  <2> HIDE DEF last
  <2> QED
    BY <1>4, RolesPagesMissNothing DEF last
<1>6. /\ gUsers \subseteq Directory /\ gRoles \subseteq RoleIds /\ gAssigned \in [Directory -> Roles!RoleOrNone]
  BY DEF RolesInv, Roles!TypeOK
<1>7. /\ l = "roles" => page \subseteq gRoles
      /\ l = "users" => page \subseteq gUsers
      /\ asked \in [Directory -> Roles!RoleOrNone]
  BY <1>3, <1>5, <1>6, RolesKeysOfListings DEF RolesInv
<1> HIDE DEF page, last, place, asked
<1>8. /\ new \in Roles!Listing
      /\ new.open = IF last THEN q.open \ {l} ELSE q.open
      /\ new.pc = IF last /\ q.open = {l} THEN "write" ELSE "list"
      /\ new.at = [q.at EXCEPT ![l] = place]
      /\ new.roles = IF l = "roles" THEN q.roles \cup page ELSE q.roles
      /\ new.users = IF l = "users" THEN q.users \cup page ELSE q.users
      /\ new.role = IF l = "assignments" THEN asked ELSE q.role
      /\ new.changed = q.changed
  <2> DEFINE open  == IF last THEN q.open \ {l} ELSE q.open
             pc    == IF last /\ q.open = {l} THEN "write" ELSE q.pc
             at    == IF page = {} THEN q.at ELSE [q.at EXCEPT ![l] = Roles!Max(page)]
             roles == IF l = "roles" THEN q.roles \cup page ELSE q.roles
             people == IF l = "users" THEN q.users \cup page ELSE q.users
             role  == IF l = "assignments" THEN asked ELSE q.role
  <2>1. /\ q.open \subseteq Roles!Listings /\ q.roles \subseteq RoleIds /\ q.users \subseteq Directory
        /\ q.changed \subseteq Directory
    BY <1>2 DEF Roles!Listing
  <2>2. at = [q.at EXCEPT ![l] = place]
    BY <1>3 DEF place
  <2>3. pc \in {"list",
        "write"} /\ open \in SUBSET Roles!Listings /\ at \in [Roles!Listings -> Nat]
    BY <1>1, <1>3, <1>5, <2>1, <2>2
  <2>4. roles \in SUBSET RoleIds /\ people \in SUBSET Directory
          /\ role \in [Directory -> Roles!RoleOrNone]
    BY <1>3, <1>6, <1>7, <2>1
  <2>5. new = [q EXCEPT !.open = open, !.pc = pc, !.at = at, !.roles = roles,
                        !.users = people, !.role = role]
    OBVIOUS
  <2> HIDE DEF new, pc, open, at, roles, people, role
  <2>0. q \in Roles!Listing
    BY <1>2
  <2> HIDE DEF q
  <2>6. new \in Roles!Listing
    BY <2>0, <2>3, <2>4, <2>5 DEF Roles!Listing
  <2>7. new.open = open /\ new.pc = pc /\ new.at = at
    BY <2>0, <2>5 DEF Roles!Listing
  <2>8. new.roles = roles /\ new.users = people /\ new.role = role
          /\ new.changed = q.changed
    BY <2>0, <2>5 DEF Roles!Listing
  <2> QED
    BY <1>1, <2>2, <2>6, <2>7, <2>8 DEF pc, open, roles, people, role
<1> HIDE DEF new, q
<1>9. \A k \in Roles!Keys(l) : RolesPassed(new, l, k) => RolesPassed(q, l, k) \/ k \in page
  BY <1>1, <1>3, <1>5, <1>8 DEF RolesPassed
<1>10. \A m \in Roles!Listings : m # l => \A k : RolesPassed(new, m, k) =>
         RolesPassed(q, m, k)
  BY <1>3, <1>8 DEF RolesPassed
<1>11. \A r \in gRoles : RolesPassed(new, "roles", r) => r \in new.roles
  BY <1>2, <1>8, <1>9, <1>10, RolesKeysOfListings DEF RolesKnows, Roles!Listings, RolesInv
<1>12. \A u \in gUsers : RolesPassed(new, "users", u) => u \in new.users
  BY <1>1, <1>2, <1>8, <1>9, <1>10, RolesKeysOfListings
     DEF RolesKnows, Roles!Listings, RolesInv
<1>13. ASSUME NEW u \in gUsers \ new.changed
       PROVE  /\ new.role[u] \in {0, gAssigned[u]}
              /\ RolesPassed(new, "assignments", u) => new.role[u] = gAssigned[u]
  <2>1. /\ u \in Directory /\ q.role[u] \in {0, gAssigned[u]}
        /\ RolesPassed(q, "assignments", u) => q.role[u] = gAssigned[u]
    BY <1>2, <1>6, <1>8 DEF RolesKnows
  <2>2. CASE l = "assignments"
    <3>1. new.role[u] = IF u \in page THEN gAssigned[u] ELSE q.role[u]
      BY <1>8, <2>1, <2>2 DEF asked
    <3>2. gAssigned[u] # 0 => u \in Roles!Keys(l)
      BY <2>2, RolesKeysOfListings DEF RolesInv
    <3> QED
      BY <1>9, <2>1, <2>2, <3>1, <3>2
  <2>3. CASE l # "assignments"
    BY <1>8, <1>10, <2>1, <2>3 DEF Roles!Listings
  <2> QED
    BY <2>2, <2>3
<1>14. new.pc = "write" => new.open = {}
  BY <1>8
<1>15. new.pc = "write" => \A u \in gUsers : u \in new.users
  BY <1>12, <1>14 DEF RolesPassed
<1>16. RolesKnows(new, gUsers, gRoles, gAssigned, roleNames, rows)
  BY <1>11, <1>12, <1>13, <1>14, <1>15 DEF RolesKnows
<1> QED
  BY <1>1, <1>8, <1>16, RolesContinuesKeeps DEF RolesInFlight

\* The names written for a user are those of Google, if nobody changed them.
LEMMA RolesNamesAreExact ==
    ASSUME RolesBounds, RolesInv, NEW s \in RoleSyncs, roleSync[s].pc = "write",
           NEW u \in gUsers \ roleSync[s].changed
    PROVE  Roles!NamesOf(roleSync[s], u) = {gAssigned[u]} \ {0}
<1> DEFINE q == roleSync[s]
<1>1. q \in Roles!Listing /\ RolesKnows(q, gUsers, gRoles, gAssigned, roleNames, rows)
  BY DEF RolesInv, RolesSyncsKnow, RolesInFlight, Roles!Quiet
<1>2. \A l, k : RolesPassed(q, l, k)
  BY <1>1 DEF RolesKnows, RolesPassed
<1>3. q.role[u] = gAssigned[u] /\ \A r \in gRoles : r \in q.roles
  BY <1>1, <1>2 DEF RolesKnows
<1>4. q.roles \subseteq RoleIds /\ 0 \notin RoleIds
  BY <1>1 DEF Roles!Listing, RolesBounds
<1>5. gAssigned[u] \in gRoles \cup {0}
  BY DEF RolesInv, Roles!TypeOK
<1> QED
  BY <1>3, <1>4, <1>5 DEF Roles!NamesOf

LEMMA RolesUpdateKeeps ==
    ASSUME RolesBounds, RolesInv, NEW s \in RoleSyncs, NEW u \in Directory,
           Roles!UpdateIdentity(s, u)
    PROVE  RolesInv'
<1> DEFINE q == roleSync[s]
           rest == [q EXCEPT !.users = @ \ {u}]
<1>1. /\ q.pc = "write" /\ u \in q.users
      /\ gUsers' = gUsers /\ gRoles' = gRoles /\ gAssigned' = gAssigned /\ gChanges' = gChanges
      /\ rows' = rows
      /\ roleNames' = IF u \in rows THEN [roleNames EXCEPT ![u] = Roles!NamesOf(q,
           u)] ELSE roleNames
      /\ roleSync' = [t \in RoleSyncs |->
                       IF t = s THEN rest
                       ELSE IF roleSync[t] = Roles!Quiet THEN Roles!Quiet
                       ELSE [roleSync[t] EXCEPT !.changed = @ \cup {u}]]
  BY DEF Roles!UpdateIdentity, Roles!google
<1>2. q \in Roles!Listing /\ RolesKnows(q, gUsers, gRoles, gAssigned, roleNames,
      rows) /\ roleNames \in [Directory -> SUBSET RoleIds]
  BY <1>1 DEF RolesInv, RolesSyncsKnow, RolesInFlight, Roles!Quiet, Roles!TypeOK
<1>3. Roles!NamesOf(q, u) \in SUBSET RoleIds
  BY <1>2 DEF Roles!NamesOf, Roles!Listing
<1>4. roleNames' \in [Directory -> SUBSET RoleIds] /\ \A v \in Directory : v # u =>
        roleNames'[v] = roleNames[v]
  BY <1>1, <1>2, <1>3
<1>5. u \in (rows \cap gUsers) \ q.changed => roleNames'[u] = {gAssigned[u]} \ {0}
  BY <1>1, <1>2, RolesNamesAreExact
<1>6. /\ rest \in Roles!Listing /\ rest.pc = q.pc /\ rest.open = q.open /\ rest.roles = q.roles
      /\ rest.users = q.users \ {u} /\ rest.role = q.role /\ rest.at = q.at
      /\ rest.changed = q.changed
  BY <1>2 DEF Roles!Listing
<1>7. RolesInFlight(rest, gUsers, gRoles, gAssigned, roleNames', rows)
  <2> HIDE DEF rest, q
  <2>1. \A l, k : RolesPassed(rest, l, k) <=> RolesPassed(q, l, k)
    BY <1>6 DEF RolesPassed
  <2>2. \A v \in gUsers : v \in Directory
    BY DEF RolesInv, Roles!TypeOK
  <2>3. RolesKnows(rest, gUsers, gRoles, gAssigned, roleNames', rows)
    BY <1>1, <1>2, <1>4, <1>5, <1>6, <2>1, <2>2 DEF RolesKnows
  <2> QED
    BY <1>6, <2>3 DEF RolesInFlight
<1>8. ASSUME NEW t \in RoleSyncs, t # s
      PROVE  RolesInFlight(roleSync'[t], gUsers, gRoles, gAssigned, roleNames', rows)
  <2>1. RolesInFlight(roleSync[t], gUsers, gRoles, gAssigned, roleNames, rows)
    BY DEF RolesInv, RolesSyncsKnow
  <2>2. CASE roleSync[t] = Roles!Quiet
    BY <1>1, <1>8, <2>2 DEF RolesInFlight
  <2>3. CASE roleSync[t] # Roles!Quiet
    <3>1. roleSync'[t] = [roleSync[t] EXCEPT !.changed = @ \cup {u}]
      BY <1>1, <1>8, <2>3
    <3>2. gUsers \subseteq Directory /\ {u} \in SUBSET Directory
      BY DEF RolesInv, Roles!TypeOK
    <3>3. \A v \in gUsers \ {u} : roleNames'[v] = roleNames[v]
      BY <1>4, <3>2
    <3>4. RolesInFlight([roleSync[t] EXCEPT !.changed = @ \cup {u}], gUsers, gRoles, gAssigned,
          roleNames', rows)
      BY <2>1, <2>3, <3>2, <3>3, RolesTouchKeeps
    <3> QED
      BY <3>1, <3>4
  <2> QED
    BY <2>2, <2>3
<1>9. \A t \in RoleSyncs : RolesInFlight(roleSync'[t], gUsers, gRoles, gAssigned, roleNames',
      rows)
  BY <1>1, <1>7, <1>8
<1>10. Roles!TypeOK'
  BY <1>1, <1>4, <1>9 DEF RolesInv, Roles!TypeOK, RolesInFlight
<1>11. RolesSyncsKnow'
  BY <1>1, <1>9, RolesStillKnown
<1> QED
  BY <1>1, <1>10, <1>11 DEF RolesInv

LEMMA RolesInvariant ==
    ASSUME RolesBounds, RolesInv, [Roles!Next]_rolesVars
    PROVE  RolesInv'
<1>0. /\ gUsers \subseteq Directory /\ gAssigned \in [Directory -> Roles!RoleOrNone]
      /\ gRoles \subseteq RoleIds /\ \A u \in Directory : gAssigned[u] \in gRoles \cup {0}
  BY DEF RolesInv, Roles!TypeOK
<1>1. ASSUME NEW u \in Directory, Roles!UserDeleted(u)
      PROVE  RolesInv'
  <2>1. /\ Roles!GoogleChanges({u}) /\ gUsers' = gUsers \ {u} /\ gRoles' = gRoles
        /\ gAssigned' = [gAssigned EXCEPT ![u] = 0]
    BY <1>1 DEF Roles!UserDeleted
  <2>2. /\ gAssigned' \in [Directory -> Roles!RoleOrNone]
        /\ \A v \in Directory : gAssigned'[v] = IF v = u THEN 0 ELSE gAssigned[v]
    BY <1>0, <2>1 DEF Roles!RoleOrNone
  <2> QED
    BY <1>0, <2>1, <2>2, RolesGoogleKeeps
<1>2. ASSUME NEW u \in Directory, NEW r \in Roles!RoleOrNone, Roles!Assigned(u, r)
      PROVE  RolesInv'
  <2>1. /\ Roles!GoogleChanges({u}) /\ gUsers' = gUsers /\ gRoles' = gRoles /\ r \in gRoles \cup {0}
        /\ gAssigned' = [gAssigned EXCEPT ![u] = r]
    BY <1>2 DEF Roles!Assigned
  <2>2. /\ gAssigned' \in [Directory -> Roles!RoleOrNone]
        /\ \A v \in Directory : gAssigned'[v] = IF v = u THEN r ELSE gAssigned[v]
    BY <1>0, <2>1 DEF Roles!RoleOrNone
  <2> QED
    BY <1>0, <2>1, <2>2, RolesGoogleKeeps
<1>3. ASSUME NEW r \in RoleIds, Roles!RoleDeleted(r)
      PROVE  RolesInv'
  <2>1. /\ Roles!GoogleChanges({}) /\ gUsers' = gUsers /\ gRoles' = gRoles \ {r} /\ gAssigned' = gAssigned
        /\ \A u \in Directory : gAssigned[u] # r
    BY <1>3 DEF Roles!RoleDeleted
  <2>2. {} \in SUBSET Directory
    OBVIOUS
  <2> QED
    BY <1>0, <2>1, <2>2, RolesGoogleKeeps
<1>4. ASSUME NEW s \in RoleSyncs, Roles!RoleSyncEnds(s) \/ Roles!RoleSyncFails(s)
      PROVE  RolesInv'
  BY <1>4, RolesContinuesKeeps DEF Roles!RoleSyncEnds, Roles!RoleSyncFails, RolesInFlight
<1>5. CASE UNCHANGED rolesVars
  <2>1. /\ gUsers' = gUsers /\ gRoles' = gRoles /\ gAssigned' = gAssigned /\ gChanges' = gChanges
        /\ rows' = rows /\ roleNames' = roleNames /\ roleSync' = roleSync
    BY <1>5 DEF rolesVars, Roles!google
  <2> QED
    BY <2>1
       DEF RolesInv, Roles!TypeOK, RolesSyncsKnow, RolesInFlight, RolesKnows, RolesPassed
<1> QED
  BY <1>1, <1>2, <1>3, <1>4, <1>5, RolesStartsKeeps, RolesFetchKeeps, RolesUpdateKeeps
     DEF Roles!Next

LEMMA RolesInitInvariant ==
    ASSUME RolesBounds, Roles!Init
    PROVE  RolesInv
  BY DEF RolesBounds, Roles!Init, RolesInv, Roles!TypeOK, RolesSyncsKnow, RolesInFlight,
         Roles!RoleOrNone

\* A sync that ends has written every row as Google has it.
LEMMA RolesEndsExact ==
    ASSUME RolesInv
    PROVE  Roles!ExactAtTheEnd
<1> SUFFICES ASSUME NEW s \in RoleSyncs, Roles!RoleSyncEnds(s),
             NEW u \in (rows \cap gUsers) \ roleSync[s].changed
             PROVE  roleNames[u] = {gAssigned[u]} \ {0}
  BY DEF Roles!ExactAtTheEnd
<1>1. RolesKnows(roleSync[s], gUsers, gRoles, gAssigned, roleNames, rows)
  BY DEF Roles!RoleSyncEnds, RolesInv, RolesSyncsKnow, RolesInFlight, Roles!Quiet
<1> QED
  BY <1>1 DEF RolesKnows, Roles!RoleSyncEnds

(***************************************************************************)
(* UserSession: an accepted token was made under the present credentials   *)
(***************************************************************************)

SessionBounds == MaxChanges \in Nat /\ MaxSetups \in Nat

\* authVersion counts every change that password and era count.
SessionCounted == password <= ver /\ era <= ver

\* A token of the row's version was made of the row's password and era; one of
\* another version is older.
SessionFollows(t) == t.ver <= ver /\ (t.ver = ver => t.password = password /\ t.era = era)

\* The requests that will hand out tokens, made from a reading that may be old.
SessionBringing(c) == call[c].pc \in {"status", "issue"}

SessionInv ==
    /\ SessionCounted
    /\ \A t \in tokens : SessionFollows(t)
    /\ \A c \in Calls : SessionBringing(c) => SessionFollows(call[c].as)

(***************************************************************************)
(* Requests                                                                *)
(***************************************************************************)

\* A request in flight that brings a token brings one that can be issued.
LEMMA SessionBroughtToken ==
    ASSUME Session!TypeOK, NEW c \in Calls, SessionBringing(c)
    PROVE  call[c].as \in Session!Token
<1>1. call[c] # Session!Idle
  BY DEF SessionBringing, Session!Idle
<1> QED
  BY <1>1 DEF Session!TypeOK, SessionBringing, Session!Call

\* What the row shows is a token of it.
LEMMA SessionSnapshotFollows ==
    ASSUME Session!TypeOK, SessionBounds
    PROVE  Session!Snapshot \in Session!Token /\ SessionFollows(Session!Snapshot)
  BY DEF Session!Snapshot, Session!Token, SessionFollows, Session!TypeOK, Session!Versions,
         SessionBounds

\* While the row's version, password and era stay, a request that goes on with a token
\* that follows them, or with none, keeps the invariant.
LEMMA SessionRequestStep ==
    ASSUME Session!TypeOK, SessionInv, UNCHANGED <<ver, password, era>>,
           NEW c \in Calls, NEW r, Session!Becomes(c, r),
           r.pc \in {"status", "issue"} => SessionFollows(r.as),
           \A t \in tokens' : t \in tokens \/ SessionFollows(t)
    PROVE  SessionInv'
<1>1. \A t : SessionFollows(t)' <=> SessionFollows(t)
  BY DEF SessionFollows
<1>2. call' = [call EXCEPT ![c] = r] /\ call \in [Calls -> Session!Call \cup {Session!Idle}]
  BY DEF Session!Becomes, Session!TypeOK
<1>3. \A d \in Calls : call'[d] = IF d = c THEN r ELSE call[d]
  BY <1>2
<1>4. \A t \in tokens' : SessionFollows(t)'
  BY <1>1 DEF SessionInv
<1>5. ASSUME NEW d \in Calls, SessionBringing(d)'
      PROVE  SessionFollows(call[d].as)'
  <2>1. CASE d = c
    BY <1>3, <1>5, <2>1 DEF SessionBringing, SessionFollows
  <2>2. CASE d # c
    BY <1>3, <1>5, <2>2 DEF SessionBringing, SessionFollows, SessionInv
  <2> QED
    BY <2>1, <2>2
<1> QED
  BY <1>4, <1>5 DEF SessionInv, SessionCounted

\* A step that leaves the row's version, the tokens and the requests alone.
LEMMA SessionOtherStep ==
    ASSUME SessionInv, UNCHANGED <<ver, password, era, tokens, call>>
    PROVE  SessionInv'
  BY DEF SessionInv, SessionCounted, SessionFollows, SessionBringing

\* A change that ends the sessions raises the version past that of every token.
LEMMA SessionEndingStep ==
    ASSUME SessionBounds, Session!TypeOK, SessionInv, ver' = ver + 1,
           UNCHANGED <<tokens, call>>,
           password' \in {password, password + 1}, era' \in {era, era + 1}
    PROVE  SessionInv'
<1>1. ver \in Nat /\ password \in Nat /\ era \in Nat
  BY DEF SessionBounds, Session!TypeOK, Session!Versions
<1>2. \A t \in Session!Token : SessionFollows(t) => SessionFollows(t)'
  BY <1>1 DEF SessionFollows, Session!Token, Session!Versions, SessionBounds
<1>3. SessionCounted'
  BY <1>1 DEF SessionInv, SessionCounted
<1>4. \A t \in tokens' : SessionFollows(t)'
  BY <1>2 DEF SessionInv, Session!TypeOK
<1>5. ASSUME NEW c \in Calls, SessionBringing(c)'
      PROVE  SessionFollows(call[c].as)'
  <2>1. SessionBringing(c)
    BY <1>5 DEF SessionBringing
  <2>2. call[c].as \in Session!Token /\ SessionFollows(call[c].as)
    BY <2>1, SessionBroughtToken DEF SessionInv
  <2> QED
    BY <1>2, <2>2 DEF SessionFollows
<1> QED
  BY <1>3, <1>4, <1>5 DEF SessionInv

(***************************************************************************)
(* Steps                                                                   *)
(***************************************************************************)

\* Every step of the administrators and of the requests keeps the invariant.
LEMMA SessionFollowsOn ==
    ASSUME SessionBounds, Session!TypeOK, SessionInv, [Session!Next]_sessionVars
    PROVE  SessionInv'
<1>1. CASE Session!ChangePassword \/ Session!ChangeRole
             \/ \E next \in Session!Statuses : Session!ChangeStatus(next)
  BY <1>1, SessionEndingStep
     DEF Session!ChangePassword, Session!ChangeRole, Session!ChangeStatus,
         Session!EndSessions, Session!history
<1>2. CASE Session!Remove \/ Session!MfaSetup \/ UNCHANGED sessionVars
  BY <1>2, SessionOtherStep
     DEF Session!Remove, Session!MfaSetup, sessionVars, Session!account, Session!history
<1>3. ASSUME NEW c \in Calls, Session!LoginRead(c)
      PROVE  SessionInv'
  <2>1. CASE call' = call
    BY <1>3, <2>1, SessionOtherStep DEF Session!LoginRead, Session!account, Session!history
  <2>2. CASE Session!Becomes(c, [pc |-> "status", read |-> status, as |-> Session!Snapshot])
    BY <1>3, <2>2, SessionSnapshotFollows, SessionRequestStep
       DEF Session!LoginRead, Session!account, Session!history
  <2> QED
    BY <1>3, <2>1, <2>2 DEF Session!LoginRead
<1>4. ASSUME NEW c \in Calls, Session!LoginWrite(c)
      PROVE  SessionInv'
  <2>1. SessionFollows(call[c].as)
    BY <1>4 DEF Session!LoginWrite, SessionInv, SessionBringing
  <2>2. CASE Session!Becomes(c, [pc |-> "issue", as |-> call[c].as])
    BY <1>4, <2>1, <2>2, SessionRequestStep DEF Session!LoginWrite, Session!history
  <2>3. CASE Session!Becomes(c, Session!Idle)
    BY <1>4, <2>3, SessionRequestStep DEF Session!LoginWrite, Session!history, Session!Idle
  <2> QED
    BY <1>4, <2>2, <2>3 DEF Session!LoginWrite
<1>5. ASSUME NEW c \in Calls, Session!Issue(c)
      PROVE  SessionInv'
  <2>1. SessionFollows(call[c].as)
    BY <1>5 DEF Session!Issue, SessionInv, SessionBringing
  <2> QED
    BY <1>5, <2>1, SessionRequestStep DEF Session!Issue, Session!history, Session!Idle
<1>6. ASSUME NEW c \in Calls, NEW t \in tokens, Session!Refresh(c, t)
      PROVE  SessionInv'
  <2>1. SessionFollows(t)
    BY DEF SessionInv
  <2> QED
    BY <1>6, <2>1, SessionRequestStep DEF Session!Refresh, Session!account, Session!history
<1>7. ASSUME NEW c \in Calls, Session!AcceptInvite(c)
      PROVE  SessionInv'
  BY <1>7, SessionSnapshotFollows, SessionRequestStep
     DEF Session!AcceptInvite, Session!history
<1>8. ASSUME NEW c \in Calls,
             Session!OauthRead(c) \/ Session!MfaVerifyRead(c) \/ Session!MfaDisableRead(c)
      PROVE  SessionInv'
  BY <1>8, SessionRequestStep
     DEF Session!OauthRead, Session!MfaVerifyRead, Session!MfaDisableRead, Session!account,
         Session!history
<1>9. ASSUME NEW c \in Calls, Session!OauthWrite(c)
      PROVE  SessionInv'
  <2>1. CASE Session!Becomes(c, [pc |-> "issue", as |-> Session!Snapshot])
    BY <1>9, <2>1, SessionSnapshotFollows, SessionRequestStep
       DEF Session!OauthWrite, Session!history
  <2>2. CASE Session!Becomes(c, Session!Idle)
    BY <1>9, <2>2, SessionRequestStep DEF Session!OauthWrite, Session!history, Session!Idle
  <2> QED
    BY <1>9, <2>1, <2>2 DEF Session!OauthWrite
<1>10. ASSUME NEW c \in Calls,
              Session!MfaVerifyWrite(c) \/ Session!MfaDisableWrite(c) \/ Session!RequestFails(c)
       PROVE  SessionInv'
  BY <1>10, SessionRequestStep
     DEF Session!MfaVerifyWrite, Session!MfaDisableWrite, Session!RequestFails,
         Session!account, Session!history, Session!Idle
<1> QED
  BY <1>1, <1>2, <1>3, <1>4, <1>5, <1>6, <1>7, <1>8, <1>9, <1>10
     DEF Session!Next, Session!Administration, Session!SignIn, Session!Mfa

(***************************************************************************)
(* Types.  The history variables are bounded because authVersion is.       *)
(***************************************************************************)

SessionFlags == /\ there \in BOOLEAN /\ admin \in BOOLEAN /\ hash \in BOOLEAN
         /\ mfa \in BOOLEAN /\ setupToken \in BOOLEAN /\ barred \in BOOLEAN

SessionRest == /\ status \in Session!Statuses
        /\ ver \in Session!Versions /\ password \in Session!Versions /\ era \in Session!Versions
        /\ secret \in Session!Secrets /\ setups \in Session!Secrets
        /\ tokens \subseteq Session!Token
        /\ call \in [Calls -> Session!Call \cup {Session!Idle}]

LEMMA SessionTypeParts == Session!TypeOK <=> SessionFlags /\ SessionRest
  BY DEF Session!TypeOK, SessionFlags, SessionRest

LEMMA SessionBecomesKeepsType ==
    ASSUME Session!TypeOK, NEW c \in Calls, NEW r \in Session!Call \cup {Session!Idle},
           Session!Becomes(c, r)
    PROVE  call' \in [Calls -> Session!Call \cup {Session!Idle}]
  BY DEF Session!TypeOK, Session!Becomes

LEMMA SessionTypeInvariant ==
    ASSUME SessionBounds, Session!TypeOK, SessionInv, [Session!Next]_sessionVars
    PROVE  Session!TypeOK'
<1> USE DEF SessionBounds
<1>0. SessionInv'
  BY SessionFollowsOn
<1>1. CASE Session!ChangePassword \/ Session!ChangeRole
             \/ \E next \in Session!Statuses : Session!ChangeStatus(next)
  <2>1. SessionRest'
    BY <1>0, <1>1
       DEF Session!ChangePassword, Session!ChangeRole, Session!ChangeStatus,
           Session!EndSessions, Session!history, Session!factor, Session!TypeOK, SessionInv,
           SessionCounted, Session!Versions, SessionRest
  <2>2. SessionFlags'
    BY <1>1, Zenon
       DEF Session!ChangePassword, Session!ChangeRole, Session!ChangeStatus,
           Session!EndSessions, Session!history, Session!factor, Session!TypeOK,
           SessionFlags
  <2> QED
    BY <2>1, <2>2 DEF Session!TypeOK, SessionFlags, SessionRest
<1>2. CASE Session!Remove \/ UNCHANGED sessionVars
  BY <1>2
     DEF Session!Remove, sessionVars, Session!account, Session!factor, Session!history,
         Session!TypeOK
<1>3. CASE Session!MfaSetup
  <2>1. SessionRest'
    BY <1>3
       DEF Session!MfaSetup, Session!account, Session!history, Session!TypeOK,
           Session!Secrets, SessionRest
  <2>2. SessionFlags'
    BY <1>3, Zenon
       DEF Session!MfaSetup, Session!account, Session!history, Session!TypeOK, SessionFlags
  <2> QED
    BY <2>1, <2>2 DEF Session!TypeOK, SessionFlags, SessionRest
<1>4. ASSUME NEW c \in Calls, Session!LoginRead(c)
      PROVE  Session!TypeOK'
  <2>1. [pc |-> "status", read |-> status, as |-> Session!Snapshot] \in Session!Call
    BY SessionSnapshotFollows DEF Session!Call, Session!TypeOK
  <2> QED
    BY <1>4, <2>1, SessionBecomesKeepsType
       DEF Session!LoginRead, Session!account, Session!factor, Session!history,
           Session!TypeOK
<1>5. ASSUME NEW c \in Calls, Session!LoginWrite(c)
      PROVE  Session!TypeOK'
  <2>1. call[c].as \in Session!Token /\ [pc |-> "issue", as |-> call[c].as] \in Session!Call
    BY <1>5, SessionBroughtToken DEF Session!LoginWrite, SessionBringing, Session!Call
  <2>2. call[c].read \in Session!Statuses
    BY <1>5 DEF Session!LoginWrite, Session!TypeOK, Session!Call, Session!Idle
  <2> QED
    BY <1>5, <2>1, <2>2, SessionBecomesKeepsType
       DEF Session!LoginWrite, Session!factor, Session!history, Session!TypeOK,
           Session!Statuses
<1>6. ASSUME NEW c \in Calls, Session!Issue(c)
      PROVE  Session!TypeOK'
  <2>1. call[c].as \in Session!Token
    BY <1>6, SessionBroughtToken DEF Session!Issue, SessionBringing
  <2> QED
    BY <1>6, <2>1, SessionBecomesKeepsType
       DEF Session!Issue, Session!factor, Session!history, Session!TypeOK
<1>7. ASSUME NEW c \in Calls, NEW t \in tokens, Session!Refresh(c, t)
      PROVE  Session!TypeOK'
  <2>1. [pc |-> "issue", as |-> t] \in Session!Call
    BY DEF Session!Call, Session!TypeOK
  <2> QED
    BY <1>7, <2>1, SessionBecomesKeepsType
       DEF Session!Refresh, Session!account, Session!factor, Session!history, Session!TypeOK
<1>8. ASSUME NEW c \in Calls, Session!AcceptInvite(c) \/ Session!OauthWrite(c)
      PROVE  Session!TypeOK'
  <2>1. [pc |-> "issue", as |-> Session!Snapshot] \in Session!Call
    BY SessionSnapshotFollows DEF Session!Call
  <2> QED
    BY <1>8, <2>1, SessionBecomesKeepsType
       DEF Session!AcceptInvite, Session!OauthWrite, Session!factor, Session!history,
           Session!TypeOK, Session!Statuses
<1>9. ASSUME NEW c \in Calls,
             Session!OauthRead(c) \/ Session!Mfa(c) \/ Session!RequestFails(c)
      PROVE  Session!TypeOK'
  <2>1. \A pc \in {"oauth", "enable", "disable"} : [pc |-> pc] \in Session!Call
    BY DEF Session!Call
  <2>2. call' \in [Calls -> Session!Call \cup {Session!Idle}]
    BY <1>9, <2>1, SessionBecomesKeepsType
       DEF Session!OauthRead, Session!Mfa, Session!MfaVerifyRead, Session!MfaVerifyWrite,
           Session!MfaDisableRead, Session!MfaDisableWrite, Session!RequestFails
  <2>3. SessionRest'
    BY <1>9, <2>2
       DEF Session!OauthRead, Session!Mfa, Session!MfaVerifyRead, Session!MfaVerifyWrite,
           Session!MfaDisableRead, Session!MfaDisableWrite, Session!RequestFails,
           Session!account, Session!factor, Session!history, Session!TypeOK,
           Session!Secrets, SessionRest
  <2>4. mfa' \in BOOLEAN
    BY <1>9
       DEF Session!OauthRead, Session!Mfa, Session!MfaVerifyRead, Session!MfaVerifyWrite,
           Session!MfaDisableRead, Session!MfaDisableWrite, Session!RequestFails,
           Session!factor, Session!TypeOK
  <2>5. SessionFlags'
    BY <1>9, <2>4
       DEF Session!OauthRead, Session!Mfa, Session!MfaVerifyRead, Session!MfaVerifyWrite,
           Session!MfaDisableRead, Session!MfaDisableWrite, Session!RequestFails,
           Session!account, Session!factor, Session!history, Session!TypeOK, SessionFlags
  <2> QED
    BY <2>3, <2>5 DEF Session!TypeOK, SessionFlags, SessionRest
<1> QED
  BY <1>1, <1>2, <1>3, <1>4, <1>5, <1>6, <1>7, <1>8, <1>9
     DEF Session!Next, Session!Administration, Session!SignIn

LEMMA SessionInitInvariant ==
    ASSUME SessionBounds, Session!Init
    PROVE  Session!TypeOK /\ SessionInv
<1>1. SessionRest
  BY DEF SessionBounds, Session!Init, SessionRest, Session!Idle, Session!Statuses,
         Session!Versions, Session!Secrets
<1>2. SessionFlags
  BY Zenon DEF Session!Init, SessionFlags
<1>3. SessionInv
  BY DEF Session!Init, SessionInv, SessionCounted, SessionBringing, Session!Idle
<1> QED
  BY <1>1, <1>2, <1>3, SessionTypeParts

LEMMA SessionInvariant ==
    ASSUME SessionBounds, Session!TypeOK /\ SessionInv, [Session!Next]_sessionVars
    PROVE  Session!TypeOK' /\ SessionInv'
  BY SessionTypeInvariant, SessionFollowsOn

(***************************************************************************)
(* Onboarding: a tenant's domain is vouched for                            *)
(***************************************************************************)

\* None is a null, no slug, domain or address; the seed is of their kinds.
OnboardConstants ==
    /\ None \notin Slugs /\ None \notin Domains /\ None \notin Addresses
    /\ SeedSlug \in Slugs /\ SeedAddress \in Addresses /\ SeedDomain \in Onboard!Column

(***************************************************************************)
(* The invariant                                                           *)
(***************************************************************************)

\* The server listens only once the seed is through, and the seed writes the tenant it
\* did not find.
OnboardBootInv ==
    /\ boot # "up" => \A r \in Requests : request[r] = Onboard!Idle
    /\ boot = "tenant" => ~tenant[SeedSlug].there

\* A tenant that is not there has no domain, no connection and no session, and a session
\* that was begun has a tenant.
OnboardAbsentInv ==
    /\ \A slug \in Slugs : ~tenant[slug].there =>
          tenant[slug].domain = None /\ connected[slug] = None /\ given[slug] = None
    /\ \A s \in Sessions : oauth[s].slug # None => tenant[oauth[s].slug].there
    /\ \A s \in Sessions : oauth[s].status # "unused" => oauth[s].slug # None

\* A domain is good for a tenant if it may become its own.
OnboardGood(slug, domain) ==
    /\ domain \in verified[slug] \cup {given[slug]}
    /\ given[slug] # None => domain = given[slug]

\* The domain a request has read, perhaps long ago, is still good for its tenant; what a
\* sign-in trusts is that domain, or any when the tenant had none and was created with
\* none.
OnboardVerificationInv(q) ==
    LET slug == oauth[q.session].slug IN
    /\ slug \in Slugs
    /\ IF q.primary = None THEN given[slug] = None
       ELSE q.trusted = q.primary /\ OnboardGood(slug, q.primary)

OnboardConnectionInv(q) == tenant[q.slug].there /\ OnboardGood(q.slug, q.domain)

OnboardVerifyingSteps == {"look", "update", "create", "verify"}

OnboardRequestInv(q) ==
    /\ q.pc \in OnboardVerifyingSteps => OnboardVerificationInv(q)
    /\ q.pc = "connect" => OnboardConnectionInv(q)

OnboardRequestsInv == \A r \in Requests : OnboardRequestInv(request[r])

OnboardDomainsInv == Onboard!TypeOK /\ OnboardBootInv /\ OnboardAbsentInv /\ OnboardRequestsInv
                                    /\ Onboard!DomainIsVouchedFor /\ Onboard!CreatedDomainStays

(***************************************************************************)
(* Requests                                                                *)
(***************************************************************************)

OnboardRequest == Onboard!Creation \cup Onboard!Verification \cup Onboard!Connection \cup {Onboard!Idle}

\* The kind of a request follows from where it is.
LEMMA OnboardKinds ==
    ASSUME Onboard!TypeOK, NEW r \in Requests
    PROVE  /\ request[r].pc \in {"find", "tenant", "user"} => request[r] \in Onboard!Creation
           /\ request[r].pc \in OnboardVerifyingSteps => request[r] \in Onboard!Verification
           /\ request[r].pc = "connect" => request[r] \in Onboard!Connection
  BY DEF Onboard!TypeOK, Onboard!Creation, Onboard!Verification, Onboard!Connection,
         Onboard!Idle, OnboardVerifyingSteps

LEMMA OnboardBecomesKeepsType ==
    ASSUME Onboard!TypeOK, NEW r \in Requests, NEW next \in OnboardRequest,
           Onboard!Becomes(r, next)
    PROVE  /\ request' \in [Requests -> OnboardRequest]
           /\ \A q \in Requests : request'[q] = IF q = r THEN next ELSE request[q]
  BY DEF Onboard!TypeOK, OnboardRequest, Onboard!Becomes

LEMMA OnboardEnrollKeepsType ==
    ASSUME Onboard!TypeOK, NEW slug \in Slugs, NEW a \in Addresses,
           NEW role \in Onboard!Roles \cup {Onboard!NoUser},
           Onboard!Enroll(slug, a, role)
    PROVE  member' \in [Slugs -> [Addresses -> Onboard!Roles \cup {Onboard!NoUser}]]
  BY DEF Onboard!TypeOK, Onboard!Enroll

\* What may happen to the tables of a tenant without making a request's reading bad:
\* tenants and their given domain stay, verified domains grow, sessions keep their tenant.
OnboardGrows ==
    /\ \A slug \in Slugs : tenant[slug].there =>
          tenant'[slug].there /\ given'[slug] = given[slug] /\ verified[slug] \subseteq verified'[slug]
    /\ \A s \in Sessions : oauth[s].slug # None => oauth'[s].slug = oauth[s].slug

LEMMA OnboardGrowsKeeps ==
    ASSUME OnboardDomainsInv, OnboardConstants, OnboardGrows, NEW r \in Requests,
           OnboardRequestInv(request[r])
    PROVE  /\ request[r].pc \in OnboardVerifyingSteps =>
                 LET q    == request[r]
                     slug == oauth'[q.session].slug IN
                 /\ slug \in Slugs
                 /\ IF q.primary = None THEN given'[slug] = None
                    ELSE /\ q.trusted = q.primary
                         /\ q.primary \in verified'[slug] \cup {given'[slug]}
                         /\ given'[slug] # None => q.primary = given'[slug]
           /\ request[r].pc = "connect" =>
                 LET q == request[r] IN
                 /\ tenant'[q.slug].there
                 /\ q.domain \in verified'[q.slug] \cup {given'[q.slug]}
                 /\ given'[q.slug] # None => q.domain = given'[q.slug]
<1>1. ASSUME request[r].pc \in OnboardVerifyingSteps
      PROVE  LET q == request[r] IN
             /\ q.session \in Sessions
             /\ oauth[q.session].slug \in Slugs
             /\ oauth'[q.session].slug = oauth[q.session].slug
             /\ tenant[oauth[q.session].slug].there
  <2>1. request[r].session \in Sessions
    BY <1>1, OnboardKinds DEF OnboardDomainsInv, Onboard!Verification
  <2>2. oauth[request[r].session].slug \in Slugs
    BY <1>1 DEF OnboardRequestInv, OnboardVerificationInv
  <2> QED
    BY <2>1, <2>2 DEF OnboardGrows, OnboardConstants, OnboardDomainsInv, OnboardAbsentInv
<1>2. ASSUME request[r].pc = "connect"
      PROVE  request[r].slug \in Slugs /\ tenant[request[r].slug].there
  BY <1>2, OnboardKinds
     DEF OnboardDomainsInv, Onboard!Connection, OnboardRequestInv, OnboardConnectionInv
<1> QED
  BY <1>1, <1>2
     DEF OnboardGrows, OnboardRequestInv, OnboardVerificationInv, OnboardConnectionInv,
         OnboardGood

\* The requests that a step leaves alone keep their invariant, and so do all, if the one
\* that moved has it.
LEMMA OnboardOthersKeep ==
    ASSUME OnboardDomainsInv, OnboardConstants, OnboardGrows, NEW r \in Requests, NEW next,
           \A q \in Requests : request'[q] = IF q = r THEN next ELSE request[q],
           OnboardRequestInv(request[r])'
    PROVE  OnboardRequestsInv'
<1> SUFFICES ASSUME NEW q \in Requests, q # r
             PROVE  OnboardRequestInv(request[q])'
  BY DEF OnboardRequestsInv
<1>1. request'[q] = request[q] /\ OnboardRequestInv(request[q])
  BY DEF OnboardDomainsInv, OnboardRequestsInv
<1> QED
  BY <1>1, OnboardGrowsKeeps
     DEF OnboardRequestInv, OnboardVerificationInv, OnboardConnectionInv, OnboardGood

LEMMA OnboardAllKeep ==
    ASSUME OnboardDomainsInv, OnboardConstants, OnboardGrows, request' = request
    PROVE  OnboardRequestsInv'
<1> SUFFICES ASSUME NEW q \in Requests
             PROVE  OnboardRequestInv(request[q])'
  BY DEF OnboardRequestsInv
<1>1. OnboardRequestInv(request[q])
  BY DEF OnboardDomainsInv, OnboardRequestsInv
<1> QED
  BY <1>1, OnboardGrowsKeeps
     DEF OnboardRequestInv, OnboardVerificationInv, OnboardConnectionInv, OnboardGood

(***************************************************************************)
(* Steps that leave the domains alone                                      *)
(***************************************************************************)

OnboardDomainless == UNCHANGED <<tenant, oauth, connected, given, verified>>

LEMMA OnboardDomainlessGrows ==
    ASSUME OnboardDomainless
    PROVE  OnboardGrows
  BY DEF OnboardDomainless, OnboardGrows

LEMMA OnboardDomainlessKeeps ==
    ASSUME OnboardDomainsInv, OnboardDomainless
    PROVE  OnboardAbsentInv' /\ Onboard!DomainIsVouchedFor' /\ Onboard!CreatedDomainStays'
  BY DEF OnboardDomainsInv, OnboardDomainless, OnboardAbsentInv, Onboard!DomainIsVouchedFor,
         Onboard!CreatedDomainStays

\* A request moves on and changes at most the users.
LEMMA OnboardMoveKeeps ==
    ASSUME OnboardDomainsInv, OnboardConstants, OnboardDomainless, UNCHANGED boot,
           member' \in [Slugs -> [Addresses -> Onboard!Roles \cup {Onboard!NoUser}]],
           NEW r \in Requests, NEW next \in OnboardRequest, Onboard!Becomes(r, next),
           boot = "up" \/ next = Onboard!Idle, OnboardRequestInv(next)
    PROVE  OnboardDomainsInv'
<1>1. /\ request' \in [Requests -> OnboardRequest]
      /\ \A q \in Requests : request'[q] = IF q = r THEN next ELSE request[q]
  BY OnboardBecomesKeepsType DEF OnboardDomainsInv
<1>2. OnboardRequestInv(request[r])'
  <2>1. request'[r] = next
    BY <1>1
  <2> QED
    BY <2>1
       DEF OnboardDomainless, OnboardRequestInv, OnboardVerificationInv,
           OnboardConnectionInv, OnboardGood
<1>3. OnboardRequestsInv'
  BY <1>1, <1>2, OnboardDomainlessGrows, OnboardOthersKeep
<1>4. Onboard!TypeOK'
  BY <1>1 DEF OnboardDomainsInv, Onboard!TypeOK, OnboardDomainless, OnboardRequest
<1>5. OnboardBootInv'
  BY <1>1 DEF OnboardDomainsInv, OnboardBootInv, OnboardDomainless
<1> QED
  BY <1>3, <1>4, <1>5, OnboardDomainlessKeeps DEF OnboardDomainsInv

\* A request in flight was begun when the server was up, and the server still is.
LEMMA OnboardServerUp ==
    ASSUME OnboardDomainsInv, NEW r \in Requests, request[r] # Onboard!Idle
    PROVE  boot = "up" /\ OnboardRequestInv(request[r])
  BY DEF OnboardDomainsInv, OnboardBootInv, OnboardRequestsInv

\* createTenant before and after its row of tenants, and what ends a request.
LEMMA OnboardCreatingKeeps ==
    ASSUME OnboardDomainsInv, OnboardConstants, NEW r \in Requests,
           \/ \E slug \in Slugs, domain \in Onboard!Column :
                  \/ \E a \in Addresses : Onboard!Bootstrap(r, slug, domain, a)
                  \/ \E a \in Addresses \cup {None} : Onboard!Create(r, slug, domain, a)
           \/ Onboard!FindSlug(r) \/ Onboard!InsertAdmin(r) \/ Onboard!RequestFails(r)
    PROVE  OnboardDomainsInv'
<1>0. Onboard!Idle \in OnboardRequest /\ OnboardRequestInv(Onboard!Idle)
  BY DEF OnboardRequest, OnboardRequestInv, Onboard!Idle, OnboardVerifyingSteps
<1>1. ASSUME NEW slug \in Slugs, NEW domain \in Onboard!Column,
             NEW a \in Addresses \cup {None}, NEW role \in {"TENANT_ADMIN", "PLATFORM_ADMIN"},
             boot = "up", Onboard!CreateStarts(r, slug, domain, a, role)
      PROVE  OnboardDomainsInv'
  <2> DEFINE next == [pc |-> "find", slug |-> slug, domain |-> domain,
                      admin |-> a, role |-> role]
  <2>1. next \in OnboardRequest /\ OnboardRequestInv(next)
    BY DEF OnboardRequest, Onboard!Creation, OnboardRequestInv, OnboardVerifyingSteps
  <2> QED
    BY <1>1, <2>1, OnboardMoveKeeps
       DEF Onboard!CreateStarts, Onboard!tables, OnboardDomainless, OnboardDomainsInv,
           Onboard!TypeOK
<1>2. CASE Onboard!FindSlug(r)
  <2>1. request[r] \in Onboard!Creation /\ boot = "up"
    BY <1>2, OnboardKinds, OnboardServerUp
       DEF Onboard!FindSlug, OnboardDomainsInv, Onboard!Idle
  <2>2. /\ [request[r] EXCEPT !.pc = "tenant"] \in OnboardRequest
        /\ OnboardRequestInv([request[r] EXCEPT !.pc = "tenant"])
    BY <2>1 DEF OnboardRequest, Onboard!Creation, OnboardRequestInv, OnboardVerifyingSteps
  <2> QED
    BY <1>0, <1>2, <2>1, <2>2, OnboardMoveKeeps
       DEF Onboard!FindSlug, Onboard!tables, OnboardDomainless, OnboardDomainsInv,
           Onboard!TypeOK
<1>3. CASE Onboard!InsertAdmin(r)
  <2>1. request[r] \in Onboard!Creation
    BY <1>3, OnboardKinds DEF Onboard!InsertAdmin, OnboardDomainsInv
  <2>2. member' \in [Slugs -> [Addresses -> Onboard!Roles \cup {Onboard!NoUser}]]
    <3>1. request[r].slug \in Slugs /\ request[r].role \in Onboard!Roles
      BY <2>1 DEF Onboard!Creation, Onboard!Roles
    <3>2. CASE UNCHANGED member
      BY <3>2 DEF OnboardDomainsInv, Onboard!TypeOK
    <3>3. CASE Onboard!Enroll(request[r].slug, request[r].admin, request[r].role)
      BY <3>1, <3>3 DEF OnboardDomainsInv, Onboard!TypeOK, Onboard!Enroll
    <3> QED
      BY <1>3, <3>2, <3>3 DEF Onboard!InsertAdmin
  <2> QED
    BY <1>0, <1>3, <2>2, OnboardMoveKeeps DEF Onboard!InsertAdmin, OnboardDomainless
<1>4. CASE Onboard!RequestFails(r)
  BY <1>0, <1>4, OnboardMoveKeeps
     DEF Onboard!RequestFails, Onboard!tables, OnboardDomainless, OnboardDomainsInv,
         Onboard!TypeOK
<1> QED
  BY <1>1, <1>2, <1>3, <1>4 DEF Onboard!Bootstrap, Onboard!Create

\* The seed but for its row of tenants, the restart, and a user who is removed.
LEMMA OnboardBootKeeps ==
    ASSUME OnboardDomainsInv, OnboardConstants,
           \/ Onboard!SeedCount \/ Onboard!SeedFind \/ Onboard!SeedAdmin \/ Onboard!Restart
           \/ \E slug \in Slugs, a \in Addresses : Onboard!RemoveUser(slug, a)
           \/ UNCHANGED onboardVars
    PROVE  OnboardDomainsInv'
<1>1. OnboardDomainless
  BY DEF Onboard!SeedCount, Onboard!SeedFind, Onboard!SeedAdmin, Onboard!Restart,
         Onboard!RemoveUser, onboardVars, Onboard!tables, OnboardDomainless
<1>2. member' \in [Slugs -> [Addresses -> Onboard!Roles \cup {Onboard!NoUser}]]
  <2>1. CASE member' = member
    BY <2>1 DEF OnboardDomainsInv, Onboard!TypeOK
  <2>2. CASE Onboard!Enroll(SeedSlug, SeedAddress, "PLATFORM_ADMIN")
    BY <2>2, OnboardEnrollKeepsType DEF OnboardDomainsInv, OnboardConstants, Onboard!Roles
  <2>3. CASE \E slug \in Slugs, a \in Addresses : Onboard!Enroll(slug, a, Onboard!NoUser)
    BY <2>3, OnboardEnrollKeepsType DEF OnboardDomainsInv
  <2> QED
    BY <2>1, <2>2, <2>3
       DEF Onboard!SeedCount, Onboard!SeedFind, Onboard!SeedAdmin, Onboard!Restart,
           Onboard!RemoveUser, onboardVars, Onboard!tables
<1>3. boot' \in {"count", "find", "tenant", "user", "up"}
  BY DEF Onboard!SeedCount, Onboard!SeedFind, Onboard!SeedAdmin, Onboard!Restart,
         Onboard!RemoveUser, onboardVars, Onboard!Seeding, OnboardDomainsInv, Onboard!TypeOK
<1>4. CASE Onboard!Restart
  <2>1. request' = [r \in Requests |-> Onboard!Idle] /\ boot' \in {"count", "up"}
    BY <1>4 DEF Onboard!Restart
  <2>2. OnboardBootInv' /\ OnboardRequestsInv'
    BY <2>1
       DEF OnboardBootInv, OnboardRequestsInv, OnboardRequestInv, Onboard!Idle,
           OnboardVerifyingSteps
  <2>3. Onboard!TypeOK'
    BY <1>1, <1>2, <1>3, <2>1 DEF OnboardDomainsInv, Onboard!TypeOK, OnboardDomainless
  <2> QED
    BY <1>1, <2>2, <2>3, OnboardDomainlessKeeps DEF OnboardDomainsInv
<1>5. CASE ~Onboard!Restart
  <2>1. request' = request
    BY <1>5
       DEF Onboard!SeedCount, Onboard!SeedFind, Onboard!SeedAdmin, Onboard!RemoveUser,
           onboardVars, Onboard!Seeding
  <2>2. OnboardRequestsInv'
    BY <1>1, <2>1, OnboardDomainlessGrows, OnboardAllKeep
  <2>3. OnboardBootInv'
    BY <1>1, <1>5, <2>1
       DEF Onboard!SeedCount, Onboard!SeedFind, Onboard!SeedAdmin, Onboard!RemoveUser,
           onboardVars, Onboard!Seeding, OnboardDomainless, OnboardDomainsInv,
           OnboardBootInv
  <2>4. Onboard!TypeOK'
    BY <1>1, <1>2, <1>3, <2>1 DEF OnboardDomainsInv, Onboard!TypeOK, OnboardDomainless
  <2> QED
    BY <1>1, <2>2, <2>3, <2>4, OnboardDomainlessKeeps DEF OnboardDomainsInv
<1> QED
  BY <1>4, <1>5

(***************************************************************************)
(* A new tenant                                                            *)
(***************************************************************************)

\* Nobody has read a tenant that was not there, so its domain is what it was given.
LEMMA OnboardNewTenantKeeps ==
    ASSUME OnboardDomainsInv, OnboardConstants, NEW slug \in Slugs,
           NEW domain \in Onboard!Column,
           ~tenant[slug].there, Onboard!NewTenant(slug, domain),
           UNCHANGED <<oauth, connected, verified>>
    PROVE  /\ OnboardGrows
           /\ tenant' \in [Slugs -> [there : BOOLEAN, domain : Onboard!Column]]
           /\ given' \in [Slugs -> Onboard!Column]
           /\ OnboardAbsentInv' /\ Onboard!DomainIsVouchedFor' /\ Onboard!CreatedDomainStays'
<1>1. /\ tenant' \in [Slugs -> [there : BOOLEAN, domain : Onboard!Column]]
      /\ given' \in [Slugs -> Onboard!Column]
      /\ tenant'[slug] = [there |-> TRUE, domain |-> domain] /\ given'[slug] = domain
      /\ \A t \in Slugs \ {slug} : tenant'[t] = tenant[t] /\ given'[t] = given[t]
  BY DEF OnboardDomainsInv, Onboard!TypeOK, Onboard!NewTenant
<1>2. connected[slug] = None
  BY DEF OnboardDomainsInv, OnboardAbsentInv
<1>3. OnboardGrows
  BY <1>1 DEF OnboardGrows
<1>4. OnboardAbsentInv'
  <2>1. \A s \in Sessions : oauth[s].slug \in Slugs \cup {None}
    BY DEF OnboardDomainsInv, Onboard!TypeOK
  <2> QED
    BY <1>1, <2>1 DEF OnboardDomainsInv, OnboardAbsentInv
<1>5. Onboard!DomainIsVouchedFor'
  BY <1>1, <1>2 DEF OnboardDomainsInv, Onboard!DomainIsVouchedFor
<1>6. Onboard!CreatedDomainStays'
  BY <1>1, <1>2 DEF OnboardDomainsInv, Onboard!CreatedDomainStays
<1> QED
  BY <1>1, <1>3, <1>4, <1>5, <1>6

LEMMA OnboardInsertTenantKeeps ==
    ASSUME OnboardDomainsInv, OnboardConstants, NEW r \in Requests, Onboard!InsertTenant(r)
    PROVE  OnboardDomainsInv'
<1> DEFINE q == request[r]
<1>1. q \in Onboard!Creation /\ boot = "up"
  BY OnboardKinds, OnboardServerUp DEF Onboard!InsertTenant, OnboardDomainsInv, Onboard!Idle
<1>2. CASE tenant[q.slug].there
  <2>1. Onboard!Idle \in OnboardRequest /\ OnboardRequestInv(Onboard!Idle)
    BY DEF OnboardRequest, OnboardRequestInv, Onboard!Idle, OnboardVerifyingSteps
  <2> QED
    BY <1>2, <2>1, OnboardMoveKeeps
       DEF Onboard!InsertTenant, OnboardDomainless, OnboardDomainsInv, Onboard!TypeOK
<1>3. CASE ~tenant[q.slug].there
  <2> DEFINE next == IF q.admin = None THEN Onboard!Idle ELSE [q EXCEPT !.pc = "user"]
  <2>1. next \in OnboardRequest /\ next.pc \in {"idle", "user"}
    BY <1>1 DEF OnboardRequest, Onboard!Creation, Onboard!Idle
  <2>2. Onboard!Becomes(r, next) /\ Onboard!NewTenant(q.slug, q.domain)
        /\ UNCHANGED <<member, oauth, connected, verified, boot>>
    BY <1>3 DEF Onboard!InsertTenant
  <2>3. q.slug \in Slugs /\ q.domain \in Onboard!Column
    BY <1>1 DEF Onboard!Creation
  <2>4. /\ OnboardGrows
        /\ tenant' \in [Slugs -> [there : BOOLEAN, domain : Onboard!Column]]
        /\ given' \in [Slugs -> Onboard!Column]
        /\ OnboardAbsentInv' /\ Onboard!DomainIsVouchedFor' /\ Onboard!CreatedDomainStays'
    BY <1>3, <2>2, <2>3, OnboardNewTenantKeeps
  <2>5. /\ request' \in [Requests -> OnboardRequest]
        /\ \A p \in Requests : request'[p] = IF p = r THEN next ELSE request[p]
    BY <2>1, <2>2, OnboardBecomesKeepsType DEF OnboardDomainsInv
  <2>6. OnboardRequestInv(request[r])'
    BY <2>1, <2>5 DEF OnboardRequestInv, OnboardVerifyingSteps
  <2>7. OnboardRequestsInv'
    BY <2>4, <2>5, <2>6, OnboardOthersKeep
  <2>8. Onboard!TypeOK'
    BY <2>2, <2>4, <2>5 DEF OnboardDomainsInv, Onboard!TypeOK, OnboardRequest
  <2>9. OnboardBootInv'
    BY <1>1, <2>2 DEF OnboardBootInv
  <2> QED
    BY <2>4, <2>7, <2>8, <2>9 DEF OnboardDomainsInv
<1> QED
  BY <1>2, <1>3

LEMMA OnboardSeedTenantKeeps ==
    ASSUME OnboardDomainsInv, OnboardConstants, Onboard!SeedTenant
    PROVE  OnboardDomainsInv'
<1>1. ~tenant[SeedSlug].there /\ request' = request /\ boot' = "user"
  BY DEF Onboard!SeedTenant, Onboard!Seeding, OnboardDomainsInv, OnboardBootInv
<1>2. /\ OnboardGrows
      /\ tenant' \in [Slugs -> [there : BOOLEAN, domain : Onboard!Column]]
      /\ given' \in [Slugs -> Onboard!Column]
      /\ OnboardAbsentInv' /\ Onboard!DomainIsVouchedFor' /\ Onboard!CreatedDomainStays'
  BY <1>1, OnboardNewTenantKeeps DEF Onboard!SeedTenant, OnboardConstants
<1>3. OnboardRequestsInv'
  BY <1>1, <1>2, OnboardAllKeep
<1>4. Onboard!TypeOK'
  BY <1>1, <1>2 DEF Onboard!SeedTenant, OnboardDomainsInv, Onboard!TypeOK
<1>5. OnboardBootInv'
  BY <1>1 DEF Onboard!SeedTenant, OnboardDomainsInv, OnboardBootInv
<1> QED
  BY <1>2, <1>3, <1>4, <1>5 DEF OnboardDomainsInv

(***************************************************************************)
(* Sign-in with Google                                                     *)
(***************************************************************************)

OnboardSession == [status : {"unused", "PENDING", "expired", "VERIFIED"}, slug : Slugs \cup {None},
            email : Addresses \cup {None}, domain : Onboard!Column]

LEMMA OnboardSessionKeeps ==
    ASSUME OnboardDomainsInv, OnboardConstants, NEW s \in Sessions,
           (\E slug \in Slugs : Onboard!Authorize(s, slug)) \/ Onboard!Expire(s)
    PROVE  OnboardDomainsInv'
<1>1. UNCHANGED <<tenant, member, connected, given, verified, request, boot>>
  BY DEF Onboard!Authorize, Onboard!Expire
<1>2. oauth \in [Sessions -> OnboardSession]
  BY DEF OnboardDomainsInv, Onboard!TypeOK, OnboardSession
<1>a. /\ oauth' \in [Sessions -> OnboardSession]
      /\ \A t \in Sessions : oauth[t].slug # None => oauth'[t].slug = oauth[t].slug
      /\ \A t \in Sessions : oauth'[t].slug # None => tenant[oauth'[t].slug].there
      /\ \A t \in Sessions : oauth'[t].status # "unused" => oauth'[t].slug # None
  <2>1. ASSUME NEW slug \in Slugs, Onboard!Authorize(s, slug)
        PROVE  <1>a!1 /\ <1>a!2 /\ <1>a!3 /\ <1>a!4
    <3> DEFINE new == [Onboard!Unused EXCEPT !.status = "PENDING", !.slug = slug]
    <3>0. Onboard!Unused \in OnboardSession
      BY DEF OnboardSession, Onboard!Unused, Onboard!Column
    <3>1. /\ oauth' = [oauth EXCEPT ![s] = new] /\ tenant[slug].there
          /\ oauth[s] = Onboard!Unused
      BY <2>1 DEF Onboard!Authorize
    <3>2. new \in OnboardSession /\ new.slug = slug /\ new.status = "PENDING" /\ slug # None
      BY <3>0 DEF OnboardSession, OnboardConstants
    <3> HIDE DEF new
    <3>3. /\ oauth' \in [Sessions -> OnboardSession]
          /\ \A t \in Sessions : oauth'[t] = IF t = s THEN new ELSE oauth[t]
      BY <1>2, <3>1, <3>2
    <3>4. oauth[s].slug = None
      BY <3>1 DEF Onboard!Unused
    <3> QED
      BY <3>1, <3>2, <3>3, <3>4 DEF OnboardDomainsInv, OnboardAbsentInv
  <2>2. CASE Onboard!Expire(s)
    <3>1. /\ oauth' \in [Sessions -> OnboardSession]
          /\ \A t \in Sessions : oauth'[t].slug = oauth[t].slug
          /\ \A t \in Sessions : oauth'[t].status # "unused" => oauth[t].status # "unused"
      BY <1>2, <2>2 DEF Onboard!Expire, OnboardSession
    <3> QED
      BY <3>1 DEF OnboardDomainsInv, OnboardAbsentInv
  <2> QED
    BY <2>1, <2>2
<1>3. OnboardGrows
  BY <1>1, <1>a DEF OnboardGrows
<1>4. OnboardRequestsInv'
  BY <1>1, <1>3, OnboardAllKeep
<1>5. Onboard!TypeOK' /\ OnboardBootInv' /\ OnboardAbsentInv'
  BY <1>1, <1>a
     DEF OnboardDomainsInv, Onboard!TypeOK, OnboardBootInv, OnboardAbsentInv, OnboardSession
<1>6. Onboard!DomainIsVouchedFor' /\ Onboard!CreatedDomainStays'
  BY <1>1 DEF OnboardDomainsInv, Onboard!DomainIsVouchedFor, Onboard!CreatedDomainStays
<1> QED
  BY <1>4, <1>5, <1>6 DEF OnboardDomainsInv

\* What completeGoogleAuthorization reads is good at that time.
LEMMA OnboardCompleteKeeps ==
    ASSUME OnboardDomainsInv, OnboardConstants, NEW r \in Requests, NEW s \in Sessions,
           NEW email \in Addresses, NEW hosted \in Domains, Onboard!Complete(r, s, email, hosted)
    PROVE  OnboardDomainsInv'
<1> DEFINE slug    == oauth[s].slug
           primary == tenant[slug].domain
<1>1. PICK trusted \in Onboard!Trusts(primary, email, hosted) :
          Onboard!Becomes(r, [pc |-> "look", session |-> s, email |-> email,
                      primary |-> primary, trusted |-> trusted])
  BY DEF Onboard!Complete
<1> DEFINE next == [pc |-> "look", session |-> s, email |-> email,
                    primary |-> primary, trusted |-> trusted]
<1>2. CASE slug = None
  BY <1>2 DEF Onboard!Complete, OnboardDomainsInv, OnboardAbsentInv
<1>3. CASE slug \in Slugs
  <2>1. primary \in Onboard!Column
    BY <1>3 DEF OnboardDomainsInv, Onboard!TypeOK
  <2>2. trusted \in Domains /\ (primary # None => trusted = primary)
    BY <1>1, <2>1 DEF Onboard!Trusts, Onboard!Column
  <2>3. next \in OnboardRequest
    BY <2>1, <2>2 DEF OnboardRequest, Onboard!Verification
  <2>4. IF primary = None THEN given[slug] = None
        ELSE trusted = primary /\ OnboardGood(slug, primary)
    BY <1>3, <2>2
       DEF OnboardDomainsInv, Onboard!DomainIsVouchedFor, Onboard!CreatedDomainStays,
           OnboardGood
  <2>5. OnboardRequestInv(next)
    BY <1>3, <2>4 DEF OnboardRequestInv, OnboardVerificationInv
  <2> QED
    BY <1>1, <2>3, <2>5, OnboardMoveKeeps
       DEF Onboard!Complete, Onboard!tables, OnboardDomainless, OnboardDomainsInv,
           Onboard!TypeOK
<1> QED
  BY <1>2, <1>3 DEF OnboardDomainsInv, Onboard!TypeOK

LEMMA OnboardLookKeeps ==
    ASSUME OnboardDomainsInv, OnboardConstants, NEW r \in Requests,
           Onboard!LookForUser(r) \/ Onboard!AdmitUser(r)
    PROVE  OnboardDomainsInv'
<1> DEFINE q    == request[r]
           slug == oauth[q.session].slug
<1>1. q.pc \in OnboardVerifyingSteps /\ q # Onboard!Idle
  BY DEF Onboard!LookForUser, Onboard!AdmitUser, OnboardVerifyingSteps, Onboard!Idle
<1>2. q \in Onboard!Verification /\ boot = "up" /\ OnboardVerificationInv(q)
  BY <1>1, OnboardKinds, OnboardServerUp DEF OnboardDomainsInv, OnboardRequestInv
<1>3. \A pc \in OnboardVerifyingSteps :
          [q EXCEPT !.pc = pc] \in OnboardRequest /\ OnboardRequestInv([q EXCEPT !.pc = pc])
  <2> SUFFICES ASSUME NEW pc \in OnboardVerifyingSteps
               PROVE  [q EXCEPT !.pc = pc] \in OnboardRequest
                        /\ OnboardRequestInv([q EXCEPT !.pc = pc])
    OBVIOUS
  <2> DEFINE n == [q EXCEPT !.pc = pc]
  <2>1. /\ n \in Onboard!Verification /\ n.pc = pc /\ n.session = q.session
        /\ n.primary = q.primary /\ n.trusted = q.trusted
    BY <1>2 DEF Onboard!Verification, OnboardVerifyingSteps
  <2>2. OnboardVerificationInv(n)
    BY <1>2, <2>1 DEF OnboardVerificationInv
  <2> QED
    BY <2>1, <2>2 DEF OnboardRequest, OnboardRequestInv, OnboardVerifyingSteps
<1>4. CASE Onboard!LookForUser(r)
  <2>1. PICK pc \in OnboardVerifyingSteps : Onboard!Becomes(r, [q EXCEPT !.pc = pc])
    BY <1>4 DEF Onboard!LookForUser, OnboardVerifyingSteps
  <2> QED
    BY <1>2, <1>3, <1>4, <2>1, OnboardMoveKeeps
       DEF Onboard!LookForUser, Onboard!tables, OnboardDomainless, OnboardDomainsInv,
           Onboard!TypeOK
<1>5. CASE Onboard!AdmitUser(r)
  <2>1. CASE Onboard!Becomes(r, Onboard!Idle) /\ UNCHANGED member
    <3>1. Onboard!Idle \in OnboardRequest /\ OnboardRequestInv(Onboard!Idle)
      BY DEF OnboardRequest, OnboardRequestInv, Onboard!Idle, OnboardVerifyingSteps
    <3> QED
      BY <1>5, <2>1, <3>1, OnboardMoveKeeps
         DEF Onboard!AdmitUser, OnboardDomainless, OnboardDomainsInv, Onboard!TypeOK
  <2>2. CASE /\ Onboard!Enroll(slug, q.email, IF member[slug][q.email] = "PLATFORM_ADMIN"
                                     THEN member[slug][q.email] ELSE "TENANT_ADMIN")
             /\ Onboard!Becomes(r, [q EXCEPT !.pc = "verify"])
    <3>1. slug \in Slugs /\ q.email \in Addresses
      BY <1>2 DEF OnboardVerificationInv, Onboard!Verification
    <3>2. member' \in [Slugs -> [Addresses -> Onboard!Roles \cup {Onboard!NoUser}]]
      BY <2>2, <3>1 DEF OnboardDomainsInv, Onboard!TypeOK, Onboard!Enroll, Onboard!Roles
    <3>3. "verify" \in OnboardVerifyingSteps
      BY DEF OnboardVerifyingSteps
    <3> QED
      BY <1>2, <1>3, <1>5, <2>2, <3>2, <3>3, OnboardMoveKeeps
         DEF Onboard!AdmitUser, OnboardDomainless
  <2> QED
    BY <1>5, <2>1, <2>2 DEF Onboard!AdmitUser
<1> QED
  BY <1>4, <1>5

\* The transaction of a sign-in: the domain it writes was read before its users were
\* written, and is good all the same.
LEMMA OnboardVerifyKeeps ==
    ASSUME OnboardDomainsInv, OnboardConstants, NEW r \in Requests, Onboard!Verify(r)
    PROVE  OnboardDomainsInv'
<1> DEFINE q      == request[r]
           slug   == oauth[q.session].slug
           domain == IF q.primary = None THEN q.trusted ELSE q.primary
<1>1. q \in Onboard!Verification /\ boot = "up" /\ OnboardVerificationInv(q)
  BY OnboardKinds, OnboardServerUp
     DEF Onboard!Verify, OnboardVerifyingSteps, OnboardDomainsInv, OnboardRequestInv,
         Onboard!Idle
<1>2. /\ q.session \in Sessions /\ slug \in Slugs /\ tenant[slug].there
      /\ q.trusted \in Domains /\ domain = q.trusted /\ q.email \in Addresses
  BY <1>1
     DEF OnboardVerificationInv, Onboard!Verification, OnboardDomainsInv, OnboardAbsentInv,
         OnboardConstants
<1>3. /\ tenant' \in [Slugs -> [there : BOOLEAN, domain : Onboard!Column]]
      /\ tenant'[slug].there /\ tenant'[slug].domain = q.trusted
      /\ \A t \in Slugs \ {slug} : tenant'[t] = tenant[t]
  <2>1. tenant' = [tenant EXCEPT ![slug].domain = domain]
    BY DEF Onboard!Verify
  <2>2. tenant \in [Slugs -> [there : BOOLEAN, domain : Onboard!Column]]
          /\ q.trusted \in Onboard!Column
    BY <1>2 DEF OnboardDomainsInv, Onboard!TypeOK, Onboard!Column
  <2> DEFINE new == [tenant[slug] EXCEPT !.domain = q.trusted]
  <2>3. tenant' = [tenant EXCEPT ![slug] = new]
    BY <1>2, <2>1
  <2>4. /\ new \in [there : BOOLEAN, domain : Onboard!Column]
        /\ new.there = tenant[slug].there /\ new.domain = q.trusted
    BY <1>2, <2>2
  <2> QED
    BY <1>2, <2>2, <2>3, <2>4
<1>4. /\ verified' \in [Slugs -> SUBSET Domains]
      /\ verified'[slug] = verified[slug] \cup {q.trusted}
      /\ \A t \in Slugs \ {slug} : verified'[t] = verified[t]
  BY <1>2 DEF Onboard!Verify, Onboard!Verified, OnboardDomainsInv, Onboard!TypeOK
<1>5. /\ oauth' \in [Sessions -> OnboardSession]
      /\ \A s \in Sessions : oauth'[s].slug = oauth[s].slug
      /\ \A s \in Sessions \ {q.session} : oauth'[s] = oauth[s]
  <2>1. oauth' = [oauth EXCEPT ![q.session] =
                     [@ EXCEPT !.status = "VERIFIED", !.email = q.email, !.domain = q.trusted]]
    BY DEF Onboard!Verify, Onboard!Verified
  <2>2. oauth \in [Sessions -> OnboardSession]
    BY DEF OnboardDomainsInv, Onboard!TypeOK, OnboardSession
  <2> DEFINE o   == oauth[q.session]
             new == [o EXCEPT !.status = "VERIFIED", !.email = q.email, !.domain = q.trusted]
  <2>3. new \in OnboardSession /\ new.slug = slug
    <3>1. o \in OnboardSession /\ q.email \in Addresses /\ q.trusted \in Onboard!Column
            /\ o.slug = slug
      BY <1>2, <2>2 DEF Onboard!Column
    <3> HIDE DEF o, slug, q
    <3> QED
      BY <3>1 DEF OnboardSession
  <2>4. oauth' = [oauth EXCEPT ![q.session] = new]
    BY <2>1
  <2> QED
    BY <1>2, <2>2, <2>3, <2>4
<1>6. /\ request' \in [Requests -> OnboardRequest]
      /\ \A p \in Requests : request'[p] = IF p = r THEN Onboard!Idle ELSE request[p]
  <2>1. Onboard!Idle \in OnboardRequest /\ Onboard!Becomes(r, Onboard!Idle)
    BY DEF Onboard!Verify, OnboardRequest
  <2> QED
    BY <2>1, OnboardBecomesKeepsType DEF OnboardDomainsInv
<1>7. UNCHANGED <<member, connected, given, boot>>
  BY DEF Onboard!Verify
<1>8. OnboardGrows
  BY <1>2, <1>3, <1>4, <1>5, <1>7 DEF OnboardGrows
<1>9. OnboardRequestsInv'
  <2>1. OnboardRequestInv(request[r])'
    BY <1>6 DEF OnboardRequestInv, Onboard!Idle, OnboardVerifyingSteps
  <2> QED
    BY <1>6, <1>8, <2>1, OnboardOthersKeep
<1>10. Onboard!TypeOK'
  BY <1>3, <1>4, <1>5, <1>6, <1>7
     DEF OnboardDomainsInv, Onboard!TypeOK, OnboardRequest, OnboardSession
<1>11. OnboardBootInv'
  BY <1>1, <1>7 DEF OnboardBootInv
<1>12. OnboardAbsentInv'
  <2>1. \A s \in Sessions : oauth[s].slug \in Slugs \cup {None}
    BY DEF OnboardDomainsInv, Onboard!TypeOK
  <2> QED
    BY <1>2, <1>3, <1>5, <1>7, <2>1
       DEF OnboardDomainsInv, OnboardAbsentInv, OnboardConstants
<1>13. Onboard!DomainIsVouchedFor'
  BY <1>3, <1>4, <1>7 DEF OnboardDomainsInv, Onboard!DomainIsVouchedFor
<1>14. Onboard!CreatedDomainStays'
  <2>1. given[slug] # None => q.trusted = given[slug]
    BY <1>1 DEF OnboardVerificationInv, OnboardGood
  <2> QED
    BY <1>3, <1>7, <2>1 DEF OnboardDomainsInv, Onboard!CreatedDomainStays
<1> QED
  BY <1>9, <1>10, <1>11, <1>12, <1>13, <1>14 DEF OnboardDomainsInv

(***************************************************************************)
(* The first connection                                                    *)
(***************************************************************************)

LEMMA OnboardConnectKeeps ==
    ASSUME OnboardDomainsInv, OnboardConstants, NEW r \in Requests, NEW slug \in Slugs,
           NEW actor \in Addresses, NEW delegate \in Addresses, NEW domain \in Domains,
           Onboard!ConnectGoogle(r, slug, actor, delegate, domain)
    PROVE  OnboardDomainsInv'
<1> DEFINE next == [pc |-> "connect", slug |-> slug, domain |-> domain]
<1>1. tenant[slug].domain # None /\ domain = tenant[slug].domain
  BY DEF Onboard!ConnectGoogle, Onboard!TrustedConnection
<1>2. next \in OnboardRequest
  BY DEF OnboardRequest, Onboard!Connection
<1>3. OnboardRequestInv(next)
  BY <1>1
     DEF OnboardRequestInv, OnboardVerifyingSteps, OnboardConnectionInv, OnboardGood,
         OnboardDomainsInv, OnboardAbsentInv, Onboard!DomainIsVouchedFor,
         Onboard!CreatedDomainStays
<1> QED
  BY <1>2, <1>3, OnboardMoveKeeps
     DEF Onboard!ConnectGoogle, Onboard!tables, OnboardDomainless, OnboardDomainsInv,
         Onboard!TypeOK

LEMMA OnboardUpsertKeeps ==
    ASSUME OnboardDomainsInv, OnboardConstants, NEW r \in Requests,
           Onboard!UpsertIntegration(r)
    PROVE  OnboardDomainsInv'
<1> DEFINE q == request[r]
<1>1. q \in Onboard!Connection /\ boot = "up" /\ OnboardConnectionInv(q)
  BY OnboardKinds, OnboardServerUp
     DEF Onboard!UpsertIntegration, OnboardDomainsInv, OnboardRequestInv, Onboard!Idle
<1>2. q.slug \in Slugs /\ q.domain \in Domains
  BY <1>1 DEF Onboard!Connection
<1>3. /\ connected' \in [Slugs -> Onboard!Column]
      /\ connected'[q.slug] = q.domain
      /\ \A t \in Slugs \ {q.slug} : connected'[t] = connected[t]
      /\ UNCHANGED <<tenant, member, oauth, given, verified, boot>>
  BY <1>2 DEF Onboard!UpsertIntegration, OnboardDomainsInv, Onboard!TypeOK, Onboard!Column
<1>4. /\ request' \in [Requests -> OnboardRequest]
      /\ \A p \in Requests : request'[p] = IF p = r THEN Onboard!Idle ELSE request[p]
  <2>1. Onboard!Idle \in OnboardRequest /\ Onboard!Becomes(r, Onboard!Idle)
    BY DEF Onboard!UpsertIntegration, OnboardRequest
  <2> QED
    BY <2>1, OnboardBecomesKeepsType DEF OnboardDomainsInv
<1>5. OnboardGrows
  BY <1>3 DEF OnboardGrows
<1>6. OnboardRequestsInv'
  <2>1. OnboardRequestInv(request[r])'
    BY <1>4 DEF OnboardRequestInv, Onboard!Idle, OnboardVerifyingSteps
  <2> QED
    BY <1>4, <1>5, <2>1, OnboardOthersKeep
<1>7. Onboard!TypeOK'
  BY <1>3, <1>4 DEF OnboardDomainsInv, Onboard!TypeOK, OnboardRequest
<1>8. OnboardBootInv' /\ OnboardAbsentInv'
  BY <1>1, <1>3
     DEF OnboardDomainsInv, OnboardBootInv, OnboardAbsentInv, OnboardConnectionInv
<1>9. Onboard!DomainIsVouchedFor' /\ Onboard!CreatedDomainStays'
  BY <1>1, <1>3
     DEF OnboardConnectionInv, OnboardGood, OnboardDomainsInv, Onboard!DomainIsVouchedFor,
         Onboard!CreatedDomainStays
<1> QED
  BY <1>6, <1>7, <1>8, <1>9 DEF OnboardDomainsInv

(***************************************************************************)
(* The theorems                                                            *)
(***************************************************************************)

LEMMA OnboardDomainsInvariant ==
    ASSUME OnboardConstants, OnboardDomainsInv, [Onboard!Next]_onboardVars
    PROVE  OnboardDomainsInv'
<1>1. ASSUME NEW r \in Requests, Onboard!CreateSteps(r) \/ Onboard!RequestFails(r)
      PROVE  OnboardDomainsInv'
  BY <1>1, OnboardCreatingKeeps, OnboardInsertTenantKeeps DEF Onboard!CreateSteps
<1>2. ASSUME NEW r \in Requests, Onboard!OauthSteps(r)
      PROVE  OnboardDomainsInv'
  BY <1>2, OnboardCompleteKeeps, OnboardLookKeeps, OnboardVerifyKeeps DEF Onboard!OauthSteps
<1>3. ASSUME NEW r \in Requests, Onboard!ConnectSteps(r)
      PROVE  OnboardDomainsInv'
  BY <1>3, OnboardConnectKeeps, OnboardUpsertKeeps DEF Onboard!ConnectSteps
<1> QED
  BY <1>1, <1>2, <1>3, OnboardBootKeeps, OnboardSeedTenantKeeps, OnboardSessionKeeps
     DEF Onboard!Next, Onboard!Seed

LEMMA OnboardInitInvariant ==
    ASSUME OnboardConstants, Onboard!Init
    PROVE  OnboardDomainsInv
<1>1. Onboard!TypeOK
  BY DEF Onboard!Init, Onboard!TypeOK, Onboard!Absent, Onboard!Unused, Onboard!Column
<1>2. OnboardBootInv /\ OnboardAbsentInv /\ OnboardRequestsInv
  BY DEF Onboard!Init, OnboardBootInv, OnboardAbsentInv, OnboardRequestsInv,
         OnboardRequestInv, OnboardVerifyingSteps, Onboard!Absent, Onboard!Unused,
         Onboard!Idle
<1>3. Onboard!DomainIsVouchedFor /\ Onboard!CreatedDomainStays
  BY DEF Onboard!Init, Onboard!DomainIsVouchedFor, Onboard!CreatedDomainStays,
         Onboard!Absent
<1> QED
  BY <1>1, <1>2, <1>3 DEF OnboardDomainsInv

(***************************************************************************)
(* IdentitySync: rows mirror Google, and name users that exist             *)
(***************************************************************************)

(***************************************************************************)
(* The invariant                                                           *)
(***************************************************************************)

\* Without Reuse a free address is one no account ever had.
IdentityUsedInv == \A a \in Accounts : google[a] # 0 => google[a] \in used

\* What a sync r knows, with Google g and the rows w as they are: but for the accounts
\* touched since it started, its listing is Google's; before the upserts all listed
\* accounts are to do, and during them those no longer to do are in the rows as listed.
IdentityKnows(r, g, w) ==
    /\ \A a \in r.todo : r.listing[a] # 0
    /\ \A a \in Accounts \ r.touched : r.listing[a] = g[a]
    /\ r.pc = "users" => \A a \in Accounts : r.listing[a] # 0 => a \in r.todo
    /\ r.pc = "upsert" =>
         \A a \in Accounts \ r.touched : r.listing[a] # 0 /\ a \notin r.todo =>
            /\ w[a].email = r.listing[a]
            /\ LET u == r.local[r.listing[a]] IN u # Nobody => w[a].mapped = u

IdentityInFlight(r, g, w) == r = Identity!Idle \/ (r \in Identity!SyncCall /\ IdentityKnows(r, g, w))

IdentitySyncsKnow ==
    /\ sync \in [Identity!Handlers -> Identity!SyncCall \cup {Identity!Idle}]
    /\ \A s \in Identity!Handlers : IdentityInFlight(sync[s], google, identity)

IdentitySyncInv == Identity!TypeOK /\ IdentityUsedInv /\ IdentitySyncsKnow

(***************************************************************************)
(* Least addresses                                                         *)
(***************************************************************************)

LEMMA IdentityLeastNatural ==
    ASSUME NEW T, T \subseteq Nat, T # {}
    PROVE  \E x \in T : \A y \in T : x <= y
<1>1. PICK x \in T : \A y \in T : ~ (<<y, x>> \in OpToRel(<, Nat))
  BY NatLessThanWellFounded, WFMin
<1>2. \A y \in T : ~ (y < x)
  BY <1>1 DEF OpToRel
<1> QED
  BY <1>2

\* A sync with accounts to do takes one of them, which it listed.
LEMMA IdentityNextIsToDo ==
    ASSUME IdentitySyncInv, NEW s \in Identity!Handlers, sync[s].pc = "upsert",
           sync[s].todo # {}
    PROVE  /\ Identity!NextAccount(s) \in sync[s].todo
           /\ Identity!NextAccount(s) \in Accounts
           /\ sync[s].listing[Identity!NextAccount(s)] \in Identity!Emails
           /\ sync[s] \in Identity!SyncCall
<1>1. sync[s] \in Identity!SyncCall /\ IdentityKnows(sync[s], google, identity)
  BY DEF IdentitySyncInv, IdentitySyncsKnow, IdentityInFlight, Identity!Idle
<1>2. sync[s].todo \subseteq Accounts /\ sync[s].listing \in [Accounts -> 0 .. MaxEmail]
  BY <1>1 DEF Identity!SyncCall
<1> DEFINE listed == {sync[s].listing[a] : a \in sync[s].todo}
<1>3. PICK e \in listed : \A f \in listed : e <= f
  <2>1. listed \subseteq Nat /\ listed # {}
    BY <1>2, IdentityAssumption
  <2> QED
    BY <2>1, IdentityLeastNatural
<1>4. \E a \in sync[s].todo : \A b \in sync[s].todo : sync[s].listing[a] <= sync[s].listing[b]
  BY <1>3
<1>5. Identity!NextAccount(s) \in sync[s].todo
  BY <1>4 DEF Identity!NextAccount
<1> QED
  BY <1>1, <1>2, <1>5, IdentityAssumption DEF IdentityKnows, Identity!Emails

(***************************************************************************)
(* What a step does to the syncs                                           *)
(***************************************************************************)

\* After the accounts of as were touched, the syncs in flight still know the others.
LEMMA IdentityTouchKeeps ==
    ASSUME IdentitySyncsKnow, NEW as \in SUBSET Accounts,
           \A a \in Accounts \ as : google'[a] = google[a] /\ identity'[a] = identity[a]
    PROVE  /\ Identity!Touch(as) \in [Identity!Handlers -> Identity!SyncCall \cup {Identity!Idle}]
           /\ \A s \in Identity!Handlers : IdentityInFlight(Identity!Touch(as)[s], google', identity')
<1> SUFFICES ASSUME NEW s \in Identity!Handlers
             PROVE  /\ Identity!Touch(as)[s] \in Identity!SyncCall \cup {Identity!Idle}
                    /\ IdentityInFlight(Identity!Touch(as)[s], google', identity')
  BY DEF Identity!Touch
<1>1. CASE sync[s] = Identity!Idle
  BY <1>1 DEF Identity!Touch, IdentityInFlight
<1>2. CASE sync[s] # Identity!Idle
  <2>1. sync[s] \in Identity!SyncCall /\ IdentityKnows(sync[s], google, identity)
    BY <1>2 DEF IdentitySyncsKnow, IdentityInFlight
  <2> DEFINE t == [sync[s] EXCEPT !.touched = @ \cup as]
  <2>2. /\ t \in Identity!SyncCall
        /\ t.touched = sync[s].touched \cup as
        /\ t.pc = sync[s].pc /\ t.listing = sync[s].listing
        /\ t.local = sync[s].local /\ t.todo = sync[s].todo
    BY <2>1 DEF Identity!SyncCall
  <2>3. IdentityKnows(t, google', identity')
    BY <2>1, <2>2 DEF IdentityKnows
  <2>4. Identity!Touch(as)[s] = t
    BY <1>2 DEF Identity!Touch
  <2> QED
    BY <2>2, <2>3, <2>4 DEF IdentityInFlight
<1> QED
  BY <1>1, <1>2

\* A sync goes on as r, having touched the accounts of as under the others.
LEMMA IdentityProceedKeeps ==
    ASSUME IdentitySyncsKnow, NEW s \in Identity!Handlers, NEW as \in SUBSET Accounts,
           NEW r, Identity!Proceed(s, r, as), IdentityInFlight(r, google', identity'),
           \A a \in Accounts \ as : google'[a] = google[a] /\ identity'[a] = identity[a]
    PROVE  IdentitySyncsKnow'
<1>1. /\ Identity!Touch(as) \in [Identity!Handlers -> Identity!SyncCall \cup {Identity!Idle}]
      /\ \A q \in Identity!Handlers : IdentityInFlight(Identity!Touch(as)[q], google', identity')
  BY IdentityTouchKeeps
<1>2. r \in Identity!SyncCall \cup {Identity!Idle}
  BY DEF IdentityInFlight
<1>3. /\ sync' \in [Identity!Handlers -> Identity!SyncCall \cup {Identity!Idle}]
      /\ \A q \in Identity!Handlers : sync'[q] = IF q = s THEN r ELSE Identity!Touch(as)[q]
  BY <1>1, <1>2 DEF Identity!Proceed
<1>4. \A q \in Identity!Handlers : IdentityInFlight(sync'[q], google', identity')
  BY <1>1, <1>3
<1> QED
  BY <1>3, <1>4 DEF IdentitySyncsKnow

\* A step that changes no account and no row, whatever it does to users.
LEMMA IdentityRestKeeps ==
    ASSUME IdentitySyncsKnow, UNCHANGED <<google, identity, sync>>
    PROVE  IdentitySyncsKnow'
  BY DEF IdentitySyncsKnow

\* The sync of a sync's own step.
LEMMA IdentityGoing ==
    ASSUME IdentitySyncsKnow, NEW s \in Identity!Handlers, sync[s] # Identity!Idle
    PROVE  sync[s] \in Identity!SyncCall /\ IdentityKnows(sync[s], google, identity)
  BY DEF IdentitySyncsKnow, IdentityInFlight

\* A sync that goes on to a step past its upserts, having changed no row.
LEMMA IdentityGotoKeeps ==
    ASSUME IdentitySyncsKnow, NEW s \in Identity!Handlers, sync[s] # Identity!Idle,
           UNCHANGED <<google, identity>>,
           NEW pc \in {"mark", "audit", "groups"}, Identity!Goto(s, pc)
    PROVE  IdentitySyncsKnow'
<1>1. sync[s] \in Identity!SyncCall /\ IdentityKnows(sync[s], google, identity)
  BY IdentityGoing
<1> DEFINE r == [sync[s] EXCEPT !.pc = pc]
<1>2. /\ r \in Identity!SyncCall /\ r.pc = pc
      /\ r.touched = sync[s].touched /\ r.listing = sync[s].listing /\ r.todo = sync[s].todo
  BY <1>1 DEF Identity!SyncCall, Identity!Steps
<1>3. IdentityInFlight(r, google', identity')
  BY <1>1, <1>2 DEF IdentityInFlight, IdentityKnows
<1> QED
  BY <1>3, IdentityProceedKeeps DEF Identity!Goto

LEMMA IdentityThrowKeeps ==
    ASSUME IdentitySyncsKnow, NEW s \in Identity!Handlers, UNCHANGED <<google, identity>>,
           Identity!Throw(s)
    PROVE  IdentitySyncsKnow'
  BY IdentityProceedKeeps DEF Identity!Throw, IdentityInFlight

(***************************************************************************)
(* Steps                                                                   *)
(***************************************************************************)

\* The unique indexes: an address is in one row, whichever row is mapped to whom.
IdentityRowsOK(w) == w \in [Accounts -> Identity!Row] /\ Identity!Injective([a \in Accounts |-> w[a].email])

LEMMA IdentityRemapped ==
    ASSUME IdentityRowsOK(identity), NEW as \in SUBSET Accounts,
           NEW u \in Users \cup {Nobody},
           \A a \in as : identity[a] # Identity!NoRow
    PROVE  IdentityRowsOK([a \in Accounts |-> IF a \in as THEN [identity[a] EXCEPT !.mapped = u]
                                                  ELSE identity[a]])
<1> DEFINE w == [a \in Accounts |-> IF a \in as THEN [identity[a] EXCEPT !.mapped = u] ELSE identity[a]]
<1>1. ASSUME NEW a \in Accounts
      PROVE  w[a] \in Identity!Row /\ w[a].email = identity[a].email
  <2>1. CASE a \in as
    BY <2>1 DEF IdentityRowsOK, Identity!Row
  <2>2. CASE a \notin as
    BY <2>2 DEF IdentityRowsOK
  <2> QED
    BY <2>1, <2>2
<1>2. [a \in Accounts |-> w[a].email] = [a \in Accounts |-> identity[a].email]
  BY <1>1
<1> QED
  BY <1>1, <1>2 DEF IdentityRowsOK

\* What is left of TypeOK when the rows and the syncs are looked at elsewhere.
IdentityOthers ==
    /\ google \in [Accounts -> 0 .. MaxEmail] /\ Identity!Injective(google)
    /\ localUser \in [Users -> 0 .. MaxEmail] /\ Identity!Injective(localUser)
    /\ integration \in {"CONNECTED", "ERROR"}
    /\ links \subseteq [user : Users, email : Identity!Emails]
    /\ edits \in 0 .. MaxEdits /\ fails \in 0 .. MaxFails
    /\ former \subseteq Users
    /\ used \subseteq Identity!Emails

LEMMA IdentityParts == IdentitySyncInv <=> IdentityOthers /\ IdentityRowsOK(identity) /\ IdentityUsedInv /\ IdentitySyncsKnow
  BY DEF IdentitySyncInv, Identity!TypeOK, IdentityOthers, IdentityRowsOK, IdentitySyncsKnow
LEMMA IdentityPartsNext == IdentitySyncInv' <=> IdentityOthers' /\ IdentityRowsOK(identity') /\ IdentityUsedInv' /\ IdentitySyncsKnow'
  BY DEF IdentitySyncInv, Identity!TypeOK, IdentityOthers, IdentityRowsOK, IdentitySyncsKnow

LEMMA IdentityEditAccountKeeps ==
    ASSUME IdentitySyncInv, NEW a \in Accounts, NEW e \in 0 .. MaxEmail,
           Identity!EditAccount(a, e)
    PROVE  IdentitySyncInv'
<1> USE IdentityAssumption
<1>1. IdentityOthers /\ IdentityRowsOK(identity) /\ IdentityUsedInv /\ IdentitySyncsKnow
  BY IdentityParts
<1>2. /\ google' \in [Accounts -> 0 .. MaxEmail]
      /\ \A b \in Accounts : google'[b] = IF b = a THEN e ELSE google[b]
  BY <1>1 DEF Identity!EditAccount, IdentityOthers
<1>3. e # 0 => \A b \in Accounts : google[b] # e
  BY <1>1 DEF Identity!EditAccount, Identity!Free, IdentityUsedInv
<1>4. Identity!Injective(google')
  <2>1. DOMAIN google = Accounts /\ DOMAIN google' = Accounts
    BY <1>1, <1>2 DEF IdentityOthers
  <2> QED
    BY <1>1, <1>2, <1>3, <2>1 DEF Identity!Injective, IdentityOthers
<1>5. used' \subseteq Identity!Emails /\ IdentityUsedInv'
  BY <1>1, <1>2 DEF Identity!EditAccount, IdentityUsedInv, IdentityOthers, Identity!Emails
<1>6. edits' \in 0 .. MaxEdits
  BY <1>1 DEF Identity!EditAccount, IdentityOthers
<1>7. IdentitySyncsKnow'
  <2>1. \A b \in Accounts \ {a} : google'[b] = google[b] /\ identity'[b] = identity[b]
    BY <1>2 DEF Identity!EditAccount
  <2> QED
    BY <1>1, <2>1, IdentityTouchKeeps DEF Identity!EditAccount, IdentitySyncsKnow
<1> QED
  BY <1>1, <1>2, <1>4, <1>5, <1>6, <1>7, IdentityPartsNext
     DEF Identity!EditAccount, IdentityOthers

LEMMA IdentityUserWrittenKeeps ==
    ASSUME IdentitySyncInv, NEW u \in Users, NEW e \in Identity!Emails,
           Identity!UserWritten(u, e)
    PROVE  IdentitySyncInv'
<1> USE IdentityAssumption
<1>1. IdentityOthers /\ IdentityRowsOK(identity) /\ IdentityUsedInv /\ IdentitySyncsKnow
  BY IdentityParts
<1>2. /\ localUser' \in [Users -> 0 .. MaxEmail]
      /\ \A v \in Users : localUser'[v] = IF v = u THEN e ELSE localUser[v]
  BY <1>1 DEF Identity!UserWritten, IdentityOthers, Identity!Emails
<1>3. Identity!Injective(localUser')
  <2>1. DOMAIN localUser = Users /\ DOMAIN localUser' = Users
    BY <1>1, <1>2 DEF IdentityOthers
  <2> QED
    BY <1>1, <1>2, <2>1 DEF Identity!UserWritten, Identity!Injective, IdentityOthers
<1>4. links' \subseteq [user : Users, email : Identity!Emails] /\ edits' \in 0 .. MaxEdits
  BY <1>1 DEF Identity!UserWritten, IdentityOthers
<1> QED
  BY <1>1, <1>2, <1>3, <1>4, IdentityRestKeeps, IdentityPartsNext
     DEF Identity!UserWritten, IdentityOthers, IdentityUsedInv

\* Mapping accounts that have a row, in the row and under the syncs.
LEMMA IdentityRemappingKeeps ==
    ASSUME IdentitySyncInv, NEW as \in SUBSET Accounts, NEW u \in Users \cup {Nobody},
           \A a \in as : identity[a] # Identity!NoRow,
           identity' = [a \in Accounts |-> IF a \in as THEN [identity[a] EXCEPT !.mapped = u]
                                                  ELSE identity[a]],
           sync' = Identity!Touch(as), UNCHANGED google
    PROVE  IdentityRowsOK(identity') /\ IdentitySyncsKnow'
<1>1. IdentityRowsOK(identity) /\ IdentitySyncsKnow
  BY IdentityParts
<1>2. \A a \in Accounts \ as : google'[a] = google[a] /\ identity'[a] = identity[a]
  OBVIOUS
<1>3. IdentitySyncsKnow'
  BY <1>1, <1>2, IdentityTouchKeeps DEF IdentitySyncsKnow
<1> QED
  BY <1>1, <1>3, IdentityRemapped

LEMMA IdentityMappingsKeep ==
    ASSUME IdentitySyncInv,
           \/ \E l \in links : Identity!LinkIdentities(l) \/ Identity!LinkLost(l)
           \/ \E u \in Users : Identity!UserRemoved(u)
           \/ \E a \in Accounts, u \in Users : Identity!MapIdentity(a, u)
    PROVE  IdentitySyncInv'
<1> USE IdentityAssumption
<1>1. IdentityOthers /\ IdentityRowsOK(identity) /\ IdentityUsedInv /\ IdentitySyncsKnow
  BY IdentityParts
<1>2. ASSUME NEW l \in links, Identity!LinkIdentities(l)
      PROVE  IdentitySyncInv'
  <2> DEFINE same == {a \in Accounts : identity[a].email = l.email}
  <2>1. l.user \in Users /\ l.email \in Identity!Emails
    BY <1>1 DEF IdentityOthers
  <2>2. \A a \in same : identity[a] # Identity!NoRow
    BY <2>1 DEF Identity!NoRow, Identity!Emails
  <2>3. IdentityRowsOK(identity') /\ IdentitySyncsKnow'
    <3>1. /\ identity' = [a \in Accounts |-> IF a \in same THEN [identity[a] EXCEPT !.mapped = l.user]
                                                      ELSE identity[a]]
          /\ sync' = Identity!Touch(same) /\ google' = google
      BY <1>2 DEF Identity!LinkIdentities
    <3> QED
      BY <2>1, <2>2, <3>1, IdentityRemappingKeeps
  <2>4. IdentityOthers' /\ IdentityUsedInv'
    BY <1>1, <1>2 DEF Identity!LinkIdentities, IdentityOthers, IdentityUsedInv
  <2> QED
    BY <2>3, <2>4, IdentityPartsNext
<1>3. ASSUME NEW l \in links, Identity!LinkLost(l)
      PROVE  IdentitySyncInv'
  BY <1>1, <1>3, IdentityRestKeeps, IdentityPartsNext
     DEF Identity!LinkLost, IdentityOthers, IdentityUsedInv
<1>4. ASSUME NEW u \in Users, Identity!UserRemoved(u)
      PROVE  IdentitySyncInv'
  <2> DEFINE theirs == {a \in Accounts : identity[a].mapped = u}
  <2>1. \A a \in theirs : identity[a] # Identity!NoRow
    BY DEF Identity!NoRow
  <2>2. IdentityRowsOK(identity') /\ IdentitySyncsKnow'
    <3>1. /\ identity' = [a \in Accounts |-> IF a \in theirs THEN [identity[a] EXCEPT !.mapped = Nobody]
                                                        ELSE identity[a]]
          /\ sync' = Identity!Touch(theirs) /\ google' = google
      BY <1>4 DEF Identity!UserRemoved
    <3> QED
      BY <2>1, <3>1, IdentityRemappingKeeps
  <2>3. /\ localUser' \in [Users -> 0 .. MaxEmail]
        /\ \A v \in Users : localUser'[v] = IF v = u THEN 0 ELSE localUser[v]
    BY <1>1, <1>4 DEF Identity!UserRemoved, IdentityOthers
  <2>4. Identity!Injective(localUser')
    <3>1. DOMAIN localUser = Users /\ DOMAIN localUser' = Users
      BY <1>1, <2>3 DEF IdentityOthers
    <3> QED
      BY <1>1, <2>3, <3>1 DEF Identity!Injective, IdentityOthers
  <2>5. IdentityOthers' /\ IdentityUsedInv'
    BY <1>1, <1>4, <2>3, <2>4 DEF Identity!UserRemoved, IdentityOthers, IdentityUsedInv
  <2> QED
    BY <2>2, <2>5, IdentityPartsNext
<1>5. ASSUME NEW a \in Accounts, NEW u \in Users, Identity!MapIdentity(a, u)
      PROVE  IdentitySyncInv'
  <2>1. IdentityRowsOK(identity') /\ IdentitySyncsKnow'
    <3>1. /\ identity' = [b \in Accounts |-> IF b \in {a} THEN [identity[b] EXCEPT !.mapped = u]
                                                     ELSE identity[b]]
          /\ sync' = Identity!Touch({a}) /\ google' = google /\ identity[a] # Identity!NoRow
      BY <1>1, <1>5 DEF Identity!MapIdentity, IdentityRowsOK
    <3>2. \A b \in {a} : identity[b] # Identity!NoRow
      BY <3>1
    <3>3. {a} \in SUBSET Accounts /\ u \in Users \cup {Nobody} /\ UNCHANGED google
      BY <3>1
    <3> DEFINE as == {a}
    <3> HIDE DEF as
    <3>4. IdentityRowsOK(identity') /\ IdentitySyncsKnow'
      BY <3>1, <3>2, <3>3, IdentityRemappingKeeps DEF as
    <3> QED
      BY <3>4
  <2>2. IdentityOthers' /\ IdentityUsedInv'
    BY <1>1, <1>5 DEF Identity!MapIdentity, IdentityOthers, IdentityUsedInv
  <2> QED
    BY <2>1, <2>2, IdentityPartsNext
<1> QED
  BY <1>2, <1>3, <1>4, <1>5

(***************************************************************************)
(* Steps of a sync                                                         *)
(***************************************************************************)

LEMMA IdentityFetchKeeps ==
    ASSUME IdentitySyncInv, NEW s \in Identity!Handlers,
           NEW op \in {"sync", "connect", "cron"},
           NEW actor \in Users \cup {System}, Identity!Fetch(s, op, actor),
           integration' \in {"CONNECTED", "ERROR"}
    PROVE  IdentitySyncInv'
<1>1. IdentityOthers /\ IdentityRowsOK(identity) /\ IdentityUsedInv /\ IdentitySyncsKnow
  BY IdentityParts
<1> DEFINE r == [pc |-> "users", op |-> op, actor |-> actor, listing |-> google,
                 local |-> [e \in Identity!Emails |-> Nobody],
                 todo |-> {a \in Accounts : google[a] # 0}, touched |-> {}]
<1>2. r \in Identity!SyncCall /\ IdentityKnows(r, google', identity')
  BY <1>1
     DEF Identity!Fetch, Identity!SyncCall, Identity!Steps, IdentityOthers, IdentityKnows
<1>3. IdentitySyncsKnow'
  BY <1>1, <1>2, IdentityProceedKeeps DEF Identity!Fetch, IdentityInFlight
<1> QED
  BY <1>1, <1>3, IdentityPartsNext DEF Identity!Fetch, IdentityOthers, IdentityUsedInv

LEMMA IdentityUpsertKeeps ==
    ASSUME IdentitySyncInv, NEW s \in Identity!Handlers, Identity!Upsert(s)
    PROVE  IdentitySyncInv'
<1> USE IdentityAssumption
<1>1. IdentityOthers /\ IdentityRowsOK(identity) /\ IdentityUsedInv /\ IdentitySyncsKnow
  BY IdentityParts
<1> DEFINE a == Identity!NextAccount(s)
           e == sync[s].listing[a]
           u == sync[s].local[e]
<1>2. /\ a \in sync[s].todo /\ a \in Accounts /\ e \in Identity!Emails
      /\ sync[s] \in Identity!SyncCall /\ sync[s] # Identity!Idle
  BY IdentityNextIsToDo DEF Identity!Upsert, Identity!Idle
<1>3. IdentityKnows(sync[s], google, identity)
  BY <1>1, <1>2, IdentityGoing
<1>4. CASE Identity!Accepted(a, e, u)
  <2> DEFINE r == [sync[s] EXCEPT !.todo = @ \ {a}]
             new == [email |-> e, mapped |-> Identity!MappedTo(identity[a].mapped, u)]
  <2>1. identity' = [identity EXCEPT ![a] = new] /\ Identity!Proceed(s, r, {a})
          /\ integration' = integration
    BY <1>4 DEF Identity!Upsert
  <2>2. u \in Users \cup {Nobody} /\ identity[a].mapped \in Users \cup {Nobody}
    BY <1>1, <1>2 DEF Identity!SyncCall, IdentityRowsOK, Identity!Row, Identity!NoRow
  <2>3. new \in Identity!Row
    BY <1>2, <2>2 DEF Identity!Row, Identity!MappedTo
  <2>4. /\ identity' \in [Accounts -> Identity!Row]
        /\ \A b \in Accounts : identity'[b] = IF b = a THEN new ELSE identity[b]
    BY <1>1, <1>2, <2>1, <2>3 DEF IdentityRowsOK
  <2>5. IdentityRowsOK(identity')
    <3>1. \A b \in Accounts \ {a} : identity'[b].email # identity'[a].email
      BY <1>2, <1>4, <2>4 DEF Identity!Accepted
    <3>2. \A b, c \in Accounts : identity[b].email = identity[c].email
            /\ identity[b].email # 0 => b = c
      BY <1>1 DEF IdentityRowsOK, Identity!Injective
    <3>3. \A b, c \in Accounts : identity'[b].email = identity'[c].email
            /\ identity'[b].email # 0 => b = c
      BY <2>4, <3>1, <3>2
    <3> QED
      BY <2>4, <3>3 DEF IdentityRowsOK, Identity!Injective
  <2>6. /\ r \in Identity!SyncCall /\ r.todo = sync[s].todo \ {a} /\ r.pc = "upsert"
        /\ r.touched = sync[s].touched /\ r.listing = sync[s].listing /\ r.local = sync[s].local
    BY <1>2 DEF Identity!SyncCall, Identity!Upsert
  <2>7. sync[s].pc = "upsert" /\ google' = google
    BY DEF Identity!Upsert
  <2>8. identity'[a].email = e /\ (u # Nobody => identity'[a].mapped = u)
    BY <1>2, <2>4 DEF Identity!MappedTo
  <2>9. IdentityKnows(r, google', identity')
    BY <1>2, <1>3, <2>4, <2>6, <2>7, <2>8 DEF IdentityKnows
  <2>10. IdentitySyncsKnow'
    BY <1>1, <1>2, <2>1, <2>4, <2>6, <2>7, <2>9, IdentityProceedKeeps DEF IdentityInFlight
  <2> QED
    BY <1>1, <2>1, <2>5, <2>10, IdentityPartsNext
       DEF Identity!Upsert, IdentityOthers, IdentityUsedInv
<1>5. CASE ~Identity!Accepted(a, e, u)
  <2>1. Identity!Throw(s) /\ UNCHANGED <<google, identity>>
    BY <1>5 DEF Identity!Upsert
  <2> QED
    BY <1>1, <2>1, IdentityThrowKeeps, IdentityPartsNext
       DEF Identity!Upsert, Identity!Throw, IdentityOthers, IdentityUsedInv
<1> QED
  BY <1>4, <1>5

LEMMA IdentityRemoveStaleKeeps ==
    ASSUME IdentitySyncInv, NEW s \in Identity!Handlers, Identity!RemoveStaleIdentities(s)
    PROVE  IdentitySyncInv'
<1>1. IdentityOthers /\ IdentityRowsOK(identity) /\ IdentityUsedInv /\ IdentitySyncsKnow
  BY IdentityParts
<1> DEFINE stale == {a \in Accounts : sync[s].listing[a] = 0}
           r == [sync[s] EXCEPT !.pc = "mark"]
<1>2. sync[s] # Identity!Idle
  BY DEF Identity!RemoveStaleIdentities, Identity!Idle
<1>3. sync[s] \in Identity!SyncCall /\ IdentityKnows(sync[s], google, identity)
  BY <1>1, <1>2, IdentityGoing
<1>4. /\ r \in Identity!SyncCall /\ r.pc = "mark" /\ r.todo = sync[s].todo
      /\ r.touched = sync[s].touched /\ r.listing = sync[s].listing
  BY <1>3 DEF Identity!SyncCall, Identity!Steps
<1>5. /\ identity' = [a \in Accounts |-> IF a \in stale THEN Identity!NoRow ELSE identity[a]]
      /\ Identity!Proceed(s, r, stale) /\ google' = google
  BY DEF Identity!RemoveStaleIdentities
<1>6. IdentityInFlight(r, google', identity')
  BY <1>3, <1>4, <1>5 DEF IdentityKnows, IdentityInFlight
<1>7. IdentitySyncsKnow'
  BY <1>1, <1>5, <1>6, IdentityProceedKeeps
<1>8. IdentityRowsOK(identity')
  <2>1. \A b, c \in Accounts : identity[b].email = identity[c].email
          /\ identity[b].email # 0 => b = c
    BY <1>1 DEF IdentityRowsOK, Identity!Injective
  <2>2. \A b, c \in Accounts : identity'[b].email = identity'[c].email
          /\ identity'[b].email # 0 => b = c
    BY <1>5, <2>1 DEF Identity!NoRow
  <2>3. identity' \in [Accounts -> Identity!Row]
    BY <1>1, <1>5 DEF IdentityRowsOK, Identity!Row
  <2> QED
    BY <2>2, <2>3 DEF IdentityRowsOK, Identity!Injective
<1> QED
  BY <1>1, <1>7, <1>8, IdentityPartsNext
     DEF Identity!RemoveStaleIdentities, IdentityOthers, IdentityUsedInv

LEMMA IdentityReadUsersKeeps ==
    ASSUME IdentitySyncInv, NEW s \in Identity!Handlers, Identity!ReadUsers(s)
    PROVE  IdentitySyncInv'
<1>1. IdentityOthers /\ IdentityRowsOK(identity) /\ IdentityUsedInv /\ IdentitySyncsKnow
  BY IdentityParts
<1> DEFINE r == [sync[s] EXCEPT !.pc = "upsert", !.local = Identity!UserIdsByEmail]
<1>2. sync[s] # Identity!Idle
  BY DEF Identity!ReadUsers, Identity!Idle
<1>3. sync[s] \in Identity!SyncCall /\ IdentityKnows(sync[s], google, identity)
  BY <1>1, <1>2, IdentityGoing
<1>4. Identity!UserIdsByEmail \in [Identity!Emails -> Users \cup {Nobody}]
  <2>1. \A f \in Identity!Emails : (\E v \in Users : localUser[v] = f) =>
              (CHOOSE v \in Users : localUser[v] = f) \in Users
    OBVIOUS
  <2> QED
    BY <2>1 DEF Identity!UserIdsByEmail
<1>5. /\ r \in Identity!SyncCall /\ r.pc = "upsert" /\ r.todo = sync[s].todo
      /\ r.touched = sync[s].touched /\ r.listing = sync[s].listing
  BY <1>3, <1>4 DEF Identity!SyncCall, Identity!Steps
<1>6. IdentityKnows(r, google', identity')
  BY <1>3, <1>5 DEF IdentityKnows, Identity!ReadUsers
<1>7. IdentitySyncsKnow'
  BY <1>1, <1>5, <1>6, IdentityProceedKeeps DEF Identity!ReadUsers, IdentityInFlight
<1> QED
  BY <1>1, <1>7, IdentityPartsNext DEF Identity!ReadUsers, IdentityOthers, IdentityUsedInv

LEMMA IdentityEndKeeps ==
    ASSUME IdentitySyncInv, NEW s \in Identity!Handlers,
           Identity!MarkSynced(s) \/ Identity!AuditSync(s) \/ Identity!SyncGroups(s) \/ Identity!SyncFails(s)
    PROVE  IdentitySyncInv'
<1> USE IdentityAssumption
<1>1. IdentityOthers /\ IdentityRowsOK(identity) /\ IdentityUsedInv /\ IdentitySyncsKnow
  BY IdentityParts
<1>2. sync[s] # Identity!Idle /\ UNCHANGED <<google, identity>>
  BY DEF Identity!MarkSynced, Identity!AuditSync, Identity!SyncGroups, Identity!SyncFails,
         Identity!Idle
<1>3. \/ \E pc \in {"mark", "audit", "groups"} : Identity!Goto(s, pc)
      \/ Identity!Proceed(s, Identity!Idle, {})
  BY DEF Identity!MarkSynced, Identity!AuditSync, Identity!SyncGroups, Identity!SyncFails,
         Identity!Throw
<1>4. IdentitySyncsKnow'
  <2>1. CASE Identity!Proceed(s, Identity!Idle, {})
    BY <1>1, <1>2, <2>1, IdentityProceedKeeps DEF IdentityInFlight
  <2> QED
    BY <1>1, <1>2, <1>3, <2>1, IdentityGotoKeeps
<1>5. IdentityOthers' /\ IdentityUsedInv'
  BY <1>1
     DEF Identity!MarkSynced, Identity!AuditSync, Identity!SyncGroups, Identity!SyncFails,
         Identity!Throw, IdentityOthers, IdentityUsedInv
<1> QED
  BY <1>1, <1>2, <1>4, <1>5, IdentityPartsNext

\* Every step keeps the shape of the state and what the syncs know.
LEMMA IdentitySyncInvariant ==
    ASSUME IdentitySyncInv, [Identity!Next]_identityVars
    PROVE  IdentitySyncInv'
<1>1. ASSUME NEW s \in Manual, NEW u \in Users,
             Identity!SyncRequested(s, u) \/ Identity!ConnectRequested(s, u)
      PROVE  IdentitySyncInv'
  BY <1>1, IdentityFetchKeeps
     DEF Identity!SyncRequested, Identity!ConnectRequested, Identity!Handlers,
         IdentitySyncInv, Identity!TypeOK
<1>2. ASSUME NEW s \in Cron, Identity!CronTick(s)
      PROVE  IdentitySyncInv'
  BY <1>2, IdentityFetchKeeps
     DEF Identity!CronTick, Identity!Handlers, IdentitySyncInv, Identity!TypeOK
<1>3. CASE UNCHANGED identityVars
  BY <1>3
     DEF identityVars, IdentitySyncInv, Identity!TypeOK, IdentityUsedInv, IdentitySyncsKnow
<1> QED
  BY <1>1, <1>2, <1>3, IdentityEditAccountKeeps, IdentityUserWrittenKeeps,
     IdentityMappingsKeep, IdentityUpsertKeeps, IdentityRemoveStaleKeeps,
     IdentityReadUsersKeeps, IdentityEndKeeps
     DEF Identity!Next, Identity!Environment, Identity!SyncStep

LEMMA IdentityInitInvariant ==
    ASSUME Identity!Init
    PROVE  IdentitySyncInv
<1>1. IdentityOthers /\ IdentityUsedInv /\ IdentitySyncsKnow
  BY IdentityAssumption
     DEF Identity!Init, IdentityOthers, IdentityUsedInv, IdentitySyncsKnow,
         IdentityInFlight, Identity!Emails
<1>2. IdentityRowsOK(identity)
  BY DEF Identity!Init, IdentityRowsOK, Identity!Row, Identity!NoRow, Identity!Injective
<1> QED
  BY <1>1, <1>2, IdentityParts

(***************************************************************************)
(* Mappings                                                                *)
(***************************************************************************)

LEMMA IdentityMappingInvariant ==
    ASSUME IdentitySyncInv, Identity!MappedUserExists, [Identity!Next]_identityVars
    PROVE  Identity!MappedUserExists'
<1> USE IdentityAssumption
<1>0. IdentityOthers /\ IdentityRowsOK(identity) /\ IdentitySyncsKnow
  BY IdentityParts
<1>1. CASE UNCHANGED <<localUser, identity>>
  BY <1>1 DEF Identity!MappedUserExists
<1>2. ASSUME NEW u \in Users, NEW e \in Identity!Emails, Identity!UserWritten(u, e)
      PROVE  Identity!MappedUserExists'
  BY <1>0, <1>2
     DEF Identity!UserWritten, Identity!MappedUserExists, IdentityOthers, Identity!Emails
<1>3. ASSUME NEW l \in links, Identity!LinkIdentities(l)
      PROVE  Identity!MappedUserExists'
  BY <1>0, <1>3
     DEF Identity!LinkIdentities, Identity!MappedUserExists, IdentityRowsOK, Identity!Row,
         Identity!NoRow
<1>4. ASSUME NEW u \in Users, Identity!UserRemoved(u)
      PROVE  Identity!MappedUserExists'
  <2>1. \A a \in Accounts : identity[a].mapped \in Users \cup {Nobody}
    BY <1>0 DEF IdentityRowsOK, Identity!Row, Identity!NoRow
  <2>2. \A a \in Accounts : identity'[a].mapped =
                              IF identity[a].mapped = u THEN Nobody ELSE identity[a].mapped
    BY <1>0, <1>4 DEF Identity!UserRemoved, IdentityRowsOK, Identity!Row, Identity!NoRow
  <2>3. \A v \in Users : v # u => localUser'[v] = localUser[v]
    BY <1>0, <1>4 DEF Identity!UserRemoved, IdentityOthers
  <2> QED
    BY <2>1, <2>2, <2>3 DEF Identity!MappedUserExists
<1>5. ASSUME NEW a \in Accounts, NEW u \in Users, Identity!MapIdentity(a, u)
      PROVE  Identity!MappedUserExists'
  BY <1>0, <1>5
     DEF Identity!MapIdentity, Identity!MappedUserExists, IdentityRowsOK, Identity!Row,
         Identity!NoRow
<1>6. ASSUME NEW s \in Identity!Handlers, Identity!Upsert(s)
      PROVE  Identity!MappedUserExists'
  <2> DEFINE a == Identity!NextAccount(s)
             e == sync[s].listing[a]
             u == sync[s].local[e]
  <2>1. CASE Identity!Accepted(a, e, u)
    <3>1. /\ identity' = [identity EXCEPT ![a] = [email |-> e, mapped |-> Identity!MappedTo(identity[a].mapped, u)]]
          /\ localUser' = localUser /\ (u # Nobody => localUser[u] # 0)
      BY <1>6, <2>1 DEF Identity!Upsert, Identity!Accepted
    <3>2. \A b \in Accounts : \/ identity'[b].mapped = identity[b].mapped
                              \/ identity'[b].mapped = u /\ u # Nobody
      BY <1>0, <3>1 DEF Identity!MappedTo, IdentityRowsOK
    <3> QED
      BY <3>1, <3>2 DEF Identity!MappedUserExists
  <2>2. CASE ~Identity!Accepted(a, e, u)
    BY <1>1, <1>6, <2>2 DEF Identity!Upsert
  <2> QED
    BY <2>1, <2>2
<1>7. ASSUME NEW s \in Identity!Handlers, Identity!RemoveStaleIdentities(s)
      PROVE  Identity!MappedUserExists'
  BY <1>7 DEF Identity!RemoveStaleIdentities, Identity!MappedUserExists, Identity!NoRow
<1> QED
  BY <1>1, <1>2, <1>3, <1>4, <1>5, <1>6, <1>7
     DEF Identity!Next, Identity!Environment, Identity!SyncStep, Identity!EditAccount,
         Identity!LinkLost, Identity!SyncRequested, Identity!ConnectRequested,
         Identity!CronTick, Identity!Fetch, Identity!ReadUsers, Identity!MarkSynced,
         Identity!AuditSync, Identity!SyncGroups, Identity!SyncFails, identityVars

(***************************************************************************)
(* The end of a sync                                                       *)
(***************************************************************************)

LEMMA IdentityStepMirrors ==
    ASSUME IdentitySyncInv
    PROVE  Identity!MirrorsGoogle
<1> SUFFICES ASSUME NEW s \in Identity!Handlers, Identity!RemoveStaleIdentities(s),
                    NEW a \in Accounts \ sync[s].touched
             PROVE  /\ identity'[a].email = google[a]
                    /\ google[a] # 0 =>
                         LET u == sync[s].local[google[a]] IN u # Nobody => identity'[a].mapped = u
  BY DEF Identity!MirrorsGoogle
<1>1. sync[s] # Identity!Idle /\ IdentitySyncsKnow
  BY IdentityParts DEF Identity!RemoveStaleIdentities, Identity!Idle
<1>2. IdentityKnows(sync[s], google, identity)
  BY <1>1, IdentityGoing
<1>3. /\ sync[s].pc = "upsert" /\ a \notin sync[s].todo
      /\ identity'[a] = IF sync[s].listing[a] = 0 THEN Identity!NoRow ELSE identity[a]
  BY DEF Identity!RemoveStaleIdentities
<1>4. sync[s].listing[a] = google[a]
  BY <1>2 DEF IdentityKnows
<1> QED
  BY <1>2, <1>3, <1>4 DEF IdentityKnows, Identity!NoRow

(***************************************************************************)
(* UserSession: one request at a time keeps the secret of an enabled MFA    *)
(***************************************************************************)

\* A verification that has read the row will enable MFA for a secret that is there.
SessionSecretInv ==
    /\ Session!MfaHasSecret
    /\ \A c \in Calls : call[c].pc = "enable" => secret # 0

\* Calls that do not overlap find no other one between its read and its write.
LEMMA SessionSecretKept ==
    ASSUME \A c, d \in Calls : c = d, Session!TypeOK, SessionSecretInv,
           [Session!Next]_sessionVars
    PROVE  SessionSecretInv'
<1>1. ASSUME UNCHANGED <<mfa, secret>>,
             \A c \in Calls : call'[c].pc = "enable" => call[c].pc = "enable" \/ secret # 0
      PROVE  SessionSecretInv'
  BY <1>1 DEF SessionSecretInv, Session!MfaHasSecret
<1>2. CASE Session!Administration \/ UNCHANGED sessionVars
  BY <1>1, <1>2
     DEF Session!Administration, Session!ChangePassword, Session!ChangeRole,
         Session!ChangeStatus, Session!Remove, Session!factor, sessionVars
<1>3. CASE Session!MfaSetup
  <2>1. secret' # 0 /\ mfa' = FALSE
    BY <1>3 DEF Session!MfaSetup, Session!TypeOK, Session!Secrets
  <2> QED
    BY <2>1 DEF SessionSecretInv, Session!MfaHasSecret
<1>4. ASSUME NEW c \in Calls, NEW r, Session!Becomes(c, r), UNCHANGED <<mfa, secret>>,
             r.pc = "enable" => secret # 0
      PROVE  SessionSecretInv'
  <2>1. \A d \in Calls : call'[d].pc = "enable" => call[d].pc = "enable" \/ secret # 0
    BY <1>4 DEF Session!Becomes, Session!TypeOK
  <2> QED
    BY <1>1, <1>4, <2>1
<1>5. ASSUME NEW c \in Calls, Session!SignIn(c) \/ Session!RequestFails(c)
      PROVE  SessionSecretInv'
  <2>1. UNCHANGED <<mfa, secret>>
    BY <1>5
       DEF Session!SignIn, Session!LoginRead, Session!LoginWrite, Session!Issue,
           Session!Refresh, Session!AcceptInvite, Session!OauthRead, Session!OauthWrite,
           Session!RequestFails, Session!factor
  <2>2. UNCHANGED call \/ \E r : Session!Becomes(c, r) /\ r.pc # "enable"
    <3>1. CASE Session!LoginRead(c) \/ Session!LoginWrite(c)
      BY <3>1 DEF Session!LoginRead, Session!LoginWrite, Session!Idle
    <3>2. CASE Session!Issue(c) \/ Session!OauthRead(c) \/ Session!OauthWrite(c)
      BY <3>2 DEF Session!Issue, Session!OauthRead, Session!OauthWrite, Session!Idle
    <3>3. CASE Session!AcceptInvite(c) \/ Session!RequestFails(c)
      BY <3>3 DEF Session!AcceptInvite, Session!RequestFails, Session!Idle
    <3>4. ASSUME NEW t \in tokens, Session!Refresh(c, t)
          PROVE  \E r : Session!Becomes(c, r) /\ r.pc # "enable"
      BY <3>4 DEF Session!Refresh
    <3> QED
      BY <1>5, <3>1, <3>2, <3>3, <3>4 DEF Session!SignIn
  <2> QED
    BY <1>1, <1>4, <2>1, <2>2
<1>6. ASSUME NEW c \in Calls, Session!MfaVerifyRead(c) \/ Session!MfaDisableRead(c)
      PROVE  SessionSecretInv'
  BY <1>4, <1>6 DEF Session!MfaVerifyRead, Session!MfaDisableRead, Session!factor
<1>7. ASSUME NEW c \in Calls, Session!MfaVerifyWrite(c)
      PROVE  SessionSecretInv'
  <2>1. secret # 0 /\ secret' = secret
    BY <1>7 DEF Session!MfaVerifyWrite, SessionSecretInv
  <2> QED
    BY <2>1 DEF SessionSecretInv, Session!MfaHasSecret
<1>8. ASSUME NEW c \in Calls, Session!MfaDisableWrite(c)
      PROVE  SessionSecretInv'
  <2>1. \A d \in Calls : call'[d].pc = "idle"
    BY <1>8 DEF Session!MfaDisableWrite, Session!Becomes, Session!TypeOK, Session!Idle
  <2>2. mfa' => mfa /\ secret' = secret
    BY <1>8 DEF Session!MfaDisableWrite, Session!TypeOK
  <2> QED
    BY <2>1, <2>2 DEF SessionSecretInv, Session!MfaHasSecret
<1> QED
  BY <1>2, <1>3, <1>5, <1>6, <1>7, <1>8 DEF Session!Next, Session!Mfa

(***************************************************************************)
(* The control plane: whichever component is active keeps its invariant    *)
(***************************************************************************)

ControlPlaneInv ==
    /\ active = "onboarding" => OnboardDomainsInv
    /\ active = "invites" => Invite!TypeOK /\ Invite!InviteTellsItsUser
    /\ active = "detection" => DetectionInv
    /\ active = "guards" => Guards!TypeOK /\ GuardsInv
    /\ active = "roles" => RolesInv
    /\ active = "session" => Session!TypeOK /\ SessionInv
    /\ active = "identity" => IdentitySyncInv /\ Identity!MappedUserExists

\* The assumptions of the components are those of the control plane.
LEMMA ComponentAssumptions ==
    /\ OnboardConstants /\ DetectionBounds /\ RolesBounds /\ SessionBounds
  BY OnboardingAssumption, DetectionAssumption, RolesAssumption, IdentityAssumption,
     BoundsAssumption
     DEF OnboardConstants, Onboard!Column, DetectionBounds, RolesBounds, SessionBounds

LEMMA InitInvariant ==
    ASSUME Init
    PROVE  ControlPlaneInv
<1> USE ComponentAssumptions
<1>1. active = "onboarding" => OnboardDomainsInv
  BY OnboardInitInvariant DEF Init
<1>2. active = "invites" => Invite!TypeOK /\ Invite!InviteTellsItsUser
  BY InvitesInitInvariant, BoundsAssumption DEF Init
<1>3. active = "detection" => DetectionInv
  BY DetectionInitInvariant DEF Init
<1>4. active = "guards" => Guards!TypeOK /\ GuardsInv
  BY GuardsInitInvariant, BoundsAssumption DEF Init
<1>5. active = "roles" => RolesInv
  BY RolesInitInvariant DEF Init
<1>6. active = "session" => Session!TypeOK /\ SessionInv
  BY SessionInitInvariant DEF Init
<1>7. active = "identity" => IdentitySyncInv /\ Identity!MappedUserExists
  <2>1. Identity!Init => Identity!MappedUserExists
    BY DEF Identity!Init, Identity!MappedUserExists, Identity!NoRow
  <2> QED
    BY <2>1, IdentityInitInvariant DEF Init
<1> QED
  BY <1>1, <1>2, <1>3, <1>4, <1>5, <1>6, <1>7 DEF ControlPlaneInv

\* A step of the control plane is one of the active component, or changes none of its
\* variables.
LEMMA StepOfActive ==
    ASSUME [Next]_vars
    PROVE  /\ active' = active
           /\ active = "onboarding" => [Onboard!Next]_onboardVars
           /\ active = "invites" => [Invite!Next]_inviteVars
           /\ active = "detection" => [Detect!Next]_detectVars
           /\ active = "guards" => [Guards!Next]_guardsVars
           /\ active = "roles" => [Roles!Next]_rolesVars
           /\ active = "session" => [Session!Next]_sessionVars
           /\ active = "identity" => [Identity!Next]_identityVars
  BY DEF Next, vars

LEMMA StepInvariant ==
    ASSUME ControlPlaneInv, [Next]_vars
    PROVE  ControlPlaneInv'
<1> USE ComponentAssumptions
<1>0. active' = active
  BY StepOfActive
<1>1. CASE active = "onboarding"
  <2>1. OnboardDomainsInv /\ [Onboard!Next]_onboardVars
    BY <1>1, StepOfActive DEF ControlPlaneInv
  <2>2. OnboardDomainsInv'
    BY <2>1, OnboardDomainsInvariant
  <2> QED
    BY <1>0, <1>1, <2>2 DEF ControlPlaneInv
<1>2. CASE active = "invites"
  <2>1. Invite!TypeOK' /\ Invite!InviteTellsItsUser'
    BY <1>2, StepOfActive, InvitesTypeInvariant, InvitesTellsInvariant, BoundsAssumption
       DEF ControlPlaneInv
  <2> QED
    BY <1>0, <1>2, <2>1 DEF ControlPlaneInv
<1>3. CASE active = "detection"
  <2>1. DetectionInv'
    BY <1>3, StepOfActive, DetectionInvariant DEF ControlPlaneInv
  <2> QED
    BY <1>0, <1>3, <2>1 DEF ControlPlaneInv
<1>4. CASE active = "guards"
  <2>1. Guards!TypeOK' /\ GuardsInv'
    BY <1>4, StepOfActive, GuardsTypeInvariant, GuardsInvariant, BoundsAssumption
       DEF ControlPlaneInv
  <2> QED
    BY <1>0, <1>4, <2>1 DEF ControlPlaneInv
<1>5. CASE active = "roles"
  <2>1. RolesInv'
    BY <1>5, StepOfActive, RolesInvariant DEF ControlPlaneInv
  <2> QED
    BY <1>0, <1>5, <2>1 DEF ControlPlaneInv
<1>6. CASE active = "session"
  <2>1. Session!TypeOK' /\ SessionInv'
    BY <1>6, StepOfActive, SessionInvariant DEF ControlPlaneInv
  <2> QED
    BY <1>0, <1>6, <2>1 DEF ControlPlaneInv
<1>7. CASE active = "identity"
  <2>1. /\ IdentitySyncInv /\ Identity!MappedUserExists
        /\ [Identity!Next]_identityVars
    BY <1>7, StepOfActive DEF ControlPlaneInv
  <2>2. IdentitySyncInv' /\ Identity!MappedUserExists'
    BY <2>1, IdentitySyncInvariant, IdentityMappingInvariant
  <2> QED
    BY <1>0, <1>7, <2>2 DEF ControlPlaneInv
<1>8. active \in {"onboarding", "invites", "detection", "guards", "roles", "session", "identity"}
      \/ ControlPlaneInv'
  BY <1>0 DEF ControlPlaneInv
<1> QED
  BY <1>1, <1>2, <1>3, <1>4, <1>5, <1>6, <1>7, <1>8

LEMMA Invariance == Spec => []ControlPlaneInv
  BY InitInvariant, StepInvariant, PTL DEF Spec

\* Every component keeps the shape of its state, for every number of tenants, users,
\* identities, requests and syncs.
THEOREM TypeCorrect == Spec => []TypeOK
<1>1. ControlPlaneInv => TypeOK
  <2>1. DetectionInv => Detect!TypeOK
    BY DEF DetectionInv
  <2>2. RolesInv => Roles!TypeOK
    BY DEF RolesInv
  <2>3. OnboardDomainsInv => Onboard!TypeOK
    BY DEF OnboardDomainsInv
  <2>4. IdentitySyncInv => Identity!TypeOK
    BY DEF IdentitySyncInv
  <2> QED
    BY <2>1, <2>2, <2>3, <2>4 DEF ControlPlaneInv, TypeOK
<1> QED
  BY Invariance, <1>1, PTL

\* A tenant's domain and the domain it is connected to were given to it or verified by a
\* session (tenants.service.ts, auth.service.ts, integrations.service.ts).
THEOREM DomainsVouchedFor == Spec => []DomainIsVouchedFor
<1>1. ControlPlaneInv => DomainIsVouchedFor
  BY DEF ControlPlaneInv, DomainIsVouchedFor, OnboardDomainsInv
<1> QED
  BY Invariance, <1>1, PTL

\* A tenant that was created with a domain keeps it and connects to no other.
THEOREM CreatedDomainsStay == Spec => []CreatedDomainStays
<1>1. ControlPlaneInv => CreatedDomainStays
  BY DEF ControlPlaneInv, CreatedDomainStays, OnboardDomainsInv
<1> QED
  BY Invariance, <1>1, PTL

\* However acceptInvite and revoke overlap, and whoever else makes and removes the user,
\* an invite that is PENDING made nobody and acceptedBy is the last user it made
\* (invites.service.ts, auth.service.ts acceptInvite).
THEOREM InvitesTell == Spec => []InviteTellsItsUser
<1>1. ControlPlaneInv => InviteTellsItsUser
  BY DEF ControlPlaneInv, InviteTellsItsUser
<1> QED
  BY Invariance, <1>1, PTL

\* A stored risk score is the sum of signals that were audited for that very row, however
\* detections and syncs overlap (itdr.service.ts detectGoogleSignals).
THEOREM ScoresAudited == Spec => []ScoreIsAudited
<1>1. ControlPlaneInv => ScoreIsAudited
  BY DEF ControlPlaneInv, ScoreIsAudited, DetectionInv
<1> QED
  BY Invariance, <1>1, PTL

\* ISPM and ITDR call the same identities privileged of the same tables
\* (ispm.service.ts buildIntegrationSnapshot, itdr.service.ts detectGoogleSignals).
THEOREM BothConsolesAgree == Spec => []ConsolesAgree
<1>1. DetectionInv => Detect!ConsolesAgree
  BY DetectionConsolesFollow DEF DetectionInv
<1>2. ControlPlaneInv => ConsolesAgree
  BY <1>1 DEF ControlPlaneInv, ConsolesAgree
<1> QED
  BY Invariance, <1>2, PTL

\* The user a handler acts for is one reading of the row, that every guard of its route
\* let through (security-context.guard.ts, jwt.strategy.ts, roles.guard.ts).
THEOREM OneUser == Spec => []HandlerActsForOneUser
<1>1. Guards!TypeOK /\ GuardsInv => Guards!HandlerActsForOneUser
  BY GuardsActForOne
<1>2. ControlPlaneInv => HandlerActsForOneUser
  BY <1>1 DEF ControlPlaneInv, HandlerActsForOneUser
<1> QED
  BY Invariance, <1>2, PTL

\* An accepted token goes back to a sign-in under the present password and since the
\* user was last disabled, whatever login, refresh, Google and the administrators do to
\* each other (auth.service.ts, users.service.ts).
THEOREM TokensFollow == Spec => []TokensFollowCredentials
<1>1. SessionInv => Session!TokensFollowCredentials
  BY DEF SessionInv, SessionFollows, Session!TokensFollowCredentials, Session!Accepted
<1>2. ControlPlaneInv => TokensFollowCredentials
  BY <1>1 DEF ControlPlaneInv, TokensFollowCredentials
<1> QED
  BY Invariance, <1>2, PTL

\* If the requests of a user do not overlap, MFA that is on has a secret, as login
\* requires (auth.service.ts:552): verify and disable need each other's absence between
\* their read and their write (mfa.service.ts), and nothing else undoes it.
THEOREM MfaSecretKept ==
    ASSUME \A c, d \in Calls : c = d
    PROVE  Spec => [](active = "session" => Session!MfaHasSecret)
<1> DEFINE Inv == ControlPlaneInv /\ (active = "session" => SessionSecretInv)
<1>1. Init => Inv
  <2> SUFFICES ASSUME Init PROVE Inv
    OBVIOUS
  <2>1. ControlPlaneInv
    BY InitInvariant
  <2>2. ASSUME active = "session" PROVE SessionSecretInv
    <3>1. ~mfa /\ \A c \in Calls : call[c].pc = "idle"
      BY <2>2 DEF Init, Session!Init, Session!Idle
    <3> QED
      BY <3>1 DEF SessionSecretInv, Session!MfaHasSecret
  <2> QED
    BY <2>1, <2>2
<1>2. Inv /\ [Next]_vars => Inv'
  <2> SUFFICES ASSUME Inv, [Next]_vars PROVE Inv'
    OBVIOUS
  <2>1. ControlPlaneInv' /\ active' = active
    BY StepInvariant, StepOfActive
  <2>2. active = "session" => SessionSecretInv'
    BY StepOfActive, SessionSecretKept DEF ControlPlaneInv
  <2> QED
    BY <2>1, <2>2
<1>3. Inv => (active = "session" => Session!MfaHasSecret)
  BY DEF SessionSecretInv
<1> QED
  BY <1>1, <1>2, <1>3, PTL DEF Spec

\* No identity is mapped to a removed user, though a sync maps by a reading of the users
\* that may be old (integrations.service.ts, schema.prisma).
THEOREM MappingsExist == Spec => []MappedUserExists
<1>1. ControlPlaneInv => MappedUserExists
  BY DEF ControlPlaneInv, MappedUserExists
<1> QED
  BY Invariance, <1>1, PTL

\* When a sync has removed the stale rows, the rows are what Google has and are mapped as
\* it read, but for accounts that something else changed since it started.
THEOREM SyncsMirror == Spec => SyncMirrorsGoogle
<1>1. ControlPlaneInv => (active = "identity" => Identity!MirrorsGoogle)
  BY IdentityStepMirrors, ComponentAssumptions DEF ControlPlaneInv
<1> QED
  BY Invariance, <1>1, PTL DEF Spec, SyncMirrorsGoogle

\* When a sync of the roles ends, every identity has the roles Google gives it, but for
\* users that something else changed since it started (integrations.service.ts
\* syncGoogleRoles).
THEOREM RolesExact == Spec => RolesAreExact
<1>1. ControlPlaneInv => (active = "roles" => Roles!ExactAtTheEnd)
  BY RolesEndsExact DEF ControlPlaneInv
<1> QED
  BY Invariance, <1>1, PTL DEF Spec, RolesAreExact
=================================================================================
