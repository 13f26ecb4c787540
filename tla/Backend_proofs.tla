--------------------------- MODULE Backend_proofs ---------------------------
(***************************************************************************)
(* Proofs about the components of the operator's backend, one after the    *)
(* other, and of the properties of Backend from them.                      *)
(***************************************************************************)
EXTENDS Backend, FiniteSetTheorems, SequenceTheorems, TLAPS

(***************************************************************************)
(* TenantLifecycle: no more links are open than calls can overlap          *)
(***************************************************************************)

TenantOpenLinks == {l \in Tenants!Links : link[l] = "open"}
TenantIssuing   == {o \in Operators : operating[o].pc = "issue"}

\* A call that has spent the open links keeps room for the one it will issue.
TenantRoom == Cardinality(TenantOpenLinks) + Cardinality(TenantIssuing) <= Cardinality(Operators)

TenantInv == Tenants!TypeOK /\ TenantRoom

TenantCalls  == [pc : {"free", "admin", "spend", "issue", "pending"}]
              \cup [pc : {"reset"}, wasActive : BOOLEAN]
TenantVisit  == [pc : {"free", "change"}] \cup [pc : {"onboard"}, link : Tenants!Links]

\* A call goes on to next.
LEMMA TenantGoesOn ==
    ASSUME operating \in [Operators -> TenantCalls], NEW o \in Operators,
           NEW next \in TenantCalls,
           Tenants!Goes(o, next)
    PROVE  /\ operating' \in [Operators -> TenantCalls]
           /\ TenantIssuing' \subseteq TenantIssuing \cup {o}
           /\ next.pc # "issue" => TenantIssuing' \subseteq TenantIssuing \ {o}
  BY DEF Tenants!Goes, TenantIssuing

LEMMA TenantVisitsOn ==
    ASSUME visit \in [Visitors -> TenantVisit], NEW v \in Visitors,
           NEW next \in TenantVisit,
           Tenants!Visits(v, next)
    PROVE  visit' \in [Visitors -> TenantVisit]
  BY DEF Tenants!Visits

\* The pcs are records of Calls.
LEMMA TenantCallPcs ==
    /\ \A pc \in {"free", "admin", "spend", "issue", "pending"} : [pc |-> pc] \in TenantCalls
    /\ \A b \in BOOLEAN : [pc |-> "reset", wasActive |-> b] \in TenantCalls
    /\ Tenants!Free \in TenantCalls /\ Tenants!Free \in TenantVisit /\ Tenants!Free.pc = "free"
  BY DEF TenantCalls, TenantVisit, Tenants!Free

(***************************************************************************)
(* The shape of the state                                                  *)
(***************************************************************************)

LEMMA TenantTypes ==
    ASSUME Tenants!TypeOK, [Tenants!Next]_tenantVars
    PROVE  Tenants!TypeOK'
<1> DEFINE Statuses == {"none", "PENDING", "ACTIVE", "SUSPENDED", "OFFBOARDED"}
           Admins   == [there : BOOLEAN, password : {"unknown", "own"}]
           States   == {"unissued", "open", "used", "expired", "deleted"}
           Assets   == [integration : {"none", "PENDING", "ACTIVE", "DISABLED"},
                        key : {"none", "live", "revoked"}]
<1>t. /\ tenant \in Statuses /\ admin \in Admins /\ (admin.there => Tenants!Exists)
      /\ link \in [Tenants!Links -> States] /\ assets \in Assets
      /\ operating \in [Operators -> TenantCalls] /\ visit \in [Visitors -> TenantVisit]
  BY DEF Tenants!TypeOK, TenantCalls, TenantVisit
<1>q. ASSUME tenant' \in Statuses, admin' \in Admins, admin'.there => Tenants!Exists',
             link' \in [Tenants!Links -> States], assets' \in Assets,
             operating' \in [Operators -> TenantCalls], visit' \in [Visitors -> TenantVisit]
      PROVE  Tenants!TypeOK'
  BY <1>q DEF Tenants!TypeOK, TenantCalls, TenantVisit, Tenants!Links
<1>1. ASSUME NEW o \in Operators,
             Tenants!Create(o) \/ Tenants!ProvisionAdmin(o) \/ Tenants!Regenerate(o) \/ Tenants!ResetAdmin(o)
                 \/ Tenants!ResetTenant(o) \/ Tenants!CallFails(o)
      PROVE  operating' \in [Operators -> TenantCalls]
  BY <1>1, <1>t, TenantGoesOn, TenantCallPcs
     DEF Tenants!Create, Tenants!ProvisionAdmin, Tenants!Regenerate, Tenants!ResetAdmin,
         Tenants!ResetTenant, Tenants!CallFails
<1>2. ASSUME NEW o \in Operators, Tenants!SpendLinks(o) \/ Tenants!IssueLink(o)
      PROVE  operating' \in [Operators -> TenantCalls]
               /\ link' \in [Tenants!Links -> States]
  <2>1. operating' \in [Operators -> TenantCalls]
    BY <1>2, <1>t, TenantGoesOn, TenantCallPcs DEF Tenants!SpendLinks, Tenants!IssueLink
  <2>2. link' \in [Tenants!Links -> States]
    BY <1>2, <1>t DEF Tenants!SpendLinks, Tenants!IssueLink
  <2> QED
    BY <2>1, <2>2
<1>3. ASSUME NEW v \in Visitors,
             Tenants!OpenLink(v) \/ Tenants!Onboard(v) \/ Tenants!StartChange(v) \/ Tenants!ChangePassword(v) \/ Tenants!VisitFails(v)
      PROVE  visit' \in [Visitors -> TenantVisit]
  <2>1. CASE Tenants!OpenLink(v)
    <3>1. PICK l \in Tenants!Links : Tenants!Visits(v, [pc |-> "onboard", link |-> l])
      BY <2>1 DEF Tenants!OpenLink
    <3>2. [pc |-> "onboard", link |-> l] \in TenantVisit
      BY DEF TenantVisit
    <3> QED
      BY <1>t, <3>1, <3>2, TenantVisitsOn
  <2>2. CASE Tenants!StartChange(v)
    <3>1. [pc |-> "change"] \in TenantVisit
      BY DEF TenantVisit
    <3> QED
      BY <1>t, <2>2, <3>1, TenantVisitsOn DEF Tenants!StartChange
  <2>3. CASE Tenants!Onboard(v) \/ Tenants!ChangePassword(v) \/ Tenants!VisitFails(v)
    BY <1>t, <2>3, TenantCallPcs, TenantVisitsOn
       DEF Tenants!Onboard, Tenants!ChangePassword, Tenants!VisitFails
  <2> QED
    BY <1>3, <2>1, <2>2, <2>3
<1>4. CASE \E o \in Operators :
               Tenants!Create(o) \/ Tenants!ProvisionAdmin(o) \/ Tenants!Regenerate(o) \/ Tenants!ResetAdmin(o)
                 \/ Tenants!ResetTenant(o) \/ Tenants!CallFails(o)
  <2>1. ASSUME NEW o \in Operators, Tenants!Create(o)
        PROVE  Tenants!TypeOK'
    <3>1. assets' \in Assets
      BY <2>1 DEF Tenants!Create, Tenants!NoAssets
    <3>2. tenant' = "PENDING" /\ UNCHANGED <<admin, link, visit>>
      BY <2>1 DEF Tenants!Create
    <3> QED
      BY <1>1, <1>t, <1>q, <2>1, <3>1, <3>2 DEF Tenants!Exists
  <2>2. ASSUME NEW o \in Operators, Tenants!ProvisionAdmin(o) \/ Tenants!ResetAdmin(o)
        PROVE  Tenants!TypeOK'
    <3>1. admin' \in Admins /\ (admin'.there => Tenants!Exists')
      <4>1. CASE Tenants!ProvisionAdmin(o)
        <5>1. Tenants!Exists' <=> Tenants!Exists
          BY <4>1 DEF Tenants!ProvisionAdmin, Tenants!Exists
        <5>2. \/ Tenants!Exists /\ admin' = [there |-> TRUE, password |-> "unknown"]
              \/ admin' = admin
          BY <4>1 DEF Tenants!ProvisionAdmin
        <5>3. [there |-> TRUE, password |-> "unknown"] \in Admins
          OBVIOUS
        <5>4. admin' \in Admins
          BY <1>t, <5>2, <5>3
        <5>5. admin'.there => Tenants!Exists'
          BY <1>t, <5>1, <5>2
        <5> QED
          BY <5>4, <5>5
      <4>2. CASE Tenants!ResetAdmin(o)
        BY <1>t, <4>2 DEF Tenants!ResetAdmin, Tenants!Exists
      <4> QED
        BY <2>2, <4>1, <4>2
    <3>2. UNCHANGED <<tenant, link, assets, visit>>
      BY <2>2 DEF Tenants!ProvisionAdmin, Tenants!ResetAdmin
    <3> QED
      BY <1>1, <1>t, <1>q, <2>2, <3>1, <3>2
  <2>3. ASSUME NEW o \in Operators,
               Tenants!Regenerate(o) \/ Tenants!ResetTenant(o) \/ Tenants!CallFails(o)
        PROVE  Tenants!TypeOK'
    BY <1>1, <1>t, <1>q, <2>3
       DEF Tenants!Regenerate, Tenants!ResetTenant, Tenants!CallFails, Tenants!Exists
  <2> QED
    BY <1>4, <2>1, <2>2, <2>3
<1>5. CASE \E o \in Operators : Tenants!SpendLinks(o) \/ Tenants!IssueLink(o)
  BY <1>2, <1>5, <1>t, <1>q DEF Tenants!SpendLinks, Tenants!IssueLink, Tenants!Exists
<1>6. CASE \E v \in Visitors :
               Tenants!OpenLink(v) \/ Tenants!StartChange(v) \/ Tenants!ChangePassword(v) \/ Tenants!VisitFails(v)
  BY <1>3, <1>6, <1>t, <1>q
     DEF Tenants!OpenLink, Tenants!StartChange, Tenants!ChangePassword, Tenants!VisitFails,
         Tenants!Exists
<1>7. ASSUME NEW v \in Visitors, Tenants!Onboard(v)
      PROVE  Tenants!TypeOK'
  BY <1>3, <1>7, <1>t, <1>q DEF Tenants!Onboard, Tenants!Exists
<1>8. CASE \E status \in {"SUSPENDED", "ACTIVE", "OFFBOARDED"} : Tenants!SetStatus(status)
  BY <1>8, <1>t, <1>q DEF Tenants!SetStatus, Tenants!Exists
<1>9. CASE Tenants!HardDelete
  BY <1>9, <1>t, <1>q
     DEF Tenants!HardDelete, Tenants!Exists, Tenants!NoAdmin, Tenants!NoAssets
<1>10. CASE Tenants!LinkExpires \/ Tenants!CompleteTenant \/ UNCHANGED tenantVars
  BY <1>10, <1>t, <1>q
     DEF Tenants!LinkExpires, Tenants!CompleteTenant, tenantVars, Tenants!Exists
<1>11. CASE Tenants!UpsertIntegration \/ Tenants!CreateApiKey \/ Tenants!RevokeApiKey
  BY <1>11, <1>t, <1>q
     DEF Tenants!UpsertIntegration, Tenants!CreateApiKey, Tenants!RevokeApiKey,
         Tenants!Exists
<1> QED
  BY <1>4, <1>5, <1>6, <1>7, <1>8, <1>9, <1>10, <1>11 DEF Tenants!Next

(***************************************************************************)
(* The open links                                                          *)
(***************************************************************************)

LEMMA TenantLinksFinite ==
    /\ IsFiniteSet(Tenants!Links) /\ IsFiniteSet(TenantOpenLinks) /\ IsFiniteSet(TenantIssuing)
    /\ IsFiniteSet(Tenants!Links') /\ IsFiniteSet(TenantOpenLinks') /\ IsFiniteSet(TenantIssuing')
    /\ Cardinality(TenantOpenLinks) \in Nat /\ Cardinality(TenantOpenLinks') \in Nat
    /\ Cardinality(TenantIssuing) \in Nat /\ Cardinality(TenantIssuing') \in Nat
    /\ Cardinality(Operators) \in Nat
<1>1. IsFiniteSet(Tenants!Links)
  BY TenantsAssumption, FS_Interval DEF Tenants!Links
<1>2. TenantOpenLinks \subseteq Tenants!Links /\ TenantIssuing \subseteq Operators
  BY DEF TenantOpenLinks, TenantIssuing
<1>3. TenantOpenLinks' \subseteq Tenants!Links /\ TenantIssuing' \subseteq Operators
        /\ Tenants!Links' = Tenants!Links
  BY DEF TenantOpenLinks, TenantIssuing, Tenants!Links
<1>4. /\ IsFiniteSet(TenantOpenLinks) /\ IsFiniteSet(TenantIssuing)
      /\ IsFiniteSet(TenantOpenLinks') /\ IsFiniteSet(TenantIssuing')
  BY <1>1, <1>2, <1>3, FS_Subset, TenantsAssumption
<1> QED
  BY <1>1, <1>3, <1>4, FS_CardinalityType, TenantsAssumption

\* Neither set grows.
LEMMA TenantRoomStays ==
    ASSUME TenantRoom, TenantOpenLinks' \subseteq TenantOpenLinks,
           TenantIssuing' \subseteq TenantIssuing
    PROVE  TenantRoom'
<1>1. Cardinality(TenantOpenLinks') <= Cardinality(TenantOpenLinks)
  BY TenantLinksFinite, FS_Subset
<1>2. Cardinality(TenantIssuing') <= Cardinality(TenantIssuing)
  BY TenantLinksFinite, FS_Subset
<1> QED
  BY <1>1, <1>2, TenantLinksFinite DEF TenantRoom

LEMMA TenantRoomKept ==
    ASSUME Tenants!TypeOK, TenantRoom, [Tenants!Next]_tenantVars
    PROVE  TenantRoom'
<1>t. /\ link \in [Tenants!Links -> {"unissued", "open", "used", "expired", "deleted"}]
      /\ operating \in [Operators -> TenantCalls] /\ visit \in [Visitors -> TenantVisit]
  BY DEF Tenants!TypeOK, TenantCalls, TenantVisit
<1>a. ASSUME UNCHANGED link
      PROVE  TenantOpenLinks' \subseteq TenantOpenLinks
  BY <1>a DEF TenantOpenLinks, Tenants!Links
<1>b. ASSUME UNCHANGED operating
      PROVE  TenantIssuing' \subseteq TenantIssuing
  BY <1>b DEF TenantIssuing
<1>1. ASSUME NEW o \in Operators,
             Tenants!Create(o) \/ Tenants!ProvisionAdmin(o) \/ Tenants!Regenerate(o) \/ Tenants!ResetAdmin(o)
                 \/ Tenants!ResetTenant(o) \/ Tenants!CallFails(o)
      PROVE  TenantRoom'
  <2>1. UNCHANGED link
    BY <1>1
       DEF Tenants!Create, Tenants!ProvisionAdmin, Tenants!Regenerate, Tenants!ResetAdmin,
           Tenants!ResetTenant, Tenants!CallFails
  <2>2. PICK next \in TenantCalls : Tenants!Goes(o, next) /\ next.pc # "issue"
    BY <1>1, TenantCallPcs
       DEF Tenants!Create, Tenants!ProvisionAdmin, Tenants!Regenerate, Tenants!ResetAdmin,
           Tenants!ResetTenant, Tenants!CallFails
  <2>3. TenantIssuing' \subseteq TenantIssuing
    BY <1>t, <2>2, TenantGoesOn
  <2> QED
    BY <1>a, <2>1, <2>3, TenantRoomStays
<1>2. ASSUME NEW o \in Operators, Tenants!SpendLinks(o)
      PROVE  TenantRoom'
  <2>1. TenantOpenLinks' = {}
    BY <1>2, <1>t DEF Tenants!SpendLinks, TenantOpenLinks, Tenants!Links
  <2>2. TenantIssuing' \subseteq Operators
    BY DEF TenantIssuing
  <2>3. Cardinality(TenantOpenLinks') = 0
    BY <2>1, FS_EmptySet
  <2>4. Cardinality(TenantIssuing') <= Cardinality(Operators)
    BY <2>2, FS_Subset, TenantsAssumption
  <2> QED
    BY <2>3, <2>4, TenantLinksFinite DEF TenantRoom
<1>3. ASSUME NEW o \in Operators, Tenants!IssueLink(o)
      PROVE  TenantRoom'
  <2>1. TenantIssuing' \subseteq TenantIssuing \ {o} /\ o \in TenantIssuing
    BY <1>3, <1>t, TenantGoesOn, TenantCallPcs DEF Tenants!IssueLink, TenantIssuing
  <2>2. CASE ~admin.there
    BY <1>3, <1>a, <2>1, <2>2, TenantRoomStays DEF Tenants!IssueLink
  <2> SUFFICES ASSUME admin.there PROVE TenantRoom'
    BY <2>2
  <2>3. PICK l \in Tenants!Links : TenantOpenLinks' \subseteq TenantOpenLinks \cup {l}
    BY <1>3, <1>t DEF Tenants!IssueLink, TenantOpenLinks, Tenants!Links
  <2>4. /\ IsFiniteSet(TenantOpenLinks \cup {l})
        /\ Cardinality(TenantOpenLinks \cup {l}) <= Cardinality(TenantOpenLinks) + 1
    <3>1. IsFiniteSet(TenantOpenLinks) /\ Cardinality(TenantOpenLinks) \in Nat
      BY TenantLinksFinite
    <3>2. /\ IsFiniteSet(TenantOpenLinks \cup {l})
          /\ \/ Cardinality(TenantOpenLinks \cup {l}) = Cardinality(TenantOpenLinks)
             \/ Cardinality(TenantOpenLinks \cup {l}) = Cardinality(TenantOpenLinks) + 1
      BY <3>1, FS_AddElement
    <3> QED
      BY <3>1, <3>2
  <2>5. Cardinality(TenantOpenLinks') <= Cardinality(TenantOpenLinks) + 1
    BY <2>3, <2>4, FS_Subset, TenantLinksFinite, FS_CardinalityType
  <2>6. /\ IsFiniteSet(TenantIssuing \ {o})
        /\ Cardinality(TenantIssuing \ {o}) = Cardinality(TenantIssuing) - 1
    BY <2>1, TenantLinksFinite, FS_RemoveElement
  <2>7. Cardinality(TenantIssuing') <= Cardinality(TenantIssuing) - 1
    BY <2>1, <2>6, FS_Subset
  <2> QED
    BY <2>5, <2>7, TenantLinksFinite DEF TenantRoom
<1>4. CASE Tenants!HardDelete \/ Tenants!LinkExpires
  <2>1. TenantOpenLinks' \subseteq TenantOpenLinks
    BY <1>4, <1>t
       DEF Tenants!HardDelete, Tenants!LinkExpires, TenantOpenLinks, Tenants!Links
  <2> QED
    BY <1>4, <1>b, <2>1, TenantRoomStays DEF Tenants!HardDelete, Tenants!LinkExpires
<1>5. ASSUME NEW v \in Visitors, Tenants!Onboard(v)
      PROVE  TenantRoom'
  <2>1. TenantOpenLinks' \subseteq TenantOpenLinks
    BY <1>5, <1>t DEF Tenants!Onboard, TenantOpenLinks, Tenants!Links
  <2> QED
    BY <1>5, <1>b, <2>1, TenantRoomStays DEF Tenants!Onboard
<1>6. ASSUME NEW v \in Visitors,
             Tenants!OpenLink(v) \/ Tenants!StartChange(v) \/ Tenants!ChangePassword(v) \/ Tenants!VisitFails(v)
      PROVE  TenantRoom'
  BY <1>6, <1>a, <1>b, TenantRoomStays
     DEF Tenants!OpenLink, Tenants!StartChange, Tenants!ChangePassword, Tenants!VisitFails
<1>7. CASE (\E status \in {"SUSPENDED", "ACTIVE", "OFFBOARDED"} : Tenants!SetStatus(status))
              \/ Tenants!CompleteTenant \/ Tenants!UpsertIntegration \/ Tenants!CreateApiKey \/ Tenants!RevokeApiKey
              \/ UNCHANGED tenantVars
  BY <1>7, <1>a, <1>b, TenantRoomStays
     DEF Tenants!SetStatus, Tenants!CompleteTenant, Tenants!UpsertIntegration,
         Tenants!CreateApiKey, Tenants!RevokeApiKey, tenantVars
<1> QED
  BY <1>1, <1>2, <1>3, <1>4, <1>5, <1>6, <1>7 DEF Tenants!Next

LEMMA TenantInitially == Tenants!Init => TenantInv
<1> SUFFICES ASSUME Tenants!Init PROVE TenantInv
  OBVIOUS
<1>1. TenantOpenLinks = {} /\ TenantIssuing = {}
  BY DEF Tenants!Init, TenantOpenLinks, TenantIssuing, Tenants!Free, Tenants!Links
<1>2. TenantRoom
  BY <1>1, FS_EmptySet, TenantLinksFinite DEF TenantRoom
<1>3. Tenants!TypeOK
  BY DEF Tenants!Init, Tenants!TypeOK, Tenants!NoAdmin, Tenants!NoAssets, Tenants!Free,
         Tenants!Exists
<1> QED
  BY <1>2, <1>3 DEF TenantInv

LEMMA TenantKept ==
    ASSUME TenantInv, [Tenants!Next]_tenantVars
    PROVE  TenantInv'
  BY TenantTypes, TenantRoomKept DEF TenantInv

LEMMA TenantCardinality == \A S : Tenants!Cardinality(S) = Cardinality(S)
  BY DEF Tenants!Cardinality, Cardinality

LEMMA TenantRoomIsEnough == TenantInv => Tenants!LinksDoNotPileUp
<1> SUFFICES ASSUME TenantInv PROVE Tenants!LinksDoNotPileUp
  OBVIOUS
<1>1. Tenants!LinksDoNotPileUp <=> Cardinality(TenantOpenLinks) <= Cardinality(Operators)
  BY TenantCardinality DEF Tenants!LinksDoNotPileUp, TenantOpenLinks
<1> QED
  BY <1>1, TenantLinksFinite DEF TenantInv, TenantRoom

(***************************************************************************)
(* Privacy: runs and tasks keep their shape                                *)
(***************************************************************************)

ErasureAtTask == [pc : {"target", "close", "mark", "audit", "error"},
           at : DOMAIN task, batch : SUBSET DOMAIN task]

\* What a run may be is what it may be when there are more tasks.
LEMMA ErasureDoingGrows ==
    ASSUME DOMAIN task \subseteq DOMAIN task'
    PROVE  Erasure!Doing \subseteq Erasure!Doing'
<1>1. ASSUME NEW d \in Erasure!Doing
      PROVE  d \in Erasure!Doing'
  <2>1. CASE d \in [pc : {"target", "close", "mark", "audit", "error"},
                    at : DOMAIN task, batch : SUBSET DOMAIN task]
    <3>1. SUBSET DOMAIN task \subseteq SUBSET DOMAIN task'
      OBVIOUS
    <3>2. d \in [pc : {"target", "close", "mark", "audit", "error"},
                 at : DOMAIN task', batch : SUBSET DOMAIN task']
      BY <2>1, <3>1
    <3> QED
      BY <3>2 DEF Erasure!Doing
  <2>2. CASE d \notin [pc : {"target", "close", "mark", "audit", "error"},
                       at : DOMAIN task, batch : SUBSET DOMAIN task]
    BY <2>2 DEF Erasure!Doing, Erasure!Targets
  <2> QED
    BY <2>1, <2>2
<1> QED
  BY <1>1

\* A run goes on to next.
LEMMA ErasureRunGoesOn ==
    ASSUME run \in [Runs -> Erasure!Doing], DOMAIN task \subseteq DOMAIN task',
           NEW r \in Runs, NEW next \in Erasure!Doing', Erasure!Moves(r, next)
    PROVE  run' \in [Runs -> Erasure!Doing']
  BY ErasureDoingGrows DEF Erasure!Moves

LEMMA ErasureRunsStay ==
    ASSUME run \in [Runs -> Erasure!Doing], DOMAIN task \subseteq DOMAIN task',
           UNCHANGED run
    PROVE  run' \in [Runs -> Erasure!Doing']
  BY ErasureDoingGrows

\* A run between two queries of one task is at that task.
LEMMA ErasureRunAtTask ==
    ASSUME NEW d \in Erasure!Doing, d.pc \notin {"off", "ensure", "queue"}
    PROVE  d \in ErasureAtTask
  BY DEF Erasure!Doing, ErasureAtTask

LEMMA ErasureAtTaskMoves ==
    ASSUME NEW d \in ErasureAtTask, NEW pc \in {"target", "close", "mark", "audit", "error"}
    PROVE  [d EXCEPT !.pc = pc] \in Erasure!Doing
  BY DEF Erasure!Doing, ErasureAtTask

LEMMA ErasureTakeFirstTypes ==
    ASSUME run \in [Runs -> Erasure!Doing], NEW r \in Runs,
           NEW batch \in SUBSET DOMAIN task,
           Erasure!TakeFirst(r, batch), DOMAIN task = DOMAIN task'
    PROVE  run' \in [Runs -> Erasure!Doing']
<1>1. CASE batch = {}
  <2>1. Erasure!Off \in Erasure!Doing'
    BY DEF Erasure!Off, Erasure!Doing
  <2> QED
    BY <1>1, <2>1, ErasureRunGoesOn DEF Erasure!TakeFirst
<1>2. CASE batch # {}
  <2>1. PICK i \in batch : Erasure!Moves(r, [pc |-> "target", at |-> i, batch |-> batch \ {i}])
    BY <1>2 DEF Erasure!TakeFirst
  <2>2. i \in DOMAIN task' /\ batch \ {i} \in SUBSET DOMAIN task'
    OBVIOUS
  <2>3. [pc |-> "target", at |-> i, batch |-> batch \ {i}] \in Erasure!Doing'
    BY <2>2 DEF Erasure!Doing
  <2> QED
    BY <2>1, <2>3, ErasureRunGoesOn
<1> QED
  BY <1>1, <1>2

LEMMA ErasureEnsuringTypes ==
    /\ \A todo \in SUBSET Erasure!Targets : [pc |-> "ensure", todo |-> todo] \in Erasure!Doing
    /\ \A t \in Erasure!Targets, todo \in SUBSET Erasure!Targets :
           [pc |-> "queue", target |-> t, todo |-> todo] \in Erasure!Doing
    /\ Erasure!Off \in Erasure!Doing
  BY DEF Erasure!Doing, Erasure!Off

LEMMA ErasureAppendTypes ==
    ASSUME task \in Seq(Erasure!Task), NEW t \in Erasure!Task, task' = Append(task, t)
    PROVE  task' \in Seq(Erasure!Task) /\ DOMAIN task \subseteq DOMAIN task'
<1>1. Len(task) \in Nat /\ DOMAIN task = 1 .. Len(task)
  BY LenProperties
<1>2. task' \in Seq(Erasure!Task) /\ DOMAIN task' = 1 .. (Len(task) + 1)
  BY AppendProperties, <1>1
<1> QED
  BY <1>1, <1>2

LEMMA ErasureWithStatusTypes ==
    ASSUME task \in Seq(Erasure!Task), NEW r \in Runs, run[r] \in ErasureAtTask,
           NEW status \in {"processed", "error"}, Erasure!WithStatus(r, status)
    PROVE  task' \in Seq(Erasure!Task) /\ DOMAIN task = DOMAIN task'
<1> DEFINE t == [task[run[r].at] EXCEPT !.status = status]
<1>1. run[r].at \in DOMAIN task /\ DOMAIN task = 1 .. Len(task) /\ Len(task) \in Nat
  BY LenProperties DEF ErasureAtTask
<1>2. task[run[r].at] \in Erasure!Task
  BY <1>1, ElementOfSeq
<1>3. t \in Erasure!Task
  BY <1>2 DEF Erasure!Task
<1>4. task' = [task EXCEPT ![run[r].at] = t]
  BY DEF Erasure!WithStatus
<1> QED
  BY <1>1, <1>3, <1>4, ExceptSeq

LEMMA ErasureInitially == Erasure!Init => Erasure!TypeOK
  BY ErasureAssumption, ErasureEnsuringTypes, EmptySeq DEF Erasure!Init, Erasure!TypeOK

LEMMA ErasureTypes ==
    ASSUME Erasure!TypeOK, [Erasure!Next]_erasureVars
    PROVE  Erasure!TypeOK'
<1> DEFINE People   == [deleted : BOOLEAN, due : BOOLEAN, anonymized : BOOLEAN]
           Statuses == {"none", "queued", "completed", "old", "deleted"}
<1>t. /\ person \in People /\ asked \in [Asked -> Statuses] /\ task \in Seq(Erasure!Task)
      /\ run \in [Runs -> Erasure!Doing] /\ faults \in 0 .. MaxFaults
  BY DEF Erasure!TypeOK
<1>q. ASSUME person' \in People, asked' \in [Asked -> Statuses],
             task' \in Seq(Erasure!Task),
             run' \in [Runs -> Erasure!Doing'], faults' \in 0 .. MaxFaults
      PROVE  Erasure!TypeOK'
  BY <1>q DEF Erasure!TypeOK
<1>f. ASSUME Erasure!Fault \/ UNCHANGED faults
      PROVE  faults' \in 0 .. MaxFaults
  BY <1>f, <1>t, ErasureAssumption DEF Erasure!Fault
<1>r. ASSUME UNCHANGED <<run, task>>
      PROVE  run' \in [Runs -> Erasure!Doing'] /\ task' \in Seq(Erasure!Task)
  BY <1>r, <1>t, ErasureRunsStay
<1>1. ASSUME NEW q \in Asked, Erasure!RequestDeletion(q)
      PROVE  Erasure!TypeOK'
  <2>1. [target |-> "person", closes |-> q, due |-> FALSE, status |-> "queued"] \in Erasure!Task
    BY DEF Erasure!Task, Erasure!Targets
  <2>2. task' \in Seq(Erasure!Task) /\ DOMAIN task \subseteq DOMAIN task'
    BY <1>1, <1>t, <2>1, ErasureAppendTypes DEF Erasure!RequestDeletion
  <2>3. run' \in [Runs -> Erasure!Doing']
    BY <1>1, <1>t, <2>2, ErasureRunsStay DEF Erasure!RequestDeletion
  <2>4. person' \in People /\ asked' \in [Asked -> Statuses] /\ UNCHANGED faults
    BY <1>1, <1>t DEF Erasure!RequestDeletion
  <2> QED
    BY <1>q, <1>f, <2>2, <2>3, <2>4
<1>2. CASE Erasure!GraceEnds
  <2>1. /\ Len(task) \in Nat /\ DOMAIN task = 1 .. Len(task)
        /\ \A i \in 1 .. Len(task) : task[i] \in Erasure!Task
    BY <1>t, LenProperties, ElementOfSeq
  <2>2. \A t \in Erasure!Task : [t EXCEPT !.due = TRUE] \in Erasure!Task
    BY DEF Erasure!Task
  <2>3. task' = [i \in 1 .. Len(task) |-> [task[i] EXCEPT !.due = TRUE]]
    BY <1>2, <2>1 DEF Erasure!GraceEnds
  <2>4. task' \in [1 .. Len(task) -> Erasure!Task]
    BY <2>1, <2>2, <2>3
  <2>5. task' \in Seq(Erasure!Task) /\ DOMAIN task \subseteq DOMAIN task'
    BY <2>1, <2>4, SeqDef
  <2>6. run' \in [Runs -> Erasure!Doing']
    BY <1>2, <1>t, <2>5, ErasureRunsStay DEF Erasure!GraceEnds
  <2>7. person' \in People /\ UNCHANGED <<asked, faults>>
    BY <1>2, <1>t DEF Erasure!GraceEnds
  <2> QED
    BY <1>q, <1>f, <1>t, <2>5, <2>6, <2>7
<1>3. CASE Erasure!RequestAges
  BY <1>3, <1>q, <1>f, <1>r, <1>t DEF Erasure!RequestAges
<1>4. ASSUME NEW r \in Runs, Erasure!RunStep(r) \/ Erasure!RunEnds(r)
      PROVE  Erasure!TypeOK'
  <2>1. CASE Erasure!Scan(r) \/ Erasure!EnsureTask(r) \/ Erasure!RunEnds(r)
    <3>1. UNCHANGED <<person, asked, task>> /\ (Erasure!Fault \/ UNCHANGED faults)
      BY <2>1 DEF Erasure!Scan, Erasure!EnsureTask, Erasure!RunEnds
    <3>2. DOMAIN task \subseteq DOMAIN task' /\ Erasure!Doing \subseteq Erasure!Doing'
      BY <3>1, ErasureDoingGrows
    <3>3. \E next \in Erasure!Doing : Erasure!Moves(r, next)
      <4>1. CASE Erasure!Scan(r)
        <5> DEFINE todo == {q \in Asked : asked[q] = "old"}
                  \cup (IF person.due /\ ~person.anonymized THEN {"person"} ELSE {})
        <5>1. todo \in SUBSET Erasure!Targets
          BY DEF Erasure!Targets
        <5>2. Erasure!Moves(r, [pc |-> "ensure", todo |-> todo])
          BY <4>1 DEF Erasure!Scan
        <5> QED
          BY <5>1, <5>2, ErasureEnsuringTypes
      <4>2. CASE Erasure!EnsureTask(r)
        <5>1. run[r] \in Erasure!Doing /\ run[r].pc = "ensure"
          BY <1>t, <4>2 DEF Erasure!EnsureTask
        <5>2. run[r].todo \in SUBSET Erasure!Targets
          BY <5>1 DEF Erasure!Doing
        <5>3. PICK t \in run[r].todo :
                 \/ Erasure!Moves(r, [pc |-> "ensure", todo |-> run[r].todo \ {t}])
                 \/ Erasure!Moves(r, [pc |-> "queue", target |-> t, todo |-> run[r].todo \ {t}])
          BY <4>2 DEF Erasure!EnsureTask
        <5>4. t \in Erasure!Targets /\ run[r].todo \ {t} \in SUBSET Erasure!Targets
          BY <5>2
        <5> QED
          BY <5>3, <5>4, ErasureEnsuringTypes
      <4>3. CASE Erasure!RunEnds(r)
        BY <4>3, ErasureEnsuringTypes DEF Erasure!RunEnds
      <4> QED
        BY <2>1, <4>1, <4>2, <4>3
    <3>4. run' \in [Runs -> Erasure!Doing']
      BY <1>t, <3>2, <3>3, ErasureRunGoesOn
    <3> QED
      BY <1>q, <1>f, <1>t, <3>1, <3>4
  <2>2. CASE Erasure!QueueTask(r)
    <3>1. run[r] \in Erasure!Doing /\ run[r].pc = "queue"
      BY <1>t, <2>2 DEF Erasure!QueueTask
    <3>2. run[r].target \in Erasure!Targets /\ run[r].todo \in SUBSET Erasure!Targets
      BY <3>1 DEF Erasure!Doing
    <3>3. [target |-> run[r].target, closes |-> "none", due |-> TRUE, status |-> "queued"]
            \in Erasure!Task
      BY <3>2 DEF Erasure!Task
    <3>4. task' \in Seq(Erasure!Task) /\ DOMAIN task \subseteq DOMAIN task'
      BY <1>t, <2>2, <3>3, ErasureAppendTypes DEF Erasure!QueueTask
    <3>5. [pc |-> "ensure", todo |-> run[r].todo] \in Erasure!Doing'
      BY <3>2, <3>4, ErasureEnsuringTypes, ErasureDoingGrows
    <3>6. run' \in [Runs -> Erasure!Doing']
      BY <1>t, <2>2, <3>4, <3>5, ErasureRunGoesOn DEF Erasure!QueueTask
    <3> QED
      BY <1>q, <1>f, <1>t, <2>2, <3>4, <3>6 DEF Erasure!QueueTask
  <2>3. CASE Erasure!ListTasks(r)
    <3>1. UNCHANGED <<person, asked, task, faults>>
      BY <2>3 DEF Erasure!ListTasks
    <3>2. {i \in DOMAIN task : task[i].status = "queued" /\ task[i].due} \in SUBSET DOMAIN task
      OBVIOUS
    <3>3. run' \in [Runs -> Erasure!Doing']
      BY <1>t, <2>3, <3>1, <3>2, ErasureTakeFirstTypes DEF Erasure!ListTasks
    <3> QED
      BY <1>q, <1>f, <1>t, <3>1, <3>3
  <2> SUFFICES ASSUME Erasure!WorkOff(r) \/ Erasure!CloseRequest(r) \/ Erasure!MarkProcessed(r) \/ Erasure!WriteAudit(r)
                          \/ Erasure!MarkError(r)
               PROVE  Erasure!TypeOK'
    BY <1>4, <2>1, <2>2, <2>3 DEF Erasure!RunStep
  <2>4. run[r] \in ErasureAtTask
    BY <1>t, ErasureRunAtTask
       DEF Erasure!WorkOff, Erasure!CloseRequest, Erasure!MarkProcessed, Erasure!WriteAudit,
           Erasure!MarkError
  <2>5. run[r].at \in DOMAIN task /\ run[r].batch \in SUBSET DOMAIN task
    BY <2>4 DEF ErasureAtTask
  <2>6. Erasure!Current(r) \in Erasure!Task
    BY <1>t, <2>5, LenProperties, ElementOfSeq DEF Erasure!Current
  <2>7. Erasure!Current(r).target \in Erasure!Targets
          /\ Erasure!Current(r).closes \in Asked \cup {"none"}
    BY <2>6 DEF Erasure!Task
  <2>8. ASSUME NEW pc \in {"target", "close", "mark", "audit", "error"},
               Erasure!NextPc(r, pc),
               DOMAIN task = DOMAIN task'
        PROVE  run' \in [Runs -> Erasure!Doing']
    <3>1. [run[r] EXCEPT !.pc = pc] \in Erasure!Doing'
      BY <2>4, <2>8, ErasureAtTaskMoves, ErasureDoingGrows
    <3> QED
      BY <1>t, <2>8, <3>1, ErasureRunGoesOn DEF Erasure!NextPc
  <2>9. CASE Erasure!WorkOff(r)
    <3>1. UNCHANGED task /\ Erasure!NextPc(r, "close")
      BY <2>9 DEF Erasure!WorkOff
    <3>2. (Erasure!Fault \/ UNCHANGED faults) /\ person' \in People
      BY <1>t, <2>9 DEF Erasure!WorkOff, Erasure!Swallowed
    <3>3. asked' \in [Asked -> Statuses]
      BY <1>t, <2>7, <2>9 DEF Erasure!WorkOff, Erasure!Swallowed, Erasure!Targets
    <3> QED
      BY <1>q, <1>f, <1>t, <2>8, <3>1, <3>2, <3>3
  <2>10. CASE Erasure!CloseRequest(r)
    <3>1. UNCHANGED <<person, task>> /\ Erasure!NextPc(r, "mark")
      BY <2>10 DEF Erasure!CloseRequest
    <3>2. Erasure!Fault \/ UNCHANGED faults
      BY <2>10 DEF Erasure!CloseRequest, Erasure!Swallowed
    <3>3. asked' \in [Asked -> Statuses]
      BY <1>t, <2>7, <2>10 DEF Erasure!CloseRequest, Erasure!Swallowed
    <3> QED
      BY <1>q, <1>f, <1>t, <2>8, <3>1, <3>2, <3>3
  <2>11. CASE Erasure!MarkProcessed(r)
    <3>1. UNCHANGED <<person, asked>> /\ (Erasure!Fault \/ UNCHANGED faults)
      BY <2>11 DEF Erasure!MarkProcessed
    <3>2. task' \in Seq(Erasure!Task) /\ DOMAIN task = DOMAIN task'
      BY <1>t, <2>4, <2>11, ErasureWithStatusTypes DEF Erasure!MarkProcessed
    <3> QED
      BY <1>q, <1>f, <1>t, <2>8, <2>11, <3>1, <3>2 DEF Erasure!MarkProcessed
  <2>12. CASE Erasure!WriteAudit(r)
    <3>1. UNCHANGED <<person, asked, task>> /\ (Erasure!Fault \/ UNCHANGED faults)
      BY <2>12 DEF Erasure!WriteAudit
    <3>2. run' \in [Runs -> Erasure!Doing']
      BY <1>t, <2>5, <2>8, <2>12, <3>1, ErasureTakeFirstTypes
         DEF Erasure!WriteAudit, Erasure!NextTask
    <3> QED
      BY <1>q, <1>f, <1>t, <3>1, <3>2
  <2>13. CASE Erasure!MarkError(r)
    <3>1. UNCHANGED <<person, asked>> /\ (Erasure!Fault \/ UNCHANGED faults)
      BY <2>13 DEF Erasure!MarkError, Erasure!Swallowed
    <3>2. task' \in Seq(Erasure!Task) /\ DOMAIN task = DOMAIN task'
      BY <1>t, <2>4, <2>13, ErasureWithStatusTypes DEF Erasure!MarkError, Erasure!Swallowed
    <3>3. run' \in [Runs -> Erasure!Doing']
      BY <1>t, <2>5, <2>13, <3>2, ErasureTakeFirstTypes
         DEF Erasure!MarkError, Erasure!NextTask
    <3> QED
      BY <1>q, <1>f, <1>t, <3>1, <3>2, <3>3
  <2> QED
    BY <2>9, <2>10, <2>11, <2>12, <2>13
<1>5. CASE UNCHANGED erasureVars
  BY <1>5, <1>q, <1>f, <1>r, <1>t DEF erasureVars
<1> QED
  BY <1>1, <1>2, <1>3, <1>4, <1>5 DEF Erasure!Next

(***************************************************************************)
(* DataDeletion: what says COMPLETED was carried out                       *)
(***************************************************************************)

DeletionStatuses == {"none", "PENDING", "PROCESSING", "COMPLETED", "CANCELLED", "FAILED"}
DeletionJobRecord == [pc : Deletion!Steps \cup {"COMPLETED", "FAILED"}, of : Deletions]

\* What a run and a request that are under way look like.
DeletionShape ==
    /\ request \in [Deletion!Requests -> DeletionStatuses]
    /\ job \in [Jobs -> DeletionJobRecord \cup {Deletion!Quiet}]
    /\ call \in [Callers -> [pc : {"verify", "cancel"}, of : Deletions] \cup {Deletion!Quiet}]

\* The steps a run at pc has behind it.
DeletionBehind(pc) ==
    CASE pc = "mfa"                                    -> {"deactivate"}
      [] pc \in {"requests", "profile", "COMPLETED"}   -> {"deactivate", "mfa"}
      [] OTHER                                         -> {}

\* A run that has passed a step carried it out, and done only grows.
DeletionJobsDid == \A j \in Jobs : DeletionBehind(job[j].pc) \subseteq done

\* Exports too are marked by a run: nothing else writes COMPLETED.
DeletionNothingCompletedEarly ==
    (\E q \in Deletion!Requests : request[q] = "COMPLETED") => {"deactivate",
         "mfa"} \subseteq done

DeletionInv == DeletionShape /\ DeletionJobsDid /\ DeletionNothingCompletedEarly

(***************************************************************************)
(* Parts of steps                                                          *)
(***************************************************************************)

\* A run goes on to next: it is still a run, and did what next has behind it.
LEMMA DeletionWorksKeeps ==
    ASSUME DeletionShape, DeletionJobsDid, NEW j \in Jobs,
           NEW next \in DeletionJobRecord \cup {Deletion!Quiet},
           Deletion!Works(j, next), done \subseteq done', DeletionBehind(next.pc) \subseteq done'
    PROVE  job' \in [Jobs -> DeletionJobRecord \cup {Deletion!Quiet}] /\ DeletionJobsDid'
<1>1. /\ job' \in [Jobs -> DeletionJobRecord \cup {Deletion!Quiet}]
      /\ \A i \in Jobs : job'[i] = IF i = j THEN next ELSE job[i]
  BY DEF Deletion!Works, DeletionShape
<1>2. ASSUME NEW i \in Jobs
      PROVE  DeletionBehind(job'[i].pc) \subseteq done'
  <2>1. CASE i = j
    BY <1>1, <2>1
  <2>2. CASE i # j
    BY <1>1, <2>2 DEF DeletionJobsDid
  <2> QED
    BY <2>1, <2>2
<1> QED
  BY <1>1, <1>2 DEF DeletionJobsDid

LEMMA DeletionLaunchKeeps ==
    ASSUME DeletionShape, DeletionJobsDid, NEW q \in Deletions, Deletion!Launch(q),
           UNCHANGED done
    PROVE  job' \in [Jobs -> DeletionJobRecord \cup {Deletion!Quiet}] /\ DeletionJobsDid'
<1>1. PICK j \in Jobs : Deletion!Works(j, [pc |-> "deactivate", of |-> q])
  BY DEF Deletion!Launch
<1>2. [pc |-> "deactivate", of |-> q] \in DeletionJobRecord
  BY DEF DeletionJobRecord, Deletion!Steps
<1>3. DeletionBehind("deactivate") = {}
  BY DEF DeletionBehind
<1> QED
  BY <1>1, <1>2, <1>3, DeletionWorksKeeps

LEMMA DeletionCallsKeeps ==
    ASSUME DeletionShape, NEW c \in Callers,
           NEW next \in [pc : {"verify", "cancel"}, of : Deletions] \cup {Deletion!Quiet},
           Deletion!Calls(c, next)
    PROVE  call' \in [Callers -> [pc : {"verify", "cancel"},
           of : Deletions] \cup {Deletion!Quiet}]
  BY DEF DeletionShape, Deletion!Calls

\* A status other than COMPLETED is recorded.
LEMMA DeletionRecordKeeps ==
    ASSUME DeletionShape, DeletionNothingCompletedEarly, NEW q \in Deletion!Requests,
           NEW status \in DeletionStatuses \ {"COMPLETED"}, Deletion!Record(q, status),
                UNCHANGED done
    PROVE  request' \in [Deletion!Requests -> DeletionStatuses]
             /\ DeletionNothingCompletedEarly'
<1>1. /\ request' \in [Deletion!Requests -> DeletionStatuses]
      /\ \A r \in Deletion!Requests : request'[r] = "COMPLETED" => request[r] = "COMPLETED"
  BY DEF DeletionShape, Deletion!Record
<1> QED
  BY <1>1 DEF DeletionNothingCompletedEarly

LEMMA DeletionUnderWay ==
    ASSUME DeletionShape, NEW j \in Jobs, job[j].pc # "quiet"
    PROVE  job[j] \in DeletionJobRecord
  BY DEF DeletionShape, Deletion!Quiet

(***************************************************************************)
(* Steps                                                                   *)
(***************************************************************************)

LEMMA DeletionInvariant ==
    ASSUME DeletionInv, [Deletion!Next]_deletionVars
    PROVE  DeletionInv'
<1> USE DEF DeletionInv
<1>0. Deletions \subseteq Deletion!Requests /\ Exports \subseteq Deletion!Requests
  BY DEF Deletion!Requests
<1>a. ASSUME UNCHANGED <<request, done>>
      PROVE  request' \in [Deletion!Requests -> DeletionStatuses]
               /\ DeletionNothingCompletedEarly'
  BY <1>a DEF DeletionShape, DeletionNothingCompletedEarly
<1>b. ASSUME UNCHANGED <<job, done>>
      PROVE  job' \in [Jobs -> DeletionJobRecord \cup {Deletion!Quiet}] /\ DeletionJobsDid'
  BY <1>b DEF DeletionShape, DeletionJobsDid
<1>1. ASSUME NEW q \in Deletions, Deletion!RequestDeletion(q)
      PROVE  DeletionInv'
  <2>1. request' \in [Deletion!Requests -> DeletionStatuses]
          /\ DeletionNothingCompletedEarly'
    BY <1>0, <1>1, DeletionRecordKeeps DEF Deletion!RequestDeletion, DeletionStatuses
  <2>2. job' \in [Jobs -> DeletionJobRecord \cup {Deletion!Quiet}] /\ DeletionJobsDid'
    BY <1>1, <1>b, DeletionLaunchKeeps DEF Deletion!RequestDeletion
  <2> QED
    BY <1>1, <2>1, <2>2 DEF Deletion!RequestDeletion, DeletionShape
<1>2. ASSUME NEW q \in Exports, Deletion!ScheduleExport(q)
      PROVE  DeletionInv'
  <2>1. request' \in [Deletion!Requests -> DeletionStatuses]
          /\ DeletionNothingCompletedEarly'
    BY <1>0, <1>2, DeletionRecordKeeps DEF Deletion!ScheduleExport, DeletionStatuses
  <2> QED
    BY <1>2, <1>b, <2>1 DEF Deletion!ScheduleExport, DeletionShape
<1>3. ASSUME NEW c \in Callers, Deletion!FindPending(c)
      PROVE  DeletionInv'
  <2>1. PICK q \in Deletions, pc \in {"verify", "cancel"} : Deletion!Calls(c, [pc |-> pc,
             of |-> q])
    BY <1>3 DEF Deletion!FindPending
  <2>2. call' \in [Callers -> [pc : {"verify", "cancel"}, of : Deletions] \cup {Deletion!Quiet}]
    BY <2>1, DeletionCallsKeeps
  <2> QED
    BY <1>3, <1>a, <1>b, <2>2 DEF Deletion!FindPending, DeletionShape
<1>4. ASSUME NEW c \in Callers, Deletion!Verify(c) \/ Deletion!Cancel(c)
      PROVE  DeletionInv'
  <2> DEFINE q == call[c].of
  <2>1. q \in Deletions
    BY <1>4 DEF Deletion!Verify, Deletion!Cancel, DeletionShape, Deletion!Quiet
  <2>2. call' \in [Callers -> [pc : {"verify", "cancel"}, of : Deletions] \cup {Deletion!Quiet}]
    BY <1>4, DeletionCallsKeeps DEF Deletion!Verify, Deletion!Cancel
  <2>3. request' \in [Deletion!Requests -> DeletionStatuses]
          /\ DeletionNothingCompletedEarly'
    BY <1>0, <1>4, <2>1, DeletionRecordKeeps
       DEF Deletion!Verify, Deletion!Cancel, DeletionStatuses
  <2>4. job' \in [Jobs -> DeletionJobRecord \cup {Deletion!Quiet}] /\ DeletionJobsDid'
    BY <1>4, <1>b, <2>1, DeletionLaunchKeeps DEF Deletion!Verify, Deletion!Cancel
  <2> QED
    BY <2>2, <2>3, <2>4 DEF DeletionShape
<1>5. ASSUME NEW c \in Callers, Deletion!CallFails(c)
      PROVE  DeletionInv'
  BY <1>5, <1>a, <1>b, DeletionCallsKeeps DEF Deletion!CallFails, DeletionShape
<1>6. ASSUME NEW j \in Jobs,
             Deletion!Deactivate(j) \/ Deletion!RemoveMfa(j) \/ Deletion!SoftDelete(j)
      PROVE  DeletionInv'
  <2>1. job[j] \in DeletionJobRecord /\ DeletionBehind(job[j].pc) \subseteq done
    BY <1>6, DeletionUnderWay
       DEF Deletion!Deactivate, Deletion!RemoveMfa, Deletion!SoftDelete, DeletionJobsDid
  <2>2. PICK step \in Deletion!Steps, next \in {"mfa", "requests", "COMPLETED"} :
            /\ Deletion!StepDone(j, step, next)
            /\ DeletionBehind(next) \subseteq DeletionBehind(job[j].pc) \cup {step}
    BY <1>6
       DEF Deletion!Deactivate, Deletion!RemoveMfa, Deletion!SoftDelete, DeletionBehind,
           Deletion!Steps
  <2>3. [job[j] EXCEPT !.pc = next] \in DeletionJobRecord
          /\ [job[j] EXCEPT !.pc = next].pc = next
    BY <2>1 DEF DeletionJobRecord, Deletion!Steps
  <2>4. job' \in [Jobs -> DeletionJobRecord \cup {Deletion!Quiet}] /\ DeletionJobsDid'
          /\ done \subseteq done'
    BY <2>1, <2>2, <2>3, DeletionWorksKeeps DEF Deletion!StepDone
  <2>5. request' = request /\ call' = call
    BY <1>6 DEF Deletion!Deactivate, Deletion!RemoveMfa, Deletion!SoftDelete
  <2> QED
    BY <2>4, <2>5 DEF DeletionShape, DeletionNothingCompletedEarly
<1>7. ASSUME NEW j \in Jobs, Deletion!CompleteRequests(j)
      PROVE  DeletionInv'
  <2>1. job[j] \in DeletionJobRecord /\ {"deactivate", "mfa"} \subseteq done
    BY <1>7, DeletionUnderWay DEF Deletion!CompleteRequests, DeletionJobsDid, DeletionBehind
  <2>2. /\ [job[j] EXCEPT !.pc = "profile"] \in DeletionJobRecord
        /\ [job[j] EXCEPT !.pc = "profile"].pc = "profile"
    BY <2>1 DEF DeletionJobRecord, Deletion!Steps
  <2>3. DeletionBehind("profile") = {"deactivate", "mfa"}
    BY DEF DeletionBehind
  <2>4. job' \in [Jobs -> DeletionJobRecord \cup {Deletion!Quiet}] /\ DeletionJobsDid'
          /\ done \subseteq done'
    BY <1>7, <2>1, <2>2, <2>3, DeletionWorksKeeps
       DEF Deletion!CompleteRequests, Deletion!StepDone
  <2>5. request' \in [Deletion!Requests -> DeletionStatuses]
    BY <1>7 DEF Deletion!CompleteRequests, DeletionStatuses
  <2> QED
    BY <1>7, <2>1, <2>4, <2>5
       DEF Deletion!CompleteRequests, DeletionShape, DeletionNothingCompletedEarly
<1>8. ASSUME NEW j \in Jobs, Deletion!StepFails(j)
      PROVE  DeletionInv'
  <2>1. job[j] \in DeletionJobRecord
    BY <1>8, DeletionUnderWay DEF Deletion!StepFails, Deletion!Steps
  <2>2. /\ [job[j] EXCEPT !.pc = "FAILED"] \in DeletionJobRecord
        /\ [job[j] EXCEPT !.pc = "FAILED"].pc = "FAILED"
    BY <2>1 DEF DeletionJobRecord, Deletion!Steps
  <2>3. DeletionBehind("FAILED") = {}
    BY DEF DeletionBehind
  <2> QED
    BY <1>8, <1>a, <2>2, <2>3, DeletionWorksKeeps DEF Deletion!StepFails, DeletionShape
<1>9. ASSUME NEW j \in Jobs, Deletion!RecordResult(j)
      PROVE  DeletionInv'
  <2>1. job[j] \in DeletionJobRecord
    BY <1>9, DeletionUnderWay DEF Deletion!RecordResult
  <2>2. job[j].of \in Deletion!Requests
    BY <1>0, <2>1 DEF DeletionJobRecord
  <2>3. DeletionBehind(Deletion!Quiet.pc) = {}
    BY DEF DeletionBehind, Deletion!Quiet
  <2>4. job' \in [Jobs -> DeletionJobRecord \cup {Deletion!Quiet}] /\ DeletionJobsDid'
    BY <1>9, <2>3, DeletionWorksKeeps DEF Deletion!RecordResult
  <2>5. CASE job[j].pc = "FAILED"
    BY <1>9, <2>2, <2>4, <2>5, DeletionRecordKeeps
       DEF Deletion!RecordResult, DeletionStatuses, DeletionShape
  <2>6. CASE job[j].pc = "COMPLETED"
    <3>1. {"deactivate", "mfa"} \subseteq done
      BY <2>6 DEF DeletionJobsDid, DeletionBehind
    <3>2. request' \in [Deletion!Requests -> DeletionStatuses]
      BY <1>9, <2>6
         DEF Deletion!RecordResult, Deletion!Record, DeletionShape, DeletionStatuses
    <3> QED
      BY <1>9, <2>4, <3>1, <3>2
         DEF Deletion!RecordResult, DeletionShape, DeletionNothingCompletedEarly
  <2> QED
    BY <1>9, <2>5, <2>6 DEF Deletion!RecordResult
<1>10. ASSUME NEW j \in Jobs, Deletion!JobEnds(j)
       PROVE  DeletionInv'
  <2>1. DeletionBehind(Deletion!Quiet.pc) = {}
    BY DEF DeletionBehind, Deletion!Quiet
  <2> QED
    BY <1>10, <1>a, <2>1, DeletionWorksKeeps DEF Deletion!JobEnds, DeletionShape
<1>11. CASE Deletion!HoldChanges \/ Deletion!Reactivate \/ Deletion!RetentionPasses \/ Deletion!PermanentDeletion
              \/ UNCHANGED deletionVars
  BY <1>11, <1>a, <1>b
     DEF Deletion!HoldChanges, Deletion!Reactivate, Deletion!RetentionPasses,
         Deletion!PermanentDeletion, deletionVars, DeletionShape
<1> QED
  BY <1>1, <1>2, <1>3, <1>4, <1>5, <1>6, <1>7, <1>8, <1>9, <1>10, <1>11 DEF Deletion!Next

\* The rest of the shape of the state: the user's row, the holds and the history.
DeletionRows ==
    /\ user \in [there : BOOLEAN, status : {"ACTIVE", "DELETED"}, mfa : BOOLEAN,
                 deletedAt : {"never", "recently", "years ago"}]
    /\ held \in BOOLEAN
    /\ done \subseteq Deletion!Steps

LEMMA DeletionRowsKept ==
    ASSUME DeletionRows, [Deletion!Next]_deletionVars
    PROVE  DeletionRows'
<1>1. ASSUME NEW j \in Jobs,
             Deletion!Deactivate(j) \/ Deletion!RemoveMfa(j) \/ Deletion!SoftDelete(j)
      PROVE  DeletionRows'
  <2>1. \E step \in Deletion!Steps : done' = done \cup {step}
    BY <1>1
       DEF Deletion!Deactivate, Deletion!RemoveMfa, Deletion!SoftDelete, Deletion!StepDone,
           Deletion!Steps
  <2>2. /\ user' \in [there : BOOLEAN, status : {"ACTIVE", "DELETED"}, mfa : BOOLEAN,
                     deletedAt : {"never", "recently", "years ago"}]
        /\ held' = held
    BY <1>1 DEF Deletion!Deactivate, Deletion!RemoveMfa, Deletion!SoftDelete, DeletionRows
  <2> QED
    BY <2>1, <2>2 DEF DeletionRows
<1>2. ASSUME NEW j \in Jobs,
             Deletion!CompleteRequests(j) \/ Deletion!StepFails(j) \/ Deletion!RecordResult(j) \/ Deletion!JobEnds(j)
      PROVE  DeletionRows'
  BY <1>2
     DEF Deletion!CompleteRequests, Deletion!StepFails, Deletion!RecordResult,
         Deletion!JobEnds, Deletion!StepDone, Deletion!Steps, DeletionRows
<1>3. ASSUME NEW c \in Callers,
             Deletion!FindPending(c) \/ Deletion!Verify(c) \/ Deletion!Cancel(c) \/ Deletion!CallFails(c)
      PROVE  DeletionRows'
  BY <1>3
     DEF Deletion!FindPending, Deletion!Verify, Deletion!Cancel, Deletion!CallFails,
         DeletionRows
<1>4. CASE \/ \E q \in Deletions : Deletion!RequestDeletion(q)
           \/ \E q \in Exports : Deletion!ScheduleExport(q)
           \/ Deletion!HoldChanges \/ UNCHANGED deletionVars
  BY <1>4
     DEF Deletion!RequestDeletion, Deletion!ScheduleExport, Deletion!HoldChanges,
         deletionVars, DeletionRows
<1>5. CASE Deletion!Reactivate \/ Deletion!RetentionPasses \/ Deletion!PermanentDeletion
  BY <1>5
     DEF Deletion!Reactivate, Deletion!RetentionPasses, Deletion!PermanentDeletion,
         DeletionRows
<1> QED
  BY <1>1, <1>2, <1>3, <1>4, <1>5 DEF Deletion!Next

LEMMA DeletionTypes == DeletionShape /\ DeletionRows => Deletion!TypeOK
  BY DEF DeletionShape, DeletionRows, Deletion!TypeOK, DeletionStatuses, DeletionJobRecord

LEMMA DeletionInitially == Deletion!Init => DeletionInv /\ DeletionRows
  BY DEF Deletion!Init, DeletionInv, DeletionShape, DeletionStatuses, DeletionJobsDid,
         DeletionBehind, Deletion!Quiet, DeletionNothingCompletedEarly, DeletionRows,
         Deletion!Steps

LEMMA DeletionCarriedOut == DeletionInv => Deletion!CompletedWasCarriedOut
  BY DEF DeletionInv, DeletionNothingCompletedEarly, Deletion!CompletedWasCarriedOut,
         Deletion!Requests

(***************************************************************************)
(* The backend: whichever component is active keeps its invariant          *)
(***************************************************************************)

BackendInv ==
    /\ active = "tenants" => TenantInv
    /\ active = "erasure" => Erasure!TypeOK
    /\ active = "deletion" => DeletionInv /\ DeletionRows

LEMMA InitInvariant ==
    ASSUME Init
    PROVE  BackendInv
  BY TenantInitially, ErasureInitially, DeletionInitially DEF Init, BackendInv

\* A step of the backend is one of the active component, or changes none of its variables.
LEMMA StepOfActive ==
    ASSUME [Next]_vars
    PROVE  /\ active' = active
           /\ active = "tenants" => [Tenants!Next]_tenantVars
           /\ active = "erasure" => [Erasure!Next]_erasureVars
           /\ active = "deletion" => [Deletion!Next]_deletionVars
  BY DEF Next, vars

LEMMA StepInvariant ==
    ASSUME BackendInv, [Next]_vars
    PROVE  BackendInv'
<1>0. active' = active
  BY StepOfActive
<1>1. CASE active = "tenants"
  <2>1. TenantInv'
    BY <1>1, StepOfActive, TenantKept DEF BackendInv
  <2> QED
    BY <1>0, <1>1, <2>1 DEF BackendInv
<1>2. CASE active = "erasure"
  <2>1. Erasure!TypeOK'
    BY <1>2, StepOfActive, ErasureTypes DEF BackendInv
  <2> QED
    BY <1>0, <1>2, <2>1 DEF BackendInv
<1>3. CASE active = "deletion"
  <2>1. DeletionInv' /\ DeletionRows'
    BY <1>3, StepOfActive, DeletionInvariant, DeletionRowsKept DEF BackendInv
  <2> QED
    BY <1>0, <1>3, <2>1 DEF BackendInv
<1>4. active \in {"tenants", "erasure", "deletion"} \/ BackendInv'
  BY <1>0 DEF BackendInv
<1> QED
  BY <1>1, <1>2, <1>3, <1>4

LEMMA Invariance == Spec => []BackendInv
  BY InitInvariant, StepInvariant, PTL DEF Spec

\* Every component keeps the shape of its state, for every number of operators, links,
\* requests, tasks, runs and faults.
THEOREM TypeCorrect == Spec => []TypeOK
<1>1. BackendInv => TypeOK
  BY DeletionTypes DEF BackendInv, TypeOK, TenantInv, DeletionInv
<1> QED
  BY Invariance, <1>1, PTL

\* However creations, regenerations and their failures overlap, no more onboarding links are
\* open than calls can overlap (tenants.service.ts, issueOnboardingLink).
THEOREM LinksAreFew == Spec => []LinksDoNotPileUp
<1>1. BackendInv => LinksDoNotPileUp
  BY TenantRoomIsEnough DEF BackendInv, LinksDoNotPileUp
<1> QED
  BY Invariance, <1>1, PTL

\* A deletion that says COMPLETED stands for a user who was deactivated and rid of MFA,
\* whichever of overlapping runs fail, end or record last (gdpr/data-deletion.service.ts).
THEOREM CompletedCarriedOut == Spec => []CompletedWasCarriedOut
<1>1. BackendInv => CompletedWasCarriedOut
  BY DeletionCarriedOut DEF BackendInv, CompletedWasCarriedOut
<1> QED
  BY Invariance, <1>1, PTL
==============================================================================
