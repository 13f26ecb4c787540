---------------------- MODULE ServicesGuards_proofs -----------------------
(***************************************************************************)
(* Proofs about the components of Services that stand before a handler:    *)
(* the login lock, the rate limits, the audit trail and the break-glass    *)
(* accounts.                                                               *)
(***************************************************************************)
EXTENDS Services, FunctionTheorems, FiniteSetTheorems, SequenceTheorems,
        NaturalsInduction, WellFoundedInduction, TLAPS

(***************************************************************************)
(* LoginLockout: a lock comes before too many wrong passwords              *)
(***************************************************************************)

(***************************************************************************)
(* Types.  The counters count wrong passwords, of which those that are not *)
(* recorded yet are counted by none                                        *)
(***************************************************************************)

LockoutPcs == {"idle", "compare", "reread", "fail", "succeed"}

LockoutShape ==
    /\ code \in {"shared", "legacy"}
    /\ account \in [active : BOOLEAN, failed : Nat, locked : BOOLEAN]
    /\ login \in [Calls -> [pc : LockoutPcs, read : Nat]]
    /\ wrong \in 0 .. MaxWrong
    /\ tries \in Nat

LockoutPending == {c \in Calls : login[c].pc \in {"reread", "fail"}}

LockoutSlack == wrong - Cardinality(LockoutPending)

LockoutCounted ==
    /\ account.failed <= LockoutSlack /\ tries <= LockoutSlack
    /\ \A c \in Calls : login[c].read <= LockoutSlack

LockoutCountInv == LockoutShape /\ LockoutCounted

LEMMA LockoutPendingFinite ==
    /\ IsFiniteSet(LockoutPending) /\ Cardinality(LockoutPending) \in Nat
    /\ IsFiniteSet(LockoutPending') /\ Cardinality(LockoutPending') \in Nat
<1>1. LockoutPending \subseteq Calls /\ LockoutPending' \subseteq Calls
  BY DEF LockoutPending
<1> QED
  BY <1>1, CallsAssumption, FS_Subset, FS_CardinalityType

LEMMA LockoutCountInitially == Lockout!Init => LockoutCountInv
<1> SUFFICES ASSUME Lockout!Init PROVE LockoutCountInv
  OBVIOUS
<1>1. LockoutShape
  BY LockoutAssumption DEF Lockout!Init, LockoutShape, Lockout!Idle, LockoutPcs
<1>2. LockoutPending = {}
  BY DEF Lockout!Init, LockoutPending, Lockout!Idle
<1>3. Cardinality(LockoutPending) = 0
  BY <1>2, FS_EmptySet
<1>4. LockoutSlack = 0
  BY <1>3 DEF Lockout!Init, LockoutSlack
<1>5. LockoutCounted
  BY <1>4 DEF Lockout!Init, LockoutCounted, Lockout!Idle
<1> QED
  BY <1>1, <1>5 DEF LockoutCountInv

LEMMA LockoutLoginOf ==
    ASSUME LockoutShape, NEW c \in Calls, NEW l \in [pc : LockoutPcs, read : Nat],
           login' = [login EXCEPT ![c] = l]
    PROVE  /\ login' \in [Calls -> [pc : LockoutPcs, read : Nat]] /\ login'[c] = l
           /\ \A d \in Calls : d # c => login'[d] = login[d]
  BY DEF LockoutShape

\* How many wrong passwords are still to be recorded after a login's step.
LEMMA LockoutPendingAfter ==
    ASSUME LockoutShape, NEW c \in Calls, NEW l \in [pc : LockoutPcs, read : Nat],
           login' = [login EXCEPT ![c] = l]
    PROVE  LET was == login[c].pc \in {"reread", "fail"}
               is  == l.pc \in {"reread", "fail"} IN
           /\ (was <=> is) => Cardinality(LockoutPending') = Cardinality(LockoutPending)
           /\ ~was /\ is => Cardinality(LockoutPending') = Cardinality(LockoutPending) + 1
           /\ was /\ ~is => Cardinality(LockoutPending') = Cardinality(LockoutPending) - 1
<1>1. /\ login'[c] = l /\ \A d \in Calls : d # c => login'[d] = login[d]
  BY LockoutLoginOf
<1>2. CASE login[c].pc \in {"reread", "fail"} <=> l.pc \in {"reread", "fail"}
  <2>1. LockoutPending' = LockoutPending
    BY <1>1, <1>2 DEF LockoutPending
  <2> QED
    BY <1>2, <2>1
<1>3. CASE login[c].pc \notin {"reread", "fail"} /\ l.pc \in {"reread", "fail"}
  <2>1. LockoutPending' = LockoutPending \cup {c} /\ c \notin LockoutPending
    BY <1>1, <1>3 DEF LockoutPending
  <2>2. Cardinality(LockoutPending') = Cardinality(LockoutPending) + 1
    BY <2>1, LockoutPendingFinite, FS_AddElement
  <2> QED
    BY <1>3, <2>2
<1>4. CASE login[c].pc \in {"reread", "fail"} /\ l.pc \notin {"reread", "fail"}
  <2>1. LockoutPending' = LockoutPending \ {c} /\ c \in LockoutPending
    BY <1>1, <1>4 DEF LockoutPending
  <2>2. Cardinality(LockoutPending') = Cardinality(LockoutPending) - 1
    BY <2>1, LockoutPendingFinite, FS_RemoveElement
  <2> QED
    BY <1>4, <2>2
<1> QED
  BY <1>2, <1>3, <1>4

LEMMA LockoutAccountOf ==
    ASSUME LockoutShape
    PROVE  /\ account.active \in BOOLEAN /\ account.failed \in Nat /\ account.locked \in BOOLEAN
           /\ wrong \in Nat /\ tries \in Nat /\ wrong <= MaxWrong
           /\ \A c \in Calls : login[c].pc \in LockoutPcs /\ login[c].read \in Nat
                                 /\ login[c] = [pc |-> login[c].pc, read |-> login[c].read]
  BY LockoutAssumption DEF LockoutShape

LEMMA LockoutOneMoreFits ==
    \A w, p, q \in Nat : q = p \/ q = p + 1 \/ q = p - 1 => w - p <= (w + 1) - q
  OBVIOUS

\* As many more wrong passwords are recorded as were not yet.
LEMMA LockoutSlackAfter ==
    ASSUME LockoutShape, LockoutShape', NEW c \in Calls,
           NEW l \in [pc : LockoutPcs, read : Nat],
           login' = [login EXCEPT ![c] = l]
    PROVE  LET was == login[c].pc \in {"reread", "fail"}
               is  == l.pc \in {"reread", "fail"} IN
           /\ LockoutSlack \in Int /\ LockoutSlack' \in Int
           /\ wrong' = wrong /\ (is => was) => LockoutSlack <= LockoutSlack'
           /\ wrong' = wrong + 1 => LockoutSlack <= LockoutSlack'
           /\ wrong' = wrong /\ was /\ ~is => LockoutSlack' = LockoutSlack + 1
<1>1. wrong \in Nat /\ wrong' \in Nat
  BY LockoutAssumption DEF LockoutShape
<1> DEFINE p == Cardinality(LockoutPending)  q == Cardinality(LockoutPending')
<1>2. p \in Nat /\ q \in Nat
  BY LockoutPendingFinite
<1>3. LockoutSlack = wrong - p /\ LockoutSlack' = wrong' - q
  BY DEF LockoutSlack
<1>4. /\ (login[c].pc \in {"reread", "fail"} <=> l.pc \in {"reread", "fail"}) => q = p
      /\ login[c].pc \notin {"reread", "fail"} /\ l.pc \in {"reread", "fail"} => q = p + 1
      /\ login[c].pc \in {"reread", "fail"} /\ l.pc \notin {"reread", "fail"} => q = p - 1
  BY LockoutPendingAfter
<1> HIDE DEF p, q
<1>5. q = p \/ q = p + 1 \/ q = p - 1
  BY <1>4
<1>6. LockoutSlack \in Int /\ LockoutSlack' \in Int
  BY <1>1, <1>2, <1>3
<1>9. wrong' = wrong + 1 => LockoutSlack <= LockoutSlack'
  <2>1. wrong - p <= (wrong + 1) - q
    BY <1>1, <1>2, <1>5, LockoutOneMoreFits, Zenon
  <2>2. ASSUME wrong' = wrong + 1 PROVE LockoutSlack' = (wrong + 1) - q
    BY <1>3, <2>2
  <2> QED
    BY <1>3, <2>1, <2>2, Zenon
<1>7. wrong' = wrong /\ q = p => LockoutSlack <= LockoutSlack'
  BY <1>1, <1>2, <1>3
<1>8. wrong' = wrong /\ q = p - 1 =>
        LockoutSlack <= LockoutSlack' /\ LockoutSlack' = LockoutSlack + 1
  BY <1>1, <1>2, <1>3
<1> QED
  BY <1>4, <1>6, <1>7, <1>8, <1>9, Zenon

\* The counters that are not raised stay below what counts.
LEMMA LockoutCountsStay ==
    ASSUME LockoutShape, LockoutShape', LockoutSlack \in Int, LockoutSlack' \in Int,
           LockoutSlack <= LockoutSlack', LockoutCounted,
           account'.failed <= LockoutSlack', tries' <= LockoutSlack', NEW c \in Calls,
           login'[c].read <= LockoutSlack', \A d \in Calls : d # c => login'[d] = login[d]
    PROVE  LockoutCounted'
<1> SUFFICES ASSUME NEW d \in Calls PROVE login'[d].read <= LockoutSlack'
  BY DEF LockoutCounted
<1>1. CASE d = c
  BY <1>1
<1>2. CASE d # c
  <2>1. login'[d] = login[d] /\ login[d].read \in Nat /\ login[d].read <= LockoutSlack
    BY <1>2, LockoutAccountOf DEF LockoutCounted
  <2> DEFINE n == login[d].read
  <2>2. n \in Nat /\ n <= LockoutSlack
    BY <2>1
  <2> HIDE DEF n
  <2>3. n <= LockoutSlack'
    BY <2>2
  <2> QED
    BY <2>1, <2>3 DEF n
<1> QED
  BY <1>1, <1>2

\* A step of a login that records nothing: the number it has read is the one it had,
\* the counter's or 0.
LEMMA LockoutLoginCounted ==
    ASSUME LockoutCountInv, NEW c \in Calls, NEW l \in [pc : LockoutPcs, read : Nat],
           login' = [login EXCEPT ![c] = l], UNCHANGED <<code, account, tries>>,
           l.read \in {login[c].read, account.failed, 0},
           \/ /\ wrong' = wrong
              /\ l.pc \in {"reread", "fail"} => login[c].pc \in {"reread", "fail"}
           \/ wrong' = wrong + 1 /\ wrong < MaxWrong
    PROVE  LockoutCountInv'
<1>0. LockoutShape /\ LockoutCounted
  BY DEF LockoutCountInv
<1>1. /\ login' \in [Calls -> [pc : LockoutPcs, read : Nat]] /\ login'[c] = l
      /\ \A d \in Calls : d # c => login'[d] = login[d]
  BY <1>0, LockoutLoginOf
<1>2. LockoutShape'
  BY <1>0, <1>1, LockoutAssumption DEF LockoutShape
<1>3. LockoutSlack \in Int /\ LockoutSlack' \in Int /\ LockoutSlack <= LockoutSlack'
  BY <1>0, <1>2, LockoutSlackAfter
<1>4. /\ account.failed \in Nat /\ tries \in Nat /\ login[c].read \in Nat
      /\ account.failed <= LockoutSlack /\ tries <= LockoutSlack /\ login[c].read <= LockoutSlack
  BY <1>0, LockoutAccountOf DEF LockoutCounted
<1>5. \A n \in Nat : n <= LockoutSlack => n <= LockoutSlack' /\ 0 <= LockoutSlack'
  BY <1>3
<1>6. account'.failed <= LockoutSlack' /\ tries' <= LockoutSlack'
        /\ login'[c].read <= LockoutSlack'
  <2>1. account'.failed <= LockoutSlack' /\ tries' <= LockoutSlack'
          /\ login[c].read <= LockoutSlack' /\ 0 <= LockoutSlack'
    BY <1>4, <1>5, Zenon
  <2>2. login'[c].read = login[c].read \/ login'[c].read = account'.failed
          \/ login'[c].read = 0
    BY <1>1
  <2> QED
    BY <2>1, <2>2, Zenon
<1>7. LockoutCounted'
  BY <1>0, <1>1, <1>2, <1>3, <1>6, LockoutCountsStay
<1> QED
  BY <1>2, <1>7 DEF LockoutCountInv

LEMMA LockoutRecordCounted ==
    ASSUME LockoutCountInv, NEW c \in Calls, Lockout!RecordFailure(c)
    PROVE  LockoutCountInv'
<1> DEFINE r == login[c].read  n == r + 1
<1>0. LockoutShape /\ LockoutCounted /\ login[c].pc = "fail" /\ r \in Nat /\ Lockout!Idle \in [pc : LockoutPcs, read : Nat]
      /\ Lockout!Idle.pc = "idle" /\ Lockout!Idle.read = 0
  BY LockoutAccountOf DEF LockoutCountInv, Lockout!RecordFailure, Lockout!Idle, LockoutPcs
<1>1. /\ account' = [account EXCEPT !.failed = n, !.locked = Lockout!LocksAt(n)]
      /\ login' = [login EXCEPT ![c] = Lockout!Idle]
      /\ tries' = tries + 1 /\ UNCHANGED <<code, wrong>>
  BY DEF Lockout!RecordFailure, Lockout!Ends
<1>2. Lockout!LocksAt(n) \in BOOLEAN
  BY DEF Lockout!LocksAt
<1>3. /\ login' \in [Calls -> [pc : LockoutPcs, read : Nat]] /\ login'[c] = Lockout!Idle
      /\ \A d \in Calls : d # c => login'[d] = login[d]
  BY <1>0, <1>1, LockoutLoginOf
<1>4. LockoutShape' /\ account'.failed = n
  <2>1. /\ account' \in [active : BOOLEAN, failed : Nat, locked : BOOLEAN]
        /\ account'.failed = n
    <3>1. n \in Nat /\ account \in [active : BOOLEAN, failed : Nat, locked : BOOLEAN]
      BY <1>0 DEF LockoutShape
    <3> HIDE DEF n
    <3> QED
      BY <1>1, <1>2, <3>1
  <2>2. tries' \in Nat
    BY <1>0, <1>1 DEF LockoutShape
  <2> QED
    BY <1>0, <1>1, <1>3, <2>1, <2>2 DEF LockoutShape
<1>5. LockoutSlack \in Int /\ LockoutSlack' \in Int /\ LockoutSlack' = LockoutSlack + 1
  BY <1>0, <1>1, <1>4, LockoutSlackAfter
<1>6. r \in Nat /\ tries \in Nat /\ r <= LockoutSlack /\ tries <= LockoutSlack
  BY <1>0, LockoutAccountOf DEF LockoutCounted
<1> HIDE DEF r
<1>7. n <= LockoutSlack' /\ tries + 1 <= LockoutSlack' /\ 0 <= LockoutSlack'
        /\ LockoutSlack <= LockoutSlack'
  BY <1>5, <1>6
<1>8. account'.failed <= LockoutSlack' /\ tries' <= LockoutSlack'
        /\ login'[c].read <= LockoutSlack'
  BY <1>0, <1>1, <1>3, <1>4, <1>7
<1>9. LockoutCounted'
  BY <1>0, <1>3, <1>4, <1>5, <1>7, <1>8, LockoutCountsStay
<1> QED
  BY <1>4, <1>9 DEF LockoutCountInv

\* The counter is taken back, without a login.
LEMMA LockoutResetCounted ==
    ASSUME LockoutCountInv, account' \in [active : BOOLEAN, failed : Nat, locked : BOOLEAN],
           account'.failed \in {0, account.failed}, tries' \in {0, tries}, UNCHANGED <<code, wrong>>,
           login' = login
    PROVE  LockoutCountInv'
<1>1. LockoutSlack' = LockoutSlack
  BY DEF LockoutPending, LockoutSlack
<1>2. LockoutShape'
  BY DEF LockoutCountInv, LockoutShape
<1>3. LockoutSlack \in Int
  BY LockoutPendingFinite, LockoutAccountOf DEF LockoutCountInv, LockoutSlack
<1>4. account.failed \in Nat /\ account.failed <= LockoutSlack /\ tries <= LockoutSlack
  BY LockoutAccountOf DEF LockoutCountInv, LockoutCounted
<1>5. 0 <= LockoutSlack
  <2>1. \A n \in Nat : n <= LockoutSlack => 0 <= LockoutSlack
    BY <1>3
  <2> QED
    BY <1>4, <2>1, Zenon
<1>6. LockoutCounted'
  BY <1>1, <1>4, <1>5 DEF LockoutCountInv, LockoutCounted
<1> QED
  BY <1>2, <1>6 DEF LockoutCountInv

LEMMA LockoutSuccessCounted ==
    ASSUME LockoutCountInv, NEW c \in Calls, Lockout!RecordSuccess(c)
    PROVE  LockoutCountInv'
<1>0. LockoutShape /\ LockoutCounted /\ login[c].pc = "succeed" /\ Lockout!Idle \in [pc : LockoutPcs, read : Nat]
      /\ Lockout!Idle.pc = "idle" /\ Lockout!Idle.read = 0
  BY DEF LockoutCountInv, Lockout!RecordSuccess, Lockout!Idle, LockoutPcs
<1>1. /\ account' = [account EXCEPT !.failed = 0, !.locked = FALSE]
      /\ login' = [login EXCEPT ![c] = Lockout!Idle]
      /\ tries' = 0 /\ UNCHANGED <<code, wrong>>
  BY DEF Lockout!RecordSuccess, Lockout!Ends
<1>2. /\ login' \in [Calls -> [pc : LockoutPcs, read : Nat]] /\ login'[c] = Lockout!Idle
      /\ \A d \in Calls : d # c => login'[d] = login[d]
  BY <1>0, <1>1, LockoutLoginOf
<1>3. LockoutShape' /\ account'.failed = 0
  BY <1>0, <1>1, <1>2 DEF LockoutShape
<1>4. LockoutSlack \in Int /\ LockoutSlack' \in Int /\ LockoutSlack <= LockoutSlack'
  BY <1>0, <1>1, <1>3, LockoutSlackAfter
<1>5. tries \in Nat /\ tries <= LockoutSlack
  BY <1>0, LockoutAccountOf DEF LockoutCounted
<1>6. 0 <= LockoutSlack'
  BY <1>4, <1>5
<1>7. LockoutCounted'
  BY <1>0, <1>1, <1>2, <1>3, <1>4, <1>6, LockoutCountsStay
<1> QED
  BY <1>3, <1>7 DEF LockoutCountInv

LEMMA LockoutCountKept ==
    ASSUME LockoutCountInv, [Lockout!Next]_lockoutVars
    PROVE  LockoutCountInv'
<1>0. LockoutShape
  BY DEF LockoutCountInv
<1>1. CASE \E c \in Calls : Lockout!FindAccount(c) \/ Lockout!RightPassword(c) \/ Lockout!WrongPassword(c)
                              \/ Lockout!ReadAgain(c) \/ Lockout!LoginFails(c)
  <2>1. PICK c \in Calls : Lockout!FindAccount(c) \/ Lockout!RightPassword(c) \/ Lockout!WrongPassword(c)
                              \/ Lockout!ReadAgain(c) \/ Lockout!LoginFails(c)
    BY <1>1
  <2>2. /\ login[c] \in [pc : LockoutPcs, read : Nat] /\ account.failed \in Nat
        /\ {"compare", "reread", "fail", "succeed"} \subseteq LockoutPcs
    BY <1>0, LockoutAccountOf DEF LockoutShape, LockoutPcs
  <2>3. Lockout!Idle \in [pc : LockoutPcs, read : Nat] /\ Lockout!Idle.pc = "idle"
          /\ Lockout!Idle.read = 0
    BY DEF Lockout!Idle, LockoutPcs
  <2>5. CASE Lockout!FindAccount(c)
    <3> DEFINE l == [pc |-> "compare", read |-> account.failed]
    <3>1. l \in [pc : LockoutPcs, read : Nat] /\ l.pc = "compare" /\ l.read = account.failed
      BY <2>2
    <3>2. login' = [login EXCEPT ![c] = l] /\ UNCHANGED <<code, account, wrong, tries>>
      BY <2>5 DEF Lockout!FindAccount
    <3> HIDE DEF l
    <3> QED
      BY <3>1, <3>2, LockoutLoginCounted
  <2>6. CASE Lockout!RightPassword(c)
    <3> DEFINE l == [login[c] EXCEPT !.pc = "succeed"]
    <3>1. l \in [pc : LockoutPcs, read : Nat] /\ l.pc = "succeed" /\ l.read = login[c].read
      BY <2>2
    <3>2. login' = [login EXCEPT ![c] = l] /\ UNCHANGED <<code, account, wrong, tries>>
      BY <2>6 DEF Lockout!RightPassword, Lockout!Goto
    <3> HIDE DEF l
    <3> QED
      BY <3>1, <3>2, LockoutLoginCounted
  <2>7. CASE Lockout!WrongPassword(c)
    <3> DEFINE next == IF code = "legacy" THEN "reread" ELSE "fail"
               l == [login[c] EXCEPT !.pc = next]
    <3>1. next \in LockoutPcs
      BY <2>2
    <3>2. login' = [login EXCEPT ![c] = l] /\ UNCHANGED <<code, account, tries>>
          /\ wrong' = wrong + 1 /\ wrong < MaxWrong
      BY <2>7 DEF Lockout!WrongPassword, Lockout!Goto
    <3> HIDE DEF next
    <3>3. l \in [pc : LockoutPcs, read : Nat] /\ l.read = login[c].read
      BY <2>2, <3>1
    <3> HIDE DEF l
    <3> QED
      BY <3>2, <3>3, LockoutLoginCounted
  <2>8. CASE Lockout!ReadAgain(c)
    <3> DEFINE l == [login[c] EXCEPT !.pc = "fail", !.read = account.failed]
    <3>1. l \in [pc : LockoutPcs, read : Nat] /\ l.pc = "fail" /\ l.read = account.failed
      BY <2>2
    <3>2. login' = [login EXCEPT ![c] = l] /\ UNCHANGED <<code, account, wrong, tries>>
          /\ login[c].pc = "reread"
      BY <2>8 DEF Lockout!ReadAgain
    <3> HIDE DEF l
    <3> QED
      BY <3>1, <3>2, LockoutLoginCounted
  <2>9. CASE Lockout!LoginFails(c)
    BY <2>3, <2>9, LockoutLoginCounted DEF Lockout!LoginFails, Lockout!Ends
  <2> QED
    BY <2>1, <2>5, <2>6, <2>7, <2>8, <2>9
<1>2. CASE \E c \in Calls : Lockout!RecordFailure(c)
  BY <1>2, LockoutRecordCounted
<1>3. CASE \E c \in Calls : Lockout!RecordSuccess(c)
  BY <1>3, LockoutSuccessCounted
<1>4. CASE Lockout!Unlock
  <2>1. /\ account' \in [active : BOOLEAN, failed : Nat, locked : BOOLEAN]
        /\ account'.failed = 0 /\ tries' = 0
    <3>1. account.active \in BOOLEAN
      BY <1>0, LockoutAccountOf
    <3>2. PICK a \in {account.active, TRUE} :
              account' = [active |-> a, failed |-> 0, locked |-> FALSE]
      BY <1>4 DEF Lockout!Unlock
    <3>3. a \in BOOLEAN
      BY <3>1
    <3> QED
      BY <1>4, <3>2, <3>3 DEF Lockout!Unlock
  <2> QED
    BY <1>4, <2>1, LockoutResetCounted DEF Lockout!Unlock
<1>5. CASE Lockout!Deactivate
  <2>1. /\ account' \in [active : BOOLEAN, failed : Nat, locked : BOOLEAN]
        /\ account'.failed = account.failed
    BY <1>0, <1>5 DEF Lockout!Deactivate, LockoutShape
  <2> QED
    BY <1>5, <2>1, LockoutResetCounted DEF Lockout!Deactivate
<1>6. CASE Lockout!LockEnds
  <2>1. /\ account' \in [active : BOOLEAN, failed : Nat, locked : BOOLEAN]
        /\ account'.failed = account.failed
    BY <1>0, <1>6 DEF Lockout!LockEnds, LockoutShape
  <2> QED
    BY <1>6, <2>1, LockoutResetCounted DEF Lockout!LockEnds
<1>7. CASE UNCHANGED lockoutVars
  <2>1. LockoutSlack' = LockoutSlack
    BY <1>7 DEF lockoutVars, LockoutPending, LockoutSlack
  <2>2. LockoutShape'
    BY <1>0, <1>7 DEF lockoutVars, LockoutShape
  <2>3. LockoutCounted'
    BY <1>7, <2>1 DEF lockoutVars, LockoutCountInv, LockoutCounted
  <2> QED
    BY <2>2, <2>3 DEF LockoutCountInv
<1> QED
  BY <1>1, <1>2, <1>3, <1>4, <1>5, <1>6, <1>7 DEF Lockout!Next

LEMMA LockoutTypes ==
    ASSUME LockoutCountInv
    PROVE  Lockout!TypeOK
<1>1. LockoutShape /\ LockoutCounted
  BY DEF LockoutCountInv
<1>2. /\ wrong \in Nat /\ wrong <= MaxWrong /\ account.failed \in Nat /\ account.failed <= wrong
      /\ tries \in Nat /\ tries <= wrong
      /\ \A c \in Calls : login[c].read \in Nat /\ login[c].read <= MaxWrong
  <2>1. wrong \in Nat /\ wrong <= MaxWrong /\ LockoutSlack \in Int /\ LockoutSlack <= wrong
    BY <1>1, LockoutAccountOf, LockoutPendingFinite DEF LockoutSlack
  <2>2. \A n \in Nat : n <= LockoutSlack => n <= wrong /\ n <= MaxWrong
    BY <2>1, LockoutAssumption
  <2> QED
    BY <1>1, <2>1, <2>2, LockoutAccountOf, Zenon DEF LockoutCounted
<1>3. account \in [active : BOOLEAN, failed : 0 .. wrong, locked : BOOLEAN]
  BY <1>1, <1>2 DEF LockoutShape
<1>4. login \in [Calls -> Lockout!Login]
  <2>1. ASSUME NEW c \in Calls PROVE login[c] \in Lockout!Login
    <3>1. login[c] \in [pc : LockoutPcs, read : Nat] /\ login[c].read \in 0 .. MaxWrong
      BY <1>1, <1>2, LockoutAssumption DEF LockoutShape
    <3> QED
      BY <3>1 DEF Lockout!Login, LockoutPcs
  <2> QED
    BY <1>1, <2>1 DEF LockoutShape
<1> QED
  BY <1>1, <1>2, <1>3, <1>4 DEF Lockout!TypeOK, LockoutShape

(***************************************************************************)
(* The bound.  From the account and from each login in flight a number of  *)
(* wrong passwords can still be recorded before the lock, and what two     *)
(* logins can do together grows with the square of the larger.  A recorded *)
(* one takes two from the weight of both, and 2 * tries with that weight   *)
(* never exceeds what it is after a reset.                                 *)
(***************************************************************************)

LockoutWeight(a, b) == IF a >= b THEN a * (a + 1) + 2 * b ELSE b * (b + 1) + 2 * a

LockoutLarger(a, b) == IF a >= b THEN a ELSE b

LEMMA LockoutSquareGrows == \A a, c \in Nat : a <= c => a * (a + 1) <= c * (c + 1)
<1> SUFFICES ASSUME NEW a \in Nat, NEW c \in Nat, a <= c
             PROVE  a * (a + 1) <= c * (c + 1)
  OBVIOUS
<1>1. PICK k \in Nat : c = a + k
  <2>1. c - a \in Nat /\ c = a + (c - a)
    OBVIOUS
  <2> QED
    BY <2>1
<1>2. c * (c + 1) = a * (a + 1) + k * (2 * a) + k * k + k
  BY <1>1
<1>3. k * (2 * a) \in Nat /\ k * k \in Nat /\ a * (a + 1) \in Nat
  OBVIOUS
<1> QED
  BY <1>2, <1>3

LEMMA LockoutNextSquare == \A a \in Nat : (a + 1) * (a + 2) = a * (a + 1) + 2 * a + 2
  OBVIOUS

LEMMA LockoutWeightIsNat == \A a, b \in Nat : LockoutWeight(a, b) \in Nat
  BY DEF LockoutWeight

LEMMA LockoutWeightSwaps == \A a, b \in Nat : LockoutWeight(a, b) = LockoutWeight(b, a)
  BY DEF LockoutWeight

LEMMA LockoutWeightGrows ==
    ASSUME NEW a \in Nat, NEW b \in Nat, NEW c \in Nat, NEW d \in Nat, a <= c, b <= d
    PROVE  LockoutWeight(a, b) <= LockoutWeight(c, d)
<1> DEFINE A == a * (a + 1)  B == b * (b + 1)  C == c * (c + 1)  D == d * (d + 1)
<1>1. A \in Nat /\ B \in Nat /\ C \in Nat /\ D \in Nat /\ A <= C /\ B <= D
  BY LockoutSquareGrows
<1>2. LockoutWeight(a, b) = (IF a >= b THEN A + 2 * b ELSE B + 2 * a)
  BY DEF LockoutWeight
<1>3. LockoutWeight(c, d) = (IF c >= d THEN C + 2 * d ELSE D + 2 * c)
  BY DEF LockoutWeight
<1>4. ASSUME a >= b, c < d PROVE A + 2 * a + 2 <= D
  <2>1. a + 1 \in Nat /\ a + 1 <= d
    BY <1>4
  <2>2. (a + 1) * (a + 2) <= D
    BY <2>1, LockoutSquareGrows
  <2> QED
    BY <2>2, LockoutNextSquare
<1>5. ASSUME a < b, c >= d PROVE B + 2 * b <= C + 2 * d
  BY <1>1, <1>5, LockoutSquareGrows
<1> HIDE DEF A, B, C, D
<1>6. CASE a >= b /\ c >= d
  BY <1>1, <1>2, <1>3, <1>6
<1>7. CASE a >= b /\ c < d
  BY <1>1, <1>2, <1>3, <1>4, <1>7
<1>8. CASE a < b /\ c >= d
  BY <1>1, <1>2, <1>3, <1>5, <1>8
<1>9. CASE a < b /\ c < d
  BY <1>1, <1>2, <1>3, <1>9
<1> QED
  BY <1>6, <1>7, <1>8, <1>9

LEMMA LockoutWeightAtMost ==
    ASSUME NEW m \in Nat, NEW a \in 0 .. m, NEW b \in 0 .. m
    PROVE  LockoutWeight(a, b) <= m * (m + 3)
<1>1. LockoutWeight(m, m) = m * (m + 3)
  BY DEF LockoutWeight
<1> QED
  BY <1>1, LockoutWeightGrows

\* One login records, and leaves the account with one less.
LEMMA LockoutWeightTaken ==
    ASSUME NEW r \in Nat \ {0}, NEW j \in Nat, NEW x \in Nat, NEW y \in Nat, r <= x, j <= y
    PROVE  2 + LockoutWeight(r - 1, LockoutLarger(r - 1, j)) <= LockoutWeight(x, y)
<1>1. PICK s \in Nat : r = s + 1
  <2>1. r - 1 \in Nat /\ r = (r - 1) + 1
    OBVIOUS
  <2> QED
    BY <2>1
<1>2. LockoutWeight(r, j) <= LockoutWeight(x, y) /\ LockoutWeight(r, j) \in Nat
        /\ LockoutWeight(x, y) \in Nat
  BY LockoutWeightGrows, LockoutWeightIsNat
<1>3. 2 + LockoutWeight(s, LockoutLarger(s, j)) <= LockoutWeight(s + 1, j)
  <2>1. CASE s >= j
    <3>1. LockoutWeight(s, LockoutLarger(s, j)) = s * (s + 1) + 2 * s
      BY <2>1 DEF LockoutWeight, LockoutLarger
    <3>2. LockoutWeight(s + 1, j) = (s + 1) * (s + 2) + 2 * j
      BY <2>1 DEF LockoutWeight
    <3> QED
      BY <3>1, <3>2, LockoutNextSquare
  <2>2. CASE s < j
    <3>1. LockoutWeight(s, LockoutLarger(s, j)) = j * (j + 1) + 2 * s
      BY <2>2 DEF LockoutWeight, LockoutLarger
    <3>2. LockoutWeight(s + 1, j) = j * (j + 1) + 2 * (s + 1)
      BY <2>2 DEF LockoutWeight
    <3>3. j * (j + 1) \in Nat
      OBVIOUS
    <3> QED
      BY <3>1, <3>2, <3>3
  <2> QED
    BY <2>1, <2>2
<1> DEFINE u == LockoutWeight(s, LockoutLarger(s, j))  v == LockoutWeight(r, j)  w == LockoutWeight(x, y)
<1>4. LockoutLarger(s, j) \in Nat
  BY DEF LockoutLarger
<1>5. u \in Nat /\ v \in Nat /\ w \in Nat /\ 2 + u <= v /\ v <= w
  BY <1>1, <1>2, <1>3, <1>4, LockoutWeightIsNat
<1>6. r - 1 = s
  BY <1>1
<1> HIDE DEF u, v, w
<1>7. 2 + u <= w
  BY <1>5
<1> QED
  BY <1>6, <1>7 DEF u, w

\* What can still be recorded after a count of n.
LockoutLeft(n) == IF n < MaxAttempts THEN MaxAttempts - n ELSE 1

LockoutOfAccount == IF account.locked THEN 0 ELSE LockoutLeft(account.failed)

\* A login of the legacy backend counts from the row it will read again.
LockoutOfLogin(c) ==
    IF login[c].pc \in {"idle", "succeed"} THEN 0
    ELSE IF code = "legacy" /\ login[c].pc \in {"compare", "reread"} THEN 1
    ELSE LockoutLeft(login[c].read)

LockoutStill(c) == LockoutLarger(LockoutOfAccount, LockoutOfLogin(c))

LockoutLockedIsFull == account.locked => account.failed >= MaxAttempts

LockoutTriesWeighed ==
    \A c, d \in Calls : c # d =>
        2 * tries + LockoutWeight(LockoutStill(c), LockoutStill(d)) <= MaxAttempts * (MaxAttempts + 3)

LockoutLockInv == LockoutCountInv /\ LockoutLockedIsFull /\ LockoutTriesWeighed

LEMMA LockoutLeftIs ==
    ASSUME NEW n \in Nat
    PROVE  /\ LockoutLeft(n) \in Nat /\ 1 <= LockoutLeft(n) /\ LockoutLeft(n) <= MaxAttempts
           /\ n >= MaxAttempts => LockoutLeft(n) = 1
           /\ IF Lockout!LocksAt(n + 1) THEN LockoutLeft(n) = 1 ELSE LockoutLeft(n + 1) = LockoutLeft(n) - 1
  BY LockoutAssumption DEF LockoutLeft, Lockout!LocksAt

LEMMA LockoutLeftIn ==
    /\ 0 \in 0 .. MaxAttempts /\ 1 \in 0 .. MaxAttempts
    /\ \A n \in Nat : LockoutLeft(n) \in 0 .. MaxAttempts
<1>1. MaxAttempts \in Nat /\ 1 <= MaxAttempts
  BY LockoutAssumption
<1> QED
  BY <1>1 DEF LockoutLeft

LEMMA LockoutLargerIs ==
    ASSUME NEW m \in Nat, NEW a \in 0 .. m, NEW b \in 0 .. m
    PROVE  LockoutLarger(a, b) \in 0 .. m /\ a <= LockoutLarger(a, b)
             /\ b <= LockoutLarger(a, b)
  BY DEF LockoutLarger

LEMMA LockoutStillIs ==
    ASSUME LockoutShape, NEW c \in Calls
    PROVE  /\ LockoutOfAccount \in 0 .. MaxAttempts /\ LockoutOfLogin(c) \in 0 .. MaxAttempts
           /\ LockoutStill(c) \in 0 .. MaxAttempts
           /\ LockoutOfAccount <= LockoutStill(c) /\ LockoutOfLogin(c) <= LockoutStill(c)
<1>1. account.failed \in Nat /\ login[c].read \in Nat
  BY LockoutAccountOf
<1>2. LockoutOfAccount \in 0 .. MaxAttempts /\ LockoutOfLogin(c) \in 0 .. MaxAttempts
  BY <1>1, LockoutLeftIn DEF LockoutOfAccount, LockoutOfLogin
<1> QED
  BY <1>2, LockoutLargerIs, LockoutAssumption DEF LockoutStill

LEMMA LockoutStillAfter ==
    ASSUME LockoutShape', NEW c \in Calls
    PROVE  LockoutStill(c)' \in 0 .. MaxAttempts /\ LockoutOfLogin(c)' \in 0 .. MaxAttempts
<1>1. account'.failed \in Nat /\ login'[c].read \in Nat
  BY DEF LockoutShape
<1>2. LockoutOfAccount' \in 0 .. MaxAttempts /\ LockoutOfLogin(c)' \in 0 .. MaxAttempts
  BY <1>1, LockoutLeftIn DEF LockoutOfAccount, LockoutOfLogin
<1> QED
  BY <1>2, LockoutLargerIs, LockoutAssumption DEF LockoutStill

\* Nothing is recorded and nobody can record more than before.
LEMMA LockoutNothingRecorded ==
    ASSUME LockoutLockInv, LockoutCountInv', LockoutLockedIsFull', tries' = tries,
           \A c \in Calls : LockoutStill(c)' <= LockoutStill(c)
    PROVE  LockoutLockInv'
<1> SUFFICES ASSUME NEW c \in Calls, NEW d \in Calls, c # d
             PROVE  2 * tries + LockoutWeight(LockoutStill(c)', LockoutStill(d)') <= MaxAttempts * (MaxAttempts + 3)
  BY DEF LockoutLockInv, LockoutTriesWeighed
<1>1. LockoutStill(c) \in Nat /\ LockoutStill(d) \in Nat /\ tries \in Nat
  BY LockoutStillIs, LockoutAccountOf, LockoutAssumption DEF LockoutLockInv, LockoutCountInv
<1>2. LockoutStill(c)' \in 0 .. MaxAttempts /\ LockoutStill(d)' \in 0 .. MaxAttempts
  <2>1. LockoutShape'
    BY DEF LockoutCountInv
  <2> QED
    BY <2>1, LockoutStillAfter
<1>3. LockoutStill(c)' \in Nat /\ LockoutStill(d)' \in Nat
  BY <1>2, LockoutAssumption
<1>4. LockoutWeight(LockoutStill(c)', LockoutStill(d)') <= LockoutWeight(LockoutStill(c), LockoutStill(d))
  BY <1>1, <1>3, LockoutWeightGrows
<1>5. /\ LockoutWeight(LockoutStill(c)', LockoutStill(d)') \in Nat /\ LockoutWeight(LockoutStill(c), LockoutStill(d)) \in Nat
  BY <1>1, <1>3, LockoutWeightIsNat
<1>6. 2 * tries + LockoutWeight(LockoutStill(c), LockoutStill(d)) <= MaxAttempts * (MaxAttempts + 3)
  BY DEF LockoutLockInv, LockoutTriesWeighed
<1> DEFINE v == LockoutWeight(LockoutStill(c), LockoutStill(d))  w == LockoutWeight(LockoutStill(c)', LockoutStill(d)')  t == 2 * tries
           m == MaxAttempts * (MaxAttempts + 3)
<1>7. v \in Nat /\ w \in Nat /\ t \in Nat /\ m \in Nat /\ w <= v /\ t + v <= m
  BY <1>1, <1>4, <1>5, <1>6, LockoutAssumption
<1> HIDE DEF v, w, t, m
<1>8. t + w <= m
  BY <1>7
<1> QED
  BY <1>8 DEF t, w, m

LEMMA LockoutReset ==
    ASSUME LockoutCountInv', LockoutLockedIsFull', tries' = 0
    PROVE  LockoutLockInv'
<1> SUFFICES ASSUME NEW c \in Calls, NEW d \in Calls, c # d
             PROVE  2 * 0 + LockoutWeight(LockoutStill(c)', LockoutStill(d)') <= MaxAttempts * (MaxAttempts + 3)
  BY DEF LockoutLockInv, LockoutTriesWeighed
<1>1. LockoutStill(c)' \in 0 .. MaxAttempts /\ LockoutStill(d)' \in 0 .. MaxAttempts
  <2>1. LockoutShape'
    BY DEF LockoutCountInv
  <2> QED
    BY <2>1, LockoutStillAfter
<1>2. LockoutWeight(LockoutStill(c)', LockoutStill(d)') <= MaxAttempts * (MaxAttempts + 3)
  BY <1>1, LockoutWeightAtMost, LockoutAssumption
<1>3. LockoutWeight(LockoutStill(c)', LockoutStill(d)') \in Nat
  BY <1>1, LockoutWeightIsNat, LockoutAssumption
<1> DEFINE w == LockoutWeight(LockoutStill(c)', LockoutStill(d)')
<1> HIDE DEF w
<1>4. 2 * 0 + w = w
  BY <1>3 DEF w
<1> QED
  BY <1>2, <1>4 DEF w

\* Only this one's own number goes down when a login goes on without recording.
LEMMA LockoutLoginGoes ==
    ASSUME LockoutLockInv, LockoutCountInv', NEW c \in Calls,
           UNCHANGED <<code, account, tries>>,
           \A d \in Calls : d # c => login'[d] = login[d],
           LockoutOfLogin(c)' <= LockoutStill(c)
    PROVE  LockoutLockInv'
<1>1. LockoutShape /\ LockoutShape'
  BY DEF LockoutLockInv, LockoutCountInv
<1>2. LockoutLockedIsFull'
  BY DEF LockoutLockInv, LockoutLockedIsFull
<1>3. LockoutOfAccount' = LockoutOfAccount
  BY DEF LockoutOfAccount
<1>4. ASSUME NEW d \in Calls PROVE LockoutStill(d)' <= LockoutStill(d)
  <2>1. CASE d = c
    <3>1. LockoutStill(c)' = LockoutOfAccount \/ LockoutStill(c)' = LockoutOfLogin(c)'
      BY <1>3 DEF LockoutStill, LockoutLarger
    <3> QED
      BY <1>1, <2>1, <3>1, LockoutStillIs
  <2>2. CASE d # c
    <3>1. LockoutStill(d)' = LockoutStill(d)
      BY <1>3, <2>2 DEF LockoutStill, LockoutOfLogin
    <3>2. LockoutStill(d) \in Nat
      BY <1>1, LockoutStillIs, LockoutAssumption
    <3> QED
      BY <3>1, <3>2
  <2> QED
    BY <2>1, <2>2
<1> QED
  BY <1>2, <1>4, LockoutNothingRecorded

LEMMA LockoutRecordStep ==
    ASSUME Cardinality(Calls) = 2, LockoutLockInv, LockoutCountInv', NEW c \in Calls,
           Lockout!RecordFailure(c)
    PROVE  LockoutLockInv'
<1> DEFINE n == login[c].read  r == LockoutLeft(n)
<1>0. LockoutShape /\ LockoutShape' /\ LockoutLockedIsFull /\ LockoutTriesWeighed
        /\ login[c].pc = "fail" /\ n \in Nat
  BY LockoutAccountOf DEF LockoutLockInv, LockoutCountInv, Lockout!RecordFailure
<1>1. /\ account' = [account EXCEPT !.failed = n + 1, !.locked = Lockout!LocksAt(n + 1)]
      /\ login' = [login EXCEPT ![c] = Lockout!Idle]
      /\ tries' = tries + 1 /\ UNCHANGED <<code, wrong>>
  BY DEF Lockout!RecordFailure, Lockout!Ends
<1>2. /\ login'[c] = Lockout!Idle /\ Lockout!Idle.pc = "idle"
      /\ \A d \in Calls : d # c => login'[d] = login[d]
  BY <1>0, <1>1 DEF LockoutShape, Lockout!Idle
<1>3. account'.failed = n + 1 /\ account'.locked = Lockout!LocksAt(n + 1)
  BY <1>0, <1>1 DEF LockoutShape
<1>4. LockoutLockedIsFull'
  BY <1>3 DEF LockoutLockedIsFull, Lockout!LocksAt
<1>5. r \in Nat \ {0} /\ LockoutOfAccount' = r - 1
  <2>1. r \in Nat /\ 1 <= r
          /\ IF Lockout!LocksAt(n + 1) THEN r = 1 ELSE LockoutLeft(n + 1) = r - 1
    BY <1>0, LockoutLeftIs
  <2>2. LockoutOfAccount' = IF Lockout!LocksAt(n + 1) THEN 0 ELSE LockoutLeft(n + 1)
    BY <1>3 DEF LockoutOfAccount
  <2> HIDE DEF r
  <2> QED
    BY <2>1, <2>2
<1>6. LockoutOfLogin(c) = r /\ LockoutOfLogin(c)' = 0
  BY <1>0, <1>2 DEF LockoutOfLogin
<1>7. LockoutStill(c)' = r - 1
  BY <1>5, <1>6 DEF LockoutStill, LockoutLarger
<1> HIDE DEF n, r
<1>8. ASSUME NEW d \in Calls, d # c
      PROVE  2 * tries' + LockoutWeight(LockoutStill(c)', LockoutStill(d)') <= MaxAttempts * (MaxAttempts + 3)
  <2> DEFINE j == LockoutOfLogin(d)
  <2>1. LockoutStill(d)' = LockoutLarger(r - 1, j)
    BY <1>1, <1>2, <1>5, <1>8 DEF LockoutStill, LockoutOfLogin
  <2>2. j \in Nat /\ LockoutStill(c) \in Nat /\ LockoutStill(d) \in Nat
          /\ r <= LockoutStill(c) /\ j <= LockoutStill(d)
    BY <1>0, <1>6, LockoutStillIs, LockoutAssumption
  <2> HIDE DEF j
  <2>3. 2 + LockoutWeight(r - 1, LockoutLarger(r - 1, j)) <= LockoutWeight(LockoutStill(c), LockoutStill(d))
    BY <1>5, <2>2, LockoutWeightTaken
  <2> DEFINE v == LockoutWeight(LockoutStill(c), LockoutStill(d))  w == LockoutWeight(r - 1, LockoutLarger(r - 1, j))
             m == MaxAttempts * (MaxAttempts + 3)
  <2>4. w \in Nat /\ v \in Nat /\ m \in Nat
    <3>1. r - 1 \in Nat /\ LockoutLarger(r - 1, j) \in Nat
      BY <1>5, <2>2 DEF LockoutLarger
    <3> QED
      BY <2>2, <3>1, LockoutWeightIsNat, LockoutAssumption
  <2>5. 2 * tries + v <= m /\ tries \in Nat
    BY <1>0, <1>8, LockoutAccountOf DEF LockoutTriesWeighed
  <2>6. 2 + w <= v
    BY <2>3
  <2> HIDE DEF v, w, m
  <2>7. 2 * (tries + 1) + w <= m
    BY <2>4, <2>5, <2>6
  <2> QED
    BY <1>1, <1>7, <2>1, <2>7 DEF w, m
<1>9. ASSUME NEW e \in Calls, NEW f \in Calls, e # f PROVE c = e \/ c = f
  <2>1. Cardinality({c, e, f}) <= 2
    BY CallsAssumption, FS_Subset
  <2>2. c \notin {e, f} => Cardinality({c, e, f}) = 3
    <3>1. IsFiniteSet({e}) /\ Cardinality({e}) = 1
      BY FS_Singleton
    <3>2. IsFiniteSet({e} \cup {f}) /\ Cardinality({e} \cup {f}) = 2
      BY <1>9, <3>1, FS_AddElement
    <3>3. c \notin {e, f} => Cardinality(({e} \cup {f}) \cup {c}) = 3
      BY <3>2, FS_AddElement
    <3>4. ({e} \cup {f}) \cup {c} = {c, e, f}
      OBVIOUS
    <3> QED
      BY <3>3, <3>4
  <2> QED
    BY <2>1, <2>2
<1>10. LockoutTriesWeighed'
  <2> SUFFICES ASSUME NEW e \in Calls, NEW f \in Calls, e # f
               PROVE  2 * tries' + LockoutWeight(LockoutStill(e)', LockoutStill(f)') <= MaxAttempts * (MaxAttempts + 3)
    BY DEF LockoutTriesWeighed
  <2>1. LockoutWeight(LockoutStill(e)', LockoutStill(f)') = LockoutWeight(LockoutStill(f)', LockoutStill(e)')
    <3>1. LockoutStill(e)' \in Nat /\ LockoutStill(f)' \in Nat
      BY <1>0, LockoutStillAfter, LockoutAssumption
    <3> QED
      BY <3>1, LockoutWeightSwaps
  <2> QED
    BY <1>8, <1>9, <2>1
<1> QED
  BY <1>4, <1>10 DEF LockoutLockInv

LEMMA LockoutLockInitially == Lockout!Init => LockoutLockInv
<1> SUFFICES ASSUME Lockout!Init PROVE LockoutLockInv
  OBVIOUS
<1>1. LockoutCountInv /\ LockoutLockedIsFull /\ LockoutShape
  BY LockoutCountInitially DEF Lockout!Init, LockoutLockedIsFull, LockoutCountInv
<1>2. LockoutTriesWeighed
  <2> SUFFICES ASSUME NEW c \in Calls, NEW d \in Calls, c # d
               PROVE  2 * tries + LockoutWeight(LockoutStill(c), LockoutStill(d)) <= MaxAttempts * (MaxAttempts + 3)
    BY DEF LockoutTriesWeighed
  <2>1. LockoutStill(c) \in 0 .. MaxAttempts /\ LockoutStill(d) \in 0 .. MaxAttempts
    BY <1>1, LockoutStillIs
  <2>2. /\ LockoutWeight(LockoutStill(c), LockoutStill(d)) <= MaxAttempts * (MaxAttempts + 3)
        /\ LockoutWeight(LockoutStill(c), LockoutStill(d)) \in Nat
    <3>1. LockoutStill(c) \in Nat /\ LockoutStill(d) \in Nat /\ MaxAttempts \in Nat
      BY <2>1, LockoutAssumption
    <3> QED
      BY <2>1, <3>1, LockoutWeightAtMost, LockoutWeightIsNat
  <2> DEFINE w == LockoutWeight(LockoutStill(c), LockoutStill(d))
  <2> HIDE DEF w
  <2>3. 2 * 0 + w = w
    BY <2>2 DEF w
  <2> QED
    BY <2>2, <2>3 DEF Lockout!Init, w
<1> QED
  BY <1>1, <1>2 DEF LockoutLockInv

LEMMA LockoutLockKept ==
    ASSUME Cardinality(Calls) = 2, LockoutLockInv, [Lockout!Next]_lockoutVars
    PROVE  LockoutLockInv'
<1>0. LockoutCountInv' /\ LockoutCountInv /\ LockoutShape /\ LockoutShape'
        /\ LockoutLockedIsFull
  BY LockoutCountKept DEF LockoutLockInv, LockoutCountInv
<1>1. ASSUME NEW c \in Calls,
             Lockout!FindAccount(c) \/ Lockout!RightPassword(c) \/ Lockout!WrongPassword(c) \/ Lockout!ReadAgain(c) \/ Lockout!LoginFails(c)
      PROVE  LockoutLockInv'
  <2>1. UNCHANGED <<code, account, tries>>
    BY <1>1
       DEF Lockout!FindAccount, Lockout!RightPassword, Lockout!WrongPassword,
           Lockout!ReadAgain, Lockout!LoginFails
  <2>2. \A d \in Calls : d # c => login'[d] = login[d]
    BY <1>0, <1>1
       DEF Lockout!FindAccount, Lockout!RightPassword, Lockout!WrongPassword,
           Lockout!ReadAgain, Lockout!LoginFails, Lockout!Goto, Lockout!Ends, LockoutShape
  <2>3. /\ login[c] \in [pc : LockoutPcs, read : Nat] /\ LockoutOfAccount <= LockoutStill(c) /\ LockoutOfLogin(c) <= LockoutStill(c)
        /\ LockoutStill(c) \in Nat /\ LockoutOfAccount \in Nat /\ LockoutOfLogin(c) \in Nat
    BY <1>0, LockoutStillIs, LockoutAssumption DEF LockoutShape
  <2>4. LockoutOfLogin(c)' <= LockoutOfAccount \/ LockoutOfLogin(c)' <= LockoutOfLogin(c)
    <3>1. CASE Lockout!FindAccount(c)
      <4>1. login'[c] = [pc |-> "compare", read |-> account.failed] /\ ~account.locked
        BY <1>0, <3>1 DEF Lockout!FindAccount, LockoutShape
      <4>2. LockoutOfLogin(c)' \in {1, LockoutLeft(account.failed)}
              /\ LockoutOfAccount = LockoutLeft(account.failed)
        BY <2>1, <4>1 DEF LockoutOfLogin, LockoutOfAccount
      <4>3. account.failed \in Nat
        BY <1>0, LockoutAccountOf
      <4> QED
        BY <4>2, <4>3, LockoutLeftIs
    <3>2. CASE Lockout!RightPassword(c)
      <4>1. login'[c].pc = "succeed"
        BY <1>0, <3>2 DEF Lockout!RightPassword, Lockout!Goto, LockoutShape
      <4> QED
        BY <2>3, <4>1 DEF LockoutOfLogin
    <3>3. CASE Lockout!WrongPassword(c)
      <4>1. /\ login[c].pc = "compare" /\ login'[c].read = login[c].read
            /\ login'[c].pc = IF code = "legacy" THEN "reread" ELSE "fail"
        BY <1>0, <3>3 DEF Lockout!WrongPassword, Lockout!Goto, LockoutShape
      <4>2. LockoutOfLogin(c)' = LockoutOfLogin(c)
        BY <2>1, <4>1 DEF LockoutOfLogin
      <4> QED
        BY <2>3, <4>2
    <3>4. CASE Lockout!ReadAgain(c)
      <4>1. login'[c].pc = "fail" /\ login'[c].read = account.failed
              /\ login[c].pc = "reread"
        BY <1>0, <3>4 DEF Lockout!ReadAgain, LockoutShape
      <4>2. LockoutOfLogin(c)' = LockoutLeft(account.failed)
        BY <4>1 DEF LockoutOfLogin
      <4>3. account.failed \in Nat /\ login[c].read \in Nat
        BY <1>0, LockoutAccountOf
      <4>4. CASE ~account.locked
        <5>1. LockoutOfAccount = LockoutLeft(account.failed)
          BY <4>4 DEF LockoutOfAccount
        <5> QED
          BY <2>3, <4>2, <5>1
      <4>5. CASE account.locked
        <5>1. LockoutLeft(account.failed) = 1
          BY <1>0, <4>3, <4>5, LockoutLeftIs DEF LockoutLockedIsFull
        <5>2. LockoutOfLogin(c) \in {1, LockoutLeft(login[c].read)}
          BY <4>1 DEF LockoutOfLogin
        <5> QED
          BY <4>2, <4>3, <5>1, <5>2, LockoutLeftIs
      <4> QED
        BY <4>4, <4>5
    <3>5. CASE Lockout!LoginFails(c)
      <4>1. login'[c].pc = "idle"
        BY <1>0, <3>5 DEF Lockout!LoginFails, Lockout!Ends, Lockout!Idle, LockoutShape
      <4> QED
        BY <2>3, <4>1 DEF LockoutOfLogin
    <3> QED
      BY <1>1, <3>1, <3>2, <3>3, <3>4, <3>5
  <2>5. LockoutOfLogin(c)' \in Nat
    BY <1>0, LockoutStillAfter, LockoutAssumption
  <2>6. LockoutOfLogin(c)' <= LockoutStill(c)
    BY <2>3, <2>4, <2>5
  <2> QED
    BY <1>0, <2>1, <2>2, <2>6, LockoutLoginGoes
<1>2. CASE \E c \in Calls : Lockout!RecordFailure(c)
  BY <1>0, <1>2, LockoutRecordStep
<1>3. CASE (\E c \in Calls : Lockout!RecordSuccess(c)) \/ Lockout!Unlock \/ Lockout!LockEnds
  <2>0. account \in [active : BOOLEAN, failed : Nat, locked : BOOLEAN]
    BY <1>0 DEF LockoutShape
  <2>1. tries' = 0 /\ account'.locked = FALSE
    <3>1. CASE \E c \in Calls : Lockout!RecordSuccess(c)
      BY <2>0, <3>1 DEF Lockout!RecordSuccess
    <3>2. CASE Lockout!Unlock
      BY <3>2 DEF Lockout!Unlock
    <3>3. CASE Lockout!LockEnds
      BY <2>0, <3>3 DEF Lockout!LockEnds
    <3> QED
      BY <1>3, <3>1, <3>2, <3>3
  <2> QED
    BY <1>0, <2>1, LockoutReset DEF LockoutLockedIsFull
<1>4. CASE Lockout!Deactivate \/ UNCHANGED lockoutVars
  <2>1. /\ account'.failed = account.failed /\ account'.locked = account.locked
        /\ UNCHANGED <<code, login, tries>>
    BY <1>0, <1>4 DEF Lockout!Deactivate, lockoutVars, LockoutShape
  <2>2. LockoutLockedIsFull'
    BY <1>0, <2>1 DEF LockoutLockedIsFull
  <2>3. ASSUME NEW c \in Calls PROVE LockoutStill(c)' <= LockoutStill(c)
    <3>1. LockoutStill(c)' = LockoutStill(c) /\ LockoutStill(c) \in Nat
      BY <1>0, <2>1, LockoutStillIs, LockoutAssumption
         DEF LockoutStill, LockoutOfAccount, LockoutOfLogin
    <3> QED
      BY <3>1
  <2> QED
    BY <1>0, <2>1, <2>2, <2>3, LockoutNothingRecorded
<1> QED
  BY <1>1, <1>2, <1>3, <1>4 DEF Lockout!Next

LEMMA LockoutFewFailures ==
    ASSUME Cardinality(Calls) = 2, LockoutLockInv
    PROVE  Lockout!FailuresBounded
<1>1. \E c, d \in Calls : c # d
  <2>1. Calls # {}
    BY FS_EmptySet
  <2>2. PICK c : c \in Calls
    BY <2>1
  <2>3. Cardinality({c}) = 1
    BY FS_Singleton
  <2>4. Calls # {c}
    BY <2>3
  <2> QED
    BY <2>2, <2>4
<1>2. PICK c \in Calls, d \in Calls : c # d
  BY <1>1
<1>3. LockoutShape
  BY DEF LockoutLockInv, LockoutCountInv
<1> DEFINE w == LockoutWeight(LockoutStill(c), LockoutStill(d))  m == MaxAttempts * (MaxAttempts + 3)
<1>4. w \in Nat /\ m \in Nat /\ tries \in Nat /\ 2 * tries + w <= m
  BY <1>2, <1>3, LockoutStillIs, LockoutAccountOf, LockoutWeightIsNat, LockoutAssumption
     DEF LockoutLockInv, LockoutTriesWeighed
<1> HIDE DEF w, m
<1>5. tries <= m \div 2
  BY <1>4
<1> QED
  BY <1>5 DEF Lockout!FailuresBounded, m

(***************************************************************************)
(* RateLimits: a limit lets through what it says                           *)
(***************************************************************************)

(***************************************************************************)
(* Totals                                                                  *)
(***************************************************************************)

LEMMA LimiterCardinality == \A S : Limiter!Cardinality(S) = Cardinality(S)
BY DEF Limiter!Cardinality, Cardinality

LimiterNumbered(count, kinds) == UNION {{k} \X (1 .. count[k]) : k \in kinds}

LEMMA LimiterNumberedIs ==
    ASSUME NEW count, NEW kinds
    PROVE  \A r : r \in LimiterNumbered(count, kinds) <=>
               \E k \in kinds : \E n \in 1 .. count[k] : r = <<k, n>>
BY DEF LimiterNumbered

LEMMA LimiterNumberedFinite ==
    ASSUME NEW count, NEW kinds, IsFiniteSet(kinds), \A k \in kinds : count[k] \in Nat
    PROVE  IsFiniteSet(LimiterNumbered(count, kinds))
<1> DEFINE Of(k) == {k} \X (1 .. count[k])
<1> DEFINE Parts == {Of(k) : k \in kinds}
<1>1. IsFiniteSet(Parts)
  <2> DEFINE part == [k \in kinds |-> Of(k)]
  <2>1. part \in [kinds -> Parts] /\ \A S \in Parts : \E k \in kinds : part[k] = S
    OBVIOUS
  <2>2. part \in Surjection(kinds, Parts)
    <3> HIDE DEF part, Parts
    <3> QED
      BY <2>1, Fun_IsSurj
  <2> HIDE DEF part, Parts
  <2> QED
    BY <2>2, FS_Surjection
<1>2. ASSUME NEW k \in kinds PROVE IsFiniteSet(Of(k))
  <2>1. IsFiniteSet({k})
    BY FS_Singleton
  <2>2. IsFiniteSet(1 .. count[k])
    <3>1. 1 \in Int /\ count[k] \in Int
      OBVIOUS
    <3> QED
      BY ONLY <3>1, FS_Interval
  <2> QED
    BY <2>1, <2>2, FS_Product
<1>3. \A S \in {Of(k) : k \in kinds} : IsFiniteSet(S)
  BY <1>2
<1> QED
  BY <1>1, <1>3, FS_UNION DEF LimiterNumbered

LEMMA LimiterTotalGrows ==
    ASSUME NEW f, NEW g, NEW few, NEW many, few \subseteq many, IsFiniteSet(many),
           \A k \in many : g[k] \in Nat,
           \A k \in few : f[k] \in Nat /\ f[k] <= g[k]
    PROVE  /\ Limiter!Total(f, few) \in Nat /\ Limiter!Total(g, many) \in Nat
           /\ Limiter!Total(f, few) <= Limiter!Total(g, many)
<1>1. IsFiniteSet(LimiterNumbered(g, many))
  BY LimiterNumberedFinite
<1>2. LimiterNumbered(f, few) \subseteq LimiterNumbered(g, many)
  <2> SUFFICES ASSUME NEW k \in few, NEW n \in 1 .. f[k]
               PROVE  <<k, n>> \in LimiterNumbered(g, many)
    BY LimiterNumberedIs
  <2>1. k \in many /\ n \in 1 .. g[k]
    OBVIOUS
  <2> QED
    BY <2>1, LimiterNumberedIs
<1> QED
  BY <1>1, <1>2, FS_Subset, FS_CardinalityType, LimiterCardinality
     DEF Limiter!Total, LimiterNumbered

LEMMA LimiterTotalOneMore ==
    ASSUME NEW f, NEW g, NEW kinds, IsFiniteSet(kinds), \A k \in kinds : f[k] \in Nat,
           NEW h \in kinds, g[h] = f[h] + 1, \A k \in kinds : k # h => g[k] = f[k]
    PROVE  Limiter!Total(f, kinds) \in Nat
             /\ Limiter!Total(g, kinds) = Limiter!Total(f, kinds) + 1
<1> DEFINE one == <<h, g[h]>>
<1>1. IsFiniteSet(LimiterNumbered(f, kinds))
  BY LimiterNumberedFinite
<1>2. one \notin LimiterNumbered(f, kinds)
  <2> SUFFICES ASSUME NEW k \in kinds, NEW n \in 1 .. f[k], one = <<k, n>> PROVE FALSE
    BY LimiterNumberedIs
  <2>1. k = h /\ n = f[h] + 1
    OBVIOUS
  <2> QED
    BY <2>1
<1>3. LimiterNumbered(g, kinds) = LimiterNumbered(f, kinds) \cup {one}
  <2>1. ASSUME NEW r \in LimiterNumbered(g, kinds)
        PROVE  r \in LimiterNumbered(f, kinds) \cup {one}
    <3>1. PICK k \in kinds : \E n \in 1 .. g[k] : r = <<k, n>>
      BY <2>1, LimiterNumberedIs
    <3>2. PICK n \in 1 .. g[k] : r = <<k, n>>
      BY <3>1
    <3>3. (k = h /\ n = g[h]) \/ n \in 1 .. f[k]
      OBVIOUS
    <3> QED
      BY <3>2, <3>3, LimiterNumberedIs
  <2>2. ASSUME NEW k \in kinds, NEW n \in 1 .. f[k]
        PROVE  <<k, n>> \in LimiterNumbered(g, kinds)
    <3>1. n \in 1 .. g[k]
      BY <2>2
    <3> QED
      BY <3>1, LimiterNumberedIs
  <2>3. one \in LimiterNumbered(g, kinds)
    <3>1. g[h] \in 1 .. g[h]
      OBVIOUS
    <3> QED
      BY <3>1, LimiterNumberedIs
  <2>4. LimiterNumbered(f, kinds) \subseteq LimiterNumbered(g, kinds)
    BY <2>2, LimiterNumberedIs
  <2> QED
    BY <2>1, <2>3, <2>4
<1>4. Limiter!Total(f, kinds) = Cardinality(LimiterNumbered(f, kinds))
        /\ Limiter!Total(g, kinds) = Cardinality(LimiterNumbered(g, kinds))
  BY LimiterCardinality DEF Limiter!Total, LimiterNumbered
<1> HIDE DEF one
<1> QED
  BY ONLY <1>1, <1>2, <1>3, <1>4, FS_AddElement, FS_CardinalityType

LEMMA LimiterTotalSplit ==
    ASSUME NEW f, NEW a, NEW b, NEW kinds, kinds \subseteq a \cup b, IsFiniteSet(a),
           IsFiniteSet(b),
           \A k \in a \cup b : f[k] \in Nat
    PROVE  Limiter!Total(f, kinds) <= Limiter!Total(f, a) + Limiter!Total(f, b)
<1>1. IsFiniteSet(LimiterNumbered(f, a)) /\ IsFiniteSet(LimiterNumbered(f, b))
  BY LimiterNumberedFinite
<1>2. LimiterNumbered(f, kinds) \subseteq LimiterNumbered(f, a) \cup LimiterNumbered(f, b)
  BY DEF LimiterNumbered
<1>3. /\ IsFiniteSet(LimiterNumbered(f, a) \cup LimiterNumbered(f, b))
      /\ Cardinality(LimiterNumbered(f, a) \cup LimiterNumbered(f, b)) <=
             Cardinality(LimiterNumbered(f, a)) + Cardinality(LimiterNumbered(f, b))
  <2>1. /\ IsFiniteSet(LimiterNumbered(f, a) \cap LimiterNumbered(f, b))
        /\ IsFiniteSet(LimiterNumbered(f, a) \cup LimiterNumbered(f, b))
        /\ Cardinality(LimiterNumbered(f, a) \cup LimiterNumbered(f, b)) =
               Cardinality(LimiterNumbered(f, a)) + Cardinality(LimiterNumbered(f, b))
               - Cardinality(LimiterNumbered(f, a) \cap LimiterNumbered(f, b))
    BY <1>1, FS_Union, FS_Intersection
  <2> QED
    BY <1>1, <2>1, FS_CardinalityType
<1>4. Cardinality(LimiterNumbered(f, kinds)) <= Cardinality(LimiterNumbered(f, a) \cup LimiterNumbered(f, b))
  BY <1>2, <1>3, FS_Subset
<1>5. /\ Cardinality(LimiterNumbered(f, kinds)) \in Nat /\ Cardinality(LimiterNumbered(f, a)) \in Nat
      /\ Cardinality(LimiterNumbered(f, b)) \in Nat /\ Cardinality(LimiterNumbered(f, a) \cup LimiterNumbered(f, b)) \in Nat
  BY <1>1, <1>2, <1>3, FS_Subset, FS_CardinalityType
<1> QED
  BY <1>3, <1>4, <1>5, LimiterCardinality DEF Limiter!Total, LimiterNumbered

(***************************************************************************)
(* Requests by the time their check began                                  *)
(***************************************************************************)

LimiterKinds        == Limiter!Times \X Limiter!Times
LimiterCounts       == [LimiterKinds -> Nat]
LimiterChecks       == [pc : {"idle", "answer", "count", "add"}, score : Limiter!Times, admit : BOOLEAN]
LimiterBegan(u, v)  == {p \in LimiterKinds : u <= p[1] /\ p[1] < v}
LimiterThrough(f, u, v) == Limiter!Total(f, LimiterBegan(u, v))
LimiterOpen(g, u, v)    == {c \in Calls : g[c].admit /\ u <= g[c].score /\ g[c].score < v}
LimiterOwed(g, u, v)    == Cardinality(LimiterOpen(g, u, v))
LimiterEnd          == MaxClock + 1
LimiterSince(u)     == {s \in Limiter!Times : u <= s}

LEMMA LimiterKindsFinite == /\ IsFiniteSet(LimiterKinds) /\ IsFiniteSet(Limiter!Times)
                            /\ \A S : S \subseteq LimiterKinds => IsFiniteSet(S)
                            /\ \A S : S \subseteq Limiter!Times => IsFiniteSet(S)
<1>1. IsFiniteSet(Limiter!Times)
  BY LimiterAssumption, FS_Interval DEF Limiter!Times
<1> QED
  BY <1>1, FS_Product, FS_Subset DEF LimiterKinds

LEMMA LimiterCountsNat ==
    ASSUME NEW f \in LimiterCounts, NEW S, S \subseteq LimiterKinds
    PROVE  Limiter!Total(f, S) \in Nat
<1>1. \A k \in S : f[k] \in Nat
  BY DEF LimiterCounts
<1> QED
  BY <1>1, LimiterKindsFinite, LimiterTotalGrows

LEMMA LimiterCountsMonotone ==
    ASSUME NEW f \in LimiterCounts, NEW S, NEW T, S \subseteq T, T \subseteq LimiterKinds
    PROVE  Limiter!Total(f, S) <= Limiter!Total(f, T)
<1>1. \A k \in T : f[k] \in Nat /\ f[k] <= f[k]
  BY DEF LimiterCounts
<1> QED
  BY <1>1, LimiterKindsFinite, LimiterTotalGrows

LEMMA LimiterOwedNat ==
    ASSUME NEW g, NEW u, NEW v
    PROVE  IsFiniteSet(LimiterOpen(g, u, v)) /\ LimiterOwed(g, u, v) \in Nat
             /\ LimiterOwed(g, u, v) <= Cardinality(Calls)
<1>1. LimiterOpen(g, u, v) \subseteq Calls
  BY DEF LimiterOpen
<1> QED
  BY <1>1, CallsAssumption, FS_Subset, FS_CardinalityType DEF LimiterOwed

\* The check c, to be let through, goes on and is one of the kind k.
LimiterMoved(c, k, f, g, f2, g2) ==
    /\ c \in Calls /\ k \in LimiterKinds /\ k[1] = g[c].score /\ g[c].admit
    /\ f \in LimiterCounts /\ f2 \in LimiterCounts
    /\ f2[k] = f[k] + 1 /\ \A q \in LimiterKinds : q # k => f2[q] = f[q]
    /\ g \in [Calls -> LimiterChecks]
    /\ ~g2[c].admit /\ \A d \in Calls : d # c => g2[d] = g[d]

\* It is among those let through and no more among those that wait.
LEMMA LimiterGoesOn ==
    ASSUME NEW c, NEW k, NEW f, NEW g, NEW f2, NEW g2, LimiterMoved(c, k, f, g, f2, g2),
           NEW u \in Int, NEW v \in Int
    PROVE  /\ u <= g[c].score /\ g[c].score < v =>
                  /\ LimiterThrough(f2, u, v) = LimiterThrough(f, u, v) + 1
                  /\ LimiterOwed(g2, u, v) = LimiterOwed(g, u, v) - 1
           /\ ~(u <= g[c].score /\ g[c].score < v) =>
                  /\ LimiterThrough(f2, u, v) = LimiterThrough(f, u, v)
                  /\ LimiterOwed(g2, u, v) = LimiterOwed(g, u, v)
<1>1. /\ c \in Calls /\ g \in [Calls -> LimiterChecks] /\ g[c].admit /\ f \in LimiterCounts
      /\ ~g2[c].admit /\ \A d \in Calls : d # c => g2[d] = g[d]
  BY DEF LimiterMoved
<1>2. k \in LimiterKinds /\ k[1] = g[c].score
  BY DEF LimiterMoved
<1>3. f2 \in LimiterCounts /\ f2[k] = f[k] + 1 /\ \A q \in LimiterKinds : q # k =>
        f2[q] = f[q]
  BY DEF LimiterMoved
<1>4. LimiterBegan(u, v) \subseteq LimiterKinds /\ IsFiniteSet(LimiterBegan(u, v))
        /\ \A q \in LimiterBegan(u, v) : f[q] \in Nat
  BY <1>1, LimiterKindsFinite DEF LimiterBegan, LimiterCounts
<1>5. LimiterOpen(g2, u, v) = LimiterOpen(g, u, v) \ {c}
  BY <1>1 DEF LimiterOpen
<1>6. IsFiniteSet(LimiterOpen(g, u, v))
  BY LimiterOwedNat
<1>7. CASE u <= g[c].score /\ g[c].score < v
  <2>1. k \in LimiterBegan(u, v)
    BY <1>2, <1>7 DEF LimiterBegan
  <2>2. \A q \in LimiterBegan(u, v) : q # k => f2[q] = f[q]
    BY <1>3, <1>4
  <2>3. LimiterThrough(f2, u, v) = LimiterThrough(f, u, v) + 1
    BY <1>3, <1>4, <2>1, <2>2, LimiterTotalOneMore DEF LimiterThrough
  <2>4. c \in LimiterOpen(g, u, v)
    BY <1>1, <1>7 DEF LimiterOpen
  <2> QED
    BY <1>3, <1>5, <1>6, <1>7, <2>3, <2>4, FS_RemoveElement DEF LimiterOwed
<1>8. CASE ~(u <= g[c].score /\ g[c].score < v)
  <2>1. k \notin LimiterBegan(u, v)
    BY <1>2, <1>8 DEF LimiterBegan
  <2>2. \A q \in LimiterBegan(u, v) : /\ f2[q] \in Nat /\ f2[q] <= f[q] /\ f[q] <= f2[q] /\ f[q] \in Nat
    BY <1>3, <1>4, <2>1
  <2>3. LimiterThrough(f2, u, v) \in Nat /\ LimiterThrough(f, u, v) \in Nat
        /\ LimiterThrough(f2, u, v) <= LimiterThrough(f, u, v) /\ LimiterThrough(f, u, v) <= LimiterThrough(f2, u, v)
    BY <1>4, <2>2, LimiterTotalGrows DEF LimiterThrough
  <2>4. LimiterOpen(g2, u, v) = LimiterOpen(g, u, v)
    BY <1>5, <1>8 DEF LimiterOpen
  <2> QED
    BY <1>3, <1>8, <2>3, <2>4 DEF LimiterOwed
<1> QED
  BY <1>7, <1>8

LEMMA LimiterOneMore ==
    ASSUME NEW S, NEW x, IsFiniteSet(S)
    PROVE  IsFiniteSet(S \cup {x}) /\ Cardinality(S \cup {x}) <= Cardinality(S) + 1
<1>1. Cardinality(S) \in Nat
  BY FS_CardinalityType
<1>2. /\ IsFiniteSet(S \cup {x})
      /\ Cardinality(S \cup {x}) = IF x \in S THEN Cardinality(S) ELSE Cardinality(S) + 1
  BY FS_AddElement
<1> QED
  BY <1>1, <1>2

\* One that is dropped, or begins, makes no more wait, unless it is to be let through.
LEMMA LimiterWaits ==
    ASSUME NEW g \in [Calls -> LimiterChecks], NEW c \in Calls, NEW k \in LimiterChecks,
           NEW u \in Int, NEW v \in Int,
           NEW g2, g2 = [g EXCEPT ![c] = k]
    PROVE  /\ ~(k.admit /\ u <= k.score /\ k.score < v) => LimiterOwed(g2, u, v) <= LimiterOwed(g, u, v)
           /\ LimiterOwed(g2, u, v) <= LimiterOwed(g, u, v) + 1
           /\ k.admit /\ g[c].admit /\ k.score = g[c].score => LimiterOwed(g2, u, v) = LimiterOwed(g, u, v)
<1>1. IsFiniteSet(LimiterOpen(g, u, v)) /\ IsFiniteSet(LimiterOpen(g2, u, v))
  BY LimiterOwedNat
<1>2. LimiterOpen(g2, u, v) \subseteq LimiterOpen(g, u, v) \cup {c}
  BY DEF LimiterOpen
<1>3. /\ IsFiniteSet(LimiterOpen(g, u, v) \cup {c})
      /\ Cardinality(LimiterOpen(g, u, v) \cup {c}) <= Cardinality(LimiterOpen(g, u, v)) + 1
  <2>1. PICK o : o = LimiterOpen(g, u, v)
    OBVIOUS
  <2>2. IsFiniteSet(o)
    BY <1>1, <2>1
  <2>3. IsFiniteSet(o \cup {c}) /\ Cardinality(o \cup {c}) <= Cardinality(o) + 1
    BY <2>2, LimiterOneMore
  <2> QED
    BY <2>1, <2>3
<1>4. LimiterOwed(g2, u, v) <= LimiterOwed(g, u, v) + 1
  <2>1. Cardinality(LimiterOpen(g2, u, v)) <= Cardinality(LimiterOpen(g, u, v) \cup {c})
    BY <1>2, <1>3, FS_Subset
  <2> QED
    BY <1>1, <1>3, <2>1, FS_CardinalityType DEF LimiterOwed
<1>5. ASSUME ~(k.admit /\ u <= k.score /\ k.score < v)
      PROVE  LimiterOwed(g2, u, v) <= LimiterOwed(g, u, v)
  <2>1. LimiterOpen(g2, u, v) \subseteq LimiterOpen(g, u, v)
    BY <1>5 DEF LimiterOpen
  <2> QED
    BY <1>1, <2>1, FS_Subset DEF LimiterOwed
<1>6. ASSUME k.admit, g[c].admit, k.score = g[c].score
      PROVE  LimiterOwed(g2, u, v) = LimiterOwed(g, u, v)
  <2>1. LimiterOpen(g2, u, v) = LimiterOpen(g, u, v)
    BY <1>6 DEF LimiterOpen
  <2> QED
    BY <2>1 DEF LimiterOwed
<1> QED
  BY <1>4, <1>5, <1>6

(***************************************************************************)
(* The invariant                                                           *)
(***************************************************************************)

LimiterTypes ==
    /\ limit \in Limiter!Limits /\ clock \in Limiter!Times
    /\ hits \in [Limiter!Times -> Nat]
    /\ counter \in [value : Nat, expires : 0 .. MaxClock + Window]
    /\ check \in [Calls -> LimiterChecks]
    /\ passed \in LimiterCounts

LimiterInFlight ==
    /\ \A c \in Calls :
           /\ check[c].pc # "idle" => check[c].score <= clock /\ clock <= check[c].score + Slowest
           /\ check[c].pc = "answer" => limit = "counter"
           /\ check[c].pc \in {"count", "add"} => limit # "counter"
           /\ check[c].admit => check[c].pc \in {"answer", "add"}
    /\ \A p \in LimiterKinds : passed[p] > 0 => p[1] <= clock /\ p[2] <= p[1] + Slowest

\* In an open window the sorted set has all that was let through, and no more wait
\* to be let through than found the set below the limit.
LimiterSorted ==
    limit # "counter" =>
        \A u \in Limiter!Times : clock < u + Window =>
            /\ LimiterThrough(passed, u, LimiterEnd) <= Limiter!Total(hits, LimiterSince(u))
            /\ LimiterThrough(passed, u, LimiterEnd) + LimiterOwed(check, 0, LimiterEnd) <= MaxRequests + Cardinality(Calls) - 1

LimiterBoth(f, g, u, v) == LimiterThrough(f, u, v) + LimiterOwed(g, u, v)

\* The counter's key counts the requests that began since it was made, and those
\* before it, in an open window, were counted by one key.
LimiterKeyed ==
    limit = "counter" =>
        IF counter.value = 0
        THEN /\ LimiterBoth(passed, check, clock, LimiterEnd) <= 0
             /\ \A u \in Limiter!Times : clock < u + Window => LimiterBoth(passed, check, u, LimiterEnd) <= MaxRequests
        ELSE \E b \in Limiter!Times :
                 /\ counter.expires = b + Window /\ b <= clock /\ clock < b + Window
                 /\ LimiterBoth(passed, check, b, LimiterEnd) <= counter.value
                 /\ LimiterBoth(passed, check, b, LimiterEnd) <= MaxRequests
                 /\ \A u \in Limiter!Times : clock < u + Window => LimiterBoth(passed, check, u, b) <= MaxRequests

LimiterInv == LimiterTypes /\ LimiterInFlight /\ LimiterSorted /\ LimiterKeyed /\ Limiter!AdmittedBounded

LEMMA LimiterBothNat ==
    ASSUME NEW f \in LimiterCounts, NEW g, NEW u, NEW v
    PROVE  /\ LimiterThrough(f, u, v) \in Nat /\ LimiterOwed(g, u, v) \in Nat
           /\ LimiterBoth(f, g, u, v) \in Nat /\ LimiterBoth(f, g, u, v) = LimiterThrough(f, u, v) + LimiterOwed(g, u, v)
<1>1. LimiterBegan(u, v) \subseteq LimiterKinds
  BY DEF LimiterBegan
<1>2. LimiterThrough(f, u, v) \in Nat
  BY <1>1, LimiterCountsNat DEF LimiterThrough
<1>3. LimiterOwed(g, u, v) \in Nat
  BY LimiterOwedNat
<1> QED
  BY <1>2, <1>3 DEF LimiterBoth

\* Those who began before a time are no more than all.
LEMMA LimiterBothMonotone ==
    ASSUME NEW f \in LimiterCounts, NEW g \in [Calls -> LimiterChecks], NEW u \in Int,
           NEW w \in Int, NEW v \in Int, v <= w
    PROVE  LimiterBoth(f, g, u, v) <= LimiterBoth(f, g, u, w)
<1>1. LimiterBegan(u, v) \subseteq LimiterBegan(u, w)
        /\ LimiterBegan(u, w) \subseteq LimiterKinds
  BY LimiterAssumption DEF LimiterBegan, LimiterKinds, Limiter!Times
<1>2. LimiterThrough(f, u, v) <= LimiterThrough(f, u, w)
  BY <1>1, LimiterCountsMonotone DEF LimiterThrough
<1>3. LimiterOpen(g, u, v) \subseteq LimiterOpen(g, u, w)
  BY LimiterAssumption DEF LimiterOpen, LimiterChecks, Limiter!Times
<1>4. LimiterOwed(g, u, v) <= LimiterOwed(g, u, w)
  BY <1>3, LimiterOwedNat, FS_Subset DEF LimiterOwed
<1> QED
  BY <1>2, <1>4, LimiterBothNat

LEMMA LimiterThroughSplit ==
    ASSUME NEW f \in LimiterCounts, NEW u \in Limiter!Times, NEW b \in Limiter!Times
    PROVE  LimiterThrough(f, u, LimiterEnd) <= LimiterThrough(f, u, b) + LimiterThrough(f, b, LimiterEnd)
<1>1. LimiterBegan(u, LimiterEnd) \subseteq LimiterBegan(u, b) \cup LimiterBegan(b, LimiterEnd)
  BY LimiterAssumption DEF LimiterBegan, LimiterKinds, Limiter!Times
<1>2. /\ IsFiniteSet(LimiterBegan(u, b)) /\ IsFiniteSet(LimiterBegan(b, LimiterEnd))
      /\ \A k \in LimiterBegan(u, b) \cup LimiterBegan(b, LimiterEnd) : f[k] \in Nat
  BY LimiterKindsFinite DEF LimiterBegan, LimiterCounts
<1> QED
  BY <1>1, <1>2, LimiterTotalSplit DEF LimiterThrough

LimiterStretch(t) == {p \in LimiterKinds : p[2] <= t /\ t < p[2] + Window - Slowest}

\* What went on in a stretch that is not over began in a window that is open.
LEMMA LimiterStretchInWindow ==
    ASSUME NEW f \in LimiterCounts, NEW n \in Limiter!Times, NEW t \in Limiter!Times,
           n <= t,
           \A p \in LimiterKinds : f[p] > 0 => p[1] <= n /\ p[2] <= p[1] + Slowest
    PROVE  \E u \in Limiter!Times : n < u + Window
             /\ Limiter!Total(f, LimiterStretch(t)) <= LimiterThrough(f, u, LimiterEnd)
<1>1. PICK u \in Limiter!Times : n < u + Window /\ t < u + Window
        /\ \A s \in Limiter!Times : t < s + Window => u <= s
  <2>1. CASE t < Window
    <3>1. 0 \in Limiter!Times /\ \A s \in Limiter!Times : 0 <= s
      BY LimiterAssumption DEF Limiter!Times
    <3>2. n < 0 + Window /\ t < 0 + Window
      BY <2>1, LimiterAssumption, LimiterAssumption DEF Limiter!Times
    <3> QED
      BY <3>1, <3>2
  <2>2. CASE ~(t < Window)
    <3>1. PICK u : u = t - Window + 1
      OBVIOUS
    <3>2. u \in Limiter!Times /\ n < u + Window /\ t < u + Window
            /\ \A s \in Limiter!Times : t < s + Window => u <= s
      BY <2>2, <3>1, LimiterAssumption, LimiterAssumption DEF Limiter!Times
    <3> QED
      BY <3>2
  <2> QED
    BY <2>1, <2>2
<1> DEFINE some == {p \in LimiterStretch(t) : f[p] > 0}
<1>2. some \subseteq LimiterBegan(u, LimiterEnd)
  <2> SUFFICES ASSUME NEW p \in LimiterStretch(t), f[p] > 0
               PROVE  p \in LimiterBegan(u, LimiterEnd)
    OBVIOUS
  <2>1. p \in LimiterKinds /\ p[2] <= p[1] + Slowest /\ t < p[2] + Window - Slowest
    BY DEF LimiterStretch
  <2>2. p[1] \in Limiter!Times /\ p[2] \in Limiter!Times
    BY <2>1 DEF LimiterKinds
  <2>3. t < p[1] + Window
    BY <2>1, <2>2, LimiterAssumption, LimiterAssumption DEF Limiter!Times
  <2>4. u <= p[1] /\ p[1] < LimiterEnd
    BY <1>1, <2>2, <2>3, LimiterAssumption DEF Limiter!Times, LimiterEnd
  <2> QED
    BY <2>1, <2>4 DEF LimiterBegan
<1>3. Limiter!Total(f, LimiterStretch(t)) = Limiter!Total(f, some)
  <2>1. LimiterNumbered(f, LimiterStretch(t)) = LimiterNumbered(f, some)
    <3>1. \A p \in LimiterStretch(t) : f[p] \in Nat
      BY DEF LimiterStretch, LimiterCounts
    <3>2. \A p \in LimiterStretch(t) : \A m \in 1 .. f[p] : f[p] > 0
      BY <3>1
    <3>3. \A p \in LimiterStretch(t) : \A m \in 1 .. f[p] : p \in some
      BY <3>2
    <3>4. some \subseteq LimiterStretch(t)
      OBVIOUS
    <3> HIDE DEF some
    <3>5. \A r : r \in LimiterNumbered(f, LimiterStretch(t)) <=>
            r \in LimiterNumbered(f, some)
      BY <3>3, <3>4, LimiterNumberedIs
    <3> QED
      BY <3>5
  <2> QED
    BY <2>1 DEF Limiter!Total, LimiterNumbered
<1>4. LimiterBegan(u, LimiterEnd) \subseteq LimiterKinds
  BY DEF LimiterBegan
<1>5. Limiter!Total(f, some) <= LimiterThrough(f, u, LimiterEnd)
  <2> HIDE DEF some
  <2> QED
    BY <1>2, <1>4, LimiterCountsMonotone DEF LimiterThrough
<1> QED
  BY <1>1, <1>3, <1>5

LEMMA LimiterAdmittedIs ==
    Limiter!AdmittedBounded <=> \A t \in Limiter!Times : Limiter!Total(passed, LimiterStretch(t)) <=
                            IF limit = "counter" THEN 2 * MaxRequests
                            ELSE MaxRequests + Cardinality(Calls) - 1
BY LimiterCardinality DEF Limiter!AdmittedBounded, LimiterStretch, LimiterKinds

LEMMA LimiterCallsCounted == Cardinality(Calls) \in Nat /\ Cardinality(Calls) >= 1
<1>1. Cardinality(Calls) \in Nat /\ Cardinality(Calls) # 0
  BY CallsAssumption, FS_CardinalityType, FS_EmptySet
<1> QED
  BY <1>1

LEMMA LimiterIdleIs == Limiter!Idle \in LimiterChecks /\ Limiter!Idle.pc = "idle" /\ ~Limiter!Idle.admit
BY LimiterAssumption DEF Limiter!Idle, LimiterChecks, Limiter!Times

LEMMA LimiterInitially == ASSUME Limiter!Init PROVE LimiterInv
<1>1. /\ limit \in Limiter!Limits /\ clock = 0 /\ hits = [t \in Limiter!Times |-> 0] /\ counter = Limiter!NoCount
      /\ check = [c \in Calls |-> Limiter!Idle] /\ passed = [p \in Limiter!Times \X Limiter!Times |-> 0]
  BY DEF Limiter!Init
<1>2. LimiterTypes
  BY <1>1, LimiterIdleIs, LimiterAssumption, LimiterAssumption
     DEF LimiterTypes, Limiter!NoCount, Limiter!Times, LimiterKinds, LimiterCounts
<1>3. /\ \A c \in Calls : check[c].pc = "idle" /\ ~check[c].admit
      /\ \A p \in LimiterKinds : passed[p] = 0
  BY <1>1, LimiterIdleIs DEF LimiterKinds
<1>4. LimiterInFlight
  BY <1>3 DEF LimiterInFlight
<1>5. \A S : Limiter!Total(passed, S) = 0 \/ ~(S \subseteq LimiterKinds)
  <2> SUFFICES ASSUME NEW S, S \subseteq LimiterKinds PROVE Limiter!Total(passed, S) = 0
    OBVIOUS
  <2>1. LimiterNumbered(passed, S) = {}
    <3>1. \A r : r \notin LimiterNumbered(passed, S)
      BY <1>3, LimiterNumberedIs
    <3> QED
      BY <3>1
  <2> QED
    BY <2>1, FS_EmptySet, LimiterCardinality DEF Limiter!Total, LimiterNumbered
<1>6. \A u, v : LimiterThrough(passed, u, v) = 0 /\ LimiterOwed(check, u, v) = 0
  <2> SUFFICES ASSUME NEW u, NEW v
               PROVE  LimiterThrough(passed, u, v) = 0 /\ LimiterOwed(check, u, v) = 0
    OBVIOUS
  <2>1. LimiterBegan(u, v) \subseteq LimiterKinds
    BY DEF LimiterBegan
  <2>2. LimiterOpen(check, u, v) = {}
    BY <1>3 DEF LimiterOpen
  <2> QED
    BY <1>5, <2>1, <2>2, FS_EmptySet DEF LimiterThrough, LimiterOwed
<1>7. \A u \in Limiter!Times : Limiter!Total(hits, LimiterSince(u)) \in Nat
  <2> SUFFICES ASSUME NEW u \in Limiter!Times
               PROVE  Limiter!Total(hits, LimiterSince(u)) \in Nat
    OBVIOUS
  <2>1. IsFiniteSet(LimiterSince(u)) /\ \A k \in LimiterSince(u) : hits[k] \in Nat
    BY <1>1, LimiterKindsFinite DEF LimiterSince
  <2> QED
    BY <2>1, LimiterTotalGrows
<1>8. LimiterSorted
  BY <1>6, <1>7, LimiterCallsCounted, LimiterAssumption DEF LimiterSorted
<1>9. LimiterKeyed
  <2>1. counter.value = 0
    BY <1>1 DEF Limiter!NoCount
  <2>2. \A u, v : LimiterBoth(passed, check, u, v) = 0
    BY <1>6 DEF LimiterBoth
  <2> QED
    BY <2>1, <2>2, LimiterAssumption DEF LimiterKeyed
<1>10. Limiter!AdmittedBounded
  <2>1. \A t \in Limiter!Times : Limiter!Total(passed, LimiterStretch(t)) = 0
    BY <1>5 DEF LimiterStretch
  <2> QED
    BY <2>1, LimiterAdmittedIs, LimiterCallsCounted, LimiterAssumption
<1> QED
  BY <1>2, <1>4, <1>8, <1>9, <1>10 DEF LimiterInv

(***************************************************************************)
(* The steps                                                               *)
(***************************************************************************)

\* Nothing about the key changes when no more wait or went on.
LEMMA LimiterKeyedKept ==
    ASSUME LimiterTypes, LimiterTypes', LimiterKeyed, UNCHANGED <<limit, clock, counter>>,
           \A u, v \in Int : LimiterBoth(passed', check', u, v) <= LimiterBoth(passed, check, u, v)
    PROVE  LimiterKeyed'
<1>1. \A u, v \in Int : /\ LimiterBoth(passed', check', u, v) \in Int /\ LimiterBoth(passed, check, u, v) \in Int
                        /\ LimiterBoth(passed', check', u, v) <= LimiterBoth(passed, check, u, v)
  <2>1. passed \in LimiterCounts /\ passed' \in LimiterCounts
    BY DEF LimiterTypes
  <2>2. \A u, v \in Int : LimiterBoth(passed', check', u, v) \in Int
          /\ LimiterBoth(passed, check, u, v) \in Int
    BY <2>1, LimiterBothNat
  <2> QED
    BY <2>2
<1>2. \A u \in Limiter!Times : u \in Int
  BY LimiterAssumption DEF Limiter!Times
<1>3. LimiterEnd \in Int /\ clock \in Int /\ MaxRequests \in Int
  BY LimiterAssumption, LimiterAssumption, <1>2 DEF LimiterEnd, LimiterTypes
<1>7. ASSUME NEW u \in Int, NEW v \in Int, NEW n \in Int,
             LimiterBoth(passed, check, u, v) <= n
      PROVE  LimiterBoth(passed', check', u, v) <= n
  <2>1. /\ LimiterBoth(passed', check', u, v) \in Int /\ LimiterBoth(passed, check, u, v) \in Int
        /\ LimiterBoth(passed', check', u, v) <= LimiterBoth(passed, check, u, v)
    BY <1>1
  <2> QED
    BY <1>7, <2>1
<1>4. SUFFICES ASSUME limit = "counter" PROVE LimiterKeyed'
  BY DEF LimiterKeyed
<1>5. CASE counter.value = 0
  <2>1. LimiterBoth(passed, check, clock, LimiterEnd) <= 0
        /\ \A u \in Limiter!Times : clock < u + Window => LimiterBoth(passed, check, u, LimiterEnd) <= MaxRequests
    BY <1>4, <1>5 DEF LimiterKeyed
  <2>2. LimiterBoth(passed', check', clock, LimiterEnd) <= 0
    BY <1>3, <1>7, <2>1
  <2>3. \A u \in Limiter!Times : clock < u + Window =>
          LimiterBoth(passed', check', u, LimiterEnd) <= MaxRequests
    BY <1>2, <1>3, <1>7, <2>1
  <2>4. clock' = clock /\ counter' = counter
    OBVIOUS
  <2> QED
    BY <1>5, <2>2, <2>3, <2>4 DEF LimiterKeyed
<1>6. CASE counter.value # 0
  <2>1. PICK b \in Limiter!Times :
            /\ counter.expires = b + Window /\ b <= clock /\ clock < b + Window
            /\ LimiterBoth(passed, check, b, LimiterEnd) <= counter.value
            /\ LimiterBoth(passed, check, b, LimiterEnd) <= MaxRequests
            /\ \A u \in Limiter!Times : clock < u + Window => LimiterBoth(passed, check, u, b) <= MaxRequests
    BY <1>4, <1>6 DEF LimiterKeyed
  <2>2. counter.value \in Int
    BY DEF LimiterTypes
  <2>3. LimiterBoth(passed', check', b, LimiterEnd) <= counter.value
          /\ LimiterBoth(passed', check', b, LimiterEnd) <= MaxRequests
    BY <1>2, <1>3, <1>7, <2>1, <2>2
  <2>4. \A u \in Limiter!Times : clock < u + Window =>
          LimiterBoth(passed', check', u, b) <= MaxRequests
    BY <1>2, <1>3, <1>7, <2>1
  <2>5. clock' = clock /\ counter' = counter
    OBVIOUS
  <2> QED
    BY <1>6, <2>1, <2>3, <2>4, <2>5 DEF LimiterKeyed
<1> QED
  BY <1>5, <1>6

LEMMA LimiterStretchesKept ==
    ASSUME Limiter!AdmittedBounded, UNCHANGED <<limit, passed>>
    PROVE  Limiter!AdmittedBounded'
BY DEF Limiter!AdmittedBounded

LEMMA LimiterIncrementStep ==
    ASSUME LimiterInv, NEW c \in Calls, Limiter!Increment(c)
    PROVE  LimiterInv'
<1>1. LimiterTypes /\ LimiterInFlight /\ LimiterSorted /\ LimiterKeyed
        /\ Limiter!AdmittedBounded
  BY DEF LimiterInv
<1>2. PICK new : new = [pc |-> "answer", score |-> clock, admit |-> counter.value + 1 <= MaxRequests]
  OBVIOUS
<1>3. /\ limit = "counter" /\ check[c].pc = "idle" /\ check' = [check EXCEPT ![c] = new]
      /\ counter' = [value |-> counter.value + 1,
                     expires |-> IF counter.value = 0 THEN clock + Window ELSE counter.expires]
      /\ UNCHANGED <<limit, clock, hits, passed>>
  BY <1>2 DEF Limiter!Increment
<1>4. new \in LimiterChecks /\ new.pc = "answer" /\ new.score = clock
        /\ (new.admit <=> counter.value + 1 <= MaxRequests)
  <2>1. (counter.value + 1 <= MaxRequests) \in BOOLEAN
    OBVIOUS
  <2>2. clock \in Limiter!Times
    BY <1>1 DEF LimiterTypes
  <2> QED
    BY <1>2, <2>1, <2>2 DEF LimiterChecks
<1>5. LimiterTypes'
  BY <1>1, <1>3, <1>4, LimiterAssumption, LimiterAssumption DEF LimiterTypes, Limiter!Times
<1>6. LimiterInFlight'
  BY <1>1, <1>3, <1>4, LimiterAssumption, LimiterAssumption
     DEF LimiterInFlight, LimiterTypes, Limiter!Times
<1>7. LimiterSorted'
  BY <1>3 DEF LimiterSorted
<1>8. \A u, v \in Int :
          /\ ~(new.admit /\ u <= clock /\ clock < v) => LimiterBoth(passed', check', u, v) <= LimiterBoth(passed, check, u, v)
          /\ LimiterBoth(passed', check', u, v) <= LimiterBoth(passed, check, u, v) + 1
          /\ LimiterBoth(passed', check', u, v) \in Nat /\ LimiterBoth(passed, check, u, v) \in Nat
  <2> SUFFICES ASSUME NEW u \in Int, NEW v \in Int
               PROVE  /\ ~(new.admit /\ u <= clock /\ clock < v) =>
                             LimiterBoth(passed', check', u, v) <= LimiterBoth(passed, check, u, v)
                      /\ LimiterBoth(passed', check', u, v) <= LimiterBoth(passed, check, u, v) + 1
                      /\ LimiterBoth(passed', check', u, v) \in Nat /\ LimiterBoth(passed, check, u, v) \in Nat
    OBVIOUS
  <2>1. /\ ~(new.admit /\ u <= clock /\ clock < v) => LimiterOwed(check', u, v) <= LimiterOwed(check, u, v)
        /\ LimiterOwed(check', u, v) <= LimiterOwed(check, u, v) + 1
    BY <1>1, <1>3, <1>4, LimiterWaits DEF LimiterTypes
  <2>2. passed \in LimiterCounts /\ passed' = passed
    BY <1>1, <1>3 DEF LimiterTypes
  <2>3. /\ LimiterThrough(passed, u, v) \in Nat /\ LimiterOwed(check, u, v) \in Nat
        /\ LimiterBoth(passed, check, u, v) = LimiterThrough(passed, u, v) + LimiterOwed(check, u, v)
    BY <2>2, LimiterBothNat
  <2>4. /\ LimiterOwed(check', u, v) \in Nat
        /\ LimiterBoth(passed', check', u, v) = LimiterThrough(passed, u, v) + LimiterOwed(check', u, v)
    BY <2>2, LimiterBothNat
  <2> QED
    BY <2>1, <2>3, <2>4
<1>9. clock \in Limiter!Times /\ clock \in Nat /\ LimiterEnd \in Int
        /\ \A u \in Limiter!Times : u \in Nat /\ u < LimiterEnd
  BY <1>1, LimiterAssumption DEF LimiterTypes, Limiter!Times, LimiterEnd
<1>10. LimiterKeyed'
  <2>1. limit' = "counter" /\ clock' = clock /\ counter'.value = counter.value + 1
        /\ counter.value \in Nat /\ counter'.value # 0
    BY <1>1, <1>3 DEF LimiterTypes
  <2>2. CASE counter.value = 0
    <3>1. counter'.expires = clock + Window
      BY <1>3, <2>2
    <3>2. /\ LimiterBoth(passed, check, clock, LimiterEnd) <= 0
          /\ \A u \in Limiter!Times : clock < u + Window => LimiterBoth(passed, check, u, LimiterEnd) <= MaxRequests
      BY <1>1, <1>3, <2>2 DEF LimiterKeyed
    <3>7. /\ LimiterBoth(passed, check, clock, LimiterEnd) \in Nat /\ LimiterBoth(passed', check', clock, LimiterEnd) \in Nat
          /\ LimiterBoth(passed', check', clock, LimiterEnd) <= LimiterBoth(passed, check, clock, LimiterEnd) + 1
          /\ ~new.admit => LimiterBoth(passed', check', clock, LimiterEnd) <= LimiterBoth(passed, check, clock, LimiterEnd)
      <4>1. clock \in Int /\ LimiterEnd \in Int
        BY <1>9
      <4>2. /\ ~(new.admit /\ clock <= clock /\ clock < LimiterEnd) =>
                   LimiterBoth(passed', check', clock, LimiterEnd) <= LimiterBoth(passed, check, clock, LimiterEnd)
            /\ LimiterBoth(passed', check', clock, LimiterEnd) <= LimiterBoth(passed, check, clock, LimiterEnd) + 1
            /\ LimiterBoth(passed', check', clock, LimiterEnd) \in Nat /\ LimiterBoth(passed, check, clock, LimiterEnd) \in Nat
        BY <1>8, <4>1
      <4> QED
        BY <4>2
    <3>3. LimiterBoth(passed', check', clock, LimiterEnd) <= counter'.value
      BY <2>1, <2>2, <3>2, <3>7
    <3>4. LimiterBoth(passed', check', clock, LimiterEnd) <= MaxRequests
      BY <1>4, <2>1, <2>2, <3>2, <3>7, LimiterAssumption
    <3>5. \A u \in Limiter!Times : clock < u + Window =>
            LimiterBoth(passed', check', u, clock) <= MaxRequests
      <4> SUFFICES ASSUME NEW u \in Limiter!Times, clock < u + Window
                   PROVE  LimiterBoth(passed', check', u, clock) <= MaxRequests
        OBVIOUS
      <4>1. LimiterBoth(passed, check, u, clock) <= LimiterBoth(passed, check, u, LimiterEnd)
        BY <1>1, <1>9, LimiterBothMonotone DEF LimiterTypes
      <4>2. LimiterBoth(passed', check', u, clock) <= LimiterBoth(passed, check, u, clock)
        BY <1>8, <1>9
      <4>3. LimiterBoth(passed, check, u, LimiterEnd) <= MaxRequests
        BY <3>2
      <4> QED
        BY <1>8, <1>9, <4>1, <4>2, <4>3, LimiterAssumption
    <3>6. clock < clock + Window
      BY <1>9, LimiterAssumption
    <3> QED
      BY <1>9, <2>1, <3>1, <3>3, <3>4, <3>5, <3>6 DEF LimiterKeyed
  <2>3. CASE counter.value # 0
    <3>1. PICK b \in Limiter!Times :
              /\ counter.expires = b + Window /\ b <= clock /\ clock < b + Window
              /\ LimiterBoth(passed, check, b, LimiterEnd) <= counter.value
              /\ LimiterBoth(passed, check, b, LimiterEnd) <= MaxRequests
              /\ \A u \in Limiter!Times : clock < u + Window => LimiterBoth(passed, check, u, b) <= MaxRequests
      BY <1>1, <1>3, <2>3 DEF LimiterKeyed
    <3>2. counter'.expires = b + Window
      BY <1>3, <2>3, <3>1
    <3>6. /\ LimiterBoth(passed, check, b, LimiterEnd) \in Nat /\ LimiterBoth(passed', check', b, LimiterEnd) \in Nat
          /\ LimiterBoth(passed', check', b, LimiterEnd) <= LimiterBoth(passed, check, b, LimiterEnd) + 1
          /\ ~new.admit => LimiterBoth(passed', check', b, LimiterEnd) <= LimiterBoth(passed, check, b, LimiterEnd)
      <4>1. b \in Int /\ LimiterEnd \in Int
        BY <1>9
      <4>2. /\ ~(new.admit /\ b <= clock /\ clock < LimiterEnd) =>
                   LimiterBoth(passed', check', b, LimiterEnd) <= LimiterBoth(passed, check, b, LimiterEnd)
            /\ LimiterBoth(passed', check', b, LimiterEnd) <= LimiterBoth(passed, check, b, LimiterEnd) + 1
            /\ LimiterBoth(passed', check', b, LimiterEnd) \in Nat /\ LimiterBoth(passed, check, b, LimiterEnd) \in Nat
        BY <1>8, <4>1
      <4> QED
        BY <4>2
    <3>3. LimiterBoth(passed', check', b, LimiterEnd) <= counter'.value
      BY <2>1, <3>1, <3>6
    <3>4. LimiterBoth(passed', check', b, LimiterEnd) <= MaxRequests
      BY <1>4, <2>1, <3>1, <3>6, LimiterAssumption
    <3>5. \A u \in Limiter!Times : clock < u + Window =>
            LimiterBoth(passed', check', u, b) <= MaxRequests
      BY <1>8, <1>9, <3>1, LimiterAssumption
    <3> QED
      BY <2>1, <3>1, <3>2, <3>3, <3>4, <3>5 DEF LimiterKeyed
  <2> QED
    BY <2>2, <2>3
<1>11. Limiter!AdmittedBounded'
  BY <1>1, <1>3, LimiterStretchesKept
<1> QED
  BY <1>5, <1>6, <1>7, <1>10, <1>11 DEF LimiterInv

\* A check that goes on, of either kind of limit.
LEMMA LimiterAdmitStep ==
    ASSUME LimiterTypes, LimiterTypes', LimiterInFlight, LimiterInFlight', LimiterSorted',
           LimiterKeyed', Limiter!AdmittedBounded,
           NEW c \in Calls, Limiter!Admit(c), UNCHANGED <<limit, clock>>
    PROVE  Limiter!AdmittedBounded'
<1>1. PICK f : f = passed'
  OBVIOUS
<1>2. f \in LimiterCounts /\ passed \in LimiterCounts /\ clock \in Limiter!Times
  BY <1>1 DEF LimiterTypes
<1>3. \A p \in LimiterKinds : f[p] > 0 => p[1] <= clock /\ p[2] <= p[1] + Slowest
  BY <1>1 DEF LimiterInFlight
<1>4. ASSUME NEW t \in Limiter!Times
      PROVE  Limiter!Total(f, LimiterStretch(t)) <= IF limit = "counter" THEN 2 * MaxRequests
                                     ELSE MaxRequests + Cardinality(Calls) - 1
  <2>1. LimiterStretch(t) \subseteq LimiterKinds
    BY DEF LimiterStretch
  <2>2. Limiter!Total(f, LimiterStretch(t)) \in Nat
    BY <1>2, <2>1, LimiterCountsNat
  <2>3. CASE clock <= t
    <3>1. PICK u \in Limiter!Times : clock < u + Window
            /\ Limiter!Total(f, LimiterStretch(t)) <= LimiterThrough(f, u, LimiterEnd)
      BY <1>2, <1>3, <2>3, LimiterStretchInWindow
    <3>2. LimiterThrough(f, u, LimiterEnd) \in Nat /\ \A v \in Int : LimiterOwed(check', u, v) \in Nat
          /\ LimiterOwed(check', 0, LimiterEnd) \in Nat
      BY <1>2, LimiterBothNat
    <3>3. CASE limit # "counter"
      <4>1. LimiterThrough(f, u, LimiterEnd) + LimiterOwed(check', 0, LimiterEnd) <= MaxRequests + Cardinality(Calls) - 1
        BY <1>1, <3>1, <3>3 DEF LimiterSorted
      <4> QED
        BY <2>2, <3>1, <3>2, <3>3, <4>1, LimiterAssumption, LimiterCallsCounted
    <3>4. CASE limit = "counter"
      <4>1. CASE counter'.value = 0
        <5>1. LimiterBoth(f, check', u, LimiterEnd) <= MaxRequests
          BY <1>1, <3>1, <3>4, <4>1 DEF LimiterKeyed
        <5>2. LimiterBoth(f, check', u, LimiterEnd) = LimiterThrough(f, u, LimiterEnd) + LimiterOwed(check', u, LimiterEnd) /\ LimiterOwed(check', u, LimiterEnd) \in Nat
          BY <1>2, LimiterBothNat
        <5> QED
          BY <2>2, <3>1, <3>2, <3>4, <5>1, <5>2, LimiterAssumption
      <4>2. CASE counter'.value # 0
        <5>1. PICK b \in Limiter!Times : /\ LimiterBoth(f, check', b, LimiterEnd) <= MaxRequests
                                         /\ LimiterBoth(f, check', u, b) <= MaxRequests
          BY <1>1, <3>1, <3>4, <4>2 DEF LimiterKeyed
        <5>2. /\ LimiterBoth(f, check', b, LimiterEnd) = LimiterThrough(f, b, LimiterEnd) + LimiterOwed(check', b, LimiterEnd)
              /\ LimiterBoth(f, check', u, b) = LimiterThrough(f, u, b) + LimiterOwed(check', u, b)
              /\ LimiterOwed(check', b, LimiterEnd) \in Nat /\ LimiterOwed(check', u, b) \in Nat
              /\ LimiterThrough(f, b, LimiterEnd) \in Nat /\ LimiterThrough(f, u, b) \in Nat
          BY <1>2, LimiterBothNat
        <5>3. LimiterThrough(f, u, LimiterEnd) <= LimiterThrough(f, u, b) + LimiterThrough(f, b, LimiterEnd)
          BY <1>2, LimiterThroughSplit
        <5> QED
          BY <2>2, <3>1, <3>2, <3>4, <5>1, <5>2, <5>3, LimiterAssumption
      <4> QED
        BY <4>1, <4>2
    <3> QED
      BY <3>3, <3>4
  <2>4. CASE ~(clock <= t)
    <3>1. PICK k : k = <<check[c].score, clock>>
      OBVIOUS
    <3>2. k \in LimiterKinds /\ k[2] = clock
      BY <1>2, <3>1 DEF LimiterTypes, LimiterChecks, LimiterKinds
    <3>3. k \notin LimiterStretch(t)
      BY <2>4, <3>2 DEF LimiterStretch
    <3>4. f = [passed EXCEPT ![k] = @ + 1]
      BY <1>1, <3>1 DEF Limiter!Admit
    <3>5. \A q \in LimiterStretch(t) : /\ f[q] \in Nat /\ passed[q] \in Nat /\ f[q] <= passed[q]
      BY <1>2, <2>1, <3>3, <3>4 DEF LimiterCounts
    <3>6. Limiter!Total(f, LimiterStretch(t)) <= Limiter!Total(passed, LimiterStretch(t))
            /\ Limiter!Total(passed, LimiterStretch(t)) \in Nat
      BY <2>1, <3>5, LimiterKindsFinite, LimiterTotalGrows
    <3>7. Limiter!Total(passed, LimiterStretch(t)) <= IF limit = "counter" THEN 2 * MaxRequests
                                     ELSE MaxRequests + Cardinality(Calls) - 1
      BY LimiterAdmittedIs
    <3> QED
      BY <2>2, <3>6, <3>7, LimiterAssumption, LimiterCallsCounted
  <2> QED
    BY <2>3, <2>4
<1> QED
  BY <1>1, <1>4, LimiterCardinality
     DEF Limiter!AdmittedBounded, LimiterStretch, LimiterKinds

\* A check that is dropped, or answered: no more wait, and what went on is the same.
LEMMA LimiterDropStep ==
    ASSUME LimiterInv, NEW c \in Calls, NEW k \in LimiterChecks, ~k.admit,
           check' = [check EXCEPT ![c] = k],
           UNCHANGED <<limit, clock, counter, passed>>, LimiterTypes', LimiterInFlight',
           limit # "counter" => \A u \in Limiter!Times : clock < u + Window =>
               Limiter!Total(hits', LimiterSince(u)) = Limiter!Total(hits, LimiterSince(u))
    PROVE  LimiterInv'
<1>1. LimiterTypes /\ LimiterSorted /\ LimiterKeyed /\ Limiter!AdmittedBounded
  BY DEF LimiterInv
<1>2. passed \in LimiterCounts /\ passed' = passed /\ check \in [Calls -> LimiterChecks]
  BY <1>1 DEF LimiterTypes
<1>3. \A u, v \in Int : LimiterOwed(check', u, v) <= LimiterOwed(check, u, v)
  BY <1>2, LimiterWaits
<1>4. \A u, v \in Int : LimiterBoth(passed', check', u, v) <= LimiterBoth(passed, check, u, v)
  <2> SUFFICES ASSUME NEW u \in Int, NEW v \in Int
               PROVE  LimiterBoth(passed', check', u, v) <= LimiterBoth(passed, check, u, v)
    OBVIOUS
  <2>1. /\ LimiterThrough(passed, u, v) \in Nat /\ LimiterOwed(check, u, v) \in Nat
        /\ LimiterBoth(passed, check, u, v) = LimiterThrough(passed, u, v) + LimiterOwed(check, u, v)
    BY <1>2, LimiterBothNat
  <2>2. /\ LimiterOwed(check', u, v) \in Nat
        /\ LimiterBoth(passed', check', u, v) = LimiterThrough(passed, u, v) + LimiterOwed(check', u, v)
    BY <1>2, LimiterBothNat
  <2>3. LimiterOwed(check', u, v) <= LimiterOwed(check, u, v)
    BY <1>3
  <2> QED
    BY <2>1, <2>2, <2>3
<1>5. LimiterKeyed'
  BY <1>1, <1>4, LimiterKeyedKept
<1>6. LimiterSorted'
  <2> SUFFICES ASSUME limit # "counter", NEW u \in Limiter!Times, clock < u + Window
               PROVE  /\ LimiterThrough(passed, u, LimiterEnd) <= Limiter!Total(hits', LimiterSince(u))
                      /\ LimiterThrough(passed, u, LimiterEnd) + LimiterOwed(check', 0, LimiterEnd) <=
                             MaxRequests + Cardinality(Calls) - 1
    BY DEF LimiterSorted
  <2>1. /\ LimiterThrough(passed, u, LimiterEnd) <= Limiter!Total(hits, LimiterSince(u))
        /\ LimiterThrough(passed, u, LimiterEnd) + LimiterOwed(check, 0, LimiterEnd) <= MaxRequests + Cardinality(Calls) - 1
    BY <1>1 DEF LimiterSorted
  <2>2. /\ LimiterThrough(passed, u, LimiterEnd) \in Nat /\ LimiterOwed(check, 0, LimiterEnd) \in Nat /\ LimiterOwed(check', 0, LimiterEnd) \in Nat
    BY <1>2, LimiterBothNat
  <2>3. LimiterOwed(check', 0, LimiterEnd) <= LimiterOwed(check, 0, LimiterEnd)
    <3>1. 0 \in Int /\ LimiterEnd \in Int
      BY LimiterAssumption DEF LimiterEnd
    <3> QED
      BY <1>3, <3>1
  <2>4. MaxRequests + Cardinality(Calls) - 1 \in Int
    BY LimiterAssumption, LimiterCallsCounted
  <2>5. PICK most : most = MaxRequests + Cardinality(Calls) - 1
    OBVIOUS
  <2>6. LimiterThrough(passed, u, LimiterEnd) + LimiterOwed(check', 0, LimiterEnd) <= most
    BY ONLY <2>1, <2>2, <2>3, <2>4, <2>5
  <2> QED
    BY <2>1, <2>5, <2>6
<1>7. Limiter!AdmittedBounded'
  BY <1>1, LimiterStretchesKept
<1> QED
  BY <1>5, <1>6, <1>7 DEF LimiterInv

LEMMA LimiterCountAnsweredStep ==
    ASSUME LimiterInv, NEW c \in Calls, Limiter!CountAnswered(c)
    PROVE  LimiterInv'
<1>1. LimiterTypes /\ LimiterInFlight /\ LimiterSorted /\ LimiterKeyed
        /\ Limiter!AdmittedBounded
  BY DEF LimiterInv
<1>2. /\ check[c].pc = "answer" /\ check' = [check EXCEPT ![c] = Limiter!Idle]
      /\ UNCHANGED <<limit, clock, hits, counter>>
      /\ IF check[c].admit THEN Limiter!Admit(c) ELSE UNCHANGED passed
  BY DEF Limiter!CountAnswered
<1>3. limit = "counter" /\ check[c] \in LimiterChecks /\ clock \in Limiter!Times /\ passed \in LimiterCounts
      /\ check \in [Calls -> LimiterChecks] /\ check[c].score <= clock /\ clock <= check[c].score + Slowest
  BY <1>1, <1>2 DEF LimiterInFlight, LimiterTypes
<1>4. CASE ~check[c].admit
  <2>1. passed' = passed
    BY <1>2, <1>4
  <2>2. LimiterTypes'
    BY <1>1, <1>2, <2>1, LimiterIdleIs DEF LimiterTypes
  <2>3. LimiterInFlight'
    BY <1>1, <1>2, <1>3, <2>1, LimiterIdleIs DEF LimiterInFlight
  <2> QED
    BY <1>2, <1>3, <2>1, <2>2, <2>3, LimiterIdleIs, LimiterDropStep
<1>5. CASE check[c].admit
  <2>1. Limiter!Admit(c) /\ passed' = [passed EXCEPT ![<<check[c].score, clock>>] = @ + 1]
    BY <1>2, <1>5 DEF Limiter!Admit
  <2>2. \A u, v \in Int :
            /\ passed' \in LimiterCounts
            /\ u <= check[c].score /\ check[c].score < v =>
                  /\ LimiterThrough(passed', u, v) = LimiterThrough(passed, u, v) + 1
                  /\ LimiterOwed(check', u, v) = LimiterOwed(check, u, v) - 1
            /\ ~(u <= check[c].score /\ check[c].score < v) =>
                  /\ LimiterThrough(passed', u, v) = LimiterThrough(passed, u, v)
                  /\ LimiterOwed(check', u, v) = LimiterOwed(check, u, v)
    <3>1. PICK f, g, k : f = passed' /\ g = check' /\ k = <<check[c].score, clock>>
      OBVIOUS
    <3>2. /\ check[c].admit /\ check \in [Calls -> LimiterChecks] /\ passed \in LimiterCounts /\ clock \in Limiter!Times
          /\ f = [passed EXCEPT ![k] = @ + 1] /\ g = [check EXCEPT ![c] = Limiter!Idle]
      BY <1>2, <1>3, <1>5, <2>1, <3>1
    <3>3. k \in LimiterKinds /\ k[1] = check[c].score
      BY <3>1, <3>2 DEF LimiterKinds, LimiterChecks
    <3>4. f \in LimiterCounts /\ f[k] = passed[k] + 1 /\ \A q \in LimiterKinds : q # k =>
            f[q] = passed[q]
      BY ONLY <3>2, <3>3 DEF LimiterCounts
    <3>5. g \in [Calls -> LimiterChecks] /\ ~g[c].admit /\ \A d \in Calls : d # c =>
            g[d] = check[d]
      BY <3>2, LimiterIdleIs
    <3>7. LimiterMoved(c, k, passed, check, f, g)
      BY <3>2, <3>3, <3>4, <3>5 DEF LimiterMoved
    <3>6. ASSUME NEW u \in Int, NEW v \in Int
          PROVE  /\ f \in LimiterCounts
                 /\ u <= check[c].score /\ check[c].score < v =>
                        /\ LimiterThrough(f, u, v) = LimiterThrough(passed, u, v) + 1
                        /\ LimiterOwed(g, u, v) = LimiterOwed(check, u, v) - 1
                 /\ ~(u <= check[c].score /\ check[c].score < v) =>
                        /\ LimiterThrough(f, u, v) = LimiterThrough(passed, u, v)
                        /\ LimiterOwed(g, u, v) = LimiterOwed(check, u, v)
      <4>1. u \in Int /\ v \in Int /\ c \in Calls
        OBVIOUS
      <4> QED
        BY <3>4, <3>7, <4>1, LimiterGoesOn
    <3> QED
      BY <3>1, <3>6
  <2>3. passed' \in LimiterCounts
    BY <2>2
  <2>4. LimiterTypes'
    BY <1>1, <1>2, <2>3, LimiterIdleIs DEF LimiterTypes
  <2>5. LimiterInFlight'
    <3>1. \A p \in LimiterKinds : p = <<check[c].score, clock>> \/ passed'[p] = passed[p]
      BY <1>3, <2>1 DEF LimiterCounts
    <3> QED
      BY <1>1, <1>2, <1>3, <3>1, LimiterIdleIs DEF LimiterInFlight
  <2>6. \A u, v \in Int : LimiterBoth(passed', check', u, v) <= LimiterBoth(passed, check, u, v)
    <3> SUFFICES ASSUME NEW u \in Int, NEW v \in Int
                 PROVE  LimiterBoth(passed', check', u, v) <= LimiterBoth(passed, check, u, v)
      OBVIOUS
    <3>1. /\ LimiterThrough(passed, u, v) \in Nat /\ LimiterOwed(check, u, v) \in Nat
          /\ LimiterBoth(passed, check, u, v) = LimiterThrough(passed, u, v) + LimiterOwed(check, u, v)
      BY <1>3, LimiterBothNat
    <3>2. LimiterBoth(passed', check', u, v) = LimiterThrough(passed', u, v) + LimiterOwed(check', u, v)
      BY <2>3, LimiterBothNat
    <3> QED
      BY <2>2, <3>1, <3>2
  <2>7. LimiterKeyed'
    BY <1>1, <1>2, <2>4, <2>6, LimiterKeyedKept
  <2>8. LimiterSorted'
    BY <1>2, <1>3 DEF LimiterSorted
  <2>9. Limiter!AdmittedBounded'
    BY <1>1, <1>2, <2>1, <2>4, <2>5, <2>7, <2>8, LimiterAdmitStep
  <2> QED
    BY <2>4, <2>5, <2>7, <2>8, <2>9 DEF LimiterInv
<1> QED
  BY <1>4, <1>5

LEMMA LimiterRemoveExpiredStep ==
    ASSUME LimiterInv, NEW c \in Calls, Limiter!RemoveExpired(c)
    PROVE  LimiterInv'
<1>1. LimiterTypes /\ LimiterInFlight
  BY DEF LimiterInv
<1>2. PICK k : k = [pc |-> "count", score |-> clock, admit |-> FALSE]
  OBVIOUS
<1>3. /\ limit # "counter" /\ check' = [check EXCEPT ![c] = k]
      /\ hits' = [t \in Limiter!Times |-> IF t + Window <= clock THEN 0 ELSE hits[t]]
      /\ UNCHANGED <<limit, clock, counter, passed>>
  BY <1>2 DEF Limiter!RemoveExpired
<1>4. k \in LimiterChecks /\ k.pc = "count" /\ k.score = clock /\ ~k.admit
  BY <1>1, <1>2 DEF LimiterTypes, LimiterChecks
<1>5. hits' \in [Limiter!Times -> Nat]
  BY <1>1, <1>3 DEF LimiterTypes
<1>6. LimiterTypes'
  BY <1>1, <1>3, <1>4, <1>5 DEF LimiterTypes
<1>7. LimiterInFlight'
  BY <1>1, <1>3, <1>4, LimiterAssumption, LimiterAssumption
     DEF LimiterInFlight, LimiterTypes, Limiter!Times
<1>8. ASSUME NEW u \in Limiter!Times, clock < u + Window
      PROVE  Limiter!Total(hits', LimiterSince(u)) = Limiter!Total(hits, LimiterSince(u))
  <2>1. \A s \in LimiterSince(u) : /\ hits'[s] \in Nat /\ hits[s] \in Nat
                                   /\ hits'[s] <= hits[s] /\ hits[s] <= hits'[s]
    <3> SUFFICES ASSUME NEW s \in LimiterSince(u)
                 PROVE  hits'[s] = hits[s] /\ hits[s] \in Nat
      OBVIOUS
    <3>1. s \in Limiter!Times /\ u <= s
      BY DEF LimiterSince
    <3>2. ~(s + Window <= clock)
      BY <1>1, <1>8, <3>1, LimiterAssumption, LimiterAssumption
         DEF LimiterTypes, Limiter!Times
    <3> QED
      BY <1>1, <1>3, <3>1, <3>2 DEF LimiterTypes
  <2>2. IsFiniteSet(LimiterSince(u))
    BY LimiterKindsFinite DEF LimiterSince
  <2>3. PICK f, g : f = hits' /\ g = hits
    OBVIOUS
  <2>4. \A s \in LimiterSince(u) : f[s] \in Nat /\ g[s] \in Nat /\ f[s] <= g[s]
          /\ g[s] <= f[s]
    BY <2>1, <2>3
  <2>5. /\ Limiter!Total(f, LimiterSince(u)) \in Nat /\ Limiter!Total(g, LimiterSince(u)) \in Nat
        /\ Limiter!Total(f, LimiterSince(u)) <= Limiter!Total(g, LimiterSince(u)) /\ Limiter!Total(g, LimiterSince(u)) <= Limiter!Total(f, LimiterSince(u))
    BY ONLY <2>2, <2>4, LimiterTotalGrows
  <2> QED
    BY <2>3, <2>5
<1> QED
  BY <1>3, <1>4, <1>6, <1>7, <1>8, LimiterDropStep

LEMMA LimiterRedisFailsStep ==
    ASSUME LimiterInv, NEW c \in Calls, Limiter!RedisFails(c)
    PROVE  LimiterInv'
<1>1. LimiterTypes /\ LimiterInFlight
  BY DEF LimiterInv
<1>2. check' = [check EXCEPT ![c] = Limiter!Idle]
        /\ UNCHANGED <<limit, clock, hits, counter, passed>>
  BY DEF Limiter!RedisFails
<1>3. LimiterTypes'
  BY <1>1, <1>2, LimiterIdleIs DEF LimiterTypes
<1>4. LimiterInFlight'
  BY <1>1, <1>2, LimiterIdleIs DEF LimiterInFlight, LimiterTypes
<1> QED
  BY <1>2, <1>3, <1>4, LimiterIdleIs, LimiterDropStep

LEMMA LimiterHitsTotals ==
    ASSUME LimiterTypes, NEW u \in Limiter!Times
    PROVE  /\ Limiter!Total(hits, LimiterSince(u)) \in Nat /\ Limiter!Total(hits, Limiter!Times) \in Nat
           /\ Limiter!Total(hits, LimiterSince(u)) <= Limiter!Total(hits, Limiter!Times)
<1>1. LimiterSince(u) \subseteq Limiter!Times /\ \A s \in Limiter!Times : hits[s] \in Nat
        /\ hits[s] <= hits[s]
  BY DEF LimiterSince, LimiterTypes
<1> QED
  BY <1>1, LimiterKindsFinite, LimiterTotalGrows

LEMMA LimiterCountRequestsStep ==
    ASSUME LimiterInv, NEW c \in Calls, Limiter!CountRequests(c)
    PROVE  LimiterInv'
<1>1. LimiterTypes /\ LimiterInFlight /\ LimiterSorted /\ LimiterKeyed
        /\ Limiter!AdmittedBounded
  BY DEF LimiterInv
<1>2. PICK admits : admits = Limiter!Admits(Limiter!Total(hits, Limiter!Times))
  OBVIOUS
<1>3. /\ check[c].pc = "count" /\ UNCHANGED <<limit, clock, hits, counter, passed>>
      /\ check' = [check EXCEPT ![c] = IF admits \/ limit = "sliding"
                                     THEN [@ EXCEPT !.pc = "add", !.admit = admits] ELSE Limiter!Idle]
  BY <1>2 DEF Limiter!CountRequests
<1>4. limit # "counter" /\ check[c] \in LimiterChecks /\ admits \in BOOLEAN
  BY <1>1, <1>2, <1>3 DEF LimiterInFlight, LimiterTypes, Limiter!Admits
<1>5. PICK k : k = IF admits \/ limit = "sliding"
                   THEN [check[c] EXCEPT !.pc = "add", !.admit = admits] ELSE Limiter!Idle
  OBVIOUS
<1>6. check' = [check EXCEPT ![c] = k]
  BY <1>3, <1>5
<1>7. /\ k \in LimiterChecks /\ (k.admit <=> admits)
      /\ k.pc = "idle" \/ (k.pc = "add" /\ k.score = check[c].score)
      /\ k.admit => k.pc = "add"
  BY <1>4, <1>5, LimiterIdleIs DEF LimiterChecks
<1>8. LimiterTypes'
  BY <1>1, <1>3, <1>6, <1>7 DEF LimiterTypes
<1>9. LimiterInFlight'
  BY <1>1, <1>3, <1>4, <1>6, <1>7 DEF LimiterInFlight, LimiterTypes
<1>10. CASE ~admits
  BY <1>3, <1>6, <1>7, <1>8, <1>9, <1>10, LimiterDropStep
<1>11. CASE admits
  <2>1. LimiterKeyed'
    BY <1>3, <1>4 DEF LimiterKeyed
  <2>2. Limiter!AdmittedBounded'
    BY <1>1, <1>3, LimiterStretchesKept
  <2>3. LimiterSorted'
    <3> SUFFICES ASSUME NEW u \in Limiter!Times, clock < u + Window
                 PROVE  /\ LimiterThrough(passed, u, LimiterEnd) <= Limiter!Total(hits, LimiterSince(u))
                        /\ LimiterThrough(passed, u, LimiterEnd) + LimiterOwed(check', 0, LimiterEnd) <=
                               MaxRequests + Cardinality(Calls) - 1
      BY <1>3, <1>4 DEF LimiterSorted
    <3>1. LimiterThrough(passed, u, LimiterEnd) <= Limiter!Total(hits, LimiterSince(u))
      BY <1>1, <1>4 DEF LimiterSorted
    <3>2. Limiter!Total(hits, Limiter!Times) < MaxRequests
      BY <1>2, <1>11 DEF Limiter!Admits
    <3>3. /\ Limiter!Total(hits, LimiterSince(u)) \in Nat /\ Limiter!Total(hits, Limiter!Times) \in Nat
          /\ Limiter!Total(hits, LimiterSince(u)) <= Limiter!Total(hits, Limiter!Times)
      BY <1>1, LimiterHitsTotals
    <3>4. LimiterOwed(check', 0, LimiterEnd) \in Nat
            /\ LimiterOwed(check', 0, LimiterEnd) <= Cardinality(Calls)
      BY LimiterOwedNat
    <3>5. passed \in LimiterCounts
      BY <1>1 DEF LimiterTypes
    <3>6. LimiterThrough(passed, u, LimiterEnd) \in Nat
      BY <3>5, LimiterBothNat
    <3> QED
      BY <3>1, <3>2, <3>3, <3>4, <3>6, LimiterCallsCounted, LimiterAssumption
  <2> QED
    BY <1>8, <1>9, <2>1, <2>2, <2>3 DEF LimiterInv
<1> QED
  BY <1>4, <1>10, <1>11

LEMMA LimiterAddRequestStep ==
    ASSUME LimiterInv, NEW c \in Calls, Limiter!AddRequest(c)
    PROVE  LimiterInv'
<1>1. LimiterTypes /\ LimiterInFlight /\ LimiterSorted /\ LimiterKeyed
        /\ Limiter!AdmittedBounded
  BY DEF LimiterInv
<1>2. PICK s : s = check[c].score
  OBVIOUS
<1>3. /\ check[c].pc = "add" /\ check' = [check EXCEPT ![c] = Limiter!Idle]
      /\ hits' = [hits EXCEPT ![s] = @ + 1]
      /\ UNCHANGED <<limit, clock, counter>>
      /\ IF check[c].admit THEN Limiter!Admit(c) ELSE UNCHANGED passed
  BY <1>2 DEF Limiter!AddRequest
<1>4. limit # "counter" /\ check[c] \in LimiterChecks /\ s \in Limiter!Times /\ clock \in Limiter!Times /\ passed \in LimiterCounts
      /\ check \in [Calls -> LimiterChecks] /\ s <= clock /\ clock <= s + Slowest /\ hits \in [Limiter!Times -> Nat]
  BY <1>1, <1>2, <1>3 DEF LimiterInFlight, LimiterTypes, LimiterChecks
<1>5. PICK h : h = hits'
  OBVIOUS
<1>6. h \in [Limiter!Times -> Nat] /\ h[s] = hits[s] + 1 /\ \A t \in Limiter!Times : t # s =>
        h[t] = hits[t]
  BY <1>3, <1>4, <1>5
<1>7. ASSUME NEW u \in Limiter!Times
      PROVE  /\ Limiter!Total(h, LimiterSince(u)) \in Nat /\ Limiter!Total(hits, LimiterSince(u)) \in Nat
             /\ Limiter!Total(hits, LimiterSince(u)) <= Limiter!Total(h, LimiterSince(u))
             /\ u <= s => Limiter!Total(h, LimiterSince(u)) = Limiter!Total(hits, LimiterSince(u)) + 1
  <2>1. IsFiniteSet(LimiterSince(u)) /\ LimiterSince(u) \subseteq Limiter!Times
    BY LimiterKindsFinite DEF LimiterSince
  <2>2. \A t \in LimiterSince(u) : h[t] \in Nat /\ hits[t] \in Nat /\ hits[t] <= h[t]
    <3> SUFFICES ASSUME NEW t \in LimiterSince(u)
                 PROVE  h[t] \in Nat /\ hits[t] \in Nat /\ hits[t] <= h[t]
      OBVIOUS
    <3>1. t \in Limiter!Times
      BY <2>1
    <3> QED
      BY <1>4, <1>6, <3>1
  <2>3. /\ Limiter!Total(h, LimiterSince(u)) \in Nat /\ Limiter!Total(hits, LimiterSince(u)) \in Nat
        /\ Limiter!Total(hits, LimiterSince(u)) <= Limiter!Total(h, LimiterSince(u))
    BY <2>1, <2>2, LimiterTotalGrows
  <2>4. ASSUME u <= s
        PROVE  Limiter!Total(h, LimiterSince(u)) = Limiter!Total(hits, LimiterSince(u)) + 1
    <3>1. s \in LimiterSince(u)
      BY <1>4, <2>4 DEF LimiterSince
    <3>2. h[s] = hits[s] + 1 /\ \A t \in LimiterSince(u) : t # s => h[t] = hits[t]
      BY <1>6, <2>1
    <3> QED
      BY <2>1, <2>2, <3>1, <3>2, LimiterTotalOneMore
  <2> QED
    BY <2>3, <2>4
<1>8. LimiterKeyed'
  BY <1>3, <1>4 DEF LimiterKeyed
<1>9. CASE ~check[c].admit
  <2>1. passed' = passed
    BY <1>3, <1>9
  <2>2. LimiterTypes'
    BY <1>1, <1>3, <1>5, <1>6, <2>1, LimiterIdleIs DEF LimiterTypes
  <2>3. LimiterInFlight'
    BY <1>1, <1>3, <2>1, LimiterIdleIs DEF LimiterInFlight, LimiterTypes
  <2>4. Limiter!AdmittedBounded'
    BY <1>1, <1>3, <2>1, LimiterStretchesKept
  <2>5. LimiterSorted'
    <3> SUFFICES ASSUME NEW u \in Limiter!Times, clock < u + Window
                 PROVE  /\ LimiterThrough(passed, u, LimiterEnd) <= Limiter!Total(h, LimiterSince(u))
                        /\ LimiterThrough(passed, u, LimiterEnd) + LimiterOwed(check', 0, LimiterEnd) <=
                               MaxRequests + Cardinality(Calls) - 1
      BY <1>3, <1>4, <1>5, <2>1 DEF LimiterSorted
    <3>1. /\ LimiterThrough(passed, u, LimiterEnd) <= Limiter!Total(hits, LimiterSince(u))
          /\ LimiterThrough(passed, u, LimiterEnd) + LimiterOwed(check, 0, LimiterEnd) <= MaxRequests + Cardinality(Calls) - 1
      BY <1>1, <1>4 DEF LimiterSorted
    <3>2. LimiterThrough(passed, u, LimiterEnd) \in Nat
            /\ LimiterOwed(check, 0, LimiterEnd) \in Nat
            /\ LimiterOwed(check', 0, LimiterEnd) \in Nat
      BY <1>4, LimiterBothNat
    <3>3. 0 \in Int /\ LimiterEnd \in Int
      BY LimiterAssumption DEF LimiterEnd
    <3>4. LimiterOwed(check', 0, LimiterEnd) <= LimiterOwed(check, 0, LimiterEnd)
      BY <1>3, <1>4, <3>3, LimiterIdleIs, LimiterWaits
    <3>5. Limiter!Total(hits, LimiterSince(u)) \in Nat /\ Limiter!Total(h, LimiterSince(u)) \in Nat
          /\ Limiter!Total(hits, LimiterSince(u)) <= Limiter!Total(h, LimiterSince(u))
      BY <1>7
    <3>6. MaxRequests + Cardinality(Calls) - 1 \in Int
      BY LimiterAssumption, LimiterCallsCounted
    <3>7. PICK most : most = MaxRequests + Cardinality(Calls) - 1
      OBVIOUS
    <3>8. LimiterThrough(passed, u, LimiterEnd) + LimiterOwed(check', 0, LimiterEnd) <= most
      BY ONLY <3>1, <3>2, <3>4, <3>6, <3>7
    <3> QED
      BY <3>1, <3>2, <3>5, <3>7, <3>8
  <2> QED
    BY <1>8, <2>2, <2>3, <2>4, <2>5 DEF LimiterInv
<1>10. CASE check[c].admit
  <2>1. Limiter!Admit(c) /\ passed' = [passed EXCEPT ![<<check[c].score, clock>>] = @ + 1]
    BY <1>3, <1>10 DEF Limiter!Admit
  <2>2. \A u, v \in Int :
            /\ passed' \in LimiterCounts
            /\ u <= check[c].score /\ check[c].score < v =>
                  /\ LimiterThrough(passed', u, v) = LimiterThrough(passed, u, v) + 1
                  /\ LimiterOwed(check', u, v) = LimiterOwed(check, u, v) - 1
            /\ ~(u <= check[c].score /\ check[c].score < v) =>
                  /\ LimiterThrough(passed', u, v) = LimiterThrough(passed, u, v)
                  /\ LimiterOwed(check', u, v) = LimiterOwed(check, u, v)
    <3>1. PICK f, g, k : f = passed' /\ g = check' /\ k = <<check[c].score, clock>>
      OBVIOUS
    <3>2. /\ check[c].admit /\ check \in [Calls -> LimiterChecks] /\ passed \in LimiterCounts /\ clock \in Limiter!Times
          /\ f = [passed EXCEPT ![k] = @ + 1] /\ g = [check EXCEPT ![c] = Limiter!Idle]
      BY <1>3, <1>4, <1>10, <2>1, <3>1
    <3>3. k \in LimiterKinds /\ k[1] = check[c].score
      BY <3>1, <3>2 DEF LimiterKinds, LimiterChecks
    <3>4. f \in LimiterCounts /\ f[k] = passed[k] + 1 /\ \A q \in LimiterKinds : q # k =>
            f[q] = passed[q]
      BY ONLY <3>2, <3>3 DEF LimiterCounts
    <3>5. g \in [Calls -> LimiterChecks] /\ ~g[c].admit /\ \A d \in Calls : d # c =>
            g[d] = check[d]
      BY <3>2, LimiterIdleIs
    <3>7. LimiterMoved(c, k, passed, check, f, g)
      BY <3>2, <3>3, <3>4, <3>5 DEF LimiterMoved
    <3>6. ASSUME NEW u \in Int, NEW v \in Int
          PROVE  /\ f \in LimiterCounts
                 /\ u <= check[c].score /\ check[c].score < v =>
                        /\ LimiterThrough(f, u, v) = LimiterThrough(passed, u, v) + 1
                        /\ LimiterOwed(g, u, v) = LimiterOwed(check, u, v) - 1
                 /\ ~(u <= check[c].score /\ check[c].score < v) =>
                        /\ LimiterThrough(f, u, v) = LimiterThrough(passed, u, v)
                        /\ LimiterOwed(g, u, v) = LimiterOwed(check, u, v)
      <4>1. u \in Int /\ v \in Int /\ c \in Calls
        OBVIOUS
      <4> QED
        BY <3>4, <3>7, <4>1, LimiterGoesOn
    <3> QED
      BY <3>1, <3>6
  <2>3. passed' \in LimiterCounts
    BY <2>2
  <2>4. LimiterTypes'
    BY <1>1, <1>3, <1>5, <1>6, <2>3, LimiterIdleIs DEF LimiterTypes
  <2>5. LimiterInFlight'
    <3>1. \A p \in LimiterKinds : p = <<s, clock>> \/ passed'[p] = passed[p]
      BY <1>2, <1>4, <2>1 DEF LimiterCounts
    <3> QED
      BY <1>1, <1>3, <1>4, <3>1, LimiterIdleIs DEF LimiterInFlight, LimiterTypes
  <2>6. LimiterSorted'
    <3> SUFFICES ASSUME NEW u \in Limiter!Times, clock < u + Window
                 PROVE  /\ LimiterThrough(passed', u, LimiterEnd) <= Limiter!Total(h, LimiterSince(u))
                        /\ LimiterThrough(passed', u, LimiterEnd) + LimiterOwed(check', 0, LimiterEnd) <=
                               MaxRequests + Cardinality(Calls) - 1
      BY <1>3, <1>4, <1>5 DEF LimiterSorted
    <3>1. /\ LimiterThrough(passed, u, LimiterEnd) <= Limiter!Total(hits, LimiterSince(u))
          /\ LimiterThrough(passed, u, LimiterEnd) + LimiterOwed(check, 0, LimiterEnd) <= MaxRequests + Cardinality(Calls) - 1
      BY <1>1, <1>4 DEF LimiterSorted
    <3>2. LimiterThrough(passed, u, LimiterEnd) \in Nat
            /\ LimiterOwed(check, 0, LimiterEnd) \in Nat
      BY <1>4, LimiterBothNat
    <3>3. 0 \in Int /\ u \in Int /\ LimiterEnd \in Int /\ 0 <= s /\ s < LimiterEnd
      BY <1>4, LimiterAssumption DEF LimiterEnd, Limiter!Times
    <3>4. LimiterOwed(check', 0, LimiterEnd) = LimiterOwed(check, 0, LimiterEnd) - 1
      BY <1>2, <2>2, <3>3
    <3>5. /\ u <= s => LimiterThrough(passed', u, LimiterEnd) = LimiterThrough(passed, u, LimiterEnd) + 1
          /\ ~(u <= s) => LimiterThrough(passed', u, LimiterEnd) = LimiterThrough(passed, u, LimiterEnd)
      BY <1>2, <2>2, <3>3
    <3>6. /\ Limiter!Total(hits, LimiterSince(u)) \in Nat /\ Limiter!Total(h, LimiterSince(u)) \in Nat
          /\ Limiter!Total(hits, LimiterSince(u)) <= Limiter!Total(h, LimiterSince(u))
          /\ u <= s => Limiter!Total(h, LimiterSince(u)) = Limiter!Total(hits, LimiterSince(u)) + 1
      BY <1>7
    <3>7. MaxRequests + Cardinality(Calls) - 1 \in Int
      BY LimiterAssumption, LimiterCallsCounted
    <3>8. PICK most : most = MaxRequests + Cardinality(Calls) - 1
      OBVIOUS
    <3>9. LimiterThrough(passed', u, LimiterEnd) + LimiterOwed(check', 0, LimiterEnd) <= most
      BY ONLY <3>1, <3>2, <3>4, <3>5, <3>7, <3>8
    <3>10. LimiterThrough(passed', u, LimiterEnd) <= Limiter!Total(h, LimiterSince(u))
      BY ONLY <3>1, <3>2, <3>5, <3>6
    <3> QED
      BY <3>8, <3>9, <3>10
  <2>7. Limiter!AdmittedBounded'
    BY <1>1, <1>3, <1>8, <2>1, <2>4, <2>5, <2>6, LimiterAdmitStep
  <2> QED
    BY <1>8, <2>4, <2>5, <2>6, <2>7 DEF LimiterInv
<1> QED
  BY <1>9, <1>10

LEMMA LimiterTickStep == ASSUME LimiterInv, Limiter!Tick PROVE LimiterInv'
<1>1. LimiterTypes /\ LimiterInFlight /\ LimiterSorted /\ LimiterKeyed
        /\ Limiter!AdmittedBounded
  BY DEF LimiterInv
<1>2. /\ clock < MaxClock /\ clock' = clock + 1 /\ UNCHANGED <<limit, hits, check, passed>>
      /\ \A c \in Calls : check[c].pc # "idle" => clock < check[c].score + Slowest
      /\ counter' = IF counter.expires <= clock + 1 THEN Limiter!NoCount ELSE counter
  BY DEF Limiter!Tick
<1>3. clock \in Limiter!Times /\ clock' \in Limiter!Times /\ clock \in Nat
  BY <1>1, <1>2, LimiterAssumption DEF LimiterTypes, Limiter!Times
<1>4. LimiterTypes'
  BY <1>1, <1>2, <1>3, LimiterAssumption, LimiterAssumption
     DEF LimiterTypes, Limiter!NoCount
<1>5. LimiterInFlight'
  <2>1. \A c \in Calls : check[c].pc # "idle" =>
          check[c].score <= clock' /\ clock' <= check[c].score + Slowest
    <3>1. \A c \in Calls : check[c].score \in Nat
      BY <1>1, LimiterAssumption DEF LimiterTypes, LimiterChecks, Limiter!Times
    <3> QED
      BY <1>1, <1>2, <1>3, <3>1, LimiterAssumption DEF LimiterInFlight
  <2>2. \A p \in LimiterKinds : passed[p] > 0 => p[1] <= clock' /\ p[2] <= p[1] + Slowest
    <3>1. \A p \in LimiterKinds : p[1] \in Nat
      BY LimiterAssumption DEF LimiterKinds, Limiter!Times
    <3> QED
      BY <1>1, <1>2, <1>3, <3>1 DEF LimiterInFlight
  <2> QED
    BY <1>1, <1>2, <2>1, <2>2 DEF LimiterInFlight
<1>6. \A u \in Limiter!Times : clock' < u + Window => clock < u + Window
  BY <1>2, <1>3, LimiterAssumption, LimiterAssumption DEF Limiter!Times
<1>7. LimiterSorted'
  BY <1>1, <1>2, <1>6 DEF LimiterSorted
<1>8. Limiter!AdmittedBounded'
  BY <1>1, <1>2, LimiterStretchesKept
<1>9. LimiterKeyed'
  <2> SUFFICES ASSUME limit = "counter" PROVE LimiterKeyed'
    BY <1>2 DEF LimiterKeyed
  <2>1. passed \in LimiterCounts /\ check \in [Calls -> LimiterChecks]
          /\ counter.value \in Nat
    BY <1>1 DEF LimiterTypes
  <2>2. LimiterBoth(passed, check, clock', LimiterEnd) <= 0
    <3>1. \A p \in LimiterKinds : ~(clock' <= p[1]) \/ passed[p] = 0
      <4> SUFFICES ASSUME NEW p \in LimiterKinds, passed[p] # 0 PROVE ~(clock' <= p[1])
        OBVIOUS
      <4>1. passed[p] > 0 /\ p[1] \in Nat
        BY <2>1, LimiterAssumption DEF LimiterCounts, LimiterKinds, Limiter!Times
      <4>2. p[1] <= clock
        BY <1>1, <4>1 DEF LimiterInFlight
      <4> QED
        BY <1>2, <1>3, <4>1, <4>2
    <3>2. LimiterNumbered(passed, LimiterBegan(clock', LimiterEnd)) = {}
      <4>1. \A p \in LimiterBegan(clock', LimiterEnd) : passed[p] = 0
        BY <3>1 DEF LimiterBegan
      <4>2. \A r : r \notin LimiterNumbered(passed, LimiterBegan(clock', LimiterEnd))
        BY <4>1, LimiterNumberedIs
      <4> QED
        BY <4>2
    <3>3. LimiterThrough(passed, clock', LimiterEnd) = 0
      BY <3>2, FS_EmptySet, LimiterCardinality
         DEF LimiterThrough, Limiter!Total, LimiterNumbered
    <3>4. LimiterOpen(check, clock', LimiterEnd) = {}
      <4> SUFFICES ASSUME NEW c \in Calls, check[c].admit, clock' <= check[c].score
                   PROVE  FALSE
        BY DEF LimiterOpen
      <4>1. check[c].pc # "idle"
        BY <1>1 DEF LimiterInFlight
      <4>2. check[c].score <= clock /\ check[c].score \in Nat
        BY <1>1, <2>1, <4>1, LimiterAssumption
           DEF LimiterInFlight, LimiterChecks, Limiter!Times
      <4> QED
        BY <1>2, <1>3, <4>2
    <3>5. LimiterOwed(check, clock', LimiterEnd) = 0
      BY <3>4, FS_EmptySet DEF LimiterOwed
    <3> QED
      BY <3>3, <3>5 DEF LimiterBoth
  <2>3. CASE counter.value = 0
    <3>1. counter'.value = 0
      BY <1>2, <2>3 DEF Limiter!NoCount
    <3>2. \A u \in Limiter!Times : clock < u + Window =>
            LimiterBoth(passed, check, u, LimiterEnd) <= MaxRequests
      BY <1>1, <2>3 DEF LimiterKeyed
    <3> QED
      BY <1>2, <1>6, <2>2, <3>1, <3>2 DEF LimiterKeyed
  <2>4. CASE counter.value # 0
    <3>1. PICK b \in Limiter!Times :
              /\ counter.expires = b + Window /\ b <= clock /\ clock < b + Window
              /\ LimiterBoth(passed, check, b, LimiterEnd) <= counter.value
              /\ LimiterBoth(passed, check, b, LimiterEnd) <= MaxRequests
              /\ \A u \in Limiter!Times : clock < u + Window => LimiterBoth(passed, check, u, b) <= MaxRequests
      BY <1>1, <2>4 DEF LimiterKeyed
    <3>2. CASE counter.expires <= clock + 1
      <4>1. counter'.value = 0
        BY <1>2, <3>2 DEF Limiter!NoCount
      <4>2. ASSUME NEW u \in Limiter!Times, clock' < u + Window
            PROVE  LimiterBoth(passed, check, u, LimiterEnd) <= MaxRequests
        <5>1. b <= u /\ u \in Int /\ b \in Int
          BY <1>2, <1>3, <3>1, <3>2, <4>2, LimiterAssumption, LimiterAssumption
             DEF Limiter!Times
        <5>2. LimiterBegan(u, LimiterEnd) \subseteq LimiterBegan(b, LimiterEnd)
                /\ LimiterBegan(b, LimiterEnd) \subseteq LimiterKinds
          BY <5>1, LimiterAssumption DEF LimiterBegan, LimiterKinds, Limiter!Times
        <5>3. LimiterThrough(passed, u, LimiterEnd) <= LimiterThrough(passed, b, LimiterEnd)
          BY <2>1, <5>2, LimiterCountsMonotone DEF LimiterThrough
        <5>4. LimiterOpen(check, u, LimiterEnd) \subseteq LimiterOpen(check, b, LimiterEnd)
          BY <2>1, <5>1, LimiterAssumption DEF LimiterOpen, LimiterChecks, Limiter!Times
        <5>5. LimiterOwed(check, u, LimiterEnd) <= LimiterOwed(check, b, LimiterEnd)
          BY <5>4, LimiterOwedNat, FS_Subset DEF LimiterOwed
        <5>6. /\ LimiterThrough(passed, u, LimiterEnd) \in Nat /\ LimiterOwed(check, u, LimiterEnd) \in Nat
              /\ LimiterThrough(passed, b, LimiterEnd) \in Nat /\ LimiterOwed(check, b, LimiterEnd) \in Nat
              /\ LimiterBoth(passed, check, u, LimiterEnd) = LimiterThrough(passed, u, LimiterEnd) + LimiterOwed(check, u, LimiterEnd)
              /\ LimiterBoth(passed, check, b, LimiterEnd) = LimiterThrough(passed, b, LimiterEnd) + LimiterOwed(check, b, LimiterEnd)
          BY <2>1, LimiterBothNat
        <5>7. LimiterBoth(passed, check, b, LimiterEnd) <= MaxRequests
          BY <3>1
        <5> QED
          BY <5>3, <5>5, <5>6, <5>7, LimiterAssumption
      <4> QED
        BY <1>2, <2>2, <4>1, <4>2 DEF LimiterKeyed
    <3>3. CASE ~(counter.expires <= clock + 1)
      <4>1. counter' = counter
        BY <1>2, <3>3
      <4>2. b <= clock' /\ clock' < b + Window
        BY <1>2, <1>3, <3>1, <3>3, LimiterAssumption, LimiterAssumption DEF Limiter!Times
      <4> QED
        BY <1>2, <1>6, <2>4, <3>1, <4>1, <4>2 DEF LimiterKeyed
    <3> QED
      BY <3>2, <3>3
  <2> QED
    BY <2>3, <2>4
<1> QED
  BY <1>4, <1>5, <1>7, <1>8, <1>9 DEF LimiterInv

LEMMA LimiterStutterStep == ASSUME LimiterInv, UNCHANGED limiterVars PROVE LimiterInv'
<1>1. UNCHANGED <<limit, clock, hits, counter, check, passed>>
  BY DEF limiterVars
<1>2. LimiterTypes' /\ LimiterInFlight' /\ LimiterSorted' /\ LimiterKeyed'
        /\ Limiter!AdmittedBounded'
  BY <1>1
     DEF LimiterInv, LimiterTypes, LimiterInFlight, LimiterSorted, LimiterKeyed,
         Limiter!AdmittedBounded
<1> QED
  BY <1>2 DEF LimiterInv

LEMMA LimiterKept == ASSUME LimiterInv, [Limiter!Next]_limiterVars PROVE LimiterInv'
BY LimiterIncrementStep, LimiterRemoveExpiredStep, LimiterCountAnsweredStep,
   LimiterCountRequestsStep, LimiterAddRequestStep, LimiterRedisFailsStep, LimiterTickStep,
   LimiterStutterStep
   DEF Limiter!Next

LEMMA LimiterLimited == ASSUME LimiterInv PROVE Limiter!TypeOK /\ Limiter!AdmittedBounded
BY DEF LimiterInv, LimiterTypes, Limiter!TypeOK, LimiterChecks, LimiterCounts, LimiterKinds

(***************************************************************************)
(* AuditTrail: the verdicts of verifyIntegrity are true                    *)
(***************************************************************************)

(***************************************************************************)
(* A row that is not as it was written says so; and while nothing          *)
(* disturbed the log, every row stands behind the one before it, and a     *)
(* writer has the hash of the newest                                       *)
(***************************************************************************)

TrailCalls  == [pc : {"idle", "create"}, tenant : Tenants \cup {Trail!None}, previousHash : Seq(Trail!Entry)]
TrailHonest == {"written", "unsorted"}

TrailTypes ==
    /\ perTenant \in BOOLEAN
    /\ log \subseteq Trail!Row /\ IsFiniteSet(log)
    /\ writer \in [Calls -> TrailCalls]
    /\ \A w \in Calls : writer[w].pc = "create" => writer[w].tenant \in Tenants
    /\ now \in 0 .. MaxNow /\ \A r \in log : r.at <= now
    /\ written \subseteq Trail!Row /\ IsFiniteSet(written)
    /\ \A r \in log : \E q \in written : q.id = r.id
    /\ overlapped \in BOOLEAN /\ edits \in 0 .. MaxEdits

\* An entry behind the hash that is h.
TrailChained(r, h) == \E e \in Trail!Entry : r.hash = Append(h, e) /\ e.what \in TrailHonest

TrailMarked ==
    \A r \in log : /\ r \in written \/ r.entry.what = "edited"
                   /\ \E h \in Seq(Trail!Entry) : TrailChained(r, h)

TrailCalm     == ~overlapped /\ edits = 0
TrailDistinct(some) == \A r, q \in some : r.at = q.at => r = q
TrailChain(t) == IF perTenant THEN Trail!Of(t, log) ELSE log

\* h is the hash of the row before r, or there is none.
TrailFollows(h, r, some) ==
    IF \E q \in some : q.at < r.at
    THEN \E p \in some : /\ p.at < r.at /\ p.hash = h
                         /\ \A q \in some : q.at < r.at => q.at <= p.at
    ELSE h = <<>>

TrailLinked ==
    TrailCalm /\ TrailDistinct(log) =>
        \A t \in Tenants : \A r \in TrailChain(t) :
            \E h \in Seq(Trail!Entry) : TrailChained(r, h) /\ TrailFollows(h, r, TrailChain(t))

TrailFresh(h, some) == IF some = {} THEN h = <<>> ELSE \E p \in Trail!Newest(some) : p.hash = h

TrailAlone ==
    TrailCalm => /\ \A v, w \in Calls : writer[v].pc # "idle" /\ writer[w].pc # "idle" => v = w
                 /\ \A w \in Calls : writer[w].pc = "create" =>
                        TrailFresh(writer[w].previousHash, TrailChain(writer[w].tenant))

TrailInv == TrailTypes /\ TrailMarked /\ TrailLinked /\ TrailAlone

LEMMA TrailCardinality == \A S : Trail!Cardinality(S) = Cardinality(S)
BY DEF Trail!Cardinality, Cardinality

LEMMA TrailCardinalityIs == \A S : IsFiniteSet(S) => Cardinality(S) \in Nat
BY FS_CardinalityType

LEMMA TrailIdleIs == Trail!Idle \in TrailCalls /\ Trail!Idle.pc = "idle"
BY EmptySeq DEF Trail!Idle, TrailCalls

LEMMA TrailInitially == ASSUME Trail!Init PROVE TrailInv
<1>1. log = {} /\ written = {} /\ now = 0 /\ edits = 0 /\ perTenant \in BOOLEAN
      /\ overlapped \in BOOLEAN
  BY DEF Trail!Init
<1>2. writer \in [Calls -> TrailCalls] /\ \A w \in Calls : writer[w].pc = "idle"
  BY TrailIdleIs DEF Trail!Init
<1>3. IsFiniteSet(log) /\ IsFiniteSet(written)
  BY <1>1, FS_EmptySet
<1>4. TrailTypes
  BY <1>1, <1>2, <1>3, TrailAssumption, TrailAssumption DEF TrailTypes
<1>5. TrailMarked
  BY <1>1 DEF TrailMarked
<1>6. TrailLinked
  BY <1>1 DEF TrailLinked, TrailChain, Trail!Of
<1>7. TrailAlone
  BY <1>2 DEF TrailAlone
<1> QED
  BY <1>4, <1>5, <1>6, <1>7 DEF TrailInv

LEMMA TrailHashIs ==
    ASSUME TrailInv, NEW t \in Tenants, NEW hash,
           hash \in IF TrailChain(t) = {} THEN {<<>>} ELSE {r.hash : r \in Trail!Newest(TrailChain(t))}
    PROVE  hash \in Seq(Trail!Entry) /\ TrailFresh(hash, TrailChain(t))
<1>1. CASE TrailChain(t) = {}
  BY <1>1, EmptySeq DEF TrailFresh
<1>2. CASE TrailChain(t) # {}
  <2>1. PICK r \in Trail!Newest(TrailChain(t)) : r.hash = hash
    BY <1>2
  <2>2. r \in Trail!Row
    BY <2>1 DEF Trail!Newest, TrailChain, Trail!Of, TrailInv, TrailTypes
  <2> QED
    BY <1>2, <2>1, <2>2 DEF TrailFresh, Trail!Row
<1> QED
  BY <1>1, <1>2

LEMMA TrailReadPreviousStep ==
    ASSUME TrailInv, NEW w \in Calls, Trail!ReadPrevious(w)
    PROVE  TrailInv'
<1>1. TrailTypes /\ TrailMarked /\ TrailLinked /\ TrailAlone
  BY DEF TrailInv
<1>0. PICK t \in Tenants : \E hash \in IF TrailChain(t) = {} THEN {<<>>} ELSE {r.hash : r \in Trail!Newest(TrailChain(t))} :
          writer' = [writer EXCEPT ![w] = [pc |-> "create", tenant |-> t, previousHash |-> hash]]
  BY DEF Trail!ReadPrevious, TrailChain
<1>2. PICK hash \in IF TrailChain(t) = {} THEN {<<>>} ELSE {r.hash : r \in Trail!Newest(TrailChain(t))} :
          writer' = [writer EXCEPT ![w] = [pc |-> "create", tenant |-> t, previousHash |-> hash]]
  BY <1>0
<1>3. hash \in Seq(Trail!Entry) /\ TrailFresh(hash, TrailChain(t))
  BY <1>2, TrailHashIs
<1> DEFINE c == [pc |-> "create", tenant |-> t, previousHash |-> hash]
<1>4. c \in TrailCalls /\ c.pc = "create" /\ c.tenant = t /\ c.previousHash = hash
  BY <1>3 DEF TrailCalls
<1>5. writer' = [writer EXCEPT ![w] = c]
  BY <1>2
<1> HIDE DEF c
<1>6. /\ writer' \in [Calls -> TrailCalls] /\ writer'[w] = c
      /\ \A v \in Calls : v # w => writer'[v] = writer[v]
  BY <1>1, <1>4, <1>5 DEF TrailTypes
<1>7. /\ overlapped' = (overlapped \/ \E v \in Calls : writer[v].pc # "idle")
      /\ UNCHANGED <<perTenant, log, now, written, edits>>
  BY DEF Trail!ReadPrevious
<1>8. TrailTypes'
  BY <1>1, <1>4, <1>6, <1>7 DEF TrailTypes
<1>9. TrailMarked'
  BY <1>1, <1>7 DEF TrailMarked, TrailChained
<1>10. TrailCalm' => TrailCalm /\ \A v \in Calls : writer[v].pc = "idle"
  BY <1>7 DEF TrailCalm
<1>11. \A u : TrailChain(u)' = TrailChain(u)
  BY <1>7 DEF TrailChain, Trail!Of
<1>12. TrailLinked'
  BY <1>1, <1>7, <1>10, <1>11 DEF TrailLinked, TrailDistinct, TrailChained, TrailFollows
<1>13. TrailAlone'
  <2> SUFFICES ASSUME TrailCalm' PROVE /\ \A v, u \in Calls : writer'[v].pc # "idle" /\ writer'[u].pc # "idle" => v = u
                                       /\ \A v \in Calls : writer'[v].pc = "create" =>
                                            TrailFresh(writer'[v].previousHash, TrailChain(writer'[v].tenant))
    BY <1>7, <1>11 DEF TrailAlone, TrailFresh, Trail!Newest, TrailChain, Trail!Of
  <2>1. \A v \in Calls : v # w => writer'[v].pc = "idle"
    BY <1>6, <1>10
  <2>2. TrailFresh(writer'[w].previousHash, TrailChain(writer'[w].tenant))
    BY <1>3, <1>4, <1>6
  <2> QED
    BY <2>1, <2>2
<1> QED
  BY <1>8, <1>9, <1>12, <1>13 DEF TrailInv

\* The row that is inserted.
LEMMA TrailRowIs ==
    ASSUME TrailInv, NEW w \in Calls, Trail!Create(w)
    PROVE  \E record \in Trail!Row, e \in Trail!Entry :
               /\ record.at = now /\ record.entry.tenant = writer[w].tenant
               /\ record.hash = Append(writer[w].previousHash, e) /\ e.what \in TrailHonest
               /\ log' = log \cup {record} /\ written' = written \cup {record}
<1>1. TrailTypes /\ writer[w] \in TrailCalls /\ writer[w].tenant \in Tenants
      /\ writer[w].previousHash \in Seq(Trail!Entry)
  BY DEF TrailInv, TrailTypes, Trail!Create, TrailCalls
<1>2. PICK what \in Trail!AsSent :
          LET hashed == [tenant |-> writer[w].tenant, what |-> what]
              record    == [id |-> Cardinality(written) + 1, at |-> now,
                         entry |-> [hashed EXCEPT !.what = "written"],
                         hash |-> Append(writer[w].previousHash, hashed)]
          IN log' = log \cup {record} /\ written' = written \cup {record}
  BY TrailCardinality DEF Trail!Create
<1>3. what \in TrailHonest
  BY DEF Trail!AsSent, TrailHonest
<1> DEFINE e     == [tenant |-> writer[w].tenant, what |-> what]
           hashed == [e EXCEPT !.what = "written"]
           id    == Cardinality(written) + 1
           hash  == Append(writer[w].previousHash, e)
           record   == [id |-> id, at |-> now, entry |-> hashed, hash |-> hash]
<1>4. e \in Trail!Entry /\ e.what \in TrailHonest /\ hashed \in Trail!Entry
        /\ hashed.tenant = writer[w].tenant
  BY <1>1, <1>3 DEF Trail!Entry, TrailHonest
<1>5. log' = log \cup {record} /\ written' = written \cup {record}
  BY <1>2
<1>6. id \in 1 .. MaxRows
  <2>1. Cardinality(written) \in Nat
    BY <1>1, TrailCardinalityIs DEF TrailTypes
  <2> QED
    BY <2>1, TrailAssumption, TrailCardinality DEF Trail!Create
<1>7. hash = Append(writer[w].previousHash, e)
  OBVIOUS
<1> HIDE DEF e, hashed, id
<1>8. hash \in Seq(Trail!Entry)
  BY <1>1, <1>4, AppendProperties
<1> HIDE DEF hash
<1>9. record \in Trail!Row /\ record.at = now /\ record.entry = hashed /\ record.hash = hash
  BY <1>1, <1>4, <1>6, <1>8 DEF Trail!Row, TrailTypes
<1> HIDE DEF record
<1> QED
  BY <1>4, <1>5, <1>7, <1>9

\* A chain that gets a row of now, later than all it has.
LEMMA TrailChainGrows ==
    ASSUME NEW some \in SUBSET Trail!Row, NEW record \in Trail!Row,
           \A q \in some : q.at < record.at,
           NEW h, NEW r, \/ r \in some /\ TrailFollows(h, r, some)
                         \/ r = record /\ TrailFresh(h, some)
    PROVE  TrailFollows(h, r, some \cup {record})
<1>1. \A q \in some \cup {record} : q.at \in Nat
  BY TrailAssumption DEF Trail!Row
<1>2. CASE r \in some /\ TrailFollows(h, r, some)
  <2>1. \A q \in some \cup {record} : q.at < r.at => q \in some
    BY <1>1, <1>2
  <2>2. CASE \E q \in some : q.at < r.at
    <3>1. PICK p \in some : p.at < r.at /\ p.hash = h /\ \A q \in some : q.at < r.at =>
            q.at <= p.at
      BY <1>2, <2>2 DEF TrailFollows
    <3>2. \A q \in some \cup {record} : q.at < r.at => q.at <= p.at
      BY <2>1, <3>1
    <3> QED
      BY <2>2, <3>1, <3>2 DEF TrailFollows
  <2>3. CASE ~ \E q \in some : q.at < r.at
    <3>1. h = <<>>
      BY <1>2, <2>3 DEF TrailFollows
    <3> QED
      BY <2>1, <2>3, <3>1 DEF TrailFollows
  <2> QED
    BY <2>2, <2>3
<1>3. CASE r = record /\ TrailFresh(h, some)
  <2>1. \A q \in some \cup {record} : q.at < r.at <=> q \in some
    BY <1>1, <1>3
  <2>2. CASE some = {}
    BY <1>3, <2>1, <2>2 DEF TrailFollows, TrailFresh
  <2>3. CASE some # {}
    <3>1. PICK p \in some : p.hash = h /\ \A q \in some : q.at <= p.at
      BY <1>3, <2>3 DEF TrailFresh, Trail!Newest
    <3> QED
      BY <2>1, <3>1 DEF TrailFollows
  <2> QED
    BY <2>2, <2>3
<1> QED
  BY <1>2, <1>3

LEMMA TrailCreateStep == ASSUME TrailInv, NEW w \in Calls, Trail!Create(w) PROVE TrailInv'
<1>1. TrailTypes /\ TrailMarked /\ TrailLinked /\ TrailAlone /\ writer[w].pc = "create" /\ writer[w].tenant \in Tenants
      /\ writer[w].previousHash \in Seq(Trail!Entry)
  BY DEF TrailInv, Trail!Create, TrailTypes, TrailCalls
<1>2. PICK record \in Trail!Row, e \in Trail!Entry :
               /\ record.at = now /\ record.entry.tenant = writer[w].tenant
               /\ record.hash = Append(writer[w].previousHash, e) /\ e.what \in TrailHonest
               /\ log' = log \cup {record} /\ written' = written \cup {record}
  BY TrailRowIs
<1>3. writer' = [writer EXCEPT ![w] = Trail!Idle]
        /\ UNCHANGED <<perTenant, now, overlapped, edits>>
  BY DEF Trail!Create
<1>4. /\ writer' \in [Calls -> TrailCalls] /\ writer'[w] = Trail!Idle
      /\ \A v \in Calls : v # w => writer'[v] = writer[v]
  BY <1>1, <1>3, TrailIdleIs DEF TrailTypes
<1>5. TrailTypes'
  <2>1. IsFiniteSet(log') /\ IsFiniteSet(written')
    BY <1>1, <1>2, FS_AddElement DEF TrailTypes
  <2>2. log' \subseteq Trail!Row /\ written' \subseteq Trail!Row
          /\ \A r \in log' : \E q \in written' : q.id = r.id
    BY <1>1, <1>2 DEF TrailTypes
  <2>3. \A r \in log' : r.at <= now
    BY <1>1, <1>2, TrailAssumption DEF TrailTypes
  <2>4. \A v \in Calls : writer'[v].pc = "create" => writer'[v].tenant \in Tenants
    BY <1>1, <1>4, TrailIdleIs DEF TrailTypes
  <2> QED
    BY <1>1, <1>3, <1>4, <2>1, <2>2, <2>3, <2>4 DEF TrailTypes
<1>6. TrailChained(record, writer[w].previousHash)
  BY <1>2 DEF TrailChained
<1>7. TrailMarked'
  BY <1>1, <1>2, <1>6 DEF TrailMarked, TrailChained
<1>8. TrailAlone'
  BY <1>1, <1>3, <1>4, TrailIdleIs DEF TrailAlone, TrailCalm
<1>9. TrailLinked'
  <2> SUFFICES ASSUME TrailCalm, TrailDistinct(log'), NEW t \in Tenants,
                      NEW r \in TrailChain(t)'
               PROVE  \E h \in Seq(Trail!Entry) : TrailChained(r, h)
                        /\ TrailFollows(h, r, TrailChain(t)')
    BY <1>3, Zenon DEF TrailLinked, TrailCalm, TrailDistinct, TrailChained, TrailFollows
  <2>1. TrailDistinct(log)
    BY <1>2 DEF TrailDistinct
  <2>2. CASE record \in log
    <3>1. TrailChain(t)' = TrailChain(t)
      BY <1>2, <1>3, <2>2 DEF TrailChain, Trail!Of
    <3> QED
      BY <1>1, <2>1, <3>1 DEF TrailLinked
  <2>3. CASE record \notin log
    <3>1. \A q \in log : q.at < record.at
      <4> SUFFICES ASSUME NEW q \in log PROVE q.at < record.at
        OBVIOUS
      <4>1. q.at # record.at
        BY <1>2, <2>3 DEF TrailDistinct
      <4>2. q.at <= record.at /\ q.at \in Nat /\ record.at \in Nat
        BY <1>1, <1>2, TrailAssumption DEF TrailTypes, Trail!Row
      <4> QED
        BY <4>1, <4>2
    <3>2. TrailChain(t) \subseteq log /\ log \subseteq Trail!Row
      BY <1>1 DEF TrailChain, Trail!Of, TrailTypes
    <3>3. TrailChain(t)' = TrailChain(t) \/ (TrailChain(t)' = TrailChain(t) \cup {record} /\ TrailChain(t) = TrailChain(writer[w].tenant))
      BY <1>2, <1>3 DEF TrailChain, Trail!Of
    <3>4. CASE r = record /\ TrailChain(t)' = TrailChain(t) \cup {record}
                 /\ TrailChain(t) = TrailChain(writer[w].tenant)
      <4>1. TrailFresh(writer[w].previousHash, TrailChain(t))
        BY <1>1, <3>4 DEF TrailAlone
      <4>2. TrailFollows(writer[w].previousHash, r, TrailChain(t) \cup {record})
        BY <3>1, <3>2, <3>4, <4>1, TrailChainGrows
      <4> QED
        BY <1>1, <1>6, <3>4, <4>2
    <3>5. CASE r \in TrailChain(t)
      <4>1. PICK h \in Seq(Trail!Entry) : TrailChained(r, h)
              /\ TrailFollows(h, r, TrailChain(t))
        BY <1>1, <2>1, <3>5 DEF TrailLinked
      <4>2. TrailFollows(h, r, TrailChain(t) \cup {record})
        BY <3>1, <3>2, <3>5, <4>1, TrailChainGrows
      <4> QED
        BY <3>3, <4>1, <4>2
    <3> QED
      BY <3>2, <3>3, <3>4, <3>5, <2>3
  <2> QED
    BY <2>2, <2>3
<1> QED
  BY <1>5, <1>7, <1>8, <1>9 DEF TrailInv

LEMMA TrailWriteFailsStep ==
    ASSUME TrailInv, NEW w \in Calls, Trail!WriteFails(w)
    PROVE  TrailInv'
<1>1. TrailTypes /\ TrailMarked /\ TrailLinked /\ TrailAlone
  BY DEF TrailInv
<1>2. writer' = [writer EXCEPT ![w] = Trail!Idle]
        /\ UNCHANGED <<perTenant, log, now, written, overlapped, edits>>
  BY DEF Trail!WriteFails
<1>3. /\ writer' \in [Calls -> TrailCalls]
      /\ \A v \in Calls : writer'[v].pc = "idle" \/ writer'[v] = writer[v]
  BY <1>1, <1>2, TrailIdleIs DEF TrailTypes
<1>4. TrailTypes'
  BY <1>1, <1>2, <1>3 DEF TrailTypes
<1>5. TrailMarked' /\ TrailLinked'
  <2>1. TrailMarked'
    BY <1>1, <1>2 DEF TrailMarked
  <2>2. TrailCalm' = TrailCalm /\ log' = log
          /\ \A t \in Tenants : TrailChain(t)' = TrailChain(t)
    BY <1>2 DEF TrailCalm, TrailChain, Trail!Of
  <2>3. TrailLinked'
    BY <1>1, <2>2 DEF TrailLinked
  <2> QED
    BY <2>1, <2>3
<1>6. TrailAlone'
  <2>1. \A u : TrailChain(u)' = TrailChain(u)
    BY <1>2 DEF TrailChain, Trail!Of
  <2>2. TrailCalm' => TrailCalm
    BY <1>2 DEF TrailCalm
  <2>3. \A v \in Calls : writer'[v].pc # "idle" => writer'[v] = writer[v]
    BY <1>3
  <2> SUFFICES ASSUME TrailCalm PROVE /\ \A v, u \in Calls : writer'[v].pc # "idle" /\ writer'[u].pc # "idle" => v = u
                                      /\ \A v \in Calls : writer'[v].pc = "create" =>
                                            TrailFresh(writer'[v].previousHash, TrailChain(writer'[v].tenant))
    BY <1>2, <2>1, <2>2 DEF TrailAlone, TrailFresh, Trail!Newest, TrailChain, Trail!Of
  <2> QED
    BY <1>1, <2>3 DEF TrailAlone
<1> QED
  BY <1>4, <1>5, <1>6 DEF TrailInv

LEMMA TrailEditSteps == ASSUME TrailInv, Trail!RowEdited \/ Trail!RowDeleted PROVE TrailInv'
<1>1. TrailTypes /\ TrailMarked
  BY DEF TrailInv
<1>2. PICK r \in log : log' = log \ {r}
        \/ log' = (log \ {r}) \cup {[r EXCEPT !.entry.what = "edited"]}
  BY DEF Trail!RowEdited, Trail!RowDeleted
<1>3. PICK record : record = [r EXCEPT !.entry.what = "edited"]
  OBVIOUS
<1>4. /\ record \in Trail!Row /\ record.entry.what = "edited" /\ record.hash = r.hash
      /\ record.id = r.id /\ record.at = r.at
  BY <1>1, <1>3 DEF TrailTypes, Trail!Row, Trail!Entry
<1>5. log' \subseteq (log \cup {record})
  BY <1>2, <1>3
<1>6. IsFiniteSet(log')
  <2>1. IsFiniteSet(log \cup {record})
    BY <1>1, FS_AddElement DEF TrailTypes
  <2> QED
    BY <1>5, <2>1, FS_Subset
<1>7. edits' = edits + 1 /\ edits < MaxEdits
        /\ UNCHANGED <<perTenant, writer, now, written, overlapped>>
  BY DEF Trail!RowEdited, Trail!RowDeleted
<1>8. edits' \in 0 .. MaxEdits /\ edits' # 0
  BY <1>1, <1>7, TrailAssumption DEF TrailTypes
<1>9. TrailTypes'
  BY <1>1, <1>4, <1>5, <1>6, <1>7, <1>8 DEF TrailTypes
<1>10. TrailMarked'
  BY <1>1, <1>4, <1>5, <1>7 DEF TrailMarked, TrailChained
<1>11. TrailLinked' /\ TrailAlone'
  BY <1>8 DEF TrailLinked, TrailAlone, TrailCalm
<1> QED
  BY <1>9, <1>10, <1>11 DEF TrailInv

LEMMA TrailTickStep == ASSUME TrailInv, Trail!Tick \/ UNCHANGED trailVars PROVE TrailInv'
<1>1. TrailTypes /\ TrailMarked /\ TrailLinked /\ TrailAlone
  BY DEF TrailInv
<1>2. now' \in 0 .. MaxNow /\ now <= now'
        /\ UNCHANGED <<perTenant, log, writer, written, overlapped, edits>>
  BY <1>1, TrailAssumption DEF Trail!Tick, trailVars, TrailTypes
<1>3. \A r \in log : r.at <= now'
  <2>1. \A r \in log : r.at \in Nat /\ r.at <= now
    BY <1>1, TrailAssumption DEF TrailTypes, Trail!Row
  <2> QED
    BY <1>1, <1>2, <2>1, TrailAssumption DEF TrailTypes
<1>4. TrailTypes'
  BY <1>1, <1>2, <1>3 DEF TrailTypes
<1>5. TrailMarked' /\ TrailLinked'
  <2>1. TrailMarked'
    BY <1>1, <1>2 DEF TrailMarked
  <2>2. TrailCalm' = TrailCalm /\ log' = log
          /\ \A t \in Tenants : TrailChain(t)' = TrailChain(t)
    BY <1>2 DEF TrailCalm, TrailChain, Trail!Of
  <2>3. TrailLinked'
    BY <1>1, <2>2 DEF TrailLinked
  <2> QED
    BY <2>1, <2>3
<1>6. TrailAlone'
  BY <1>1, <1>2 DEF TrailAlone, TrailCalm, TrailFresh, Trail!Newest, TrailChain, Trail!Of
<1> QED
  BY <1>4, <1>5, <1>6 DEF TrailInv

LEMMA TrailKept == ASSUME TrailInv, [Trail!Next]_trailVars PROVE TrailInv'
BY TrailReadPreviousStep, TrailCreateStep, TrailWriteFailsStep, TrailEditSteps,
   TrailTickStep
   DEF Trail!Next

(***************************************************************************)
(* What verifyIntegrity finds                                              *)
(***************************************************************************)

\* A listing has every row once, oldest first.
LEMMA TrailListingIs ==
    ASSUME NEW some, IsFiniteSet(some), NEW s \in Trail!Listings(some)
    PROVE  \E n \in Nat :
               /\ s \in [1 .. n -> some] /\ DOMAIN s = 1 .. n
               /\ \A j, k \in 1 .. n : j # k => s[j] # s[k]
               /\ \A j, k \in 1 .. n : j < k => s[j].at <= s[k].at
               /\ \A r \in some : \E k \in 1 .. n : s[k] = r
<1>1. PICK n : n = Cardinality(some)
  OBVIOUS
<1>2. n \in Nat
  BY <1>1, FS_CardinalityType
<1>3. s \in [1 .. n -> some] /\ \A j, k \in 1 .. n : j # k => s[j] # s[k]
  BY <1>1, TrailCardinality DEF Trail!Listings, Trail!SetToSeqs
<1>4. \A j, k \in 1 .. n : j < k => s[j].at <= s[k].at
  BY <1>3 DEF Trail!Listings
<1>5. s \in Surjection(1 .. n, some)
  <2>1. s \in Injection(1 .. n, some)
    BY <1>3, Fun_IsInj
  <2>2. Cardinality(1 .. n) = n
    BY <1>2, FS_Interval
  <2> QED
    BY <1>1, <2>1, <2>2, FS_Injection
<1>6. \A r \in some : \E k \in 1 .. n : s[k] = r
  BY <1>5 DEF Surjection
<1> QED
  BY <1>2, <1>3, <1>4, <1>6

LEMMA TrailAppends ==
    ASSUME NEW h \in Seq(Trail!Entry), NEW e \in Trail!Entry, NEW g, g = Append(h, e)
    PROVE  /\ g \in Seq(Trail!Entry) /\ Len(h) \in Nat /\ Len(g) = Len(h) + 1 /\ g[Len(g)] = e
           /\ SubSeq(g, 1, Len(g)) = g
           /\ \A m \in 1 .. Len(h) : SubSeq(g, 1, m) = SubSeq(h, 1, m)
<1>1. g \in Seq(Trail!Entry) /\ Len(h) \in Nat /\ Len(g) = Len(h) + 1 /\ g[Len(g)] = e
      /\ \A i \in 1 .. Len(h) : g[i] = h[i]
  BY AppendProperties
<1>2. SubSeq(g, 1, Len(g)) = g
  BY <1>1, SubSeqFull
<1>3. ASSUME NEW m \in 1 .. Len(h) PROVE SubSeq(g, 1, m) = SubSeq(h, 1, m)
  <2>1. m \in Nat /\ m \in Int /\ 1 \in Int /\ 1 <= m /\ \A i \in 1 .. m : i \in 1 .. Len(h)
    BY <1>1
  <2>2. \A i \in 1 .. m : g[i] \in Trail!Entry /\ h[i] \in Trail!Entry
    BY <1>1, <2>1, ElementOfSeq
  <2>3. /\ SubSeq(g, 1, m) \in Seq(Trail!Entry) /\ Len(SubSeq(g, 1, m)) = m
        /\ \A i \in 1 .. m : SubSeq(g, 1, m)[i] = g[i]
    BY <2>1, <2>2, SubSeqProperties
  <2>4. /\ SubSeq(h, 1, m) \in Seq(Trail!Entry) /\ Len(SubSeq(h, 1, m)) = m
        /\ \A i \in 1 .. m : SubSeq(h, 1, m)[i] = h[i]
    BY <2>1, <2>2, SubSeqProperties
  <2>5. \A i \in 1 .. m : SubSeq(g, 1, m)[i] = SubSeq(h, 1, m)[i]
    BY <1>1, <2>1, <2>3, <2>4
  <2> QED
    BY <2>3, <2>4, <2>5, SeqEqual
<1> QED
  BY <1>1, <1>2, <1>3

\* What a valid listing says of the k-th row.
TrailPrefixes(s, k) == Len(s[k].hash) = k /\ \A m \in 1 .. k : SubSeq(s[k].hash, 1, m) = s[m].hash

LEMMA TrailLeastNatural ==
    ASSUME NEW S, S \subseteq Nat, S # {}
    PROVE  \E x \in S : \A y \in S : x <= y
<1>1. PICK x \in S : \A y \in S : ~ (<<y, x>> \in OpToRel(<, Nat))
  BY NatLessThanWellFounded, WFMin
<1>2. \A y \in S : ~ (y < x)
  BY <1>1 DEF OpToRel
<1> QED
  BY <1>2

LEMMA TrailValidPrefixes ==
    ASSUME NEW n \in Nat, NEW some \in SUBSET Trail!Row, NEW s \in [1 .. n -> some],
           Trail!Valid(s)
    PROVE  \A k \in 1 .. n : TrailPrefixes(s, k)
<1> DEFINE Bad == {k \in 1 .. n : ~ TrailPrefixes(s, k)}
<1>1. SUFFICES ASSUME Bad # {} PROVE FALSE
  OBVIOUS
<1>2. Bad \subseteq Nat
  OBVIOUS
<1>3. PICK k \in Bad : \A j \in Bad : k <= j
  BY <1>1, <1>2, TrailLeastNatural
<1>4. k \in 1 .. n /\ ~ TrailPrefixes(s, k) /\ DOMAIN s = 1 .. n
  BY <1>3
<1>5. s[k].entry \in Trail!Entry
        /\ s[k].hash = Append(IF k = 1 THEN <<>> ELSE s[k - 1].hash, s[k].entry)
  <2>1. s[k] \in Trail!Row
    BY <1>4
  <2> QED
    BY <1>4, <2>1 DEF Trail!Valid, Trail!Row
<1>6. CASE k = 1
  <2>1. s[k].hash = Append(<<>>, s[k].entry) /\ <<>> \in Seq(Trail!Entry) /\ Len(<<>>) = 0
    BY <1>5, <1>6, EmptySeq
  <2>2. Len(s[k].hash) = 1 /\ SubSeq(s[k].hash, 1, Len(s[k].hash)) = s[k].hash
    BY <1>5, <2>1, TrailAppends
  <2>3. \A m \in 1 .. 1 : m = 1
    OBVIOUS
  <2>4. TrailPrefixes(s, 1)
    BY <1>6, <2>2, <2>3 DEF TrailPrefixes
  <2> QED
    BY <1>4, <1>6, <2>4
<1>7. CASE k # 1
  <2>1. PICK j : j = k - 1
    OBVIOUS
  <2>2. j \in 1 .. n /\ j \in Nat /\ k = j + 1 /\ ~(k <= j)
    BY <1>4, <1>7, <2>1
  <2>3. TrailPrefixes(s, j)
    BY <1>3, <2>2
  <2>4. s[j] \in Trail!Row
    BY <2>2
  <2>5. s[j].hash \in Seq(Trail!Entry) /\ s[k].hash = Append(s[j].hash, s[k].entry)
          /\ Len(s[j].hash) = j
    BY <1>5, <1>7, <2>1, <2>3, <2>4 DEF Trail!Row, TrailPrefixes
  <2>6. /\ Len(s[k].hash) = k /\ SubSeq(s[k].hash, 1, k) = s[k].hash
        /\ \A m \in 1 .. j : SubSeq(s[k].hash, 1, m) = SubSeq(s[j].hash, 1, m)
    <3>1. /\ Len(s[k].hash) = Len(s[j].hash) + 1 /\ SubSeq(s[k].hash, 1, Len(s[k].hash)) = s[k].hash
          /\ \A m \in 1 .. Len(s[j].hash) : SubSeq(s[k].hash, 1, m) = SubSeq(s[j].hash, 1, m)
      <4>1. s[k].entry \in Trail!Entry
        BY <1>5
      <4> QED
        BY ONLY <2>5, <4>1, TrailAppends
    <3>2. Len(s[k].hash) = k
      BY <2>2, <2>5, <3>1
    <3> QED
      BY <2>5, <3>1, <3>2
  <2>7. \A m \in 1 .. k : m = k \/ m \in 1 .. j
    BY <2>2
  <2>8. TrailPrefixes(s, k)
    BY <2>3, <2>6, <2>7 DEF TrailPrefixes
  <2> QED
    BY <1>4, <2>8
<1> QED
  BY <1>6, <1>7

LEMMA TrailWholeIfValid ==
    ASSUME TrailInv, NEW some \in SUBSET log, NEW s \in Trail!Listings(some), Trail!Valid(s)
    PROVE  Trail!Whole(some)
<1>1. IsFiniteSet(some) /\ some \subseteq Trail!Row /\ some \in SUBSET Trail!Row
  <2>1. IsFiniteSet(log) /\ log \subseteq Trail!Row
    BY DEF TrailInv, TrailTypes
  <2> QED
    BY <2>1, FS_Subset
<1>2. PICK n \in Nat : /\ s \in [1 .. n -> some] /\ DOMAIN s = 1 .. n
                       /\ \A r \in some : \E k \in 1 .. n : s[k] = r
  BY <1>1, TrailListingIs
<1>3. \A k \in 1 .. n : TrailPrefixes(s, k)
  BY <1>1, <1>2, TrailValidPrefixes
<1>4. ASSUME NEW r \in some PROVE r \in written
  <2>1. PICK k \in 1 .. n : s[k] = r
    BY <1>2
  <2>2. PICK h \in Seq(Trail!Entry) : TrailChained(r, h)
    BY DEF TrailInv, TrailMarked
  <2>3. PICK e \in Trail!Entry : r.hash = Append(h, e) /\ e.what \in TrailHonest
    BY <2>2 DEF TrailChained
  <2>4. r.hash[Len(r.hash)] = e
    BY <2>3, TrailAppends
  <2>5. r.hash[Len(r.hash)] = r.entry
    <3>1. r.hash = Append(IF k = 1 THEN <<>> ELSE s[k - 1].hash, r.entry)
      BY <1>2, <2>1 DEF Trail!Valid
    <3>2. (IF k = 1 THEN <<>> ELSE s[k - 1].hash) \in Seq(Trail!Entry)
      <4>1. CASE k = 1
        BY <4>1, EmptySeq
      <4>2. CASE k # 1
        <5>1. k - 1 \in 1 .. n
          BY <4>2
        <5>2. s[k - 1] \in Trail!Row
          BY <1>1, <1>2, <5>1
        <5> QED
          BY <4>2, <5>2 DEF Trail!Row
      <4> QED
        BY <4>1, <4>2
    <3>3. r.entry \in Trail!Entry
      BY <1>1 DEF Trail!Row
    <3> QED
      BY <3>1, <3>2, <3>3, TrailAppends
  <2>6. r.entry.what # "edited"
    BY <2>3, <2>4, <2>5 DEF TrailHonest
  <2> QED
    BY <2>6 DEF TrailInv, TrailMarked
<1>5. ASSUME NEW r \in some, NEW m \in 1 .. MaxRows, m < Len(r.hash)
      PROVE  \E q \in some : q.hash = SubSeq(r.hash, 1, m)
  <2>1. PICK k \in 1 .. n : s[k] = r
    BY <1>2
  <2>2. Len(r.hash) = k /\ \A j \in 1 .. k : SubSeq(r.hash, 1, j) = s[j].hash
    BY <1>3, <2>1 DEF TrailPrefixes
  <2>3. m \in 1 .. k /\ m \in 1 .. n
    BY <1>5, <2>2
  <2>4. s[m] \in some
    BY <1>2, <2>3
  <2> QED
    BY <2>2, <2>3, <2>4
<1> QED
  BY <1>4, <1>5 DEF Trail!Whole

LEMMA TrailValidIfUndisturbed ==
    ASSUME TrailInv, NEW some \in SUBSET log, NEW s \in Trail!Listings(some),
           Trail!Undisturbed(some)
    PROVE  Trail!Valid(s)
<1>1. IsFiniteSet(some) /\ some \subseteq Trail!Row
  <2>1. IsFiniteSet(log) /\ log \subseteq Trail!Row
    BY DEF TrailInv, TrailTypes
  <2> QED
    BY <2>1, FS_Subset
<1>2. PICK n \in Nat : /\ s \in [1 .. n -> some] /\ DOMAIN s = 1 .. n
                       /\ \A j, k \in 1 .. n : j # k => s[j] # s[k]
                       /\ \A j, k \in 1 .. n : j < k => s[j].at <= s[k].at
                       /\ \A r \in some : \E k \in 1 .. n : s[k] = r
  BY <1>1, TrailListingIs
<1>3. TrailCalm /\ TrailDistinct(log) /\ \A r \in log : r.entry = r.hash[Len(r.hash)]
  BY DEF Trail!Undisturbed, TrailCalm, TrailDistinct, Trail!Last
<1>4. \A r \in some : r.at \in Nat
  BY <1>1, TrailAssumption DEF Trail!Row
<1>5. some # {} => \E t \in Tenants : some = TrailChain(t)
  <2>1. CASE ~perTenant /\ some = log /\ some # {}
    <3>1. PICK r \in log : r \in Trail!Row
      BY <1>1, <2>1
    <3>2. r.entry.tenant \in Tenants
      BY <3>1 DEF Trail!Row, Trail!Entry
    <3> QED
      BY <2>1, <3>2 DEF TrailChain
  <2>2. CASE perTenant /\ \E t \in Tenants : some = Trail!Of(t, log)
    BY <2>2 DEF TrailChain
  <2> QED
    BY <2>1, <2>2 DEF Trail!Undisturbed
<1>6. SUFFICES ASSUME NEW k \in 1 .. n
               PROVE  s[k].hash = Append(IF k = 1 THEN <<>> ELSE s[k - 1].hash, s[k].entry)
  BY <1>2 DEF Trail!Valid
<1>7. PICK r \in some : r = s[k]
  BY <1>2
<1>8. PICK t \in Tenants : some = TrailChain(t)
  BY <1>5, <1>7
<1>9. PICK h \in Seq(Trail!Entry) : TrailChained(r, h) /\ TrailFollows(h, r, some)
  BY <1>3, <1>7, <1>8 DEF TrailInv, TrailLinked
<1>10. r.hash = Append(h, r.entry)
  <2>1. PICK e \in Trail!Entry : r.hash = Append(h, e)
    BY <1>9 DEF TrailChained
  <2>2. r.hash[Len(r.hash)] = e
    BY <2>1, TrailAppends
  <2> QED
    BY <1>3, <2>1, <2>2
<1>11. CASE k = 1
  <2>1. \A q \in some : ~(q.at < r.at)
    <3> SUFFICES ASSUME NEW q \in some PROVE ~(q.at < r.at)
      OBVIOUS
    <3>1. PICK j \in 1 .. n : s[j] = q
      BY <1>2
    <3>2. j = 1 \/ 1 < j
      OBVIOUS
    <3>3. r.at <= q.at
      BY <1>2, <1>4, <1>7, <1>11, <3>1, <3>2
    <3> QED
      BY <1>4, <3>3
  <2>2. h = <<>>
    BY <1>9, <2>1 DEF TrailFollows
  <2> QED
    BY <1>7, <1>10, <1>11, <2>2
<1>12. CASE k # 1
  <2>1. PICK j : j = k - 1
    OBVIOUS
  <2>2. j \in 1 .. n /\ j < k /\ \A i \in 1 .. n : i < k => i = j \/ i < j
    BY <1>12, <2>1
  <2>3. PICK b \in some : b = s[j]
    BY <1>2, <2>2
  <2>4. b.at < r.at
    <3>1. b.at <= r.at /\ b # r
      BY <1>2, <1>7, <2>2, <2>3
    <3>2. b.at # r.at
      BY <1>3, <3>1 DEF TrailDistinct
    <3> QED
      BY <1>4, <3>1, <3>2
  <2>5. PICK p \in some : p.at < r.at /\ p.hash = h /\ \A q \in some : q.at < r.at =>
          q.at <= p.at
    BY <1>9, <2>4 DEF TrailFollows
  <2>6. PICK i \in 1 .. n : s[i] = p
    BY <1>2
  <2>7. i < k
    <3>1. ~(r.at <= p.at)
      BY <1>4, <2>5
    <3>2. k # i /\ ~(k < i)
      BY <1>2, <1>4, <1>7, <2>6, <3>1
    <3> QED
      BY <3>2
  <2>8. p.at <= b.at
    <3>1. i = j \/ i < j
      BY <2>2, <2>6, <2>7
    <3>2. CASE i = j
      BY <1>4, <2>3, <2>6, <3>2
    <3>3. CASE i < j
      <4>1. s[i].at <= s[j].at
        BY <1>2, <2>2, <2>6, <3>3
      <4> QED
        BY <2>3, <2>6, <4>1
    <3> QED
      BY <3>1, <3>2, <3>3
  <2>9. p.at = b.at
    BY <1>4, <2>4, <2>5, <2>8
  <2>10. p = b
    BY <1>3, <2>9 DEF TrailDistinct
  <2> QED
    BY <1>7, <1>10, <1>12, <2>1, <2>3, <2>5, <2>10
<1> QED
  BY <1>11, <1>12

LEMMA TrailVerdicts == ASSUME TrailInv PROVE Trail!TypeOK /\ Trail!VerdictsAreTrue
<1>1. Trail!TypeOK
  BY DEF TrailInv, TrailTypes, Trail!TypeOK, TrailCalls
<1>2. \A some \in Trail!Questions : some \in SUBSET log
  BY DEF Trail!Questions, Trail!Of
<1>3. Trail!VerdictsAreTrue
  BY <1>2, TrailWholeIfValid, TrailValidIfUndisturbed DEF Trail!VerdictsAreTrue
<1> QED
  BY <1>1, <1>3

(***************************************************************************)
(* BreakGlass: a token is used no more often than calls can overlap        *)
(***************************************************************************)

LEMMA ReviewCardinality == \A S : Review!Cardinality(S) = Cardinality(S)
BY DEF Review!Cardinality, Cardinality

(***************************************************************************)
(* Break glass: a token that is not used has signed nobody in, and the     *)
(* calls that hold one and the sign-ins it made are not more than calls    *)
(***************************************************************************)

ReviewItems    == Operators \X Review!Dispositions
ReviewHolds    == {"operator", "use", "sign"}
ReviewHeld     == {"idle", "create review", "write item", "finalize", "create token"} \cup ReviewHolds
ReviewActs     == [pc : ReviewHeld, on : {Review!Nobody} \cup Operators \cup Tokens, says : SUBSET ReviewItems]
Reviews  == [status : {"none", "open", "completed"}, items : SUBSET ReviewItems, summary : SUBSET ReviewItems]
ReviewTokenRow == [owner : Operators \cup {Review!Nobody}, used : BOOLEAN, expired : BOOLEAN]

ReviewShape ==
    /\ operators \subseteq Operators
    /\ review \in Reviews
    /\ token \in [Tokens -> ReviewTokenRow]
    /\ act \in [Calls -> ReviewActs]
    /\ signed \in [Tokens -> Nat]

ReviewOnWhat ==
    \A c \in Calls :
        /\ act[c].pc = "create token" => act[c].on \in Operators
        /\ act[c].pc \in ReviewHolds => act[c].on \in Tokens

ReviewHolding(t) == {c \in Calls : act[c].pc \in ReviewHolds /\ act[c].on = t}

ReviewUnusedIsFresh ==
    \A t \in Tokens : ~token[t].used =>
        signed[t] = 0 /\ \A c \in Calls : ~(act[c].pc = "sign" /\ act[c].on = t)

ReviewUsesCounted ==
    \A t \in Tokens : signed[t] + Cardinality(ReviewHolding(t)) <= Cardinality(Calls)

ReviewInv == ReviewShape /\ ReviewOnWhat /\ ReviewUnusedIsFresh /\ ReviewUsesCounted

LEMMA ReviewHoldersFinite ==
    ASSUME NEW t
    PROVE  /\ IsFiniteSet(ReviewHolding(t)) /\ Cardinality(ReviewHolding(t)) \in Nat
           /\ Cardinality(Calls) \in Nat
           /\ Cardinality(ReviewHolding(t)) <= Cardinality(Calls)
<1>1. ReviewHolding(t) \subseteq Calls
  BY DEF ReviewHolding
<1> QED
  BY <1>1, CallsAssumption, FS_Subset, FS_CardinalityType

LEMMA ReviewFewerFit == \A s, k, j, n \in Nat : s + k <= n /\ j <= k => s + j <= n
  OBVIOUS

LEMMA ReviewInitially == Review!Init => ReviewInv
<1> SUFFICES ASSUME Review!Init PROVE ReviewInv
  OBVIOUS
<1>1. ReviewShape
  BY DEF Review!Init, ReviewShape, Reviews, Review!NoReview, ReviewTokenRow, Review!NoToken,
         ReviewActs, ReviewHeld, Review!Idle
<1>2. ReviewOnWhat /\ ReviewUnusedIsFresh
  BY DEF Review!Init, ReviewOnWhat, ReviewUnusedIsFresh, Review!Idle, ReviewHolds
<1>3. ReviewUsesCounted
  <2> SUFFICES ASSUME NEW t \in Tokens
               PROVE  signed[t] + Cardinality(ReviewHolding(t)) <= Cardinality(Calls)
    BY DEF ReviewUsesCounted
  <2>1. signed[t] = 0
    BY DEF Review!Init
  <2> QED
    BY <2>1, ReviewHoldersFinite
<1> QED
  BY <1>1, <1>2, <1>3 DEF ReviewInv

\* A call goes on or ends, and holds no token it did not hold.
LEMMA ReviewCallGoesOn ==
    ASSUME ReviewInv, NEW c \in Calls, NEW a \in ReviewActs, act' = [act EXCEPT ![c] = a],
           UNCHANGED <<token, signed>>, operators' \subseteq Operators, review' \in Reviews,
           a.pc = "create token" => a.on \in Operators,
           a.pc \in ReviewHolds => act[c].pc \in ReviewHolds /\ act[c].on = a.on,
           a.pc = "sign" => token[a.on].used
    PROVE  ReviewInv'
<1>1. /\ act' \in [Calls -> ReviewActs] /\ act'[c] = a
      /\ \A d \in Calls : d # c => act'[d] = act[d]
  BY DEF ReviewInv, ReviewShape
<1>2. ReviewShape' /\ ReviewOnWhat' /\ ReviewUnusedIsFresh'
  BY <1>1 DEF ReviewInv, ReviewShape, ReviewOnWhat, ReviewUnusedIsFresh
<1>3. ReviewUsesCounted'
  <2> SUFFICES ASSUME NEW t \in Tokens
               PROVE  signed[t] + Cardinality(ReviewHolding(t)') <= Cardinality(Calls)
    BY DEF ReviewUsesCounted
  <2>1. ReviewHolding(t)' \subseteq ReviewHolding(t)
    BY <1>1 DEF ReviewHolding
  <2>2. /\ Cardinality(ReviewHolding(t)') \in Nat
        /\ Cardinality(ReviewHolding(t)') <= Cardinality(ReviewHolding(t))
    BY <2>1, ReviewHoldersFinite, FS_Subset, FS_CardinalityType
  <2>3. signed[t] \in Nat /\ signed[t] + Cardinality(ReviewHolding(t)) <= Cardinality(Calls)
    BY DEF ReviewInv, ReviewShape, ReviewUsesCounted
  <2>4. Cardinality(ReviewHolding(t)) \in Nat /\ Cardinality(Calls) \in Nat
    BY ReviewHoldersFinite
  <2> QED
    BY <2>2, <2>3, <2>4, ReviewFewerFit, Zenon
<1> QED
  BY <1>2, <1>3 DEF ReviewInv

LEMMA ReviewActOf ==
    ASSUME ReviewInv, NEW c \in Calls
    PROVE  /\ act[c] \in ReviewActs /\ act[c].pc \in ReviewHeld /\ act[c].says \subseteq ReviewItems
           /\ Review!Idle \in ReviewActs
           /\ \A pc \in ReviewHeld : [act[c] EXCEPT !.pc = pc] \in ReviewActs
  BY DEF ReviewInv, ReviewShape, ReviewActs, Review!Idle, ReviewHeld

LEMMA ReviewFindTokenStep ==
    ASSUME ReviewInv, NEW c \in Calls, NEW t \in Tokens, Review!FindToken(c, t)
    PROVE  ReviewInv'
<1> DEFINE a == [pc |-> "operator", on |-> t, says |-> {}]
<1>1. a \in ReviewActs /\ a.pc = "operator" /\ a.on = t
  BY DEF ReviewActs, ReviewHeld, ReviewHolds
<1>2. act' = [act EXCEPT ![c] = a] /\ UNCHANGED Review!rows /\ ~token[t].used
        /\ act[c] = Review!Idle
  BY DEF Review!FindToken, Review!Starts, Review!Good
<1> HIDE DEF a
<1>3. /\ act' \in [Calls -> ReviewActs] /\ act'[c] = a
      /\ \A d \in Calls : d # c => act'[d] = act[d]
  BY <1>1, <1>2 DEF ReviewInv, ReviewShape
<1>4. ReviewShape' /\ ReviewOnWhat' /\ ReviewUnusedIsFresh'
  BY <1>1, <1>2, <1>3
     DEF ReviewInv, ReviewShape, ReviewOnWhat, ReviewUnusedIsFresh, Review!rows
<1>5. ReviewUsesCounted'
  <2> SUFFICES ASSUME NEW u \in Tokens
               PROVE  signed[u] + Cardinality(ReviewHolding(u)') <= Cardinality(Calls)
    BY <1>2 DEF ReviewUsesCounted, Review!rows
  <2>1. CASE u = t
    <3>1. signed[u] = 0
      BY <1>2, <2>1 DEF ReviewInv, ReviewUnusedIsFresh
    <3>2. ReviewHolding(u)' \subseteq Calls
      BY DEF ReviewHolding
    <3> QED
      BY <3>1, <3>2, CallsAssumption, FS_Subset, FS_CardinalityType
  <2>2. CASE u # t
    <3>1. ReviewHolding(u)' = ReviewHolding(u)
      BY <1>1, <1>2, <1>3, <2>2 DEF ReviewHolding, Review!Idle, ReviewHolds
    <3> QED
      BY <3>1 DEF ReviewInv, ReviewUsesCounted
  <2> QED
    BY <2>1, <2>2
<1> QED
  BY <1>4, <1>5 DEF ReviewInv

LEMMA ReviewUseTokenStep ==
    ASSUME ReviewInv, NEW c \in Calls, Review!UseToken(c)
    PROVE  ReviewInv'
<1> DEFINE a == [act[c] EXCEPT !.pc = "sign"]  t == act[c].on
<1>1. act[c] \in ReviewActs /\ act[c].pc = "use" /\ t \in Tokens
        /\ token[t] \in ReviewTokenRow
  BY ReviewActOf DEF Review!UseToken, ReviewInv, ReviewOnWhat, ReviewHolds, ReviewShape
<1>2. a \in ReviewActs /\ a.pc = "sign" /\ a.on = t
  BY <1>1 DEF ReviewActs, ReviewHeld, ReviewHolds
<1>3. /\ act' = [act EXCEPT ![c] = a] /\ token' = [token EXCEPT ![t].used = TRUE]
      /\ UNCHANGED <<operators, review, signed>>
  BY DEF Review!UseToken, Review!Goto
<1> HIDE DEF a, t
<1>4. /\ act' \in [Calls -> ReviewActs] /\ act'[c] = a
      /\ \A d \in Calls : d # c => act'[d] = act[d]
  BY <1>2, <1>3 DEF ReviewInv, ReviewShape
<1>5. /\ token' \in [Tokens -> ReviewTokenRow] /\ token'[t].used
      /\ \A u \in Tokens : u # t => token'[u] = token[u]
  BY <1>1, <1>3 DEF ReviewInv, ReviewShape, ReviewTokenRow
<1>6. ReviewShape' /\ ReviewOnWhat' /\ ReviewUnusedIsFresh'
  <2>1. ReviewShape'
    BY <1>3, <1>4, <1>5 DEF ReviewInv, ReviewShape
  <2>2. ReviewOnWhat'
    BY <1>1, <1>2, <1>4 DEF ReviewInv, ReviewOnWhat
  <2>3. ReviewUnusedIsFresh'
    BY <1>2, <1>3, <1>4, <1>5 DEF ReviewInv, ReviewUnusedIsFresh
  <2> QED
    BY <2>1, <2>2, <2>3
<1>7. ReviewUsesCounted'
  <2> SUFFICES ASSUME NEW u \in Tokens
               PROVE  signed[u] + Cardinality(ReviewHolding(u)') <= Cardinality(Calls)
    BY <1>3 DEF ReviewUsesCounted
  <2>1. act[c].on = t
    BY DEF t
  <2>2. ReviewHolding(u)' = ReviewHolding(u)
    BY <1>1, <1>2, <1>4, <2>1 DEF ReviewHolding, ReviewHolds
  <2> QED
    BY <2>2 DEF ReviewInv, ReviewUsesCounted
<1> QED
  BY <1>6, <1>7 DEF ReviewInv

LEMMA ReviewSignInStep ==
    ASSUME ReviewInv, NEW c \in Calls, Review!SignIn(c)
    PROVE  ReviewInv'
<1> DEFINE t == act[c].on
<1>1. act[c].pc = "sign" /\ t \in Tokens /\ Review!Idle \in ReviewActs
        /\ Review!Idle.pc = "idle"
  BY ReviewActOf DEF Review!SignIn, ReviewInv, ReviewOnWhat, ReviewHolds, Review!Idle
<1>2. act[c].on = t
  OBVIOUS
<1>3. /\ act' = [act EXCEPT ![c] = Review!Idle] /\ signed' = [signed EXCEPT ![t] = @ + 1]
      /\ UNCHANGED <<operators, review, token>>
  BY DEF Review!SignIn, Review!Ends
<1> HIDE DEF t
<1>4. /\ act' \in [Calls -> ReviewActs] /\ act'[c] = Review!Idle
      /\ \A d \in Calls : d # c => act'[d] = act[d]
  BY <1>1, <1>3 DEF ReviewInv, ReviewShape
<1>5. /\ signed' \in [Tokens -> Nat] /\ signed'[t] = signed[t] + 1
      /\ \A u \in Tokens : u # t => signed'[u] = signed[u]
  BY <1>1, <1>3 DEF ReviewInv, ReviewShape
<1>6. token[t].used
  BY <1>1, <1>2 DEF ReviewInv, ReviewUnusedIsFresh
<1>7. ReviewShape' /\ ReviewOnWhat' /\ ReviewUnusedIsFresh'
  BY <1>1, <1>3, <1>4, <1>5, <1>6
     DEF ReviewInv, ReviewShape, ReviewOnWhat, ReviewUnusedIsFresh, ReviewHolds
<1>8. ReviewUsesCounted'
  <2> SUFFICES ASSUME NEW u \in Tokens
               PROVE  signed'[u] + Cardinality(ReviewHolding(u)') <= Cardinality(Calls)
    BY DEF ReviewUsesCounted
  <2>0. signed[u] \in Nat /\ signed[u] + Cardinality(ReviewHolding(u)) <= Cardinality(Calls)
    BY DEF ReviewInv, ReviewShape, ReviewUsesCounted
  <2>1. CASE u = t
    <3>1. ReviewHolding(u)' = ReviewHolding(u) \ {c} /\ c \in ReviewHolding(u)
      BY <1>1, <1>2, <1>4, <2>1 DEF ReviewHolding, ReviewHolds
    <3>2. Cardinality(ReviewHolding(u)') = Cardinality(ReviewHolding(u)) - 1
      BY <3>1, ReviewHoldersFinite, FS_RemoveElement
    <3> QED
      BY <1>5, <2>0, <2>1, <3>2, ReviewHoldersFinite
  <2>2. CASE u # t
    <3>1. ReviewHolding(u)' = ReviewHolding(u)
      BY <1>1, <1>2, <1>4, <2>2 DEF ReviewHolding, ReviewHolds
    <3> QED
      BY <1>5, <2>0, <2>2, <3>1
  <2> QED
    BY <2>1, <2>2
<1> QED
  BY <1>7, <1>8 DEF ReviewInv

\* A token that is created or expires: it is as much used as before.
LEMMA ReviewTokenChanges ==
    ASSUME ReviewInv, NEW t \in Tokens, NEW record \in ReviewTokenRow,
           token' = [token EXCEPT ![t] = record],
           record.used = token[t].used, UNCHANGED <<operators, review, act, signed>>
    PROVE  ReviewInv'
<1>1. /\ token' \in [Tokens -> ReviewTokenRow] /\ token'[t] = record
      /\ \A u \in Tokens : u # t => token'[u] = token[u]
  BY DEF ReviewInv, ReviewShape
<1>2. ReviewShape' /\ ReviewOnWhat' /\ ReviewUnusedIsFresh'
  BY <1>1 DEF ReviewInv, ReviewShape, ReviewOnWhat, ReviewUnusedIsFresh
<1>3. ReviewUsesCounted'
  BY DEF ReviewInv, ReviewUsesCounted, ReviewHolding
<1> QED
  BY <1>2, <1>3 DEF ReviewInv

LEMMA ReviewInsertTokenStep ==
    ASSUME ReviewInv, NEW c \in Calls, Review!InsertToken(c)
    PROVE  ReviewInv'
<1>1. PICK t \in Tokens : token' = [token EXCEPT ![t].owner = act[c].on]
  BY DEF Review!InsertToken
<1> DEFINE record == [token[t] EXCEPT !.owner = act[c].on]
<1>2. act[c].pc = "create token" /\ act[c].on \in Operators /\ token[t] \in ReviewTokenRow
  BY DEF Review!InsertToken, ReviewInv, ReviewOnWhat, ReviewShape
<1>3. record \in ReviewTokenRow /\ record.used = token[t].used
        /\ token' = [token EXCEPT ![t] = record]
  BY <1>1, <1>2 DEF ReviewTokenRow
<1>4. act' = [act EXCEPT ![c] = Review!Idle] /\ UNCHANGED <<operators, review, signed>>
  BY DEF Review!InsertToken, Review!Ends
<1> HIDE DEF record
<1>5. /\ token' \in [Tokens -> ReviewTokenRow] /\ \A u \in Tokens : token'[u].used = token[u].used
  BY <1>3 DEF ReviewInv, ReviewShape
<1>6. /\ act' \in [Calls -> ReviewActs] /\ act'[c] = Review!Idle /\ Review!Idle.pc = "idle"
      /\ \A d \in Calls : d # c => act'[d] = act[d]
  BY <1>4, ReviewActOf DEF ReviewInv, ReviewShape, Review!Idle
<1>7. ReviewShape' /\ ReviewOnWhat' /\ ReviewUnusedIsFresh'
  BY <1>4, <1>5, <1>6
     DEF ReviewInv, ReviewShape, ReviewOnWhat, ReviewUnusedIsFresh, ReviewHolds
<1>8. \A u \in Tokens : ReviewHolding(u)' = ReviewHolding(u)
  BY <1>2, <1>6 DEF ReviewHolding, ReviewHolds
<1>9. ReviewUsesCounted'
  BY <1>4, <1>8 DEF ReviewInv, ReviewUsesCounted
<1> QED
  BY <1>7, <1>9 DEF ReviewInv

\* The calls of reviews, and what only reads.
LEMMA ReviewStep ==
    ASSUME ReviewInv, NEW c \in Calls,
           Review!StartReview(c) \/ Review!CreateReview(c) \/ Review!ReviewItem(c) \/ Review!WriteItem(c)
             \/ Review!FinalizeReview(c) \/ Review!WriteSummary(c) \/ Review!FindOperator(c) \/ Review!CallFails(c)
             \/ (\E o \in Operators : Review!CreateBreakGlass(c, o))
    PROVE  ReviewInv'
<1>1. operators \subseteq Operators /\ review \in Reviews
        /\ review.items \subseteq ReviewItems
  BY DEF ReviewInv, ReviewShape, Reviews
<1>2. Review!Idle.pc = "idle" /\ "idle" \notin ReviewHolds
  BY DEF Review!Idle, ReviewHolds
<1>3. CASE Review!StartReview(c)
  <2> DEFINE a == [pc |-> "create review", on |-> Review!Nobody, says |-> operators \X {"pending"}]
  <2>1. a \in ReviewActs /\ a.pc = "create review"
    BY <1>1 DEF ReviewActs, ReviewHeld, ReviewItems, Review!Dispositions
  <2>2. act' = [act EXCEPT ![c] = a] /\ UNCHANGED Review!rows
    BY <1>3 DEF Review!StartReview, Review!Starts
  <2> HIDE DEF a
  <2> QED
    BY <1>1, <2>1, <2>2, ReviewCallGoesOn DEF Review!rows, ReviewHolds
<1>4. CASE Review!CreateReview(c)
  <2>1. review' \in Reviews
    BY <1>1, <1>4, ReviewActOf DEF Review!CreateReview, Reviews
  <2> QED
    BY <1>1, <1>2, <1>4, <2>1, ReviewActOf, ReviewCallGoesOn
       DEF Review!CreateReview, Review!Ends
<1>5. CASE Review!ReviewItem(c)
  <2>1. PICK item \in review.items, disposition \in {"keep", "revoke"} :
            Review!Starts(c, "write item", item[1], {<<item[1], disposition>>})
    BY <1>5 DEF Review!ReviewItem
  <2> DEFINE a == [pc |-> "write item", on |-> item[1], says |-> {<<item[1], disposition>>}]
  <2>2. item[1] \in Operators
    BY <1>1 DEF ReviewItems
  <2>3. a \in ReviewActs /\ a.pc = "write item"
    BY <2>2 DEF ReviewActs, ReviewHeld, ReviewItems, Review!Dispositions
  <2>4. act' = [act EXCEPT ![c] = a] /\ UNCHANGED Review!rows
    BY <1>5, <2>1 DEF Review!ReviewItem, Review!Starts
  <2> HIDE DEF a
  <2> QED
    BY <1>1, <2>3, <2>4, ReviewCallGoesOn DEF Review!rows, ReviewHolds
<1>6. CASE Review!WriteItem(c)
  <2>1. review' \in Reviews
    BY <1>1, <1>6, ReviewActOf DEF Review!WriteItem, Reviews
  <2> QED
    BY <1>1, <1>2, <1>6, <2>1, ReviewActOf, ReviewCallGoesOn
       DEF Review!WriteItem, Review!Ends
<1>7. CASE Review!FinalizeReview(c)
  <2> DEFINE a == [pc |-> "finalize", on |-> Review!Nobody, says |-> review.items]
  <2>1. a \in ReviewActs /\ a.pc = "finalize"
    BY <1>1 DEF ReviewActs, ReviewHeld
  <2>2. act' = [act EXCEPT ![c] = a] /\ UNCHANGED Review!rows
    BY <1>7 DEF Review!FinalizeReview, Review!Starts
  <2> HIDE DEF a
  <2> QED
    BY <1>1, <2>1, <2>2, ReviewCallGoesOn DEF Review!rows, ReviewHolds
<1>8. CASE Review!WriteSummary(c)
  <2>1. review' \in Reviews
    BY <1>1, <1>8, ReviewActOf DEF Review!WriteSummary, Reviews
  <2> QED
    BY <1>1, <1>2, <1>8, <2>1, ReviewActOf, ReviewCallGoesOn
       DEF Review!WriteSummary, Review!Ends
<1>9. CASE Review!FindOperator(c)
  <2> DEFINE a == [act[c] EXCEPT !.pc = "use"]
  <2>1. act[c] \in ReviewActs /\ act[c].pc = "operator"
    BY <1>9, ReviewActOf DEF Review!FindOperator
  <2>2. a \in ReviewActs /\ a.pc = "use" /\ a.on = act[c].on
    BY <2>1 DEF ReviewActs, ReviewHeld, ReviewHolds
  <2>3. UNCHANGED Review!rows
          /\ (act' = [act EXCEPT ![c] = a] \/ act' = [act EXCEPT ![c] = Review!Idle])
    BY <1>9 DEF Review!FindOperator, Review!Goto, Review!Ends
  <2> HIDE DEF a
  <2>4. CASE act' = [act EXCEPT ![c] = a]
    BY <1>1, <2>1, <2>2, <2>3, <2>4, ReviewCallGoesOn DEF Review!rows, ReviewHolds
  <2>5. CASE act' = [act EXCEPT ![c] = Review!Idle]
    BY <1>1, <1>2, <2>3, <2>5, ReviewActOf, ReviewCallGoesOn DEF Review!rows
  <2> QED
    BY <2>3, <2>4, <2>5
<1>10. CASE Review!CallFails(c)
  BY <1>1, <1>2, <1>10, ReviewActOf, ReviewCallGoesOn
     DEF Review!CallFails, Review!Ends, Review!rows
<1>11. CASE \E o \in Operators : Review!CreateBreakGlass(c, o)
  <2>1. PICK o \in Operators : Review!CreateBreakGlass(c, o)
    BY <1>11
  <2> DEFINE a == [pc |-> "create token", on |-> o, says |-> {}]
  <2>2. a \in ReviewActs /\ a.pc = "create token" /\ a.on = o
    BY DEF ReviewActs, ReviewHeld
  <2>3. act' = [act EXCEPT ![c] = a] /\ UNCHANGED Review!rows
    BY <2>1 DEF Review!CreateBreakGlass, Review!Starts
  <2> HIDE DEF a
  <2> QED
    BY <1>1, <2>2, <2>3, ReviewCallGoesOn DEF Review!rows, ReviewHolds
<1> QED
  BY <1>3, <1>4, <1>5, <1>6, <1>7, <1>8, <1>9, <1>10, <1>11

LEMMA ReviewKept ==
    ASSUME ReviewInv, [Review!Next]_reviewVars
    PROVE  ReviewInv'
<1>1. CASE \E c \in Calls :
             Review!StartReview(c) \/ Review!CreateReview(c) \/ Review!ReviewItem(c) \/ Review!WriteItem(c)
             \/ Review!FinalizeReview(c) \/ Review!WriteSummary(c) \/ Review!FindOperator(c) \/ Review!CallFails(c)
             \/ (\E o \in Operators : Review!CreateBreakGlass(c, o))
  BY <1>1, ReviewStep
<1>2. CASE \E c \in Calls : Review!InsertToken(c) \/ Review!UseToken(c) \/ Review!SignIn(c)
  BY <1>2, ReviewInsertTokenStep, ReviewUseTokenStep, ReviewSignInStep
<1>3. CASE \E c \in Calls, t \in Tokens : Review!FindToken(c, t)
  BY <1>3, ReviewFindTokenStep
<1>4. CASE \E o \in Operators : Review!SwitchOperator(o)
  <2>1. ReviewShape' /\ ReviewOnWhat' /\ ReviewUnusedIsFresh'
    BY <1>4
       DEF Review!SwitchOperator, ReviewInv, ReviewShape, ReviewOnWhat, ReviewUnusedIsFresh
  <2>2. ReviewUsesCounted'
    BY <1>4 DEF Review!SwitchOperator, ReviewInv, ReviewUsesCounted, ReviewHolding
  <2> QED
    BY <2>1, <2>2 DEF ReviewInv
<1>5. CASE \E t \in Tokens : Review!TokenExpires(t)
  <2>1. PICK t \in Tokens : Review!TokenExpires(t)
    BY <1>5
  <2> DEFINE record == [token[t] EXCEPT !.expired = TRUE]
  <2>2. record \in ReviewTokenRow /\ record.used = token[t].used
          /\ token' = [token EXCEPT ![t] = record]
    BY <2>1 DEF Review!TokenExpires, ReviewInv, ReviewShape, ReviewTokenRow
  <2> HIDE DEF record
  <2> QED
    BY <2>1, <2>2, ReviewTokenChanges DEF Review!TokenExpires
<1>6. CASE UNCHANGED reviewVars
  <2>1. ReviewShape' /\ ReviewOnWhat' /\ ReviewUnusedIsFresh'
    BY <1>6 DEF reviewVars, ReviewInv, ReviewShape, ReviewOnWhat, ReviewUnusedIsFresh
  <2>2. ReviewUsesCounted'
    BY <1>6 DEF reviewVars, ReviewInv, ReviewUsesCounted, ReviewHolding
  <2> QED
    BY <2>1, <2>2 DEF ReviewInv
<1> QED
  BY <1>1, <1>2, <1>3, <1>4, <1>5, <1>6 DEF Review!Next

LEMMA ReviewTypes ==
    ASSUME ReviewInv
    PROVE  Review!TypeOK
  BY DEF ReviewInv, ReviewShape, Review!TypeOK, Reviews, ReviewTokenRow, ReviewActs,
         ReviewHeld, ReviewHolds, ReviewItems

LEMMA ReviewUses ==
    ASSUME ReviewInv
    PROVE  Review!TokenUsesBounded
<1> SUFFICES ASSUME NEW t \in Tokens
             PROVE  /\ signed[t] <= Cardinality(Calls)
                    /\ signed[t] > 0 => token[t].used
  BY ReviewCardinality DEF Review!TokenUsesBounded
<1>1. signed[t] \in Nat /\ signed[t] + Cardinality(ReviewHolding(t)) <= Cardinality(Calls)
  BY DEF ReviewInv, ReviewShape, ReviewUsesCounted
<1>2. ~token[t].used => signed[t] = 0
  BY DEF ReviewInv, ReviewUnusedIsFresh
<1> QED
  BY <1>1, <1>2, ReviewHoldersFinite
===========================================================================
