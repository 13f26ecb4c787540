------------------------- MODULE Services_proofs --------------------------
(***************************************************************************)
(* Proofs about the components of Services that show pages, and of the     *)
(* properties of Services from those of all its components.                *)
(***************************************************************************)
EXTENDS ServicesGuards_proofs, ServicesRecords_proofs

(***************************************************************************)
(* WebConsole: the pages do not keep redirecting each other                *)
(***************************************************************************)

(***************************************************************************)
(* The redirects a tab still has before it: a login page that finds the    *)
(* flag goes home and may come back, a page of data may go to the login    *)
(* page, and so does the answer to a logout                                *)
(***************************************************************************)

ConsoleAhead ==
    IF page = "login" /\ stage = "load" /\ flag THEN 2
    ELSE IF page \in {"home", "password"} \/ leaving # "no" THEN 1
    ELSE 0

\* What a page that was opened or left has asked for.
ConsoleAskedFor ==
    /\ page = "onboarding" => asked = 0
    /\ stage = "load" /\ page \in {"home", "password"} => asked <= 2

ConsoleInv == Console!TypeOK /\ ConsoleAskedFor /\ hops + ConsoleAhead <= 2

LEMMA ConsoleInitially == Console!Init => ConsoleInv
  BY BoundsAssumption
     DEF Console!Init, ConsoleInv, Console!TypeOK, ConsoleAskedFor, ConsoleAhead,
         Console!Consoles, Console!Pages

\* The user does something: the redirects are counted anew.
LEMMA ConsoleUserStep ==
    ASSUME ConsoleInv,
           Console!SignIn \/ Console!Navigate \/ Console!Link \/ Console!Refetch \/ Console!ChangePassword \/ Console!LogOut
    PROVE  ConsoleInv'
<1>1. Console!Moves /\ Console!TypeOK /\ ConsoleAskedFor /\ console' = console
  BY DEF ConsoleInv, Console!SignIn, Console!Navigate, Console!Link, Console!Refetch,
         Console!ChangePassword, Console!LogOut
<1>2. moves' \in 0 .. MaxMoves /\ hops' = 0
  BY <1>1, BoundsAssumption DEF Console!Moves, Console!TypeOK
<1>3. ConsoleAhead' \in {0, 1, 2}
  BY DEF ConsoleAhead
<1>4. hops' + ConsoleAhead' <= 2
  <2>1. \A n \in {0, 1, 2} : 0 + n <= 2
    OBVIOUS
  <2> QED
    BY <1>2, <1>3, <2>1, Zenon
<1>5. CASE Console!SignIn
  BY <1>1, <1>2, <1>4, <1>5
     DEF Console!SignIn, Console!Open, ConsoleInv, Console!TypeOK, ConsoleAskedFor,
         Console!Pages
<1>6. CASE Console!Navigate
  <2>1. PICK p \in Console!Pages : Console!Open(p)
    BY <1>6 DEF Console!Navigate
  <2>2. UNCHANGED <<flag, session>>
    BY <1>6 DEF Console!Navigate
  <2> QED
    BY <1>1, <1>2, <1>4, <2>1, <2>2
       DEF Console!Open, ConsoleInv, Console!TypeOK, ConsoleAskedFor
<1>7. CASE Console!Link
  BY <1>1, <1>2, <1>4, <1>7
     DEF Console!Link, ConsoleInv, Console!TypeOK, ConsoleAskedFor, Console!Pages
<1>8. CASE Console!Refetch
  BY <1>1, <1>2, <1>4, <1>8
     DEF Console!Refetch, Console!Open, ConsoleInv, Console!TypeOK, ConsoleAskedFor,
         Console!Pages
<1>9. CASE Console!ChangePassword
  <2>1. /\ \E p \in {"home", "login"} : Console!Open(p)
        /\ flag' \in BOOLEAN /\ session' \in BOOLEAN
    BY <1>1, <1>9 DEF Console!ChangePassword, Console!TypeOK
  <2> QED
    BY <1>1, <1>2, <1>4, <2>1
       DEF Console!Open, ConsoleInv, Console!TypeOK, ConsoleAskedFor, Console!Pages
<1>10. CASE Console!LogOut
  BY <1>1, <1>2, <1>4, <1>10
     DEF Console!LogOut, ConsoleInv, Console!TypeOK, ConsoleAskedFor, Console!Pages
<1> QED
  BY <1>5, <1>6, <1>7, <1>8, <1>9, <1>10

LEMMA ConsolePageStep ==
    ASSUME ConsoleInv, Console!RunEffects \/ Console!Answered \/ Console!Refused
    PROVE  ConsoleInv'
<1>1. Console!TypeOK /\ ConsoleAskedFor /\ hops \in Nat /\ hops + ConsoleAhead <= 2
        /\ moves' = moves /\ console' = console
  BY DEF ConsoleInv, Console!TypeOK, Console!RunEffects, Console!Answered, Console!Refused
<1>2. CASE Console!RunEffects
  <2>1. CASE /\ page = "onboarding" \/ (page = "login" /\ ~flag)
             /\ stage' = "rest" /\ UNCHANGED <<page, asked, leaving, hops>>
    BY <1>1, <1>2, <2>1
       DEF Console!RunEffects, ConsoleInv, Console!TypeOK, ConsoleAskedFor, ConsoleAhead
  <2>2. CASE page = "login" /\ flag /\ Console!Redirect("home")
    BY <1>1, <1>2, <2>2
       DEF Console!RunEffects, Console!Redirect, Console!Open, ConsoleInv, Console!TypeOK,
           ConsoleAskedFor, ConsoleAhead, Console!Pages
  <2>3. CASE page \in {"home", "password"} /\ ~flag /\ Console!Redirect("login")
    BY <1>1, <1>2, <2>3
       DEF Console!RunEffects, Console!Redirect, Console!Open, ConsoleInv, Console!TypeOK,
           ConsoleAskedFor, ConsoleAhead, Console!Pages
  <2>4. CASE /\ page \in {"home", "password"} /\ flag /\ stage' = "wait"
             /\ asked' \in asked + 1 .. asked + 2 /\ UNCHANGED <<page, leaving, hops>>
    BY <1>1, <1>2, <2>4
       DEF Console!RunEffects, ConsoleInv, Console!TypeOK, ConsoleAskedFor, ConsoleAhead
  <2> QED
    BY <1>2, <2>1, <2>2, <2>3, <2>4 DEF Console!RunEffects
<1>3. CASE Console!Answered
  BY <1>1, <1>3
     DEF Console!Answered, Console!Reply, ConsoleInv, Console!TypeOK, ConsoleAskedFor,
         ConsoleAhead
<1>4. CASE Console!Refused
  <2>1. ~flag' /\ flag' \in BOOLEAN /\ session' \in BOOLEAN /\ asked > 0
    BY <1>1, <1>4 DEF Console!Refused, Console!FlagAfter401, Console!TypeOK
  <2>2. CASE console = "cp" \/ page \in {"login", "onboarding"}
    <3>1. Console!Reply /\ UNCHANGED <<page, leaving, hops>>
      BY <1>4, <2>2 DEF Console!Refused
    <3>2. Console!TypeOK' /\ ConsoleAskedFor'
      BY <1>1, <2>1, <3>1 DEF Console!Reply, Console!TypeOK, ConsoleAskedFor
    <3>3. ConsoleAhead' = ConsoleAhead \/ (ConsoleAhead' \in {0, 1} /\ ConsoleAhead = 2)
      BY <2>1, <3>1 DEF ConsoleAhead, Console!Reply
    <3>4. ConsoleAhead \in {0, 1, 2}
      BY DEF ConsoleAhead
    <3>5. hops' + ConsoleAhead' <= 2
      BY <1>1, <3>1, <3>3, <3>4
    <3> QED
      BY <3>2, <3>5 DEF ConsoleInv
  <2>3. CASE ~(console = "cp" \/ page \in {"login", "onboarding"})
    <3>1. page \in {"home", "password"}
      BY <1>1, <2>3 DEF Console!TypeOK, Console!Pages
    <3>2. Console!Redirect("login") /\ hops + 1 <= 2
      BY <1>1, <1>4, <2>3, <3>1 DEF Console!Refused, ConsoleAhead
    <3> QED
      BY <1>1, <2>1, <3>2
         DEF Console!Redirect, Console!Open, ConsoleInv, Console!TypeOK, ConsoleAskedFor,
             ConsoleAhead, Console!Pages
  <2> QED
    BY <2>2, <2>3
<1> QED
  BY <1>2, <1>3, <1>4

LEMMA ConsoleKept ==
    ASSUME ConsoleInv, [Console!Next]_consoleVars
    PROVE  ConsoleInv'
<1>1. CASE Console!ServerLogsOut \/ Console!SessionEnds \/ UNCHANGED consoleVars
  <2>1. /\ UNCHANGED <<console, page, stage, flag, asked, moves, hops>>
        /\ session' \in BOOLEAN
        /\ leaving' \in {"no", "sent", "done"} /\ (leaving' = "no" <=> leaving = "no")
    BY <1>1
       DEF Console!ServerLogsOut, Console!SessionEnds, consoleVars, ConsoleInv,
           Console!TypeOK
  <2>2. Console!TypeOK' /\ ConsoleAskedFor'
    BY <2>1 DEF ConsoleInv, Console!TypeOK, ConsoleAskedFor
  <2>3. ConsoleAhead' = ConsoleAhead
    BY <2>1 DEF ConsoleAhead
  <2> QED
    BY <2>1, <2>2, <2>3 DEF ConsoleInv
<1>2. CASE Console!LogOutAnswered
  <2>1. hops \in Nat /\ hops + 1 <= 2
    BY <1>2 DEF Console!LogOutAnswered, ConsoleInv, Console!TypeOK, ConsoleAhead
  <2>2. /\ Console!Redirect("login") /\ ~flag' /\ flag' \in BOOLEAN
        /\ UNCHANGED <<console, moves>> /\ session' \in BOOLEAN
    BY <1>2 DEF Console!LogOutAnswered, ConsoleInv, Console!TypeOK
  <2> QED
    BY <2>1, <2>2
       DEF Console!Redirect, Console!Open, ConsoleInv, Console!TypeOK, ConsoleAskedFor,
           ConsoleAhead, Console!Pages
<1> QED
  BY <1>1, <1>2, ConsoleUserStep, ConsolePageStep DEF Console!Next

LEMMA ConsoleFewRedirects ==
    ASSUME ConsoleInv
    PROVE  Console!TypeOK /\ Console!RedirectsBounded
  BY DEF ConsoleInv, Console!TypeOK, ConsoleAhead, Console!RedirectsBounded

(***************************************************************************)
(* TenantPages: a page shows what was answered                             *)
(***************************************************************************)

(***************************************************************************)
(* What the page owes is on it, or the one load that is on its way will    *)
(* bring it; and a flag is up only while a call is in flight that lowers it *)
(***************************************************************************)

TenantCopies  == [status : Tenant!Statuses, rev : 0 .. MaxRev]
TenantRecords ==
    {Tenant!Idle} \cup [pc : {"sent", "failed"}, op : Tenant!Ops] \cup [pc : {"done"}, op : Tenant!Ops, rev : 0 .. MaxRev]
    \cup [pc : {"asked"}, op : Tenant!Ops \cup {"load"}]
    \cup [pc : {"read"}, op : Tenant!Ops \cup {"load"}, copy : TenantCopies]
TenantEdits   == {"edit", "settings"}

TenantTypes ==
    /\ tab \in Tenant!Pages \cup {Tenant!None}
    /\ tenant \in [status : Tenant!Statuses \cup {Tenant!None}, rev : 0 .. MaxRev]
    /\ shown \in TenantCopies \cup {Tenant!Nothing}
    /\ modal \in Tenant!Ops \cup {Tenant!None} /\ step \in 1 .. 4
    /\ result \in [op : Tenant!Ops, ok : BOOLEAN] \cup {Tenant!NoResult}
    /\ busy \in BOOLEAN /\ saving \in BOOLEAN /\ loading \in BOOLEAN
    /\ handler \in [Calls -> TenantRecords]
    /\ owed \in 0 .. MaxRev

\* A call whose end lowers `busy`, or `saving`.
TenantWorks(r, p)  == r.pc \in {"sent", "done", "failed"}
                \/ (r.pc \in {"asked", "read"} /\ r.op # "load" /\ p # "cpList")
TenantBusies(r, p) == TenantWorks(r, p) /\ r.op \notin TenantEdits
TenantSaves(r, p)  == TenantWorks(r, p) /\ r.op \in TenantEdits
TenantLoading(r)   == r.pc \in {"asked", "read"}

TenantWaits ==
    /\ busy => \E c \in Calls : TenantBusies(handler[c], tab)
    /\ saving => \E c \in Calls : TenantSaves(handler[c], tab)
    /\ loading => \E c \in Calls : TenantLoading(handler[c])

TenantBrings(r) == r.pc = "read" => r.copy.rev >= owed

TenantOwes ==
    /\ owed <= tenant.rev
    /\ \A c \in Calls : handler[c].pc = "done" => handler[c].rev <= tenant.rev
    /\ owed # 0 =>
           /\ \A c, d \in Calls : TenantLoading(handler[c]) /\ TenantLoading(handler[d]) => c = d
           /\ \A c \in Calls : TenantBrings(handler[c])
           /\ \/ \E c \in Calls : TenantLoading(handler[c])
              \/ shown = Tenant!Nothing \/ shown.rev >= owed

TenantInv == TenantTypes /\ TenantWaits /\ TenantOwes

LEMMA TenantIdleIs ==
    /\ Tenant!Idle \in TenantRecords /\ Tenant!Idle.pc = "idle" /\ ~TenantLoading(Tenant!Idle)
    /\ \A p : ~TenantBusies(Tenant!Idle, p) /\ ~TenantSaves(Tenant!Idle, p)
  BY DEF Tenant!Idle, TenantRecords, TenantLoading, TenantBusies, TenantSaves, TenantWorks

LEMMA TenantRecordIs ==
    ASSUME NEW r \in TenantRecords
    PROVE  /\ r.pc \in {"idle", "sent", "done", "failed", "asked", "read"}
           /\ r.pc = "idle" => r = Tenant!Idle
           /\ r.pc \in {"sent", "done", "failed"} => r.op \in Tenant!Ops
           /\ r.pc = "done" => r.rev \in 0 .. MaxRev
           /\ r.pc \in {"asked", "read"} => r.op \in Tenant!Ops \cup {"load"}
           /\ r.pc = "read" => r.copy \in TenantCopies
  BY DEF TenantRecords, Tenant!Idle

LEMMA TenantNoneIs == Tenant!None \notin Tenant!Ops /\ "load" \notin Tenant!Ops /\ "load" \notin TenantEdits /\ Tenant!None \notin Tenant!Statuses
  BY DEF Tenant!None, Tenant!Ops, TenantEdits, Tenant!Statuses

LEMMA TenantCallIs ==
    ASSUME handler \in [Calls -> TenantRecords], NEW c \in Calls, NEW r \in TenantRecords,
           handler' = [handler EXCEPT ![c] = r]
    PROVE  handler' \in [Calls -> TenantRecords] /\ handler'[c] = r
             /\ \A d \in Calls : d # c => handler'[d] = handler[d]
  OBVIOUS

LEMMA TenantStillWaits ==
    ASSUME TenantWaits, NEW c \in Calls, NEW r, handler'[c] = r,
           \A d \in Calls : d # c => handler'[d] = handler[d], tab' = tab,
           busy' => TenantBusies(r, tab) \/ (busy /\ ~TenantBusies(handler[c], tab)),
           saving' => TenantSaves(r, tab) \/ (saving /\ ~TenantSaves(handler[c], tab)),
           loading' => TenantLoading(r) \/ (loading /\ ~TenantLoading(handler[c]))
    PROVE  TenantWaits'
<1>1. busy' => \E d \in Calls : TenantBusies(handler'[d], tab)
  BY DEF TenantWaits
<1>2. saving' => \E d \in Calls : TenantSaves(handler'[d], tab)
  BY DEF TenantWaits
<1>3. loading' => \E d \in Calls : TenantLoading(handler'[d])
  BY DEF TenantWaits
<1> QED
  BY <1>1, <1>2, <1>3 DEF TenantWaits, TenantBusies, TenantSaves, TenantWorks, TenantLoading

LEMMA TenantInitially == Tenant!Init => TenantInv
<1> SUFFICES ASSUME Tenant!Init PROVE TenantInv
  OBVIOUS
<1>1. 0 \in 0 .. MaxRev
  BY BoundsAssumption
<1>2. handler \in [Calls -> TenantRecords]
  BY TenantIdleIs DEF Tenant!Init
<1>3. TenantTypes
  <2>1. tenant \in [status : Tenant!Statuses \cup {Tenant!None}, rev : 0 .. MaxRev]
          /\ step \in 1 .. 4
    BY <1>1 DEF Tenant!Init
  <2>2. busy \in BOOLEAN /\ saving \in BOOLEAN /\ loading \in BOOLEAN
    BY DEF Tenant!Init
  <2>3. tab = Tenant!None /\ shown = Tenant!Nothing /\ modal = Tenant!None
          /\ result = Tenant!NoResult /\ owed = 0
    BY DEF Tenant!Init
  <2> QED
    BY <1>1, <1>2, <2>1, <2>2, <2>3 DEF TenantTypes
<1>4. TenantWaits
  BY DEF Tenant!Init, TenantWaits
<1>5. TenantOwes
  BY <1>1, <1>3, TenantIdleIs DEF Tenant!Init, TenantOwes, TenantTypes
<1> QED
  BY <1>3, <1>4, <1>5 DEF TenantInv

\* A step of the operator that leaves the calls alone.
LEMMA TenantAtThePage ==
    ASSUME TenantInv, UNCHANGED <<tab, tenant, shown, loading, saving, handler, owed>>,
           busy' \in BOOLEAN, busy' => busy,
           modal' \in Tenant!Ops \cup {Tenant!None}, step' \in 1 .. 4,
           result' \in [op : Tenant!Ops, ok : BOOLEAN] \cup {Tenant!NoResult}
    PROVE  TenantInv'
<1>1. TenantTypes'
  BY DEF TenantInv, TenantTypes
<1>2. TenantWaits'
  BY DEF TenantInv, TenantWaits, TenantBusies, TenantSaves, TenantWorks, TenantLoading
<1>3. TenantOwes'
  BY DEF TenantInv, TenantOwes, TenantLoading, TenantBrings
<1> QED
  BY <1>1, <1>2, <1>3 DEF TenantInv

LEMMA TenantOperatorSteps ==
    ASSUME TenantInv,
           \/ Tenant!Close \/ Tenant!NextStep \/ Tenant!StepBack \/ Tenant!CreateAnother \/ Tenant!OtherRow
           \/ \E op \in Tenant!Ops : Tenant!Choose(op)
    PROVE  TenantInv'
<1>1. /\ modal \in Tenant!Ops \cup {Tenant!None} /\ step \in 1 .. 4 /\ busy \in BOOLEAN
      /\ result \in [op : Tenant!Ops, ok : BOOLEAN] \cup {Tenant!NoResult}
  BY DEF TenantInv, TenantTypes
<1>2. UNCHANGED <<tab, tenant, shown, loading, saving, handler, owed>>
  BY DEF Tenant!Close, Tenant!NextStep, Tenant!StepBack, Tenant!CreateAnother,
         Tenant!OtherRow, Tenant!Choose
<1>3. busy' \in BOOLEAN /\ (busy' => busy)
  <2>1. CASE Tenant!OtherRow
    BY <2>1 DEF Tenant!OtherRow
  <2>2. CASE ~Tenant!OtherRow
    BY <1>1, <2>2
       DEF Tenant!Close, Tenant!NextStep, Tenant!StepBack, Tenant!CreateAnother,
           Tenant!Choose
  <2> QED
    BY <2>1, <2>2
<1>4. modal' \in Tenant!Ops \cup {Tenant!None}
  BY <1>1
     DEF Tenant!Close, Tenant!NextStep, Tenant!StepBack, Tenant!CreateAnother,
         Tenant!OtherRow, Tenant!Choose
<1>5. step' \in 1 .. 4
  BY <1>1
     DEF Tenant!Close, Tenant!NextStep, Tenant!StepBack, Tenant!CreateAnother,
         Tenant!OtherRow, Tenant!Choose, Tenant!LastStep
<1>6. result' \in [op : Tenant!Ops, ok : BOOLEAN] \cup {Tenant!NoResult}
  BY <1>1
     DEF Tenant!Close, Tenant!NextStep, Tenant!StepBack, Tenant!CreateAnother,
         Tenant!OtherRow, Tenant!Choose
<1> QED
  BY <1>2, <1>3, <1>4, <1>5, <1>6, TenantAtThePage

LEMMA TenantOpenStep == ASSUME TenantInv, Tenant!Open PROVE TenantInv'
<1>1. PICK p \in Tenant!Pages : Tenant!Fresh(p)
  BY DEF Tenant!Open
<1>2. PICK c \in Calls : handler' =
          [d \in Calls |-> IF d = c /\ p \notin Tenant!Wizards THEN [pc |-> "asked", op |-> "load"] ELSE Tenant!Idle]
  BY <1>1 DEF Tenant!Fresh
<1>3. [pc |-> "asked", op |-> "load"] \in TenantRecords
        /\ TenantLoading([pc |-> "asked", op |-> "load"])
  BY DEF TenantRecords, TenantLoading
<1>4. handler' \in [Calls -> TenantRecords] /\ (\A d \in Calls : handler'[d].pc \in {"idle", "asked"})
      /\ (p \notin Tenant!Wizards => TenantLoading(handler'[c]))
  BY <1>2, <1>3, TenantIdleIs
<1>5. 0 \in 0 .. MaxRev /\ tenant \in [status : Tenant!Statuses \cup {Tenant!None}, rev : 0 .. MaxRev]
      /\ UNCHANGED tenant
  BY BoundsAssumption DEF TenantInv, TenantTypes, Tenant!Open
<1>6. tab' = p /\ shown' = Tenant!Nothing /\ modal' = Tenant!None /\ result' = Tenant!NoResult /\ step' = 1
      /\ ~busy' /\ ~saving' /\ busy' \in BOOLEAN /\ saving' \in BOOLEAN
      /\ (loading' <=> p \notin Tenant!Wizards) /\ loading' \in BOOLEAN /\ owed' = 0
  BY <1>1 DEF Tenant!Fresh
<1>7. TenantTypes'
  BY <1>4, <1>5, <1>6 DEF TenantTypes
<1>8. TenantWaits'
  BY <1>4, <1>6 DEF TenantWaits
<1>9. TenantOwes'
  BY <1>4, <1>5, <1>6 DEF TenantOwes
<1> QED
  BY <1>7, <1>8, <1>9 DEF TenantInv

LEMMA TenantOthersChangeStep == ASSUME TenantInv, Tenant!OthersChange PROVE TenantInv'
<1>1. PICK status \in Tenant!Statuses \cup {Tenant!None} : tenant' = [status |-> status, rev |-> tenant.rev + 1]
  BY DEF Tenant!OthersChange
<1>2. tenant.rev \in 0 .. MaxRev /\ tenant.rev < MaxRev
  BY DEF TenantInv, TenantTypes, Tenant!OthersChange
<1>3. tenant' \in [status : Tenant!Statuses \cup {Tenant!None}, rev : 0 .. MaxRev]
        /\ tenant'.rev = tenant.rev + 1
  BY <1>1, <1>2, BoundsAssumption
<1>4. UNCHANGED <<tab, shown, loading, modal, result, step, busy, saving, handler, owed>>
  BY DEF Tenant!OthersChange
<1>5. TenantTypes'
  BY <1>3, <1>4 DEF TenantInv, TenantTypes
<1>6. TenantWaits'
  BY <1>4 DEF TenantInv, TenantWaits, TenantBusies, TenantSaves, TenantWorks, TenantLoading
<1>7. TenantOwes'
  <2>1. owed \in Nat /\ \A c \in Calls : handler[c].pc = "done" =>
          handler[c].rev \in 0 .. MaxRev
    BY TenantRecordIs, BoundsAssumption DEF TenantInv, TenantTypes
  <2>2. owed' <= tenant'.rev
    BY <1>2, <1>3, <1>4, <2>1 DEF TenantInv, TenantOwes
  <2>3. \A c \in Calls : handler'[c].pc = "done" => handler'[c].rev <= tenant'.rev
    BY <1>2, <1>3, <1>4, <2>1 DEF TenantInv, TenantOwes
  <2> QED
    BY <1>4, <2>2, <2>3 DEF TenantInv, TenantOwes, TenantLoading, TenantBrings
<1> QED
  BY <1>5, <1>6, <1>7 DEF TenantInv

\* A step of a call that neither was nor becomes a load.
LEMMA TenantOnTheWay ==
    ASSUME TenantInv, NEW c \in Calls, NEW r \in TenantRecords,
           handler' = [handler EXCEPT ![c] = r],
           ~TenantLoading(r), ~TenantLoading(handler[c]), r.pc # "done", UNCHANGED <<tab, tenant, shown, loading, owed>>,
           busy' \in BOOLEAN, saving' \in BOOLEAN,
           busy' => TenantBusies(r, tab) \/ (busy /\ ~TenantBusies(handler[c], tab)),
           saving' => TenantSaves(r, tab) \/ (saving /\ ~TenantSaves(handler[c], tab)),
           modal' = modal, step' = step, result' \in [op : Tenant!Ops, ok : BOOLEAN] \cup {Tenant!NoResult}
    PROVE  TenantInv'
<1>1. TenantTypes /\ TenantWaits /\ TenantOwes
  BY DEF TenantInv
<1>2. handler' \in [Calls -> TenantRecords] /\ handler'[c] = r /\ \A d \in Calls : d # c =>
        handler'[d] = handler[d]
  BY <1>1, TenantCallIs DEF TenantTypes
<1>3. TenantTypes'
  BY <1>1, <1>2 DEF TenantTypes
<1>4. TenantWaits'
  BY <1>1, <1>2, TenantStillWaits
<1>5. \A d \in Calls : TenantLoading(handler'[d]) <=> TenantLoading(handler[d])
  BY <1>2
<1>6. \A d \in Calls : handler'[d].pc = "done" => handler'[d].rev <= tenant.rev
  BY <1>1, <1>2 DEF TenantOwes
<1>7. owed # 0 => \A d \in Calls : handler'[d].pc = "read" => handler'[d].copy.rev >= owed
  BY <1>1, <1>2 DEF TenantOwes, TenantBrings, TenantLoading
<1>8. \A d \in Calls : (handler'[d].pc \in {"asked", "read"}) <=> TenantLoading(handler[d])
  BY <1>5 DEF TenantLoading
<1>9. TenantOwes'
  BY <1>1, <1>6, <1>7, <1>8 DEF TenantOwes, TenantBrings, TenantLoading
<1> QED
  BY <1>3, <1>4, <1>9 DEF TenantInv

\* A load starts: of what is owed with no other one on its way, or of nothing.
LEMMA TenantLoadStartsStep ==
    ASSUME TenantInv, NEW c \in Calls, NEW op \in Tenant!Ops \cup {"load"},
           Tenant!LoadStarts(c, op), ~TenantLoading(handler[c]),
           UNCHANGED <<tab, tenant, shown, modal, step>>,
           result' \in [op : Tenant!Ops, ok : BOOLEAN] \cup {Tenant!NoResult},
           busy' \in BOOLEAN, saving' \in BOOLEAN,
           busy' => busy /\ (TenantBusies(handler[c], tab) => tab # "cpList" /\ op \in Tenant!Ops \ TenantEdits),
           saving' => saving /\ (TenantSaves(handler[c], tab) => tab # "cpList" /\ op \in Tenant!Ops \cap TenantEdits),
           owed' \in 0 .. MaxRev, owed' <= tenant.rev,
           owed' # 0 => \A d \in Calls : ~TenantLoading(handler[d])
    PROVE  TenantInv'
<1> DEFINE r == [pc |-> "asked", op |-> op]
<1>1. TenantTypes /\ TenantWaits /\ TenantOwes
  BY DEF TenantInv
<1>2. r \in TenantRecords /\ r.pc = "asked" /\ r.op = op /\ TenantLoading(r)
  BY DEF TenantRecords, TenantLoading
<1>3. handler' = [handler EXCEPT ![c] = r] /\ loading' = TRUE
  BY DEF Tenant!LoadStarts
<1> HIDE DEF r
<1>4. handler' \in [Calls -> TenantRecords] /\ handler'[c] = r /\ \A d \in Calls : d # c =>
        handler'[d] = handler[d]
  BY <1>1, <1>2, <1>3, TenantCallIs DEF TenantTypes
<1>5. TenantTypes'
  BY <1>1, <1>3, <1>4 DEF TenantTypes
<1>6. TenantWaits'
  <2>1. busy' => TenantBusies(r, tab) \/ (busy /\ ~TenantBusies(handler[c], tab))
    BY <1>2, TenantNoneIs DEF TenantBusies, TenantWorks
  <2>2. saving' => TenantSaves(r, tab) \/ (saving /\ ~TenantSaves(handler[c], tab))
    BY <1>2, TenantNoneIs DEF TenantSaves, TenantWorks
  <2> QED
    BY <1>1, <1>2, <1>4, <2>1, <2>2, TenantStillWaits
<1>7. TenantOwes'
  <2>1. \A d \in Calls : handler'[d].pc = "done" => handler'[d].rev <= tenant.rev
    BY <1>1, <1>2, <1>4 DEF TenantOwes
  <2>2. owed' # 0 => \A d \in Calls : handler'[d].pc \in {"asked", "read"} => d = c
    BY <1>4 DEF TenantLoading
  <2>3. owed' # 0 => \A d \in Calls : handler'[d].pc # "read"
    BY <1>2, <1>4, <2>2
  <2>4. handler'[c].pc \in {"asked", "read"}
    BY <1>2, <1>4
  <2> QED
    BY <2>1, <2>2, <2>3, <2>4 DEF TenantOwes, TenantBrings, TenantLoading
<1> QED
  BY <1>5, <1>6, <1>7 DEF TenantInv

LEMMA TenantReloadStep ==
    ASSUME TenantInv, NEW c \in Calls, Tenant!Reload(c)
    PROVE  TenantInv'
<1>1. TenantTypes /\ TenantWaits /\ TenantOwes
  BY DEF TenantInv
<1>2. Tenant!LoadStarts(c, "load") /\ handler[c] = Tenant!Idle
      /\ UNCHANGED <<tab, tenant, shown, modal, result, step, busy, saving>>
  BY DEF Tenant!Reload
<1>3. owed' = 0 \/ (owed' = owed /\ \A d \in Calls : ~TenantLoading(handler[d]))
  BY DEF Tenant!Reload, Tenant!Loads, TenantLoading
<1>4. owed' \in 0 .. MaxRev /\ owed' <= tenant.rev
  BY <1>1, <1>3, BoundsAssumption DEF TenantTypes, TenantOwes
<1>5. ~TenantLoading(handler[c]) /\ ~TenantBusies(handler[c], tab)
        /\ ~TenantSaves(handler[c], tab)
  BY <1>2, TenantIdleIs
<1> QED
  BY <1>1, <1>2, <1>3, <1>4, <1>5, TenantLoadStartsStep DEF TenantTypes

LEMMA TenantSendStep ==
    ASSUME TenantInv, NEW c \in Calls, NEW op \in Tenant!Ops, Tenant!Send(c, op)
    PROVE  TenantInv'
<1>1. TenantTypes
  BY DEF TenantInv
<1> DEFINE r == [pc |-> "sent", op |-> op]
<1>2. r \in TenantRecords /\ r.pc = "sent" /\ r.op = op /\ ~TenantLoading(r)
        /\ TenantWorks(r, tab)
  BY DEF TenantRecords, TenantLoading, TenantWorks
<1>3. handler' = [handler EXCEPT ![c] = r] /\ handler[c] = Tenant!Idle
      /\ UNCHANGED <<tab, tenant, shown, loading, modal, result, step, owed>>
  BY DEF Tenant!Send
<1>4. IF op \in TenantEdits THEN saving' = TRUE /\ busy' = busy ELSE busy' = TRUE
        /\ saving' = saving
  BY DEF Tenant!Send, TenantEdits
<1> HIDE DEF r
<1>5. ~TenantLoading(handler[c]) /\ ~TenantBusies(handler[c], tab)
        /\ ~TenantSaves(handler[c], tab)
  BY <1>3, TenantIdleIs
<1>6. busy' \in BOOLEAN /\ saving' \in BOOLEAN
  BY <1>1, <1>4 DEF TenantTypes
<1>7. busy' => TenantBusies(r, tab) \/ (busy /\ ~TenantBusies(handler[c], tab))
  BY <1>2, <1>4, <1>5 DEF TenantBusies
<1>8. saving' => TenantSaves(r, tab) \/ (saving /\ ~TenantSaves(handler[c], tab))
  BY <1>2, <1>4, <1>5 DEF TenantSaves
<1>9. r.pc # "done"
  BY <1>2
<1> QED
  BY <1>1, <1>2, <1>3, <1>5, <1>6, <1>7, <1>8, <1>9, TenantOnTheWay DEF TenantTypes

LEMMA TenantServeStep == ASSUME TenantInv, NEW c \in Calls, Tenant!Serve(c) PROVE TenantInv'
<1>1. TenantTypes /\ TenantWaits /\ TenantOwes /\ handler[c] \in TenantRecords
  BY DEF TenantInv, TenantTypes
<1> DEFINE rev == tenant.rev + 1
           r == [pc |-> "done", op |-> handler[c].op, rev |-> rev]
<1>2. handler[c].pc = "sent" /\ handler[c].op \in Tenant!Ops /\ tenant.rev < MaxRev
      /\ tenant' = [status |-> Tenant!StatusAfter(handler[c].op, tenant.status), rev |-> rev]
      /\ handler' = [handler EXCEPT ![c] = r]
      /\ UNCHANGED <<tab, shown, loading, modal, result, step, busy, saving, owed>>
  BY <1>1, TenantRecordIs DEF Tenant!Serve
<1>3. tenant.rev \in 0 .. MaxRev /\ rev \in 0 .. MaxRev /\ tenant.rev <= rev
  BY <1>1, <1>2, BoundsAssumption DEF TenantTypes
<1>4. r \in TenantRecords /\ r.pc = "done" /\ r.rev = rev /\ r.op = handler[c].op
  BY <1>2, <1>3 DEF TenantRecords
<1>5. Tenant!StatusAfter(handler[c].op, tenant.status) \in Tenant!Statuses \cup {Tenant!None}
  BY <1>1 DEF Tenant!StatusAfter, Tenant!Statuses, TenantTypes
<1> HIDE DEF r, rev
<1>6. tenant' \in [status : Tenant!Statuses \cup {Tenant!None}, rev : 0 .. MaxRev]
        /\ tenant'.rev = rev
  BY <1>2, <1>3, <1>5
<1>7. handler' \in [Calls -> TenantRecords] /\ handler'[c] = r /\ \A d \in Calls : d # c =>
        handler'[d] = handler[d]
  BY <1>1, <1>2, <1>4, TenantCallIs DEF TenantTypes
<1>8. TenantTypes'
  BY <1>1, <1>2, <1>6, <1>7 DEF TenantTypes
<1>9. TenantWaits'
  <2>1. (TenantBusies(handler[c], tab) <=> TenantBusies(r, tab)) /\ (TenantSaves(handler[c], tab) <=> TenantSaves(r, tab))
        /\ ~TenantLoading(handler[c])
    BY <1>2, <1>4 DEF TenantBusies, TenantSaves, TenantWorks, TenantLoading
  <2> QED
    BY <1>1, <1>2, <1>7, <2>1, TenantStillWaits
<1>10. TenantOwes'
  <2>1. owed \in 0 .. MaxRev /\ \A d \in Calls : handler[d].pc = "done" =>
          handler[d].rev \in 0 .. MaxRev
    BY <1>1, TenantRecordIs DEF TenantTypes
  <2>2. owed <= rev /\ \A d \in Calls : handler[d].pc = "done" => handler[d].rev <= rev
    BY <1>1, <1>3, <2>1 DEF TenantOwes
  <2>3. \A d \in Calls : handler'[d].pc = "done" => handler'[d].rev <= rev
    BY <1>3, <1>4, <1>7, <2>2
  <2>4. \A d \in Calls : (handler'[d].pc \in {"asked", "read"}) <=>
          (handler[d].pc \in {"asked", "read"})
    BY <1>2, <1>4, <1>7
  <2>5. owed # 0 => \A d \in Calls : handler'[d].pc = "read" => handler'[d].copy.rev >= owed
    BY <1>1, <1>4, <1>7 DEF TenantOwes, TenantBrings
  <2> QED
    BY <1>1, <1>2, <1>6, <2>2, <2>3, <2>4, <2>5 DEF TenantOwes, TenantBrings, TenantLoading
<1> QED
  BY <1>8, <1>9, <1>10 DEF TenantInv

LEMMA TenantNotAnsweredStep ==
    ASSUME TenantInv, NEW c \in Calls, Tenant!NotAnswered(c)
    PROVE  TenantInv'
<1>1. TenantTypes /\ handler[c] \in TenantRecords
  BY DEF TenantInv, TenantTypes
<1> DEFINE r == [pc |-> "failed", op |-> handler[c].op]
<1>2. handler[c].pc \in {"sent", "done"} /\ handler[c].op \in Tenant!Ops /\ handler' = [handler EXCEPT ![c] = r]
      /\ UNCHANGED <<tab, tenant, shown, loading, modal, result, step, busy, saving, owed>>
  BY <1>1, TenantRecordIs DEF Tenant!NotAnswered
<1>3. r \in TenantRecords /\ r.pc = "failed" /\ r.op = handler[c].op
  BY <1>2 DEF TenantRecords
<1> HIDE DEF r
<1>4. (TenantBusies(handler[c], tab) <=> TenantBusies(r, tab)) /\ (TenantSaves(handler[c], tab) <=> TenantSaves(r, tab))
      /\ ~TenantLoading(handler[c]) /\ ~TenantLoading(r) /\ r.pc # "done"
  BY <1>2, <1>3 DEF TenantBusies, TenantSaves, TenantWorks, TenantLoading
<1>5. busy' => TenantBusies(r, tab) \/ (busy /\ ~TenantBusies(handler[c], tab))
  BY <1>2, <1>4
<1>6. saving' => TenantSaves(r, tab) \/ (saving /\ ~TenantSaves(handler[c], tab))
  BY <1>2, <1>4
<1> QED
  BY <1>1, <1>2, <1>3, <1>4, <1>5, <1>6, TenantOnTheWay DEF TenantTypes

LEMMA TenantReadTenantStep ==
    ASSUME TenantInv, NEW c \in Calls, Tenant!ReadTenant(c)
    PROVE  TenantInv'
<1>1. TenantTypes /\ TenantWaits /\ TenantOwes /\ handler[c] \in TenantRecords
  BY DEF TenantInv, TenantTypes
<1> DEFINE r == [pc |-> "read", op |-> handler[c].op, copy |-> tenant]
<1>2. handler[c].pc = "asked" /\ handler[c].op \in Tenant!Ops \cup {"load"} /\ tenant.status # Tenant!None
      /\ handler' = [handler EXCEPT ![c] = r]
      /\ UNCHANGED <<tab, tenant, shown, loading, modal, result, step, busy, saving, owed>>
  BY <1>1, TenantRecordIs DEF Tenant!ReadTenant
<1>3. tenant \in TenantCopies
  BY <1>1, <1>2 DEF TenantTypes, TenantCopies
<1>4. r \in TenantRecords /\ r.pc = "read" /\ r.op = handler[c].op /\ r.copy = tenant
  BY <1>2, <1>3 DEF TenantRecords
<1> HIDE DEF r
<1>5. handler' \in [Calls -> TenantRecords] /\ handler'[c] = r /\ \A d \in Calls : d # c =>
        handler'[d] = handler[d]
  BY <1>1, <1>2, <1>4, TenantCallIs DEF TenantTypes
<1>6. TenantTypes'
  BY <1>1, <1>2, <1>5 DEF TenantTypes
<1>7. TenantWaits'
  <2>1. (TenantBusies(handler[c], tab) <=> TenantBusies(r, tab)) /\ (TenantSaves(handler[c], tab) <=> TenantSaves(r, tab))
        /\ TenantLoading(r)
    BY <1>2, <1>4 DEF TenantBusies, TenantSaves, TenantWorks, TenantLoading
  <2> QED
    BY <1>1, <1>2, <1>5, <2>1, TenantStillWaits
<1>8. TenantOwes'
  <2>1. tenant.rev >= owed
    BY <1>1, BoundsAssumption DEF TenantOwes, TenantTypes
  <2>2. owed # 0 => \A d \in Calls : handler'[d].pc = "read" => handler'[d].copy.rev >= owed
    BY <1>1, <1>4, <1>5, <2>1 DEF TenantOwes, TenantBrings
  <2>3. \A d \in Calls : (handler'[d].pc \in {"asked", "read"}) <=>
          (handler[d].pc \in {"asked", "read"})
    BY <1>2, <1>4, <1>5
  <2>4. \A d \in Calls : handler'[d].pc = "done" => handler'[d].rev <= tenant.rev
    BY <1>1, <1>4, <1>5 DEF TenantOwes
  <2> QED
    BY <1>1, <1>2, <2>2, <2>3, <2>4 DEF TenantOwes, TenantBrings, TenantLoading
<1> QED
  BY <1>6, <1>7, <1>8 DEF TenantInv

LEMMA TenantEndsStep ==
    ASSUME TenantInv, NEW c \in Calls, Tenant!DoneForGood(c) \/ Tenant!Failed(c)
    PROVE  TenantInv'
<1>1. TenantTypes /\ handler[c] \in TenantRecords
  BY DEF TenantInv, TenantTypes
<1>2. handler[c].pc \in {"done", "failed"} /\ handler[c].op \in Tenant!Ops /\ handler' = [handler EXCEPT ![c] = Tenant!Idle]
      /\ Tenant!Release(handler[c].op) /\ UNCHANGED <<tab, tenant, shown, loading, modal, step, owed>>
  BY <1>1, TenantRecordIs DEF Tenant!DoneForGood, Tenant!Failed
<1>3. result' \in [op : Tenant!Ops, ok : BOOLEAN] \cup {Tenant!NoResult}
  <2>1. result \in [op : Tenant!Ops, ok : BOOLEAN] \cup {Tenant!NoResult}
    BY <1>1 DEF TenantTypes
  <2>2. result' = result \/ \E ok \in BOOLEAN : result' = [op |-> handler[c].op, ok |-> ok]
    BY DEF Tenant!DoneForGood, Tenant!Failed
  <2> QED
    BY <1>2, <2>1, <2>2
<1>4. IF handler[c].op \in TenantEdits THEN ~saving' /\ saving' \in BOOLEAN /\ busy' = busy
      ELSE ~busy' /\ busy' \in BOOLEAN /\ saving' = saving
  BY <1>2 DEF Tenant!Release, TenantEdits
<1>5. busy' \in BOOLEAN /\ saving' \in BOOLEAN
  BY <1>1, <1>4 DEF TenantTypes
<1>6. busy' => busy /\ ~TenantBusies(handler[c], tab)
  BY <1>4 DEF TenantBusies
<1>7. saving' => saving /\ ~TenantSaves(handler[c], tab)
  BY <1>4 DEF TenantSaves
<1>8. ~TenantLoading(handler[c])
  BY <1>2 DEF TenantLoading
<1> QED
  BY <1>1, <1>2, <1>3, <1>5, <1>6, <1>7, <1>8, TenantIdleIs, TenantOnTheWay

LEMMA TenantDoneStep == ASSUME TenantInv, NEW c \in Calls, Tenant!Done(c) PROVE TenantInv'
<1>1. TenantTypes /\ TenantWaits /\ TenantOwes /\ handler[c] \in TenantRecords
  BY DEF TenantInv, TenantTypes
<1> DEFINE op == handler[c].op
<1>2. handler[c].pc = "done" /\ op \in Tenant!Ops /\ handler[c].rev \in 0 .. MaxRev /\ Tenant!LoadStarts(c, op)
      /\ UNCHANGED <<tab, tenant, shown, modal, step>>
  BY <1>1, TenantRecordIs DEF Tenant!Done
<1>3. result' \in [op : Tenant!Ops, ok : BOOLEAN] \cup {Tenant!NoResult}
  BY <1>1, <1>2 DEF Tenant!Done, TenantTypes
<1>4. IF tab = "cpList" THEN Tenant!Release(op) ELSE UNCHANGED <<busy, saving>>
  BY DEF Tenant!Done
<1>6. /\ busy' \in BOOLEAN /\ saving' \in BOOLEAN
      /\ busy' => busy /\ (TenantBusies(handler[c], tab) => tab # "cpList" /\ op \in Tenant!Ops \ TenantEdits)
      /\ saving' => saving /\ (TenantSaves(handler[c], tab) => tab # "cpList" /\ op \in Tenant!Ops \cap TenantEdits)
  <2>1. CASE tab = "cpList"
    <3>1. IF op \in TenantEdits THEN ~saving' /\ saving' \in BOOLEAN /\ busy' = busy
          ELSE ~busy' /\ busy' \in BOOLEAN /\ saving' = saving
      BY <1>4, <2>1 DEF Tenant!Release, TenantEdits
    <3>2. busy \in BOOLEAN /\ saving \in BOOLEAN
      BY <1>1 DEF TenantTypes
    <3>3. (TenantBusies(handler[c], tab) => op \notin TenantEdits)
            /\ (TenantSaves(handler[c], tab) => op \in TenantEdits)
      BY DEF TenantBusies, TenantSaves
    <3> QED
      BY <3>1, <3>2, <3>3
  <2>2. CASE tab # "cpList"
    <3>1. UNCHANGED <<busy, saving>>
      BY <1>4, <2>2
    <3> QED
      BY <1>1, <1>2, <2>2, <3>1 DEF TenantBusies, TenantSaves, TenantTypes
  <2> QED
    BY <2>1, <2>2
<1>7. owed' = 0 \/ (owed' = handler[c].rev /\ \A d \in Calls : ~TenantLoading(handler[d]))
  BY DEF Tenant!Done, Tenant!Loads, TenantLoading
<1>8. owed' \in 0 .. MaxRev /\ owed' <= tenant.rev
  BY <1>1, <1>2, <1>7, BoundsAssumption DEF TenantTypes, TenantOwes
<1>9. ~TenantLoading(handler[c])
  BY <1>2 DEF TenantLoading
<1> HIDE DEF op
<1> QED
  BY <1>2, <1>3, <1>6, <1>7, <1>8, <1>9, TenantLoadStartsStep

\* A load ends: with the copy, or owing nothing.
LEMMA TenantLoadEndsStep ==
    ASSUME TenantInv, NEW c \in Calls, Tenant!LoadEnds(c), TenantLoading(handler[c]),
           UNCHANGED <<tab, tenant, modal, result, step>>,
           \/ handler[c].pc = "read" /\ shown' = handler[c].copy /\ owed' = owed
           \/ shown' = shown /\ owed' = 0
    PROVE  TenantInv'
<1>1. TenantTypes /\ TenantWaits /\ TenantOwes /\ handler[c] \in TenantRecords
  BY DEF TenantInv, TenantTypes
<1>2. handler' = [handler EXCEPT ![c] = Tenant!Idle] /\ ~loading' /\ loading' \in BOOLEAN
      /\ (IF handler[c].op = "load" \/ tab = "cpList" THEN UNCHANGED <<busy, saving>>
          ELSE Tenant!Release(handler[c].op))
  BY DEF Tenant!LoadEnds
<1>3. handler' \in [Calls -> TenantRecords] /\ handler'[c] = Tenant!Idle
        /\ \A d \in Calls : d # c => handler'[d] = handler[d]
  BY <1>1, <1>2, TenantIdleIs, TenantCallIs DEF TenantTypes
<1>4. shown' \in TenantCopies \cup {Tenant!Nothing} /\ owed' \in 0 .. MaxRev
  BY <1>1, TenantRecordIs, BoundsAssumption DEF TenantTypes
<1>5. /\ busy' \in BOOLEAN /\ saving' \in BOOLEAN
      /\ busy' => busy /\ ~TenantBusies(handler[c], tab)
      /\ saving' => saving /\ ~TenantSaves(handler[c], tab)
  <2>1. busy \in BOOLEAN /\ saving \in BOOLEAN
    BY <1>1 DEF TenantTypes
  <2>2. CASE handler[c].op = "load" \/ tab = "cpList"
    <3>1. ~TenantBusies(handler[c], tab) /\ ~TenantSaves(handler[c], tab)
      BY <2>2 DEF TenantBusies, TenantSaves, TenantWorks, TenantLoading
    <3> QED
      BY <1>2, <2>1, <2>2, <3>1
  <2>3. CASE ~(handler[c].op = "load" \/ tab = "cpList")
    <3>1. IF handler[c].op \in TenantEdits THEN ~saving' /\ saving' \in BOOLEAN /\ busy' = busy
          ELSE ~busy' /\ busy' \in BOOLEAN /\ saving' = saving
      BY <1>2, <2>3 DEF Tenant!Release, TenantEdits
    <3> QED
      BY <2>1, <3>1 DEF TenantBusies, TenantSaves
  <2> QED
    BY <2>2, <2>3
<1>6. TenantTypes'
  BY <1>1, <1>2, <1>3, <1>4, <1>5 DEF TenantTypes
<1>7. TenantWaits'
  BY <1>1, <1>2, <1>3, <1>5, TenantStillWaits
<1>8. TenantOwes'
  <2>1. \A d \in Calls : handler'[d].pc \in {"asked", "read"} =>
          d # c /\ TenantLoading(handler[d])
    BY <1>3, TenantIdleIs DEF TenantLoading
  <2>2. \A d \in Calls : handler'[d].pc = "done" => handler'[d].rev <= tenant.rev
    BY <1>1, <1>3, TenantIdleIs DEF TenantOwes
  <2>3. owed' <= tenant.rev
    BY <1>1, BoundsAssumption DEF TenantOwes, TenantTypes
  <2>4. ASSUME owed' # 0
        PROVE  shown'.rev >= owed' /\ \A d \in Calls : ~TenantLoading(handler'[d])
    <3>1. handler[c].pc = "read" /\ shown' = handler[c].copy /\ owed' = owed
      BY <2>4
    <3>2. shown'.rev >= owed'
      BY <1>1, <2>4, <3>1 DEF TenantOwes, TenantBrings
    <3>3. \A d \in Calls : TenantLoading(handler[d]) => d = c
      BY <1>1, <2>4, <3>1 DEF TenantOwes
    <3> QED
      BY <2>1, <3>2, <3>3 DEF TenantLoading
  <2> QED
    BY <2>2, <2>3, <2>4 DEF TenantOwes, TenantBrings, TenantLoading
<1> QED
  BY <1>6, <1>7, <1>8 DEF TenantInv

LEMMA TenantKept == ASSUME TenantInv, [Tenant!Next]_tenantVars PROVE TenantInv'
<1>1. CASE UNCHANGED tenantVars
  BY <1>1, TenantAtThePage DEF tenantVars, TenantInv, TenantTypes
<1>2. ASSUME NEW c \in Calls, Tenant!Loaded(c) \/ Tenant!LoadFails(c) PROVE TenantInv'
  <2>1. TenantLoading(handler[c]) /\ Tenant!LoadEnds(c)
          /\ UNCHANGED <<tab, tenant, modal, result, step>>
    BY <1>2 DEF Tenant!Loaded, Tenant!LoadFails, Tenant!Loads, TenantLoading
  <2>2. \/ handler[c].pc = "read" /\ shown' = handler[c].copy /\ owed' = owed
        \/ shown' = shown /\ owed' = 0
    BY <1>2 DEF Tenant!Loaded, Tenant!LoadFails
  <2> QED
    BY <2>1, <2>2, TenantLoadEndsStep
<1>3. ASSUME NEW c \in Calls, Tenant!CallStep(c) PROVE TenantInv'
  BY <1>2, <1>3, TenantReloadStep, TenantSendStep, TenantServeStep, TenantNotAnsweredStep,
     TenantReadTenantStep, TenantEndsStep, TenantDoneStep
     DEF Tenant!CallStep
<1> QED
  BY <1>1, <1>3, TenantOperatorSteps, TenantOpenStep, TenantOthersChangeStep DEF Tenant!Next

LEMMA TenantShows == TenantInv => Tenant!TypeOK /\ Tenant!ShowsWhatItDid
<1> SUFFICES ASSUME TenantInv PROVE Tenant!TypeOK /\ Tenant!ShowsWhatItDid
  OBVIOUS
<1>1. TenantTypes /\ TenantWaits /\ TenantOwes
  BY DEF TenantInv
<1>2. \A c \in Calls : handler[c] \in TenantRecords
  BY <1>1 DEF TenantTypes
<1>3. Tenant!TypeOK
  <2>1. (\A c \in Calls : handler[c] = Tenant!Idle) => ~busy /\ ~saving /\ ~loading
    BY <1>1, TenantIdleIs DEF TenantWaits
  <2> QED
    BY <1>1, <1>2, <2>1, TenantRecordIs DEF TenantTypes, Tenant!TypeOK, TenantCopies
<1>4. Tenant!ShowsWhatItDid
  <2> SUFFICES ASSUME \A c \in Calls : handler[c] = Tenant!Idle, shown # Tenant!Nothing
               PROVE  shown.rev >= owed
    BY DEF Tenant!ShowsWhatItDid
  <2>1. \A c \in Calls : ~TenantLoading(handler[c])
    BY TenantIdleIs
  <2>2. CASE owed = 0
    BY <1>1, <2>2 DEF TenantTypes, TenantCopies
  <2>3. CASE owed # 0
    BY <1>1, <2>1, <2>3 DEF TenantOwes
  <2> QED
    BY <2>2, <2>3
<1> QED
  BY <1>3, <1>4

(***************************************************************************)
(* InsightPages: a page shows what was answered                            *)
(***************************************************************************)

(***************************************************************************)
(* What the page owes is on it, or the one load that is on its way began   *)
(* after it; and a flag is up only while a call is in flight that lowers it *)
(***************************************************************************)

InsightRows  == {"open", "closed"}
InsightDebts == [route : Insight!Reads, version : 1 .. Insight!Now]

\* What a call may be, when there are n versions of the rows.
InsightRecords(n, acts) ==
    {Insight!Idle} \cup [pc : {"load"}, op : {"load"} \cup acts, from : 1 .. n]
    \cup [pc : {"sent"}, op : acts]
    \cup [pc : {"done"}, op : acts \ {"approve", "reject"}, version : 1 .. n]

InsightTypes ==
    /\ screen \in Insight!Pages \cup {Insight!Left} /\ rank \in Insight!Roles("readonly")
    /\ versions \in Seq(InsightRows) /\ Insight!Now \in 1 .. MaxRev
    /\ kept \in [Insight!Reads -> 0 .. Insight!Now]
    /\ waiting \in BOOLEAN /\ failed \in BOOLEAN /\ pressed \in BOOLEAN
    /\ worker \in [Calls -> InsightRecords(Insight!Now, Insight!Acts)]
    /\ debt \in {Insight!NoDebt} \cup InsightDebts

\* A call whose end lowers `busy`.
InsightWorks(r) == r.pc \in {"sent", "done"} \/ (screen = "dashboard" /\ r.pc = "load" /\ r.op # "load")

InsightWaits ==
    /\ pressed => \E c \in Calls : InsightWorks(worker[c])
    /\ waiting => \E c \in Calls : worker[c].pc = "load"

InsightOwes ==
    debt # Insight!NoDebt =>
        /\ \A c, d \in Calls : worker[c].pc = "load" /\ worker[d].pc = "load" => c = d
        /\ \A c \in Calls : worker[c].pc = "load" => worker[c].from >= debt.version
        /\ (\E c \in Calls : worker[c].pc = "load") \/ kept[debt.route] >= debt.version

InsightInv == InsightTypes /\ InsightWaits /\ InsightOwes

LEMMA InsightIdleIs == Insight!Idle.pc = "idle" /\ \A n, acts : Insight!Idle \in InsightRecords(n, acts)
BY DEF Insight!Idle, InsightRecords

LEMMA InsightRecordIs ==
    ASSUME NEW n \in Nat, NEW acts, NEW r \in InsightRecords(n, acts)
    PROVE  /\ r.pc \in {"idle", "load", "sent", "done"}
           /\ r.pc = "idle" => r = Insight!Idle
           /\ r.pc = "load" => r.op \in {"load"} \cup acts /\ r.from \in 1 .. n
           /\ r.pc = "sent" => r.op \in acts
           /\ r.pc = "done" => r.op \in acts \ {"approve", "reject"} /\ r.version \in 1 .. n
<1>1. CASE r = Insight!Idle
  BY <1>1, InsightIdleIs
<1>2. CASE r \in [pc : {"load"}, op : {"load"} \cup acts, from : 1 .. n]
  BY <1>2
<1>3. CASE r \in [pc : {"sent"}, op : acts]
  BY <1>3
<1>4. CASE r \in [pc : {"done"}, op : acts \ {"approve", "reject"}, version : 1 .. n]
  BY <1>4
<1> QED
  BY <1>1, <1>2, <1>3, <1>4 DEF InsightRecords

LEMMA InsightRecordsGrow ==
    ASSUME NEW n \in Nat, NEW m \in Nat, n <= m, NEW acts
    PROVE  InsightRecords(n, acts) \subseteq InsightRecords(m, acts)
<1>1. 1 .. n \subseteq 1 .. m
  OBVIOUS
<1> QED
  BY <1>1 DEF InsightRecords

LEMMA InsightNowIs ==
    ASSUME InsightTypes
    PROVE  Insight!Now \in Nat /\ Insight!Now \in 1 .. MaxRev
BY BoundsAssumption DEF InsightTypes

LEMMA InsightPagesAre ==
    /\ Insight!DashboardPage.acts = {"scan"} /\ Insight!ApplicationsPage.acts = {"scan"}
    /\ Insight!ItdrPage.acts = {"contain", "investigate"} /\ Insight!GovernancePage.acts = {"approve", "reject"}
    /\ "summary" \in Insight!DashboardPage.reads /\ "applications" \in Insight!ApplicationsPage.reads
    /\ "threats" \in Insight!ItdrPage.reads
    /\ \A q \in {Insight!IdentitiesPage, Insight!RiskPage, Insight!GraphPage, Insight!CompliancePage, Insight!AuditPage, Insight!AnalyticsPage, Insight!PosturePage} :
           q.acts = {}
BY DEF Insight!DashboardPage, Insight!ApplicationsPage, Insight!ItdrPage,
       Insight!GovernancePage, Insight!IdentitiesPage, Insight!RiskPage, Insight!GraphPage,
       Insight!CompliancePage, Insight!AuditPage, Insight!AnalyticsPage,
       Insight!PosturePage, Insight!Page

LEMMA InsightPageIs ==
    ASSUME screen \in Insight!Pages
    PROVE  /\ screen = "dashboard" => Insight!PageOf(screen) = Insight!DashboardPage
           /\ screen = "applications" => Insight!PageOf(screen) = Insight!ApplicationsPage
           /\ screen = "itdr" => Insight!PageOf(screen) = Insight!ItdrPage
           /\ screen = "governance" => Insight!PageOf(screen) = Insight!GovernancePage
           /\ screen \notin {"dashboard", "applications", "itdr", "governance"} =>
                  Insight!PageOf(screen) \in {Insight!IdentitiesPage, Insight!RiskPage, Insight!GraphPage, Insight!CompliancePage, Insight!AuditPage,
                                    Insight!AnalyticsPage, Insight!PosturePage}
           /\ screen # Insight!Left
BY DEF Insight!PageOf, Insight!Pages, Insight!Left

LEMMA InsightNoActs ==
    ASSUME screen \in Insight!Pages \cup {Insight!Left}
    PROVE  "load" \notin Insight!Acts
<1>1. CASE screen = Insight!Left
  BY <1>1 DEF Insight!Acts
<1>2. CASE screen \in Insight!Pages
  <2>1. Insight!Acts = Insight!PageOf(screen).acts
    BY <1>2, InsightPageIs DEF Insight!Acts
  <2> QED
    BY <1>2, <2>1, InsightPageIs, InsightPagesAre
<1> QED
  BY <1>1, <1>2

LEMMA InsightInitially == Insight!Init => InsightInv
<1> SUFFICES ASSUME Insight!Init PROVE InsightInv
  OBVIOUS
<1>1. versions \in Seq(InsightRows) /\ Insight!Now = 1
  BY DEF Insight!Init, Insight!Now, InsightRows
<1>2. Insight!Now \in 1 .. MaxRev /\ Insight!Now \in Nat
  BY <1>1, BoundsAssumption
<1>3. PICK c \in Calls : worker = [d \in Calls |->
          IF d = c THEN [pc |-> "load", op |-> "load", from |-> 1] ELSE Insight!Idle]
  BY DEF Insight!Init
<1>4. [pc |-> "load", op |-> "load", from |-> 1] \in InsightRecords(Insight!Now, Insight!Acts)
  BY <1>1 DEF InsightRecords
<1>5. worker \in [Calls -> InsightRecords(Insight!Now, Insight!Acts)]
        /\ worker[c].pc = "load"
  BY <1>3, <1>4, InsightIdleIs
<1>6. kept \in [Insight!Reads -> 0 .. Insight!Now]
  BY <1>1 DEF Insight!Init
<1>7. screen \in Insight!Pages /\ rank \in Insight!Roles("readonly") /\ debt = Insight!NoDebt
      /\ waiting \in BOOLEAN /\ failed \in BOOLEAN /\ pressed \in BOOLEAN /\ ~pressed
  BY DEF Insight!Init, Insight!Roles
<1>8. InsightTypes
  BY <1>1, <1>2, <1>5, <1>6, <1>7 DEF InsightTypes
<1>9. InsightWaits
  BY <1>5, <1>7 DEF InsightWaits
<1>10. InsightOwes
  BY <1>7 DEF InsightOwes
<1> QED
  BY <1>8, <1>9, <1>10 DEF InsightInv

LEMMA InsightLeavesStep == ASSUME InsightInv, Insight!Leaves PROVE InsightInv'
<1>1. InsightTypes
  BY DEF InsightInv
<1>2. screen' = Insight!Left /\ Insight!Reads' = {} /\ Insight!Acts' = {}
        /\ Insight!Now' = Insight!Now /\ versions' = versions /\ rank' = rank
  BY DEF Insight!Leaves, Insight!Reads, Insight!Acts, Insight!Now
<1>3. kept' \in [Insight!Reads' -> 0 .. Insight!Now']
  BY <1>2 DEF Insight!Leaves
<1>4. /\ worker' \in [Calls -> InsightRecords(Insight!Now', Insight!Acts')]
      /\ \A c \in Calls : worker'[c].pc = "idle"
  BY InsightIdleIs DEF Insight!Leaves
<1>5. /\ waiting' \in BOOLEAN /\ failed' \in BOOLEAN /\ pressed' \in BOOLEAN /\ debt' = Insight!NoDebt
      /\ ~waiting' /\ ~pressed'
  BY DEF Insight!Leaves
<1>6. Insight!NoDebt' = Insight!NoDebt /\ Insight!Idle' = Insight!Idle
  BY DEF Insight!NoDebt, Insight!Idle
<1>7. InsightTypes'
  BY <1>1, <1>2, <1>3, <1>4, <1>5, <1>6 DEF InsightTypes, InsightRecords
<1>8. InsightWaits'
  BY <1>5 DEF InsightWaits
<1>9. InsightOwes'
  BY <1>5, <1>6 DEF InsightOwes
<1> QED
  BY <1>7, <1>8, <1>9 DEF InsightInv

\* The page stays, and one call takes a step.
LEMMA InsightChange ==
    ASSUME InsightInv, NEW c \in Calls,
           NEW r \in InsightRecords(Insight!Now, Insight!Acts)',
           worker' = [worker EXCEPT ![c] = r],
           UNCHANGED <<screen, rank>>, versions' \in Seq(InsightRows), Insight!Now' \in 1 .. MaxRev, Insight!Now <= Insight!Now',
           kept' \in [Insight!Reads -> 0 .. Insight!Now'],
           waiting' \in BOOLEAN, failed' \in BOOLEAN, pressed' \in BOOLEAN,
           debt' \in {Insight!NoDebt} \cup InsightDebts',
           pressed' => InsightWorks(r) \/ (pressed /\ ~InsightWorks(worker[c])),
           waiting' => r.pc = "load" \/ (waiting /\ worker[c].pc # "load"),
           InsightOwes'
    PROVE  InsightInv'
<1>1. InsightTypes /\ InsightWaits /\ Insight!Now \in Nat /\ Insight!Now' \in Nat
  BY InsightNowIs, BoundsAssumption DEF InsightInv
<1>2. Insight!Reads' = Insight!Reads /\ Insight!Acts' = Insight!Acts
  BY DEF Insight!Reads, Insight!Acts
<1>3. InsightRecords(Insight!Now, Insight!Acts)' = InsightRecords(Insight!Now', Insight!Acts) /\ Insight!NoDebt' = Insight!NoDebt
  BY <1>2 DEF InsightRecords, Insight!Idle, Insight!NoDebt
<1>4. InsightRecords(Insight!Now, Insight!Acts) \subseteq InsightRecords(Insight!Now', Insight!Acts)
  BY <1>1, InsightRecordsGrow
<1>5. worker' \in [Calls -> InsightRecords(Insight!Now', Insight!Acts)] /\ worker'[c] = r
      /\ \A d \in Calls : d # c => worker'[d] = worker[d]
  BY <1>1, <1>3, <1>4 DEF InsightTypes
<1>6. InsightTypes'
  BY <1>1, <1>2, <1>3, <1>5 DEF InsightTypes
<1>7. InsightWaits'
  <2>1. pressed' => \E d \in Calls : InsightWorks(worker'[d])
    BY <1>1, <1>5 DEF InsightWaits
  <2>2. waiting' => \E d \in Calls : worker'[d].pc = "load"
    BY <1>1, <1>5 DEF InsightWaits
  <2> QED
    BY <2>1, <2>2 DEF InsightWaits, InsightWorks
<1> QED
  BY <1>6, <1>7 DEF InsightInv

\* The same step of a call of which no load is part, with the debt as it was.
LEMMA InsightOnTheWay ==
    ASSUME InsightInv, NEW c \in Calls,
           NEW r \in InsightRecords(Insight!Now, Insight!Acts)',
           worker' = [worker EXCEPT ![c] = r],
           UNCHANGED <<screen, rank, kept, waiting, failed, debt>>,
           versions' \in Seq(InsightRows), Insight!Now' \in 1 .. MaxRev, Insight!Now <= Insight!Now', pressed' \in BOOLEAN,
           pressed' => InsightWorks(r) \/ (pressed /\ ~InsightWorks(worker[c])),
           r.pc # "load", worker[c].pc # "load"
    PROVE  InsightInv'
<1>1. InsightTypes /\ InsightOwes /\ Insight!Now \in Nat /\ Insight!Now' \in Nat
  BY InsightNowIs, BoundsAssumption DEF InsightInv
<1>2. Insight!Reads' = Insight!Reads /\ Insight!NoDebt' = Insight!NoDebt
  BY DEF Insight!Reads, Insight!NoDebt
<1>3. 1 .. Insight!Now \subseteq 1 .. Insight!Now'
        /\ 0 .. Insight!Now \subseteq 0 .. Insight!Now'
  BY <1>1
<1>4. kept' \in [Insight!Reads -> 0 .. Insight!Now']
        /\ debt' \in {Insight!NoDebt} \cup InsightDebts'
  BY <1>1, <1>2, <1>3 DEF InsightTypes, InsightDebts
<1>5. \A d \in Calls : (worker'[d].pc = "load" <=> worker[d].pc = "load")
                       /\ (worker[d].pc = "load" => worker'[d] = worker[d])
  BY <1>1 DEF InsightTypes
<1>6. InsightOwes'
  BY <1>1, <1>2, <1>5 DEF InsightOwes
<1> QED
  BY <1>1, <1>4, <1>6, InsightChange DEF InsightTypes

LEMMA InsightSameData == ASSUME InsightInv, UNCHANGED versions
                  PROVE  /\ versions' \in Seq(InsightRows) /\ Insight!Now' = Insight!Now /\ Insight!Now' \in 1 .. MaxRev /\ Insight!Now <= Insight!Now'
                         /\ Insight!Now \in Nat
BY InsightNowIs DEF InsightInv, InsightTypes, Insight!Now

LEMMA InsightSamePage == ASSUME UNCHANGED screen
                  PROVE  Insight!Acts' = Insight!Acts /\ Insight!Reads' = Insight!Reads
                           /\ Insight!NoDebt' = Insight!NoDebt

BY DEF Insight!Acts, Insight!Reads, Insight!NoDebt

LEMMA InsightRecordsPrimed ==
    ASSUME UNCHANGED screen
    PROVE  InsightRecords(Insight!Now, Insight!Acts)' = InsightRecords(Insight!Now', Insight!Acts)
BY InsightSamePage DEF InsightRecords, Insight!Idle

\* A load starts, and the page owes nothing or what no load could miss.
LEMMA InsightLoadStep ==
    ASSUME InsightInv, NEW c \in Calls, NEW op \in {"load"} \cup Insight!Acts,
           Insight!LoadStarts(c, op),
           UNCHANGED <<screen, rank, versions, kept, failed>>, worker[c].pc # "load",
           pressed' \in BOOLEAN, pressed' => pressed /\ (InsightWorks(worker[c]) => screen = "dashboard" /\ op # "load"),
           \/ debt' = Insight!NoDebt
           \/ /\ debt' \in InsightDebts
              /\ \A d \in Calls : worker[d].pc # "load"
    PROVE  InsightInv'
<1>1. InsightTypes /\ Insight!Now \in Nat /\ Insight!Now \in 1 .. Insight!Now
        /\ Insight!Now' = Insight!Now
  BY InsightSameData, InsightNowIs DEF InsightInv
<1> DEFINE r == [pc |-> "load", op |-> op, from |-> Insight!Now]
<1>2. r \in InsightRecords(Insight!Now, Insight!Acts) /\ r.pc = "load" /\ r.op = op
        /\ r.from = Insight!Now
  BY <1>1 DEF InsightRecords
<1>3. worker' = [worker EXCEPT ![c] = r] /\ waiting'
  BY DEF Insight!LoadStarts
<1>4. waiting' \in BOOLEAN
  BY DEF Insight!LoadStarts
<1> HIDE DEF r
<1>5. PICK q : q = r
  OBVIOUS
<1>6. q \in InsightRecords(Insight!Now, Insight!Acts)'
  BY <1>1, <1>2, <1>5, InsightRecordsPrimed
<1>7. worker'[c] = q /\ \A d \in Calls : d # c => worker'[d] = worker[d]
  BY <1>1, <1>3, <1>5 DEF InsightTypes
<1>8. InsightDebts' = InsightDebts /\ Insight!NoDebt' = Insight!NoDebt
  BY <1>1, InsightSamePage DEF InsightDebts
<1>9. InsightOwes'
  <2>1. CASE debt' = Insight!NoDebt
    BY <1>8, <2>1 DEF InsightOwes
  <2>2. CASE debt' \in InsightDebts /\ \A d \in Calls : worker[d].pc # "load"
    <3>1. debt'.version \in 1 .. Insight!Now
      BY <2>2 DEF InsightDebts
    <3>2. \A d \in Calls : worker'[d].pc = "load" => d = c
      BY <1>7, <2>2
    <3>3. worker'[c].pc = "load" /\ worker'[c].from >= debt'.version
      BY <1>1, <1>2, <1>5, <1>7, <3>1
    <3> QED
      BY <3>2, <3>3 DEF InsightOwes
  <2> QED
    BY <2>1, <2>2
<1>10. pressed' => InsightWorks(q) \/ (pressed /\ ~InsightWorks(worker[c]))
  BY <1>2, <1>5 DEF InsightWorks
<1>11. q.pc = "load"
  BY <1>2, <1>5
<1>12. kept' \in [Insight!Reads -> 0 .. Insight!Now'] /\ failed' \in BOOLEAN
  BY <1>1 DEF InsightTypes
<1>13. debt' \in {Insight!NoDebt} \cup InsightDebts'
  BY <1>8
<1>14. worker' = [worker EXCEPT ![c] = q]
  BY <1>3, <1>5
<1> QED
  BY <1>4, <1>6, <1>9, <1>10, <1>11, <1>12, <1>13, <1>14, InsightSameData, InsightChange

LEMMA InsightRefreshStep ==
    ASSUME InsightInv, NEW c \in Calls, Insight!Refresh(c)
    PROVE  InsightInv'
<1>1. InsightTypes
  BY DEF InsightInv
<1>2. worker[c].pc = "idle" /\ Insight!LoadStarts(c, "load")
  BY InsightIdleIs DEF Insight!Refresh
<1>3. debt' = Insight!NoDebt
        \/ (debt' \in InsightDebts /\ \A d \in Calls : worker[d].pc # "load")
  BY <1>1 DEF Insight!Refresh, Insight!Loads, InsightTypes
<1>4. ~InsightWorks(worker[c])
  BY <1>2 DEF InsightWorks
<1> QED
  BY <1>1, <1>2, <1>3, <1>4, InsightLoadStep DEF Insight!Refresh, InsightTypes

LEMMA InsightShownIs ==
    ASSUME NEW op \in Insight!Acts \ {"approve", "reject"},
           screen \in Insight!Pages \cup {Insight!Left}
    PROVE  Insight!ShownBy(op) \in Insight!Reads
<1>1. screen \in Insight!Pages /\ op \in Insight!PageOf(screen).acts
        /\ Insight!Reads = Insight!PageOf(screen).reads
  <2>1. screen # Insight!Left
    BY DEF Insight!Acts
  <2>2. Insight!Acts = Insight!PageOf(screen).acts
          /\ Insight!Reads = Insight!PageOf(screen).reads
    BY <2>1 DEF Insight!Acts, Insight!Reads
  <2> QED
    BY <2>1, <2>2
<1>2. CASE screen \in {"dashboard", "applications"}
  <2>1. Insight!PageOf(screen) \in {Insight!DashboardPage, Insight!ApplicationsPage}
          /\ op = "scan"
    BY <1>1, <1>2, InsightPageIs, InsightPagesAre
  <2>2. screen = "dashboard" =>
          Insight!ShownBy(op) = "summary" /\ "summary" \in Insight!PageOf(screen).reads
    BY <1>1, <2>1, InsightPageIs, InsightPagesAre DEF Insight!ShownBy
  <2>3. screen = "applications" =>
          Insight!ShownBy(op) = "applications"
          /\ "applications" \in Insight!PageOf(screen).reads
    BY <1>1, <2>1, InsightPageIs, InsightPagesAre DEF Insight!ShownBy
  <2> QED
    BY <1>1, <1>2, <2>2, <2>3
<1>3. CASE screen = "itdr"
  BY <1>1, <1>3, InsightPageIs, InsightPagesAre DEF Insight!ShownBy
<1>4. CASE screen \notin {"dashboard", "applications", "itdr"}
  BY <1>1, <1>4, InsightPageIs, InsightPagesAre
<1> QED
  BY <1>2, <1>3, <1>4

LEMMA InsightDoneStep ==
    ASSUME InsightInv, NEW c \in Calls, Insight!Done(c)
    PROVE  InsightInv'
<1>1. InsightTypes /\ Insight!Now \in Nat
        /\ worker[c] \in InsightRecords(Insight!Now, Insight!Acts)
  BY InsightNowIs DEF InsightInv, InsightTypes
<1> DEFINE op == worker[c].op
<1>2. worker[c].pc = "done" /\ op \in Insight!Acts \ {"approve", "reject"} /\ worker[c].version \in 1 .. Insight!Now
      /\ Insight!LoadStarts(c, op) /\ UNCHANGED <<screen, rank, versions, kept, failed>>
  BY <1>1, InsightRecordIs DEF Insight!Done
<1>3. Insight!ShownBy(op) \in Insight!Reads
  BY <1>1, <1>2, InsightShownIs DEF InsightTypes
<1>4. [route |-> Insight!ShownBy(op), version |-> worker[c].version] \in InsightDebts
  BY <1>2, <1>3 DEF InsightDebts
<1>5. debt' = Insight!NoDebt
        \/ (debt' \in InsightDebts /\ \A d \in Calls : worker[d].pc # "load")
  BY <1>4 DEF Insight!Done, Insight!Loads
<1>6. pressed' \in BOOLEAN /\ (pressed' => pressed /\ screen = "dashboard")
  BY <1>1 DEF Insight!Done, InsightTypes
<1>7. op # "load"
  BY <1>1, <1>2, InsightNoActs DEF InsightTypes
<1> HIDE DEF op
<1> QED
  BY <1>2, <1>5, <1>6, <1>7, InsightLoadStep

LEMMA InsightSendStep ==
    ASSUME InsightInv, NEW c \in Calls, NEW op \in Insight!Acts, Insight!Send(c, op)
    PROVE  InsightInv'
<1> DEFINE r == [pc |-> "sent", op |-> op]
<1>1. r \in InsightRecords(Insight!Now', Insight!Acts) /\ r.pc = "sent"
  BY DEF InsightRecords
<1>2. worker' = [worker EXCEPT ![c] = r] /\ worker[c].pc = "idle" /\ pressed' = TRUE
      /\ UNCHANGED <<screen, rank, versions, kept, waiting, failed, debt>>
  BY InsightIdleIs DEF Insight!Send
<1> HIDE DEF r
<1>3. PICK q : q = r
  OBVIOUS
<1>4. q \in InsightRecords(Insight!Now, Insight!Acts)' /\ q.pc = "sent" /\ InsightWorks(q)
        /\ worker' = [worker EXCEPT ![c] = q]
  BY <1>1, <1>2, <1>3, InsightRecordsPrimed DEF InsightWorks
<1> QED
  BY <1>2, <1>4, InsightSameData, InsightOnTheWay

LEMMA InsightFailsStep ==
    ASSUME InsightInv, NEW c \in Calls, Insight!Fails(c)
    PROVE  InsightInv'
<1>1. worker' = [worker EXCEPT ![c] = Insight!Idle] /\ worker[c].pc \in {"sent", "done"}
      /\ ~pressed' /\ pressed' \in BOOLEAN
      /\ UNCHANGED <<screen, rank, versions, kept, waiting, failed, debt>>
  BY DEF Insight!Fails
<1>2. Insight!Idle \in InsightRecords(Insight!Now, Insight!Acts)'
        /\ Insight!Idle.pc = "idle"
  BY <1>1, InsightIdleIs, InsightRecordsPrimed
<1> QED
  BY <1>1, <1>2, InsightSameData, InsightOnTheWay

LEMMA InsightAppended ==
    ASSUME InsightInv, Insight!Now < MaxRev, NEW e \in InsightRows,
           versions' = Append(versions, e)
    PROVE  /\ versions' \in Seq(InsightRows) /\ Insight!Now' = Insight!Now + 1 /\ Insight!Now' \in 1 .. MaxRev /\ Insight!Now <= Insight!Now'
           /\ Insight!Now \in Nat
<1>1. Insight!Now \in Nat /\ versions \in Seq(InsightRows)
  BY InsightNowIs DEF InsightInv, InsightTypes
<1>2. versions' \in Seq(InsightRows) /\ Len(versions') = Len(versions) + 1
  BY <1>1, AppendProperties
<1> QED
  BY <1>1, <1>2, BoundsAssumption DEF Insight!Now

LEMMA InsightEffectIs ==
    ASSUME InsightInv, NEW op
    PROVE  Insight!Effect(op, versions[Insight!Now]) \in InsightRows
<1>1. versions \in Seq(InsightRows) /\ Insight!Now \in 1 .. Len(versions)
  BY InsightNowIs DEF InsightInv, InsightTypes, Insight!Now
<1>2. versions[Insight!Now] \in InsightRows
  BY <1>1, ElementOfSeq
<1> QED
  BY <1>2 DEF Insight!Effect, InsightRows

LEMMA InsightServeStep ==
    ASSUME InsightInv, NEW c \in Calls, Insight!Serve(c)
    PROVE  InsightInv'
<1>1. InsightTypes /\ worker[c] \in InsightRecords(Insight!Now, Insight!Acts)
        /\ Insight!Now \in Nat
  BY InsightNowIs DEF InsightInv, InsightTypes
<1>2. PICK n : n = Insight!Now + 1
  OBVIOUS
<1>3. PICK op : op = worker[c].op
  OBVIOUS
<1>4. worker[c].pc = "sent" /\ op \in Insight!Acts \ {"approve", "reject"}
  BY <1>1, <1>3, InsightRecordIs DEF Insight!Serve, Insight!Complete
<1>5. UNCHANGED <<screen, rank, kept, waiting, failed, pressed, debt>>
  BY DEF Insight!Serve
<1>6. versions' \in Seq(InsightRows) /\ Insight!Now' = n /\ Insight!Now' \in 1 .. MaxRev
        /\ Insight!Now <= Insight!Now' /\ n \in 1 .. n
  <2>1. PICK e \in InsightRows : versions' = Append(versions, e) /\ Insight!Now < MaxRev
    BY InsightEffectIs DEF Insight!Serve
  <2> QED
    BY <1>2, <2>1, InsightAppended
<1> DEFINE r == [pc |-> "done", op |-> op, version |-> n]
<1>7. r \in InsightRecords(n, Insight!Acts) /\ r.pc = "done"
  BY <1>4, <1>6 DEF InsightRecords
<1>8. worker' = [worker EXCEPT ![c] = r]
  BY <1>1, <1>2, <1>3 DEF Insight!Serve, InsightTypes
<1> HIDE DEF r
<1>9. PICK q : q = r
  OBVIOUS
<1>10. q \in InsightRecords(Insight!Now, Insight!Acts)' /\ q.pc = "done" /\ InsightWorks(q)
         /\ worker' = [worker EXCEPT ![c] = q]
  BY <1>5, <1>6, <1>7, <1>8, <1>9, InsightRecordsPrimed DEF InsightWorks
<1>11. pressed' \in BOOLEAN
  BY <1>1, <1>5 DEF InsightTypes
<1> QED
  BY <1>4, <1>5, <1>6, <1>10, <1>11, InsightOnTheWay

LEMMA InsightOthersChangeStep == ASSUME InsightInv, Insight!OthersChange PROVE InsightInv'
<1>1. InsightTypes /\ InsightWaits /\ InsightOwes /\ Insight!Now \in Nat
  BY InsightNowIs DEF InsightInv
<1>2. versions' \in Seq(InsightRows) /\ Insight!Now' \in 1 .. MaxRev
        /\ Insight!Now <= Insight!Now'
  <2>1. PICK e \in InsightRows : versions' = Append(versions, e) /\ Insight!Now < MaxRev
    BY InsightEffectIs DEF Insight!OthersChange
  <2> QED
    BY <2>1, InsightAppended
<1>3. UNCHANGED <<screen, rank, kept, waiting, failed, pressed, worker, debt>>
        /\ Insight!Now' \in Nat
  BY <1>2, BoundsAssumption DEF Insight!OthersChange
<1>4. 1 .. Insight!Now \subseteq 1 .. Insight!Now'
        /\ 0 .. Insight!Now \subseteq 0 .. Insight!Now'
  BY <1>1, <1>2, <1>3
<1>5. kept' \in [Insight!Reads' -> 0 .. Insight!Now']
        /\ debt' \in {Insight!NoDebt'} \cup InsightDebts'
  BY <1>1, <1>3, <1>4, InsightSamePage DEF InsightTypes, InsightDebts
<1>6. worker' \in [Calls -> InsightRecords(Insight!Now, Insight!Acts)']
  BY <1>1, <1>2, <1>3, InsightRecordsGrow, InsightRecordsPrimed DEF InsightTypes
<1>7. InsightTypes'
  BY <1>1, <1>2, <1>3, <1>5, <1>6 DEF InsightTypes
<1>8. InsightWaits'
  BY <1>1, <1>3 DEF InsightWaits, InsightWorks
<1>9. InsightOwes'
  BY <1>1, <1>3, InsightSamePage DEF InsightOwes
<1> QED
  BY <1>7, <1>8, <1>9 DEF InsightInv

LEMMA InsightLoadedStep ==
    ASSUME InsightInv, NEW c \in Calls, worker[c].pc = "load", NEW zeros \in BOOLEAN,
           NEW at \in [Insight!Reads \cap Insight!Allowed -> {0} \cup worker[c].from .. Insight!Now], Insight!Loaded(c, at, zeros)
    PROVE  InsightInv'
<1>1. InsightTypes /\ InsightOwes /\ Insight!Now \in Nat
        /\ worker[c] \in InsightRecords(Insight!Now, Insight!Acts)
  BY InsightNowIs DEF InsightInv, InsightTypes
<1>2. worker[c].from \in 1 .. Insight!Now /\ worker[c].op \in {"load"} \cup Insight!Acts
  BY <1>1, InsightRecordIs
<1>3. worker' = [worker EXCEPT ![c] = Insight!Idle] /\ UNCHANGED <<screen, rank, versions>>
      /\ ~waiting' /\ waiting' \in BOOLEAN
  BY DEF Insight!Loaded
<1>4. worker'[c] = Insight!Idle /\ \A d \in Calls : d # c => worker'[d] = worker[d]
  BY <1>1, <1>3 DEF InsightTypes
<1>5. \A n \in Insight!Reads : Insight!Came(at, n) =>
        at[n] \in worker[c].from .. Insight!Now /\ at[n] \in 0 .. Insight!Now
  BY <1>1, <1>2 DEF Insight!Came
<1>6. kept' = [n \in Insight!Reads |-> IF Insight!Came(at, n) THEN at[n] ELSE kept[n]]
  BY DEF Insight!Loaded
<1>7. kept' \in [Insight!Reads -> 0 .. Insight!Now]
  BY <1>1, <1>5, <1>6 DEF InsightTypes
<1>8. failed' \in BOOLEAN
  BY <1>1 DEF Insight!Loaded, InsightTypes
<1>9. debt' = Insight!NoDebt
        \/ (debt' = debt /\ Insight!Came(at, debt.route) /\ debt \in InsightDebts)
  BY <1>1 DEF Insight!Loaded, InsightTypes
<1>10. pressed' \in BOOLEAN /\ (pressed' => pressed /\ ~InsightWorks(worker[c]))
  <2>1. InsightWorks(worker[c]) => screen = "dashboard" /\ worker[c].op # "load"
    BY DEF InsightWorks
  <2>2. screen = "dashboard" /\ worker[c].op # "load" => worker[c].op = "scan"
    BY <1>2
       DEF Insight!Acts, Insight!PageOf, Insight!DashboardPage, Insight!Page, Insight!Left
  <2> QED
    BY <1>1, <2>1, <2>2 DEF Insight!Loaded, InsightTypes
<1>11. InsightOwes'
  <2>1. CASE debt' = Insight!NoDebt
    BY <2>1 DEF InsightOwes, Insight!NoDebt
  <2>2. CASE debt' = debt /\ Insight!Came(at, debt.route) /\ debt \in InsightDebts
               /\ debt # Insight!NoDebt
    <3>1. debt.route \in Insight!Reads /\ debt.version \in 1 .. Insight!Now
      BY <2>2 DEF InsightDebts
    <3>2. worker[c].from >= debt.version /\ \A d \in Calls : worker[d].pc = "load" => d = c
      BY <1>1, <2>2 DEF InsightOwes
    <3>3. kept'[debt.route] = at[debt.route]
            /\ at[debt.route] \in worker[c].from .. Insight!Now
      BY <1>5, <1>6, <2>2, <3>1
    <3>4. kept'[debt.route] >= debt.version
      BY <1>1, <1>2, <3>1, <3>2, <3>3
    <3>5. \A d \in Calls : worker'[d].pc # "load"
      BY <1>4, <3>2, InsightIdleIs
    <3> QED
      BY <2>2, <3>4, <3>5 DEF InsightOwes
  <2> QED
    BY <1>9, <2>1, <2>2
<1>12. Insight!Idle \in InsightRecords(Insight!Now, Insight!Acts)'
  BY <1>3, InsightIdleIs, InsightRecordsPrimed
<1>13. debt' \in {Insight!NoDebt} \cup InsightDebts'
  <2>1. InsightDebts' = InsightDebts
    BY <1>3, InsightSameData, InsightSamePage DEF InsightDebts
  <2> QED
    BY <1>9, <2>1
<1>14. kept' \in [Insight!Reads -> 0 .. Insight!Now']
  BY <1>3, <1>7, InsightSameData
<1> QED
  BY <1>3, <1>8, <1>10, <1>11, <1>12, <1>13, <1>14, InsightSameData, InsightChange

LEMMA InsightUnchangedStep == ASSUME InsightInv, UNCHANGED insightVars PROVE InsightInv'
<1>1. UNCHANGED <<screen, rank, versions, kept, waiting, failed, pressed, worker, debt>>
  BY DEF insightVars
<1>2. Insight!Reads' = Insight!Reads /\ Insight!Acts' = Insight!Acts /\ Insight!Now' = Insight!Now /\ Insight!NoDebt' = Insight!NoDebt
      /\ InsightRecords(Insight!Now, Insight!Acts)' = InsightRecords(Insight!Now, Insight!Acts) /\ InsightDebts' = InsightDebts
  BY <1>1, InsightSamePage, InsightRecordsPrimed DEF Insight!Now, InsightDebts
<1>3. InsightTypes'
  BY <1>1, <1>2 DEF InsightInv, InsightTypes
<1>4. InsightWaits' /\ InsightOwes'
  BY <1>1, <1>2 DEF InsightInv, InsightWaits, InsightWorks, InsightOwes
<1> QED
  BY <1>3, <1>4 DEF InsightInv

LEMMA InsightKept == ASSUME InsightInv, [Insight!Next]_insightVars PROVE InsightInv'
<1>1. ASSUME NEW c \in Calls, Insight!Settles(c) PROVE InsightInv'
  <2>1. worker[c].pc = "load"
    BY <1>1 DEF Insight!Settles, Insight!Loads
  <2>2. PICK at \in [Insight!Reads \cap Insight!Allowed -> {0} \cup worker[c].from .. Insight!Now], zeros \in BOOLEAN :
            Insight!Loaded(c, at, zeros)
    BY <1>1 DEF Insight!Settles
  <2> QED
    BY <2>1, <2>2, InsightLoadedStep
<1>2. ASSUME NEW c \in Calls, Insight!CallStep(c) PROVE InsightInv'
  BY <1>1, <1>2, InsightRefreshStep, InsightSendStep, InsightServeStep, InsightFailsStep,
     InsightDoneStep
     DEF Insight!CallStep
<1> QED
  BY <1>2, InsightLeavesStep, InsightOthersChangeStep, InsightUnchangedStep DEF Insight!Next

LEMMA InsightShows == ASSUME InsightInv PROVE Insight!TypeOK /\ Insight!ShowsWhatItDid
<1>1. InsightTypes /\ InsightWaits /\ InsightOwes /\ Insight!Now \in Nat
        /\ Insight!Now \in 1 .. MaxRev
  BY InsightNowIs DEF InsightInv
<1>2. \A c \in Calls : worker[c] \in InsightRecords(Insight!Now, Insight!Acts)
  BY <1>1 DEF InsightTypes
<1>3. Insight!TypeOK
  <2>1. \A c \in Calls : worker[c].pc \in {"idle", "load", "sent", "done"}
    BY <1>1, <1>2, InsightRecordIs
  <2>2. (\A c \in Calls : worker[c] = Insight!Idle) => ~pressed /\ ~waiting
    BY <1>1, InsightIdleIs DEF InsightWaits, InsightWorks
  <2>3. debt.version \in 0 .. MaxRev
    BY <1>1, BoundsAssumption DEF InsightTypes, InsightDebts, Insight!NoDebt
  <2> QED
    BY <1>1, <2>1, <2>2, <2>3 DEF Insight!TypeOK, InsightTypes, InsightRows
<1>4. Insight!ShowsWhatItDid
  <2>1. (\A c \in Calls : worker[c] = Insight!Idle) =>
          \A c \in Calls : worker[c].pc # "load"
    BY InsightIdleIs
  <2> QED
    BY <1>1, <2>1 DEF Insight!ShowsWhatItDid, InsightOwes
<1> QED
  BY <1>3, <1>4

(***************************************************************************)
(* DemoServers: the page a login leads to can let the operator through     *)
(***************************************************************************)

(***************************************************************************)
(* The row never loses its secret, and is enabled only with one; where a   *)
(* server that needs it sent an operator to /mfa-verify, it is there       *)
(***************************************************************************)

DemoForms_ == Demo!Forms("login") \cup Demo!Forms("setup") \cup Demo!Forms("verify")
DemoTab    == [page : Demo!Pages, call : {Demo!NoCall} \cup DemoForms_, next : Demo!Pages \cup {Demo!None}, routed : BOOLEAN]
DemoRow    == [enabled : BOOLEAN, secret : {Demo!None, "constant"} \cup Demo!Codes, used : BOOLEAN]

DemoShape ==
    /\ host \in Demo!Servers /\ starts \in 0 .. MaxStarts
    /\ operator \in DemoRow
    /\ tabs \in [Calls -> DemoTab]
    /\ \A t \in Calls : tabs[t].call \in {Demo!NoCall} \cup Demo!Forms(tabs[t].page)
    /\ unheard = Demo!NoCall \/ (unheard \in DemoForms_ /\ Demo!Changes(unheard))

DemoEnabledHasSecret == operator.enabled => operator.secret # Demo!None

DemoSent(view) == \/ view.page = "login" /\ view.next = "verify"
                  \/ view.page = "verify" /\ view.routed

DemoInv == DemoShape /\ DemoEnabledHasSecret /\ \A t \in Calls : DemoSent(tabs[t]) => Demo!Verifies

LEMMA DemoFormsAre ==
    /\ Demo!NoCall.what = Demo!None /\ Demo!NoCall.code = Demo!None
    /\ Demo!Forms("dashboard") = {}
    /\ \A p \in Demo!Pages : Demo!Forms(p) \subseteq DemoForms_
    /\ \A f \in Demo!Forms("login") : f.what = "login"
    /\ \A f \in Demo!Forms("setup") : f.what = "enable" /\ f.code \in Demo!Codes
    /\ \A f \in Demo!Forms("verify") : f.what = "verify"
    /\ \A f \in DemoForms_ : f.what = "enable" => f.code \in Demo!Codes
  BY DEF Demo!NoCall, Demo!None, Demo!Forms, DemoForms_, Demo!Pages

\* Whatever a request writes, a row with a secret has one afterwards.
LEMMA DemoWritesRow ==
    ASSUME DemoShape, DemoEnabledHasSecret, NEW posted \in {Demo!NoCall} \cup DemoForms_
    PROVE  /\ Demo!Writes(posted) \in DemoRow
           /\ Demo!Writes(posted).enabled => Demo!Writes(posted).secret # Demo!None
           /\ operator.secret # Demo!None => Demo!Writes(posted).secret # Demo!None
<1>1. operator \in DemoRow
  BY DEF DemoShape
<1>2. CASE posted.what = "enable"
  <2>1. posted.code \in Demo!Codes
    BY <1>2, DemoFormsAre DEF Demo!None
  <2>2. Demo!Writes(posted) = Demo!EnableWrites(posted.code)
    BY <1>2 DEF Demo!Writes
  <2> DEFINE secret == IF host = "production" THEN posted.code ELSE "constant"
  <2>3. secret \in {Demo!None, "constant"} \cup Demo!Codes /\ secret # Demo!None
    BY <2>1 DEF Demo!None, Demo!Codes
  <2>4. Demo!EnableWrites(posted.code) = operator
        \/ Demo!EnableWrites(posted.code) = [operator EXCEPT !.enabled = TRUE, !.secret = secret]
    BY DEF Demo!EnableWrites
  <2> HIDE DEF secret
  <2> QED
    BY <1>1, <2>2, <2>3, <2>4 DEF DemoRow, DemoEnabledHasSecret
<1>3. CASE posted.what = "login"
  <2>1. Demo!Writes(posted) = operator
          \/ Demo!Writes(posted) = [operator EXCEPT !.used = TRUE]
    BY <1>3 DEF Demo!Writes, Demo!LoginWrites
  <2> QED
    BY <1>1, <2>1 DEF DemoRow, DemoEnabledHasSecret
<1>4. CASE posted.what # "enable" /\ posted.what # "login"
  <2>1. Demo!Writes(posted) = operator
    BY <1>4 DEF Demo!Writes
  <2> QED
    BY <1>1, <2>1 DEF DemoEnabledHasSecret
<1> QED
  BY <1>2, <1>3, <1>4

\* The row is written, or the server is another one that uses its file.
LEMMA DemoStillVerifies ==
    ASSUME DemoShape, host' \in Demo!SharesFile(host),
           operator.secret # Demo!None => operator'.secret # Demo!None,
           Demo!Verifies
    PROVE  Demo!Verifies'
  BY DEF DemoShape, Demo!Servers, Demo!SharesFile, Demo!Verifies, Demo!ReadsRow

LEMMA DemoSameFile == host \in Demo!Servers => host \in Demo!SharesFile(host)
  BY DEF Demo!Servers, Demo!SharesFile

LEMMA DemoTabOf ==
    ASSUME DemoShape, NEW t \in Calls, NEW view \in DemoTab,
           tabs' = [tabs EXCEPT ![t] = view]
    PROVE  /\ tabs' \in [Calls -> DemoTab] /\ tabs'[t] = view
           /\ \A s \in Calls : s # t => tabs'[s] = tabs[s]
  BY DEF DemoShape

LEMMA DemoInitially == Demo!Init => DemoInv
<1> SUFFICES ASSUME Demo!Init PROVE DemoInv
  OBVIOUS
<1>1. Demo!Loaded("login", FALSE) \in DemoTab /\ Demo!Loaded("login", FALSE).call = Demo!NoCall
      /\ Demo!Loaded("login", FALSE).page = "login" /\ Demo!Loaded("login", FALSE).next = Demo!None
  BY DEF Demo!Loaded, DemoTab, Demo!Pages
<1>2. Demo!NewRow \in DemoRow /\ ~Demo!NewRow.enabled
  BY DEF Demo!NewRow, DemoRow
<1> HIDE DEF Demo!Loaded, Demo!NewRow
<1>3. DemoShape
  <2>1. tabs \in [Calls -> DemoTab] /\ \A t \in Calls : tabs[t].call = Demo!NoCall
    BY <1>1 DEF Demo!Init
  <2>2. starts \in 0 .. MaxStarts /\ host \in Demo!Servers /\ unheard = Demo!NoCall
    BY BoundsAssumption DEF Demo!Init
  <2>3. operator \in DemoRow
    BY <1>2 DEF Demo!Init
  <2> QED
    BY <2>1, <2>2, <2>3 DEF DemoShape
<1>4. \A t \in Calls : ~DemoSent(tabs[t])
  BY <1>1 DEF Demo!Init, DemoSent, Demo!None
<1> QED
  BY <1>2, <1>3, <1>4 DEF DemoInv, DemoEnabledHasSecret, Demo!Init

\* A tab leaves its page: for /mfa-verify as the answer to a login only when it was
\* sent there.
LEMMA DemoLeaveStep ==
    ASSUME DemoInv, NEW t \in Calls, NEW p \in Demo!Pages, NEW routed \in BOOLEAN,
           Demo!Leave(t, p, routed),
           p = "verify" /\ routed => DemoSent(tabs[t])
    PROVE  DemoInv'
<1>1. DemoShape /\ DemoEnabledHasSecret /\ \A s \in Calls : DemoSent(tabs[s]) =>
        Demo!Verifies
  BY DEF DemoInv
<1> DEFINE view == Demo!Loaded(p, routed)
<1>2. view \in DemoTab /\ view.page = p /\ view.call = Demo!NoCall /\ view.next = Demo!None
        /\ view.routed = routed
  BY DEF Demo!Loaded, DemoTab
<1>3. tabs' = [tabs EXCEPT ![t] = view] /\ UNCHANGED <<host, operator, starts>>
  BY DEF Demo!Leave
<1> HIDE DEF view
<1>4. /\ tabs' \in [Calls -> DemoTab] /\ tabs'[t] = view
      /\ \A s \in Calls : s # t => tabs'[s] = tabs[s]
  BY <1>1, <1>2, <1>3, DemoTabOf
<1>5. unheard' = Demo!NoCall \/ (unheard' \in DemoForms_ /\ Demo!Changes(unheard'))
  <2>1. tabs[t].call = Demo!NoCall \/ tabs[t].call \in DemoForms_
    BY <1>1 DEF DemoShape, DemoTab
  <2>2. ~Demo!Changes(Demo!NoCall)
    BY DemoFormsAre DEF Demo!Changes, Demo!None
  <2>3. unheard' = unheard \/ (Demo!Changes(tabs[t].call) /\ unheard' = tabs[t].call)
    BY DEF Demo!Leave
  <2> QED
    BY <1>1, <2>1, <2>2, <2>3 DEF DemoShape
<1>6. DemoShape'
  BY <1>1, <1>2, <1>3, <1>4, <1>5 DEF DemoShape
<1>7. Demo!Verifies' <=> Demo!Verifies
  BY <1>3 DEF Demo!Verifies, Demo!ReadsRow
<1>8. ASSUME NEW s \in Calls, DemoSent(tabs'[s]) PROVE Demo!Verifies
  <2>1. CASE s = t
    BY <1>1, <1>2, <1>4, <1>8, <2>1 DEF DemoSent, Demo!None
  <2>2. CASE s # t
    BY <1>1, <1>4, <1>8, <2>2
  <2> QED
    BY <2>1, <2>2
<1> QED
  BY <1>1, <1>3, <1>6, <1>7, <1>8 DEF DemoInv, DemoEnabledHasSecret

LEMMA DemoSubmitStep ==
    ASSUME DemoInv, NEW t \in Calls, NEW sent \in Demo!Forms(tabs[t].page),
           Demo!Submit(t, sent)
    PROVE  DemoInv'
<1>1. DemoShape /\ DemoEnabledHasSecret /\ (\A s \in Calls : DemoSent(tabs[s]) => Demo!Verifies)
      /\ tabs[t] \in DemoTab /\ tabs[t].page \in Demo!Pages
  BY DEF DemoInv, DemoShape, DemoTab
<1> DEFINE view == [tabs[t] EXCEPT !.call = sent]
<1>2. sent \in DemoForms_
  BY <1>1, DemoFormsAre
<1>3. view \in DemoTab /\ view.page = tabs[t].page /\ view.call = sent /\ view.next = tabs[t].next
      /\ view.routed = tabs[t].routed
  BY <1>1, <1>2 DEF DemoTab
<1>4. tabs' = [tabs EXCEPT ![t] = view] /\ UNCHANGED <<host, operator, unheard, starts>>
  BY DEF Demo!Submit
<1> HIDE DEF view
<1>5. /\ tabs' \in [Calls -> DemoTab] /\ tabs'[t] = view
      /\ \A s \in Calls : s # t => tabs'[s] = tabs[s]
  BY <1>1, <1>3, <1>4, DemoTabOf
<1>6. DemoShape'
  BY <1>1, <1>3, <1>4, <1>5 DEF DemoShape
<1>7. Demo!Verifies' <=> Demo!Verifies
  BY <1>4 DEF Demo!Verifies, Demo!ReadsRow
<1>8. \A s \in Calls : DemoSent(tabs'[s]) <=> DemoSent(tabs[s])
  BY <1>3, <1>5 DEF DemoSent
<1> QED
  BY <1>1, <1>4, <1>6, <1>7, <1>8 DEF DemoInv, DemoEnabledHasSecret

LEMMA DemoRouteIs ==
    ASSUME DemoShape, NEW t \in Calls
    PROVE  /\ Demo!Route(tabs[t].call) \in Demo!Pages \cup {Demo!None}
           /\ Demo!Route(tabs[t].call) = "verify" => operator.enabled
<1> DEFINE posted == tabs[t].call
<1>1. CASE posted.what = "login"
  BY <1>1 DEF Demo!Route, Demo!LoginRoute, Demo!RequiresMfaSetup, Demo!Pages, Demo!None
<1>2. CASE posted.what = "enable"
  BY <1>2 DEF Demo!Route, Demo!EnableRoute, Demo!Pages, Demo!None
<1>3. CASE posted.what = "verify"
  BY <1>3 DEF Demo!Route, Demo!VerifyRoute, Demo!Pages, Demo!None
<1>4. CASE posted.what \notin {"login", "enable", "verify"}
  BY <1>4 DEF Demo!Route, Demo!Pages, Demo!None
<1> QED
  BY <1>1, <1>2, <1>3, <1>4

LEMMA DemoHandleStep ==
    ASSUME DemoInv, NEW t \in Calls, Demo!Handle(t)
    PROVE  DemoInv'
<1>1. DemoShape /\ DemoEnabledHasSecret /\ (\A s \in Calls : DemoSent(tabs[s]) => Demo!Verifies)
      /\ tabs[t] \in DemoTab /\ tabs[t].call \in {Demo!NoCall} \cup DemoForms_
  BY DEF DemoInv, DemoShape, DemoTab
<1> DEFINE next == IF tabs[t].next = Demo!None THEN Demo!Route(tabs[t].call) ELSE tabs[t].next
           view  == [tabs[t] EXCEPT !.call = Demo!NoCall, !.next = next]
<1>2. next \in Demo!Pages \cup {Demo!None}
        /\ (next = "verify" => tabs[t].next = "verify" \/ operator.enabled)
  BY <1>1, DemoRouteIs DEF DemoTab
<1>3. tabs' = [tabs EXCEPT ![t] = view] /\ operator' = Demo!Writes(tabs[t].call)
      /\ UNCHANGED <<host, unheard, starts>>
  BY DEF Demo!Handle
<1> HIDE DEF next
<1>4. view \in DemoTab /\ view.page = tabs[t].page /\ view.call = Demo!NoCall /\ view.next = next
      /\ view.routed = tabs[t].routed
  BY <1>1, <1>2 DEF DemoTab
<1> HIDE DEF view
<1>5. /\ tabs' \in [Calls -> DemoTab] /\ tabs'[t] = view
      /\ \A s \in Calls : s # t => tabs'[s] = tabs[s]
  BY <1>1, <1>3, <1>4, DemoTabOf
<1>6. /\ operator' \in DemoRow /\ (operator'.enabled => operator'.secret # Demo!None)
      /\ operator.secret # Demo!None => operator'.secret # Demo!None
  BY <1>1, <1>3, DemoWritesRow
<1>7. DemoShape'
  BY <1>1, <1>3, <1>4, <1>5, <1>6 DEF DemoShape
<1>8. Demo!Verifies => Demo!Verifies'
  BY <1>1, <1>3, <1>6, DemoStillVerifies, DemoSameFile DEF DemoShape
<1>9. ASSUME NEW s \in Calls, DemoSent(tabs'[s]) PROVE Demo!Verifies'
  <2>1. CASE s = t /\ ~DemoSent(tabs[t])
    <3>1. operator.enabled
      BY <1>2, <1>4, <1>5, <1>9, <2>1 DEF DemoSent
    <3>2. Demo!Verifies
      BY <1>1, <3>1 DEF DemoEnabledHasSecret, Demo!Verifies
    <3> QED
      BY <1>8, <3>2
  <2>2. CASE DemoSent(tabs[s])
    BY <1>1, <1>8, <2>2
  <2>3. CASE s # t
    BY <1>1, <1>5, <1>8, <1>9, <2>3
  <2> QED
    BY <2>1, <2>2, <2>3
<1> QED
  BY <1>6, <1>7, <1>9 DEF DemoInv, DemoEnabledHasSecret

LEMMA DemoHandleUnheardStep ==
    ASSUME DemoInv, Demo!HandleUnheard
    PROVE  DemoInv'
<1>1. DemoShape /\ DemoEnabledHasSecret /\ (\A s \in Calls : DemoSent(tabs[s]) => Demo!Verifies)
      /\ unheard \in {Demo!NoCall} \cup DemoForms_
  BY DEF DemoInv, DemoShape
<1>2. /\ operator' \in DemoRow /\ (operator'.enabled => operator'.secret # Demo!None)
      /\ operator.secret # Demo!None => operator'.secret # Demo!None
  BY <1>1, DemoWritesRow DEF Demo!HandleUnheard
<1>3. UNCHANGED <<host, tabs, starts>> /\ unheard' = Demo!NoCall
  BY DEF Demo!HandleUnheard
<1>4. DemoShape'
  BY <1>1, <1>2, <1>3 DEF DemoShape
<1>5. Demo!Verifies => Demo!Verifies'
  BY <1>1, <1>2, <1>3, DemoStillVerifies, DemoSameFile DEF DemoShape
<1> QED
  BY <1>1, <1>2, <1>3, <1>4, <1>5 DEF DemoInv, DemoEnabledHasSecret

LEMMA DemoStartStep ==
    ASSUME DemoInv, NEW s \in Demo!Servers, Demo!Start(s)
    PROVE  DemoInv'
<1>1. DemoShape /\ DemoEnabledHasSecret /\ (\A t \in Calls : DemoSent(tabs[t]) => Demo!Verifies)
      /\ \A t \in Calls : tabs[t] \in DemoTab /\ tabs[t].call \in {Demo!NoCall} \cup DemoForms_
  BY DEF DemoInv, DemoShape, DemoTab
<1>2. /\ host' = s /\ starts' = starts + 1 /\ unheard' = Demo!NoCall /\ starts < MaxStarts
      /\ s \in Demo!SharesFile(host)
      /\ tabs' = [t \in Calls |-> [tabs[t] EXCEPT !.call = Demo!NoCall]]
  BY DEF Demo!Start
<1>3. /\ operator' \in DemoRow /\ (operator'.enabled => operator'.secret # Demo!None)
      /\ operator.secret # Demo!None => operator'.secret # Demo!None
  <2>1. operator' = operator
        \/ \E posted \in {Demo!NoCall} \cup DemoForms_ : operator' = Demo!Writes(posted)
    BY <1>1 DEF Demo!Start, DemoShape
  <2> QED
    BY <1>1, <2>1, DemoWritesRow DEF DemoShape, DemoEnabledHasSecret
<1>4. ASSUME NEW t \in Calls
      PROVE  /\ tabs'[t] \in DemoTab /\ tabs'[t].call = Demo!NoCall
             /\ DemoSent(tabs'[t]) <=> DemoSent(tabs[t])
  <2>1. tabs'[t] = [tabs[t] EXCEPT !.call = Demo!NoCall] /\ tabs[t] \in DemoTab
    BY <1>1, <1>2
  <2> QED
    BY <2>1 DEF DemoTab, DemoSent
<1>5. tabs' \in [Calls -> DemoTab]
  <2>1. tabs' = [t \in Calls |-> tabs'[t]]
    BY <1>2
  <2> QED
    BY <1>4, <2>1
<1>6. starts' \in 0 .. MaxStarts /\ host' \in Demo!Servers
  BY <1>1, <1>2, BoundsAssumption DEF DemoShape
<1>7. DemoShape'
  BY <1>2, <1>3, <1>4, <1>5, <1>6 DEF DemoShape
<1>8. Demo!Verifies => Demo!Verifies'
  BY <1>1, <1>2, <1>3, DemoStillVerifies
<1> QED
  BY <1>1, <1>3, <1>4, <1>7, <1>8 DEF DemoInv, DemoEnabledHasSecret

LEMMA DemoKept ==
    ASSUME DemoInv, [Demo!Next]_demoVars
    PROVE  DemoInv'
<1>1. CASE \E t \in Calls : Demo!Redirect(t)
  <2>1. PICK t \in Calls : Demo!Redirect(t)
    BY <1>1
  <2>2. tabs[t].next \in Demo!Pages
    BY <2>1 DEF Demo!Redirect, DemoInv, DemoShape, DemoTab
  <2>3. Demo!Leave(t, tabs[t].next, tabs[t].page = "login")
    BY <2>1 DEF Demo!Redirect
  <2>4. tabs[t].next = "verify" /\ tabs[t].page = "login" => DemoSent(tabs[t])
    BY DEF DemoSent
  <2>5. (tabs[t].page = "login") \in BOOLEAN
    OBVIOUS
  <2> QED
    BY <2>2, <2>3, <2>4, <2>5, DemoLeaveStep
<1>2. CASE \E t \in Calls, p \in Demo!Pages : Demo!Open(t, p)
  BY <1>2, DemoLeaveStep DEF Demo!Open
<1>3. CASE \E t \in Calls : Demo!Handle(t)
  BY <1>3, DemoHandleStep
<1>4. CASE \E t \in Calls : \E sent \in Demo!Forms(tabs[t].page) : Demo!Submit(t, sent)
  BY <1>4, DemoSubmitStep
<1>5. CASE Demo!HandleUnheard
  BY <1>5, DemoHandleUnheardStep
<1>6. CASE \E s \in Demo!Servers : Demo!Start(s)
  BY <1>6, DemoStartStep
<1>7. CASE UNCHANGED demoVars
  BY <1>7
     DEF demoVars, DemoInv, DemoShape, DemoEnabledHasSecret, Demo!Verifies, Demo!ReadsRow
<1> QED
  BY <1>1, <1>2, <1>3, <1>4, <1>5, <1>6, <1>7 DEF Demo!Next

LEMMA DemoVerifyWorks ==
    ASSUME DemoInv
    PROVE  Demo!TypeOK /\ Demo!VerifyPageWorks
<1>1. Demo!VerifyPageWorks
  BY DEF DemoInv, Demo!VerifyPageWorks, DemoSent
<1>2. Demo!TypeOK
  BY DEF DemoInv, DemoShape, Demo!TypeOK, DemoRow, DemoTab
<1> QED
  BY <1>1, <1>2

(***************************************************************************)
(* The services: whichever component is active keeps its invariant         *)
(***************************************************************************)

ServicesInv ==
    /\ active = "lockout" => LockoutCountInv /\ (Cardinality(Calls) = 2 => LockoutLockInv)
    /\ active = "trail" => TrailInv
    /\ active = "limiter" => LimiterInv
    /\ active = "console" => ConsoleInv
    /\ active = "scanner" => ScannerInv
    /\ active = "requests" => RequestsInv
    /\ active = "review" => ReviewInv
    /\ active = "tenant" => TenantInv
    /\ active = "insight" => InsightInv
    /\ active = "setting" => SettingInv
    /\ active = "account" => AccountInv
    /\ active = "personal" => PersonalInv
    /\ active = "demo" => DemoInv

\* The component that a behaviour exercises starts with its invariant.
LEMMA InitInvariant == ASSUME Init PROVE ServicesInv
<1>1. active = "lockout" => LockoutCountInv /\ LockoutLockInv
  BY LockoutCountInitially, LockoutLockInitially DEF Init
<1>2. active = "trail" => TrailInv
  BY TrailInitially DEF Init
<1>3. active = "limiter" => LimiterInv
  BY LimiterInitially DEF Init
<1>4. active = "console" => ConsoleInv
  BY ConsoleInitially DEF Init
<1>5. active = "scanner" => ScannerInv
  BY ScannerInitially DEF Init
<1>6. active = "requests" => RequestsInv
  BY RequestsInitially DEF Init
<1>7. active = "review" => ReviewInv
  BY ReviewInitially DEF Init
<1>8. active = "tenant" => TenantInv
  BY TenantInitially DEF Init
<1>9. active = "insight" => InsightInv
  BY InsightInitially DEF Init
<1>10. active = "setting" => SettingInv
  BY SettingInitially DEF Init
<1>11. active = "account" => AccountInv
  BY AccountInitially DEF Init
<1>12. active = "personal" => PersonalInv
  BY PersonalInitially DEF Init
<1>13. active = "demo" => DemoInv
  BY DemoInitially DEF Init
<1> QED
  BY ONLY <1>1, <1>2, <1>3, <1>4, <1>5, <1>6, <1>7, <1>8, <1>9, <1>10, <1>11, <1>12, <1>13
     DEF ServicesInv

\* A step of the services is one of the active component, or changes none of its variables.
LEMMA StepOfActive ==
    ASSUME [Next]_vars
    PROVE  /\ active' = active
           /\ active = "lockout" => [Lockout!Next]_lockoutVars
           /\ active = "trail" => [Trail!Next]_trailVars
           /\ active = "limiter" => [Limiter!Next]_limiterVars
           /\ active = "console" => [Console!Next]_consoleVars
           /\ active = "scanner" => [Scanner!Next]_scannerVars
           /\ active = "requests" => [Requests!Next]_requestsVars
           /\ active = "review" => [Review!Next]_reviewVars
           /\ active = "tenant" => [Tenant!Next]_tenantVars
           /\ active = "insight" => [Insight!Next]_insightVars
           /\ active = "setting" => [Setting!Next]_settingVars
           /\ active = "account" => [Account!Next]_accountVars
           /\ active = "personal" => [Personal!Next]_personalVars
           /\ active = "demo" => [Demo!Next]_demoVars
<1>1. CASE Next
  <2>0. active' = active
    BY <1>1 DEF Next
  <2>1. active = "lockout" => Lockout!Next
    BY <1>1 DEF Next
  <2>2. active = "trail" => Trail!Next
    BY <1>1 DEF Next
  <2>3. active = "limiter" => Limiter!Next
    BY <1>1 DEF Next
  <2>4. active = "console" => Console!Next
    BY <1>1 DEF Next
  <2>5. active = "scanner" => Scanner!Next
    BY <1>1 DEF Next
  <2>6. active = "requests" => Requests!Next
    BY <1>1 DEF Next
  <2>7. active = "review" => Review!Next
    BY <1>1 DEF Next
  <2>8. active = "tenant" => Tenant!Next
    BY <1>1 DEF Next
  <2>9. active = "insight" => Insight!Next
    BY <1>1 DEF Next
  <2>10. active = "setting" => Setting!Next
    BY <1>1 DEF Next
  <2>11. active = "account" => Account!Next
    BY <1>1 DEF Next
  <2>12. active = "personal" => Personal!Next
    BY <1>1 DEF Next
  <2>13. active = "demo" => Demo!Next
    BY <1>1 DEF Next
  <2> QED
    BY ONLY <2>0, <2>1, <2>2, <2>3, <2>4, <2>5, <2>6, <2>7, <2>8, <2>9, <2>10, <2>11, <2>12,
            <2>13
<1>2. CASE UNCHANGED vars
  BY <1>2 DEF vars
<1> QED
  BY <1>1, <1>2

LEMMA StepInvariant == ASSUME ServicesInv, [Next]_vars PROVE ServicesInv'
<1>0. active' = active
  BY StepOfActive
<1>1. active = "lockout" => (LockoutCountInv /\ (Cardinality(Calls) = 2 => LockoutLockInv))'
  BY StepOfActive, LockoutCountKept, LockoutLockKept DEF ServicesInv
<1>2. active = "trail" => TrailInv'
  BY StepOfActive, TrailKept DEF ServicesInv
<1>3. active = "limiter" => LimiterInv'
  BY StepOfActive, LimiterKept DEF ServicesInv
<1>4. active = "console" => ConsoleInv'
  BY StepOfActive, ConsoleKept DEF ServicesInv
<1>5. active = "scanner" => ScannerInv'
  BY StepOfActive, ScannerKept DEF ServicesInv
<1>6. active = "requests" => RequestsInv'
  BY StepOfActive, RequestsKept DEF ServicesInv
<1>7. active = "review" => ReviewInv'
  BY StepOfActive, ReviewKept DEF ServicesInv
<1>8. active = "tenant" => TenantInv'
  BY StepOfActive, TenantKept DEF ServicesInv
<1>9. active = "insight" => InsightInv'
  BY StepOfActive, InsightKept DEF ServicesInv
<1>10. active = "setting" => SettingInv'
  BY StepOfActive, SettingKept DEF ServicesInv
<1>11. active = "account" => AccountInv'
  BY StepOfActive, AccountKept DEF ServicesInv
<1>12. active = "personal" => PersonalInv'
  BY StepOfActive, PersonalKept DEF ServicesInv
<1>13. active = "demo" => DemoInv'
  BY StepOfActive, DemoKept DEF ServicesInv
<1> QED
  BY ONLY <1>0, <1>1, <1>2, <1>3, <1>4, <1>5, <1>6, <1>7, <1>8, <1>9, <1>10, <1>11, <1>12,
          <1>13
     DEF ServicesInv

LEMMA Invariance == Spec => []ServicesInv
BY InitInvariant, StepInvariant, PTL DEF Spec

\* Every component keeps the shape of its state, for every number of calls, tenants,
\* operators and tokens and every limit.
THEOREM TypeCorrect == Spec => []TypeOK
<1>1. ServicesInv => TypeOK
  <2> SUFFICES ASSUME ServicesInv PROVE TypeOK
    OBVIOUS
  <2>1. active = "lockout" => Lockout!TypeOK
    BY LockoutTypes DEF ServicesInv
  <2>2. active = "trail" => Trail!TypeOK
    BY TrailVerdicts DEF ServicesInv
  <2>3. active = "limiter" => Limiter!TypeOK
    BY LimiterLimited DEF ServicesInv
  <2>4. active = "console" => Console!TypeOK
    BY ConsoleFewRedirects DEF ServicesInv
  <2>5. active = "scanner" => Scanner!TypeOK
    BY ScannerFewRows DEF ServicesInv
  <2>6. active = "requests" => Requests!TypeOK
    BY RequestsCarriedOut DEF ServicesInv
  <2>7. active = "review" => Review!TypeOK
    BY ReviewTypes DEF ServicesInv
  <2>8. active = "tenant" => Tenant!TypeOK
    BY TenantShows DEF ServicesInv
  <2>9. active = "insight" => Insight!TypeOK
    BY InsightShows DEF ServicesInv
  <2>10. active = "setting" => Setting!TypeOK
    BY SettingPromises DEF ServicesInv
  <2>11. active = "account" => Account!TypeOK
    BY AccountUsable DEF ServicesInv
  <2>12. active = "personal" => Personal!TypeOK
    BY PersonalPromises DEF ServicesInv
  <2>13. active = "demo" => Demo!TypeOK
    BY DemoVerifyWorks DEF ServicesInv
  <2> QED
    BY ONLY <2>1, <2>2, <2>3, <2>4, <2>5, <2>6, <2>7, <2>8, <2>9, <2>10, <2>11, <2>12, <2>13
       DEF TypeOK
<1> QED
  BY Invariance, <1>1, PTL

\* However two logins overlap, an account takes no more wrong passwords between two resets
\* of its counter than FailuresBounded says, for every limit of attempts (auth.service.ts).
THEOREM FailuresFew ==
    ASSUME Cardinality(Calls) = 2
    PROVE  Spec => []FailuresBounded
<1>1. ServicesInv => FailuresBounded
  BY LockoutFewFailures DEF ServicesInv, FailuresBounded
<1> QED
  BY Invariance, <1>1, PTL

\* For every number of writers and rows: verifyIntegrity calls no log valid in which a row was
\* edited or one before another is missing, and every undisturbed log (audit-log.service.ts).
THEOREM VerdictsTrue == Spec => []VerdictsAreTrue
<1>1. ServicesInv => VerdictsAreTrue
  BY TrailVerdicts DEF ServicesInv, VerdictsAreTrue
<1> QED
  BY Invariance, <1>1, PTL

\* For every window and every limit, and as many checks at once as there may be, the three rate
\* limits let through no more than AdmittedBounded says (rate-limit.middleware.ts).
THEOREM AdmittedFew == Spec => []AdmittedBounded
<1>1. ServicesInv => AdmittedBounded
  BY LimiterLimited DEF ServicesInv, AdmittedBounded
<1> QED
  BY Invariance, <1>1, PTL

\* However far a browser moves on, the pages of a console redirect it a bounded number of times,
\* and the demo page a login leads to has the secret it verifies.
THEOREM RedirectsFew == Spec => []RedirectsBounded
<1>1. ServicesInv => RedirectsBounded
  BY ConsoleFewRedirects, DemoVerifyWorks DEF ServicesInv, RedirectsBounded
<1> QED
  BY Invariance, <1>1, PTL

\* However many scans and publications overlap, an address has no more rows and a topic no more
\* active notices than there are of them.
THEOREM DuplicatesFew == Spec => []DuplicatesBounded
<1>1. ServicesInv => DuplicatesBounded
  BY ScannerFewRows, PersonalPromises DEF ServicesInv, DuplicatesBounded
<1> QED
  BY Invariance, <1>1, PTL

\* What a page or a service answered that it did was done and stays so, whichever of the calls
\* of its component overlap, fail or come late.
THEOREM AnsweredCarriedOut == Spec => []AnsweredWasCarriedOut
<1>1. ServicesInv => AnsweredWasCarriedOut
  <2> SUFFICES ASSUME ServicesInv PROVE AnsweredWasCarriedOut
    OBVIOUS
  <2>1. active = "requests" => Requests!AnsweredWasCarriedOut
    BY RequestsCarriedOut DEF ServicesInv
  <2>2. active = "tenant" => Tenant!ShowsWhatItDid
    BY TenantShows DEF ServicesInv
  <2>3. active = "insight" => Insight!ShowsWhatItDid
    BY InsightShows DEF ServicesInv
  <2>4. active = "setting" => Setting!SavedIsKept /\ Setting!RotationKeepsAKey
    BY SettingPromises DEF ServicesInv
  <2>5. active = "account" => Account!SecondFactorUsable /\ Account!FirstPasswordActivates
    BY AccountUsable DEF ServicesInv
  <2>6. active = "personal" => Personal!ExportIsWhole /\ Personal!NothingLeftBehind
    BY PersonalPromises DEF ServicesInv
  <2> QED
    BY ONLY <2>1, <2>2, <2>3, <2>4, <2>5, <2>6 DEF AnsweredWasCarriedOut
<1> QED
  BY Invariance, <1>1, PTL

\* However many sign-ins overlap, a break-glass token signs its operator in no more often than
\* calls can overlap, and only once it says that it was used (break-glass.service.ts).
THEOREM TokenUsesFew == Spec => []TokenUsesBounded
<1>1. ServicesInv => TokenUsesBounded
  BY ReviewUses DEF ServicesInv, TokenUsesBounded
<1> QED
  BY Invariance, <1>1, PTL
==============================================================================
