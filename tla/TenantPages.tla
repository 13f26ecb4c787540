---------------------------- MODULE TenantPages ----------------------------
(***************************************************************************)
(* The pages on which an operator works on a tenant, one of them open in a *)
(* tab: "list", "detail" and "wizard" of the admin dashboard, "cpList",    *)
(* "cpDetail" and "cpNew" of control-plane-ui.  Each shows a copy of the   *)
(* tenant, sends changes and loads the copy again, all of which overlap;   *)
(* the flags that disable its buttons are its own.  TenantsService answers *)
(* with a lookup and a write, in TenantLifecycle await by await.           *)
(***************************************************************************)
EXTENDS Naturals

CONSTANTS
    Calls,     \* handlers of the page in flight at once
    MaxRev     \* changes of the tenant in a behaviour

VARIABLES
    page,
    server,    \* the tenant: its status, and how often it was changed
    shown,     \* `tenant` of the page (or its row in `tenants`)
    loading,
    modal,     \* actionModal
    result,    \* actionResult, newKeyResult, apiError; result of the wizard
    step,      \* of the wizard
    busy,      \* working, actionLoading, submitting
    saving,    \* of the edit form, of TenantSettingsForm
    call,
    \* history, read by properties only
    owed       \* the change the page owes to show

vars == <<page, server, shown, loading, modal, result, step, busy, saving, call, owed>>

Pages   == {"list", "detail", "wizard", "cpList", "cpDetail", "cpNew"}
Wizards == {"wizard", "cpNew"}
Modals  == {"list", "detail"}       \* an action is confirmed in a modal
Statuses == {"PENDING", "ACTIVE", "SUSPENDED", "OFFBOARDED"}
Ops == {"create", "suspend", "activate", "offboard", "regenerate", "delete",
        "edit", "integration", "createKey", "revokeKey", "settings"}

None == "none"
Nothing  == [status |-> None, rev |-> 0]   \* no copy: null
NoResult == [op |-> None, ok |-> FALSE]
Idle     == [pc |-> "idle"]
Loads(c) == call[c].pc \in {"asked", "read"}

(***************************************************************************)
(* The buttons a page has for a tenant of a status                         *)
(***************************************************************************)

ListButtons(status) ==
    (IF status \in {"PENDING", "SUSPENDED"} THEN {"activate"} ELSE {}) \cup
    (IF status = "ACTIVE" THEN {"suspend"} ELSE {}) \cup
    (IF status = "PENDING" THEN {"regenerate"} ELSE {})

DetailButtons(status) ==
    {"edit", "regenerate", "delete"} \cup
    (IF status \in {"PENDING", "SUSPENDED"} THEN {"activate"} ELSE {}) \cup
    (IF status = "ACTIVE" THEN {"suspend"} ELSE {})

CpListButtons(status) ==
    CASE status = "ACTIVE"    -> {"suspend"}
      [] status = "SUSPENDED" -> {"activate"}
      [] OTHER -> {}

\* The header with its status, then the tabs.
CpDetailButtons(status) ==
    CpListButtons(status) \cup
    (IF status # "OFFBOARDED" THEN {"offboard"} ELSE {}) \cup
    {"integration", "createKey", "revokeKey", "settings"}

Offered(status) ==
    CASE page = "list"     -> ListButtons(status)
      [] page = "detail"   -> DetailButtons(status)
      [] page = "cpList"   -> CpListButtons(status)
      [] page = "cpDetail" -> CpDetailButtons(status)

Fresh(p) ==
    /\ page' = p
    /\ shown' = Nothing /\ modal' = None /\ result' = NoResult /\ step' = 1
    /\ busy' = FALSE /\ saving' = FALSE
    /\ loading' = (p \notin Wizards)
    /\ owed' = 0
    /\ \E c \in Calls : call' =
           [d \in Calls |-> IF d = c /\ p \notin Wizards THEN [pc |-> "asked", op |-> "load"] ELSE Idle]

Init ==
    /\ page = None
    /\ server \in [status : Statuses \cup {None}, rev : {0}]
    /\ shown = Nothing /\ modal = None /\ result = NoResult /\ step = 1
    /\ busy = FALSE /\ saving = FALSE /\ loading = FALSE
    /\ call = [c \in Calls |-> Idle] /\ owed = 0

\* A page opens; what the one before still waits for is somebody else's now.
Open ==
    /\ \E p \in Pages : Fresh(p)
    /\ UNCHANGED server

(***************************************************************************)
(* The operator                                                            *)
(***************************************************************************)

\* While it loads, a page of one tenant shows nothing else, a list no rows.
LastStep == IF page = "wizard" THEN 4 ELSE 3

Rendered == page # None /\ shown # Nothing /\ ~loading

\* load(): the copy is asked for, and the one that is on its way not waited for.
LoadStarts(c, op) ==
    /\ call' = [call EXCEPT ![c] = [pc |-> "asked", op |-> op]]
    /\ loading' = TRUE

\* The reload, retry and apply buttons of the lists
Reload(c) ==
    /\ page \in {"list", "cpList"} /\ modal = None
    /\ call[c] = Idle
    /\ LoadStarts(c, "load")
    /\ owed' = IF \E d \in Calls : Loads(d) THEN 0 ELSE owed
    /\ UNCHANGED <<page, server, shown, modal, result, step, busy, saving>>

Choose(op) ==   \* setAction
    /\ page \in Modals /\ Rendered /\ modal = None
    /\ op \in Offered(shown.status) \ {"edit"}
    /\ modal' = op /\ result' = NoResult
    /\ UNCHANGED <<page, server, shown, loading, step, busy, saving, call, owed>>

\* closeModal; Cancel does not wait for the action that was confirmed.
Close ==
    /\ \/ page = "list" /\ modal # None
       \/ page = "detail" /\ modal # None /\ ~loading
       \/ page = "cpDetail" /\ result # NoResult /\ ~loading   \* Dismiss
    /\ modal' = None /\ result' = NoResult
    /\ UNCHANGED <<page, server, shown, loading, step, busy, saving, call, owed>>

\* validateStep1 to 3, nextStep: what is typed is valid or the step stays.
NextStep ==
    /\ page \in Wizards /\ ~result.ok
    /\ step < LastStep
    /\ step' = step + 1
    /\ UNCHANGED <<page, server, shown, loading, modal, result, busy, saving, call, owed>>

StepBack ==
    /\ page \in Wizards /\ ~result.ok
    /\ step > 1
    /\ step' = step - 1
    /\ UNCHANGED <<page, server, shown, loading, modal, result, busy, saving, call, owed>>

CreateAnother ==
    /\ page = "wizard" /\ result.ok
    /\ result' = NoResult /\ step' = 1
    /\ UNCHANGED <<page, server, shown, loading, modal, busy, saving, call, owed>>

\* The second button of the modal
Confirms(op) == modal = op /\ result = NoResult /\ (page = "detail" => ~loading)

Clickable(op) ==
    IF page \in Wizards THEN op = "create" /\ step = LastStep /\ ~result.ok
    ELSE IF page \in Modals /\ op # "edit" THEN Confirms(op)
    ELSE Rendered /\ modal = None /\ op \in Offered(shown.status)

\* doAction, handleAction, handleCreate(Key), handleSubmit, saveEdit, handleSave.
\* Revoke is not disabled by anything.
Send(c, op) ==
    /\ call[c] = Idle
    /\ Clickable(op)
    /\ IF op \in {"edit", "settings"}
       THEN ~saving /\ saving' = TRUE /\ UNCHANGED busy
       ELSE (~busy \/ op = "revokeKey") /\ busy' = TRUE /\ UNCHANGED saving
    /\ call' = [call EXCEPT ![c] = [pc |-> "sent", op |-> op]]
    /\ UNCHANGED <<page, server, shown, loading, modal, result, step, owed>>

\* cpList keeps one id: an action on another row lets this one's button go.
OtherRow ==
    /\ page = "cpList" /\ busy
    /\ busy' = FALSE
    /\ UNCHANGED <<page, server, shown, loading, modal, result, step, saving, call, owed>>

(***************************************************************************)
(* TenantsService                                                          *)
(***************************************************************************)

\* What the validation lets through: not the row of settings that
\* TenantSettingsForm sends back, nor the frameworks as NewTenantPage writes them.
Valid(op) == op # "settings" /\ page # "cpNew"

StatusAfter(op, status) ==
    CASE op = "suspend"  -> "SUSPENDED"
      [] op = "activate" -> "ACTIVE"
      [] op = "offboard" -> "OFFBOARDED"
      [] op = "create"   -> "PENDING"
      [] op = "delete"   -> None
      [] op = "regenerate" /\ status = "ACTIVE" -> "PENDING"
      [] OTHER -> status

Serve(c) ==
    /\ call[c].pc = "sent" /\ Valid(call[c].op)
    /\ (server.status = None) <=> (call[c].op = "create")
    /\ server.rev < MaxRev
    /\ server' = [status |-> StatusAfter(call[c].op, server.status), rev |-> server.rev + 1]
    /\ call' = [call EXCEPT ![c] = [pc |-> "done", op |-> @.op, rev |-> server.rev + 1]]
    /\ UNCHANGED <<page, shown, loading, modal, result, step, busy, saving, owed>>

\* 400, 404, 409, or no answer at all, though the change may have been made.
NotAnswered(c) ==
    /\ call[c].pc \in {"sent", "done"}
    /\ call' = [call EXCEPT ![c] = [pc |-> "failed", op |-> @.op]]
    /\ UNCHANGED <<page, server, shown, loading, modal, result, step, busy, saving, owed>>

\* findOne, findAll with getHealth or getPlatformStats
ReadTenant(c) ==
    /\ call[c].pc = "asked"
    /\ server.status # None
    /\ call' = [call EXCEPT ![c] = [pc |-> "read", op |-> @.op, copy |-> server]]
    /\ UNCHANGED <<page, server, shown, loading, modal, result, step, busy, saving, owed>>

\* Other operators, the tenant's super admin, an earlier page of this tab.
OthersChange ==
    /\ server.rev < MaxRev
    /\ \E status \in Statuses \cup {None} :
           server' = [status |-> status, rev |-> server.rev + 1]
    /\ UNCHANGED <<page, shown, loading, modal, result, step, busy, saving, call, owed>>

(***************************************************************************)
(* The answers                                                             *)
(***************************************************************************)

Release(op) ==   \* finally
    IF op \in {"edit", "settings"}
    THEN saving' = FALSE /\ UNCHANGED busy
    ELSE busy' = FALSE /\ UNCHANGED saving

Told(op) == op # "edit" /\ (page \in {"cpList", "cpDetail"} => op = "createKey")

\* The tenant is there, or gone: the page shows that, and leaves later.
DoneForGood(c) ==
    /\ call[c].pc = "done" /\ call[c].op \in {"create", "delete"}
    /\ result' = [op |-> call[c].op, ok |-> TRUE]
    /\ Release(call[c].op)
    /\ call' = [call EXCEPT ![c] = Idle]
    /\ UNCHANGED <<page, server, shown, loading, modal, step, owed>>

\* The list of control-plane-ui does not wait for its load.
Done(c) ==
    LET op == call[c].op IN
    /\ call[c].pc = "done" /\ op \notin {"create", "delete"}
    /\ result' = IF Told(op) THEN [op |-> op, ok |-> TRUE] ELSE result
    /\ IF page = "cpList" THEN Release(op) ELSE UNCHANGED <<busy, saving>>
    /\ LoadStarts(c, op)
    /\ owed' = IF \E d \in Calls : Loads(d) THEN 0 ELSE call[c].rev
    /\ UNCHANGED <<page, server, shown, modal, step>>

Failed(c) ==
    /\ call[c].pc = "failed"
    /\ result' = IF page \notin {"cpList", "cpDetail"} /\ call[c].op # "edit"
                 THEN [op |-> call[c].op, ok |-> FALSE] ELSE result
    /\ Release(call[c].op)
    /\ call' = [call EXCEPT ![c] = Idle]
    /\ UNCHANGED <<page, server, shown, loading, modal, step, owed>>

LoadEnds(c) ==
    /\ call' = [call EXCEPT ![c] = Idle]
    /\ loading' = FALSE
    /\ IF call[c].op = "load" \/ page = "cpList"
       THEN UNCHANGED <<busy, saving>>
       ELSE Release(call[c].op)

Loaded(c) ==
    /\ call[c].pc = "read"
    /\ LoadEnds(c)
    /\ shown' = call[c].copy
    /\ UNCHANGED <<page, server, modal, result, step, owed>>

\* The page keeps the copy it has, with an error or without.
LoadFails(c) ==
    /\ Loads(c)
    /\ LoadEnds(c)
    /\ owed' = 0
    /\ UNCHANGED <<page, server, shown, modal, result, step>>

CallStep(c) ==
    \/ Reload(c) \/ \E op \in Ops : Send(c, op)
    \/ Serve(c) \/ NotAnswered(c) \/ ReadTenant(c)
    \/ DoneForGood(c) \/ Done(c) \/ Failed(c) \/ Loaded(c) \/ LoadFails(c)

Next ==
    \/ Open \/ Close \/ NextStep \/ StepBack \/ CreateAnother \/ OtherRow \/ OthersChange
    \/ \E op \in Ops : Choose(op)
    \/ \E c \in Calls : CallStep(c)

Spec == Init /\ [][Next]_vars

(***************************************************************************)
(* Properties                                                              *)
(***************************************************************************)

\* The shape of the state; a page that waits for nothing can be used.
TypeOK ==
    /\ page \in Pages \cup {None}
    /\ server \in [status : Statuses \cup {None}, rev : 0 .. MaxRev]
    /\ shown \in [status : Statuses, rev : 0 .. MaxRev] \cup {Nothing}
    /\ modal \in Ops \cup {None} /\ step \in 1 .. 4
    /\ result \in [op : Ops, ok : BOOLEAN] \cup {NoResult}
    /\ \A c \in Calls : call[c].pc \in {"idle", "sent", "done", "failed", "asked", "read"}
    /\ (\A c \in Calls : call[c] = Idle) => ~busy /\ ~saving /\ ~loading
    /\ owed \in 0 .. MaxRev

\* A change that was answered is on the page once its load has come, unless
\* that load failed or another one was on its way with it.
ShowsWhatItDid ==
    (\A c \in Calls : call[c] = Idle) /\ shown # Nothing => shown.rev >= owed
=============================================================================
