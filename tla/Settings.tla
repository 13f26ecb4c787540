------------------------------ MODULE Settings -------------------------------
(***************************************************************************)
(* The settings of a tenant and its API keys: the settings page of the     *)
(* admin dashboard, the routes the gateway has for them, and the settings  *)
(* service of the legacy control plane, whose saves read, merge and write  *)
(* and whose rotation of a key revokes the old one and creates another.    *)
(* Of the settings the category with the mail server is kept: the fields   *)
(* `host` and `password`, each with the number of the save it comes from.  *)
(* The settings and the keys have no row in common: a behaviour is about   *)
(* one tab of the page.                                                    *)
(***************************************************************************)
EXTENDS Naturals, Sequences

CONSTANTS
    Calls,        \* handlers of the page and requests of other clients in flight
    MaxKeys,      \* keys ever created
    MaxSaves      \* saves ever begun

VARIABLES
    tab,          \* of the page and of what the other clients ask for
    row,          \* of app_settings
    keys,         \* context_api_keys: of each its name and whether it is active
    call,
    form,         \* what the page's form holds: the defaults, or what it read
    shown,        \* the page's list of keys: of each whether it is active
    loading,
    saving,
    \* history, read by properties only
    saves,        \* number of saves begun
    owed,         \* the newest save of each field that did not overlap another
    ended         \* names with a key that was revoked or whose rotation was cut short

vars == <<tab, row, keys, call, form, shown, loading, saving, saves, owed, ended>>

Fields   == {"host", "password"}
Defaults == [f \in Fields |-> 0]
Idle     == [pc |-> "idle"]
Names    == 1 .. MaxKeys

\* Verb and route of SettingsController, and what api.ts asks for.
Routes ==
    {<<"GET", "all">>, <<"GET", "keys">>, <<"PATCH", "category">>, <<"POST", "keys">>,
     <<"DELETE", "key">>, <<"POST", "rotate">>}
PageAsks(op) ==
    CASE op = "save"   -> <<"PUT", "category">>
      [] op = "create" -> <<"POST", "keys">>
      [] op = "rotate" -> <<"POST", "rotate">>
      [] op = "revoke" -> <<"POST", "revoke">>

Live(n)      == {k \in 1 .. Len(keys) : keys[k].name = n /\ keys[k].active}
Rotating(n)  == \E c \in Calls : call[c].pc \in {"sent", "found", "revoked"}
                    /\ call[c].op = "rotate" /\ keys[call[c].key].name = n
AllActive(s) == [k \in 1 .. Len(s) |-> s[k].active]

\* The page has just been opened; the tenant has a key and perhaps settings.
Init ==
    /\ tab \in {"notifications", "api"}
    /\ row \in IF tab = "api" THEN {Defaults} ELSE {Defaults, [f \in Fields |-> 1]}
    /\ keys = <<[name |-> 1, active |-> TRUE]>>
    /\ \E c \in Calls : call = [d \in Calls |->
           IF d = c THEN [pc |-> "load", by |-> "page"] ELSE Idle]
    /\ form = Defaults /\ shown = << >> /\ loading = TRUE /\ saving = FALSE
    /\ saves = 1 /\ owed = Defaults /\ ended = {}

(***************************************************************************)
(* The page                                                                *)
(***************************************************************************)

Page == <<form, shown, loading, saving>>
Rows == <<tab, row, keys>>
Past == <<saves, owed, ended>>

\* loadSettings: settings, keys and integrations are read at once, each at its
\* time; one that fails leaves the form as it was, at first the defaults.
LoadAgain(c) ==
    /\ call[c] = Idle /\ ~loading
    /\ call' = [call EXCEPT ![c] = [pc |-> "load", by |-> "page"]]
    /\ loading' = TRUE
    /\ UNCHANGED <<Rows, form, shown, saving, Past>>

LoadReads(c) ==
    /\ call[c].pc = "load"
    /\ call' = [call EXCEPT ![c] = [pc |-> "loaded", by |-> "page", row |-> row,
                                    keys |-> AllActive(keys)]]
    /\ UNCHANGED <<Rows, Page, Past>>

LoadEnds(c) ==
    /\ call[c].pc \in {"load", "loaded"}
    /\ loading' = FALSE
    /\ call' = [call EXCEPT ![c] = Idle]
    /\ \/ UNCHANGED <<form, shown>>
       \/ call[c].pc = "loaded" /\ form' = call[c].row /\ shown' = call[c].keys
    /\ UNCHANGED <<Rows, saving, Past>>

\* handleSave sends the whole form, of which the user edited a field; the buttons of the keys are never disabled, and
\* a row has them while the list says its key is active.
PageSends(c, op, key) ==
    /\ call[c] = Idle /\ ~loading
    /\ IF op = "save" THEN tab = "notifications" /\ ~saving ELSE tab = "api"
    /\ op \in {"rotate", "revoke"} => key \in DOMAIN shown /\ shown[key]
    /\ PageAsks(op) \in Routes /\ op = "save" => saves < MaxSaves
    /\ call' = [call EXCEPT ![c] =
           IF PageAsks(op) \notin Routes THEN [pc |-> "refused", by |-> "page", op |-> op]
           ELSE IF op # "save" THEN [pc |-> "sent", by |-> "page", op |-> op, key |-> key]
           ELSE [pc |-> "sent", by |-> "page", op |-> op, set |-> Fields,
                 data |-> [form EXCEPT !["host"] = saves + 1], save |-> saves + 1]]
    /\ saving' = (saving \/ op = "save")
    /\ saves' = IF op = "save" /\ PageAsks(op) \in Routes THEN saves + 1 ELSE saves
    /\ UNCHANGED <<Rows, form, shown, loading, owed, ended>>

\* An error is shown.
PageFails(c) ==
    /\ call[c].pc \in {"refused", "done", "listed"} /\ call[c].by = "page"
    /\ saving' = (saving /\ call[c].op # "save")
    /\ call' = [call EXCEPT ![c] = Idle]
    /\ UNCHANGED <<Rows, form, shown, loading, Past>>

\* The new key is revealed; the list is read again.
PageLists(c) ==
    /\ call[c].pc = "done" /\ call[c].by = "page" /\ call[c].op # "save"
    /\ call' = [call EXCEPT ![c] = [pc |-> "listed", by |-> "page", op |-> @.op,
                                    keys |-> AllActive(keys)]]
    /\ UNCHANGED <<Rows, Page, Past>>

PageShows(c) ==
    /\ call[c].pc = "listed"
    /\ shown' = call[c].keys
    /\ call' = [call EXCEPT ![c] = Idle]
    /\ UNCHANGED <<Rows, form, loading, saving, Past>>

PageSaved(c) ==
    /\ call[c].pc = "done" /\ call[c].by = "page" /\ call[c].op = "save"
    /\ saving' = FALSE
    /\ call' = [call EXCEPT ![c] = Idle]
    /\ UNCHANGED <<Rows, form, shown, loading, Past>>

(***************************************************************************)
(* Other clients of the gateway                                            *)
(***************************************************************************)

\* A save of some fields.
ClientSaves(c, set) ==
    /\ call[c] = Idle /\ tab = "notifications" /\ saves < MaxSaves
    /\ call' = [call EXCEPT ![c] =
           [pc |-> "sent", by |-> "client", op |-> "save", set |-> set,
            data |-> [f \in Fields |-> saves + 1], save |-> saves + 1]]
    /\ saves' = saves + 1
    /\ UNCHANGED <<Rows, Page, owed, ended>>

ClientRevokes(c, key) ==
    /\ call[c] = Idle /\ tab = "api"
    /\ call' = [call EXCEPT ![c] = [pc |-> "sent", by |-> "client", op |-> "revoke",
                                    key |-> key]]
    /\ UNCHANGED <<Rows, Page, Past>>

\* Answered, or not: the client does nothing about it.
ClientEnds(c) ==
    /\ call[c].pc = "done" /\ call[c].by = "client"
    /\ call' = [call EXCEPT ![c] = Idle]
    /\ UNCHANGED <<Rows, Page, Past>>

(***************************************************************************)
(* SettingsService; the gateway gives up after 8 s, the service does not   *)
(***************************************************************************)

To(c, pc) == call' = [call EXCEPT ![c].pc = pc]

\* updateCategorySettings: the current row.  A field that another save is about is
\* owed to neither.
SaveReads(c) ==
    /\ call[c].pc = "sent" /\ call[c].op = "save"
    /\ call' = [call EXCEPT ![c] =
           [pc |-> "found", by |-> @.by, op |-> "save", set |-> @.set, data |-> @.data,
            save |-> @.save, row |-> row]]
    /\ owed' = IF \E d \in Calls \ {c} : call[d].pc = "found" /\ call[d].op = "save"
               THEN Defaults ELSE owed
    /\ UNCHANGED <<Rows, Page, saves, ended>>

\* The merge, and the upsert; a password that is not given is kept, encrypted as it is.
Merged(old, data, set) == [f \in Fields |-> IF f \in set THEN data[f] ELSE old[f]]

SaveWrites(c) ==
    LET alone == \A d \in Calls \ {c} : ~(call[d].pc = "found" /\ call[d].op = "save") IN
    /\ call[c].pc = "found" /\ call[c].op = "save"
    /\ row' = Merged(call[c].row, call[c].data, call[c].set)
    /\ owed' = IF ~alone THEN Defaults
               ELSE [f \in Fields |-> IF f \in call[c].set /\ call[c].data[f] = call[c].save
                                      THEN call[c].save ELSE owed[f]]
    /\ To(c, "done")
    /\ UNCHANGED <<tab, keys, Page, saves, ended>>

\* rotateApiKey: the row is found whether the key is active or not.
RotateFinds(c) ==
    /\ call[c].pc = "sent" /\ call[c].op = "rotate"
    /\ To(c, "found")
    /\ UNCHANGED <<Rows, Page, Past>>

RotateRevokes(c) ==
    /\ call[c].pc = "found" /\ call[c].op = "rotate"
    /\ keys' = [keys EXCEPT ![call[c].key].active = FALSE]
    /\ To(c, "revoked")
    /\ UNCHANGED <<tab, row, Page, Past>>

\* createApiKey, with the name of the old key
RotateCreates(c) ==
    /\ call[c].pc = "revoked" /\ Len(keys) < MaxKeys
    /\ keys' = Append(keys, [name |-> keys[call[c].key].name, active |-> TRUE])
    /\ To(c, "done")
    /\ UNCHANGED <<tab, row, Page, Past>>

CreateKey(c) ==
    /\ call[c].pc = "sent" /\ call[c].op = "create" /\ Len(keys) < MaxKeys
    /\ keys' = Append(keys, [name |-> Len(keys) + 1, active |-> TRUE])
    /\ To(c, "done")
    /\ UNCHANGED <<tab, row, Page, Past>>

RevokeKey(c) ==
    /\ call[c].pc = "sent" /\ call[c].op = "revoke"
    /\ keys' = [keys EXCEPT ![call[c].key].active = FALSE]
    /\ ended' = ended \cup {keys[call[c].key].name}
    /\ To(c, "done")
    /\ UNCHANGED <<tab, row, Page, saves, owed>>

\* A query fails or the service stops: what was written stays.
ServiceFails(c) ==
    /\ call[c].pc \in {"sent", "found", "revoked"}
    /\ ended' = IF call[c].pc = "revoked" THEN ended \cup {keys[call[c].key].name} ELSE ended
    /\ call' = [call EXCEPT ![c] =
           IF @.by = "page" THEN [pc |-> "refused", by |-> "page", op |-> @.op] ELSE Idle]
    /\ UNCHANGED <<Rows, Page, saves, owed>>

PageStep(c) ==
    \/ LoadAgain(c) \/ LoadReads(c) \/ LoadEnds(c)
    \/ \E op \in {"save", "create", "rotate", "revoke"}, key \in 1 .. Len(keys) :
           PageSends(c, op, key)
    \/ PageFails(c) \/ PageLists(c) \/ PageShows(c) \/ PageSaved(c)
ClientStep(c) ==
    \/ \E set \in SUBSET Fields \ {{}} : ClientSaves(c, set)
    \/ \E key \in 1 .. Len(keys) : ClientRevokes(c, key)
    \/ ClientEnds(c)
ServiceStep(c) ==
    \/ SaveReads(c) \/ SaveWrites(c)
    \/ RotateFinds(c) \/ RotateRevokes(c) \/ RotateCreates(c)
    \/ CreateKey(c) \/ RevokeKey(c) \/ ServiceFails(c)

Next == \E c \in Calls : PageStep(c) \/ ClientStep(c) \/ ServiceStep(c)

Spec == Init /\ [][Next]_vars

(***************************************************************************)
(* Properties                                                              *)
(***************************************************************************)

\* The shape of the state; a page that waits for nothing can be used.
TypeOK ==
    /\ row \in [Fields -> 0 .. saves] /\ form \in [Fields -> 0 .. saves]
    /\ Len(keys) \in 1 .. MaxKeys /\ \A k \in 1 .. Len(keys) : keys[k].name \in 1 .. k
    /\ Len(shown) <= Len(keys)
    /\ saves \in 1 .. MaxSaves /\ owed \in [Fields -> 0 .. saves] /\ ended \subseteq Names
    /\ \A c \in Calls : call[c].pc \in
           {"idle", "load", "loaded", "sent", "refused", "found", "revoked", "done", "listed"}
    /\ (\A c \in Calls : call[c] = Idle) => ~loading /\ ~saving

\* What a save set is in the settings until a save sets it again, unless saves
\* overlapped: the page, whose form may hold the defaults, can save nothing.
SavedIsKept == \A f \in Fields : row[f] >= owed[f]

\* An integration whose key is only rotated has a live key whenever no rotation is on
\* its way, however late or often it is rotated, unless one was cut short.
RotationKeepsAKey ==
    \A n \in {keys[k].name : k \in 1 .. Len(keys)} :
        n \in ended \/ Rotating(n) \/ Live(n) # {}
=============================================================================
