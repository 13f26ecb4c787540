----------------------------- MODULE PersonalData ----------------------------
(***************************************************************************)
(* What a person does with its own data: privacy notices it accepts,       *)
(* consents, rectification, the export of its data through the gateway,    *)
(* and the export as files (DataExportService), while operators publish    *)
(* notices and the retention scheduler (module Privacy) may have           *)
(* anonymized the row; its token goes on being good.  Notices, the columns *)
(* a person corrects, and files have nothing in common: a behaviour is     *)
(* about one of them.                                                      *)
(***************************************************************************)
EXTENDS Naturals, FiniteSets

CONSTANTS
    Calls,        \* calls that may be in flight at once
    MaxNotices    \* notices ever published

VARIABLES
    topic,        \* "notices", "rows" or "files"
    notices,      \* number of notices published
    active,       \* notices with isActive
    person,       \* the row: [version, name], 0 for no notice
    accepted,     \* privacyNoticeAcceptances
    consent,      \* status of the newest consent record
    rows,         \* types with a completed request in data_subject_requests
    call,
    \* history, read by properties only
    left,         \* files that exports which failed left behind
    broken        \* a file could not be removed, or the process ended

vars == <<topic, notices, active, person, accepted, consent, rows, call, left, broken>>

Notices == 1 .. MaxNotices
Person  == [version : 0 .. MaxNotices, name : {"own", "new", "redacted"}]
Idle    == [pc |-> "idle"]

Init ==
    /\ topic \in {"notices", "rows", "files"}
    /\ notices = 1 /\ active = {1}
    /\ person = [version |-> 0, name |-> "own"]
    /\ accepted = {} /\ consent = "none" /\ rows = {}
    /\ call = [c \in Calls |-> Idle]
    /\ left = {} /\ broken = FALSE

To(c, next) == call' = [call EXCEPT ![c] = next]
At(c, pc)   == call[c].pc = pc
Begins(c, t) == call[c] = Idle /\ topic = t
Files       == <<left, broken>>
Person_     == <<person, accepted, consent, rows>>

(***************************************************************************)
(* Notices                                                                 *)
(***************************************************************************)

\* publishNotice: the update of the transaction finds the active notices of its
\* snapshot, not those another transaction is about to commit.
PublishReads(c) ==
    /\ Begins(c, "notices")
    /\ \E on \in BOOLEAN :
           To(c, [pc |-> "publish", on |-> on, seen |-> IF on THEN active ELSE {}])
    /\ UNCHANGED <<topic, notices, active, Person_, Files>>

AddOnly(c) == active \cup {notices + 1}   \* mutant: the others stay active

Replaced(c) == (active \ call[c].seen) \cup {notices + 1}

PublishCommits(c) ==
    /\ At(c, "publish")
    /\ notices < MaxNotices
    /\ notices' = notices + 1
    /\ active' = IF call[c].on THEN Replaced(c) ELSE active
    /\ To(c, [pc |-> "answer"])
    /\ UNCHANGED <<topic, Person_, Files>>

\* getActiveNotice: the newest
ActiveNotice == CHOOSE n \in active : \A m \in active : m <= n

\* acceptNotice finds the notice, which the page has from getActiveNotice, active.
AcceptFinds(c) ==
    /\ Begins(c, "notices")
    /\ active # {}
    /\ To(c, [pc |-> "accept", notice |-> ActiveNotice])
    /\ UNCHANGED <<topic, notices, active, Person_, Files>>

\* One transaction.
AcceptCommits(c) ==
    /\ At(c, "accept")
    /\ accepted' = accepted \cup {call[c].notice}
    /\ person' = [person EXCEPT !.version = call[c].notice]
    /\ To(c, [pc |-> "answer"])
    /\ UNCHANGED <<topic, notices, active, consent, rows, Files>>

(***************************************************************************)
(* Consents, rectification, export                                         *)
(***************************************************************************)

RecordConsent(c) ==
    /\ Begins(c, "rows")
    /\ consent' \in {"granted", "revoked"}
    /\ To(c, [pc |-> "answer"])
    /\ UNCHANGED <<topic, notices, active, person, accepted, rows, Files>>

\* rectifySubjectData, once its checks have passed: the row, then the request.
RectifyWrites(c) ==
    /\ Begins(c, "rows")
    /\ person' = [person EXCEPT !.name = "new"]
    /\ To(c, [pc |-> "rectified"])
    /\ UNCHANGED <<topic, notices, active, accepted, consent, rows, Files>>

RectifyRecords(c) ==
    /\ At(c, "rectified")
    /\ rows' = rows \cup {"rectify"}
    /\ To(c, [pc |-> "answer"])
    /\ UNCHANGED <<topic, notices, active, person, accepted, consent, Files>>

\* mutant: the acceptances are read before the user
AcceptancesFirst(c) ==
    \/ /\ Begins(c, "notices")
       /\ To(c, [pc |-> "reads", accepted |-> accepted])
       /\ UNCHANGED <<topic, notices, active, Person_, Files>>
    \/ /\ At(c, "reads") /\ "accepted" \in DOMAIN call[c]
       /\ To(c, [pc |-> "collected",
                 data |-> [version |-> person.version, accepted |-> call[c].accepted]])
       /\ UNCHANGED <<topic, notices, active, Person_, Files>>

\* exportSubjectData: the user, then what there is of it.
ExportReads(c) ==
    \/ /\ Begins(c, "notices")
       /\ To(c, [pc |-> "reads", version |-> person.version])
       /\ UNCHANGED <<topic, notices, active, Person_, Files>>
    \/ /\ At(c, "reads")
       /\ To(c, [pc |-> "collected",
                 data |-> [version |-> call[c].version, accepted |-> accepted]])
       /\ UNCHANGED <<topic, notices, active, Person_, Files>>

ExportRecords(c) ==
    /\ At(c, "collected")
    /\ rows' = rows \cup {"export"}
    /\ To(c, [pc |-> "exported", data |-> call[c].data])
    /\ UNCHANGED <<topic, notices, active, person, accepted, consent, Files>>

Answered(c) ==
    /\ call[c].pc \in {"answer", "exported"}
    /\ To(c, Idle)
    /\ UNCHANGED <<topic, notices, active, Person_, Files>>

(***************************************************************************)
(* The export as files                                                     *)
(***************************************************************************)

Serves     == <<topic, notices, active, person, accepted, consent, rows>>
InFiles    == {"mkdir", "write", "zip", "rmdir", "cleandir", "cleanzip"}
Step(c, pc, files) == To(c, [pc |-> pc, files |-> files])

\* validateUserAccess and collectUserData; nothing is on the disk yet.
FilesBegin(c) ==
    /\ Begins(c, "files")
    /\ Step(c, "mkdir", {})
    /\ UNCHANGED <<Serves, Files>>

\* What each step leaves on the disk, whether it succeeds or throws.
MakeDirectory(c) ==
    /\ At(c, "mkdir")
    /\ Step(c, "write", {"dir"}) \/ Step(c, "cleandir", {})
    /\ UNCHANGED <<Serves, Files>>

GenerateFiles(c) ==
    /\ At(c, "write")
    /\ Step(c, "zip", {"dir"}) \/ Step(c, "cleandir", {"dir"})
    /\ UNCHANGED <<Serves, Files>>

MakeZip(c) ==
    /\ At(c, "zip")
    /\ \/ Step(c, "rmdir", {"dir", "zip"})
       \/ Step(c, "cleandir", {"dir"}) \/ Step(c, "cleandir", {"dir", "zip"})
    /\ UNCHANGED <<Serves, Files>>

\* The caller has the path of the archive.
RemoveDirectory(c) ==
    /\ At(c, "rmdir")
    /\ \/ To(c, [pc |-> "answer"])
       \/ Step(c, "cleandir", {"dir", "zip"})
    /\ UNCHANGED <<Serves, Files>>

Throws(c, files) ==
    /\ To(c, Idle)
    /\ left' = left \cup files

\* mutant: the archive is not removed
CleanDirectoryOnly(c) ==
    /\ At(c, "cleandir")
    /\ Throws(c, call[c].files \ {"dir"})
    /\ UNCHANGED <<Serves, broken>>

\* The catch: an error of rmdir, of a directory that is not there as well, skips
\* the unlink.
CleanDirectory(c) ==
    /\ At(c, "cleandir")
    /\ \/ "dir" \in call[c].files
          /\ Step(c, "cleanzip", call[c].files \ {"dir"}) /\ UNCHANGED Files
       \/ Throws(c, call[c].files) /\ broken' = (broken \/ call[c].files # {})
    /\ UNCHANGED Serves

CleanZip(c) ==
    /\ At(c, "cleanzip")
    /\ \/ Throws(c, {}) /\ UNCHANGED broken
       \/ Throws(c, call[c].files) /\ broken' = (broken \/ call[c].files # {})
    /\ UNCHANGED Serves

(***************************************************************************)
(* Faults, and the scheduler                                               *)
(***************************************************************************)

\* A check refuses, a query throws, the gateway gives up after five seconds: the
\* caller is told 401 and what was written stays.
Fails(c) ==
    /\ call[c] # Idle /\ call[c].pc \notin InFiles
    /\ To(c, Idle)
    /\ UNCHANGED <<Serves, Files>>

Crash ==
    /\ \E c \in Calls : call[c] # Idle
    /\ call' = [c \in Calls |-> Idle]
    /\ left' = left \cup UNION {IF call[c].pc \in InFiles THEN call[c].files ELSE {} : c \in Calls}
    /\ broken' = TRUE
    /\ UNCHANGED Serves

\* processRetentionTasks of a person who asked to be deleted
Anonymize ==
    /\ topic # "files"
    /\ person' = [version |-> 0, name |-> "redacted"]
    /\ UNCHANGED <<topic, notices, active, accepted, consent, rows, call, Files>>

CallStep(c) ==
    \/ PublishReads(c) \/ PublishCommits(c) \/ AcceptFinds(c) \/ AcceptCommits(c)
    \/ RecordConsent(c) \/ RectifyWrites(c) \/ RectifyRecords(c)
    \/ ExportReads(c) \/ ExportRecords(c) \/ Answered(c)
    \/ FilesBegin(c) \/ MakeDirectory(c) \/ GenerateFiles(c) \/ MakeZip(c)
    \/ RemoveDirectory(c) \/ CleanDirectory(c) \/ CleanZip(c) \/ Fails(c)

Next == (\E c \in Calls : CallStep(c)) \/ Crash \/ Anonymize

Spec == Init /\ [][Next]_vars

(***************************************************************************)
(* Properties                                                              *)
(***************************************************************************)

\* The shape of the rows, of the calls and of the files.
TypeOK ==
    /\ topic \in {"notices", "rows", "files"}
    /\ notices \in Notices
    /\ active \subseteq 1 .. notices /\ accepted \subseteq 1 .. notices
    /\ person \in Person
    /\ consent \in {"none", "granted", "revoked"}
    /\ rows \subseteq {"rectify", "export"}
    /\ \A c \in Calls : call[c].pc \in InFiles \cup
           {"idle", "publish", "accept", "rectified", "reads", "collected", "exported", "answer"}
    /\ left \subseteq {"dir", "zip"} /\ broken \in BOOLEAN

\* publishNotice withdraws the notice before it: no more of them are active at once
\* than publications can overlap (privacy.service.ts:34).
ActiveNoticesBounded == Cardinality(active) <= Cardinality(Calls)

\* An export lists the acceptance of the notice its profile names, whatever the
\* person accepts while it is put together (privacy.service.ts:209).
ExportIsWhole ==
    \A c \in Calls : At(c, "exported") /\ call[c].data.version # 0
                        => call[c].data.version \in call[c].data.accepted

\* An export that failed leaves no file with the person's data behind, unless one
\* could not be removed or the process ended (data-export.service.ts:141).
NothingLeftBehind == left # {} => broken
==============================================================================
