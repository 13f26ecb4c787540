------------------------------- MODULE Privacy -------------------------------
(***************************************************************************)
(* Erasure of one person's data in the operator's backend                  *)
(* (legacy/control-plane-src-legacy/privacy): a deletion is requested, a   *)
(* grace period passes, and the retention scheduler queues and works off   *)
(* tasks, which swallow most of what goes wrong.  Runs of the scheduler    *)
(* overlap.                                                                *)
(***************************************************************************)
EXTENDS Naturals, Sequences

CONSTANTS
    Asked,        \* requests for deletion that are ever made
    Runs,         \* runs of the scheduler, or an operator's, at once
    MaxFaults     \* queries that fail and runs that end early

VARIABLES
    person,       \* the user's row, and whether deletedAt is older than the grace period
    asked,        \* data_subject_requests of type delete
    task,         \* retention_tasks, in the order of their creation
    run,          \* runs in flight
    faults        \* faults so far

vars == <<person, asked, task, run, faults>>

Targets == Asked \cup {"person"}
Off     == [pc |-> "off"]
Task    == [target : Targets, closes : Asked \cup {"none"},
            due : BOOLEAN, status : {"queued", "processed", "error"}]

Init ==
    /\ person = [deleted |-> FALSE, due |-> FALSE, anonymized |-> FALSE]
    /\ asked = [q \in Asked |-> "none"]
    /\ task = <<>>
    /\ run = [r \in Runs |-> Off]
    /\ faults = 0

Moves(r, next) == run' = [run EXCEPT ![r] = next]

Fault ==
    /\ faults < MaxFaults
    /\ faults' = faults + 1

\* A query that may be refused, and is swallowed when it is.
Swallowed(write, nothing) == (write /\ UNCHANGED faults) \/ (Fault /\ nothing)

(***************************************************************************)
(* The person's request                                                    *)
(***************************************************************************)

\* requestSubjectDeletion: one transaction.  deletedAt is written anew.  The
\* consents it revokes are left out, as is what a rectification writes.
RequestDeletion(q) ==
    /\ asked[q] = "none"
    /\ ~person.anonymized
    /\ asked' = [asked EXCEPT ![q] = "queued"]
    /\ person' = [person EXCEPT !.deleted = TRUE, !.due = FALSE]
    /\ task' = Append(task, [target |-> "person", closes |-> q, due |-> FALSE, status |-> "queued"])
    /\ UNCHANGED <<run, faults>>

(***************************************************************************)
(* Time                                                                    *)
(***************************************************************************)

GraceEnds ==
    /\ person.deleted /\ ~person.due
    /\ person' = [person EXCEPT !.due = TRUE]
    /\ task' = [i \in DOMAIN task |-> [task[i] EXCEPT !.due = TRUE]]
    /\ UNCHANGED <<asked, run, faults>>

\* REQUEST_RETENTION_DAYS after a request was completed
RequestAges ==
    /\ \E q \in Asked : asked[q] = "completed" /\ asked' = [asked EXCEPT ![q] = "old"]
    /\ UNCHANGED <<person, task, run, faults>>

(***************************************************************************)
(* runRetentionScan                                                        *)
(***************************************************************************)

Scan(r) ==
    /\ run[r] = Off
    /\ Moves(r, [pc |-> "ensure",
                 todo |-> {q \in Asked : asked[q] = "old"}
                            \cup (IF person.due /\ ~person.anonymized THEN {"person"} ELSE {})])
    /\ UNCHANGED <<person, asked, task, faults>>

EnsureUnlessTried(r) ==   \* mutant: any task there ever was is in the way
    /\ run[r].pc = "ensure"
    /\ \E t \in run[r].todo :
          LET rest == run[r].todo \ {t} IN
          IF \E i \in DOMAIN task : task[i].target = t
          THEN Moves(r, [pc |-> "ensure", todo |-> rest])
          ELSE Moves(r, [pc |-> "queue", target |-> t, todo |-> rest])
    /\ UNCHANGED <<person, asked, task, faults>>

\* ensureRetentionTask: a task that failed is in the way of a new one.
EnsureTask(r) ==
    /\ run[r].pc = "ensure"
    /\ \E t \in run[r].todo :
          LET rest == run[r].todo \ {t} IN
          IF \E i \in DOMAIN task : task[i].target = t /\ task[i].status \in {"queued", "error"}
          THEN Moves(r, [pc |-> "ensure", todo |-> rest])
          ELSE Moves(r, [pc |-> "queue", target |-> t, todo |-> rest])
    /\ UNCHANGED <<person, asked, task, faults>>

QueueTask(r) ==
    /\ run[r].pc = "queue"
    /\ task' = Append(task, [target |-> run[r].target, closes |-> "none",
                             due |-> TRUE, status |-> "queued"])
    /\ Moves(r, [pc |-> "ensure", todo |-> run[r].todo])
    /\ UNCHANGED <<person, asked, faults>>

(***************************************************************************)
(* processRetentionTasks                                                   *)
(***************************************************************************)

\* The tasks that are listed are worked off in the order of their creation.
TakeFirst(r, batch) ==
    IF batch = {}
    THEN Moves(r, Off)
    ELSE \E i \in batch :
            /\ \A other \in batch : i <= other
            /\ Moves(r, [pc |-> "target", at |-> i, batch |-> batch \ {i}])

ListTasks(r) ==
    /\ run[r].pc = "ensure" /\ run[r].todo = {}
    /\ TakeFirst(r, {i \in DOMAIN task : task[i].status = "queued" /\ task[i].due})
    /\ UNCHANGED <<person, asked, task, faults>>

NextPc(r, pc) == Moves(r, [run[r] EXCEPT !.pc = pc])
Current(r)    == task[run[r].at]

\* The user is anonymized, or the request that is too old deleted.
WorkOff(r) ==
    /\ run[r].pc = "target"
    /\ LET t == Current(r).target IN
       IF t = "person"
       THEN /\ Swallowed(person' = [person EXCEPT !.anonymized = TRUE],
                         UNCHANGED person)
            /\ UNCHANGED asked
       ELSE /\ Swallowed(asked' = [asked EXCEPT ![t] = "deleted"], UNCHANGED asked)
            /\ UNCHANGED person
    /\ NextPc(r, "close")
    /\ UNCHANGED task

\* The request is completed though the anonymization may have failed.
CloseRequest(r) ==
    /\ run[r].pc = "close"
    /\ LET q == Current(r).closes IN
       IF q = "none" \/ asked[q] = "deleted"
       THEN UNCHANGED <<asked, faults>>
       ELSE Swallowed(asked' = [asked EXCEPT ![q] = "completed"], UNCHANGED asked)
    /\ NextPc(r, "mark")
    /\ UNCHANGED <<person, task>>

WithStatus(r, status) ==
    task' = [task EXCEPT ![run[r].at] = [@ EXCEPT !.status = status]]

NextTask(r) == TakeFirst(r, run[r].batch)

MarkProcessed(r) ==
    /\ run[r].pc = "mark"
    /\ \/ WithStatus(r, "processed") /\ NextPc(r, "audit") /\ UNCHANGED faults
       \/ Fault /\ NextPc(r, "error") /\ UNCHANGED task
    /\ UNCHANGED <<person, asked>>

WriteAudit(r) ==
    /\ run[r].pc = "audit"
    /\ \/ NextTask(r) /\ UNCHANGED faults
       \/ Fault /\ NextPc(r, "error")
    /\ UNCHANGED <<person, asked, task>>

MarkError(r) ==
    /\ run[r].pc = "error"
    /\ Swallowed(WithStatus(r, "error"), UNCHANGED task)
    /\ NextTask(r)
    /\ UNCHANGED <<person, asked>>

\* A query outside of the try throws, or the process ends.
RunEnds(r) ==
    /\ run[r] # Off
    /\ Fault
    /\ Moves(r, Off)
    /\ UNCHANGED <<person, asked, task>>

\* What a run does next.
RunStep(r) ==
    \/ Scan(r) \/ EnsureTask(r) \/ QueueTask(r) \/ ListTasks(r)
    \/ WorkOff(r) \/ CloseRequest(r) \/ MarkProcessed(r) \/ WriteAudit(r) \/ MarkError(r)

Next ==
    \/ \E q \in Asked : RequestDeletion(q)
    \/ GraceEnds \/ RequestAges
    \/ \E r \in Runs : RunStep(r) \/ RunEnds(r)

Spec == Init /\ [][Next]_vars

\* setInterval starts a run again and again, and time passes.
Fairness == WF_vars(GraceEnds) /\ \A r \in Runs : WF_vars(RunStep(r))

FairSpec == Spec /\ Fairness

(***************************************************************************)
(* Properties                                                              *)
(***************************************************************************)

\* A run between two queries: what it has still to look at, or the task it is at.
Doing ==
    [pc : {"off"}]
        \cup [pc : {"ensure"}, todo : SUBSET Targets]
        \cup [pc : {"queue"}, target : Targets, todo : SUBSET Targets]
        \cup [pc : {"target", "close", "mark", "audit", "error"},
              at : DOMAIN task, batch : SUBSET DOMAIN task]

\* The shape of the rows and of the runs in flight.
TypeOK ==
    /\ person \in [deleted : BOOLEAN, due : BOOLEAN, anonymized : BOOLEAN]
    /\ asked \in [Asked -> {"none", "queued", "completed", "old", "deleted"}]
    /\ task \in Seq(Task)
    /\ run \in [Runs -> Doing]
    /\ faults \in 0 .. MaxFaults

Stuck == \E i \in DOMAIN task : task[i].target = "person" /\ task[i].status = "error"

\* Whoever asks to be deleted is anonymized in the end, though anonymizing may
\* fail without a trace and the request count as completed: a later scan finds
\* the user again.  Only a task that was left with status error keeps it from
\* doing so.
ErasureComes == person.deleted ~> (person.anonymized \/ Stuck)
==============================================================================
