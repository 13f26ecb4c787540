----------------------------- MODULE DataDeletion -----------------------------
(***************************************************************************)
(* The GDPR deletion service of the operator's backend                     *)
(* (legacy/control-plane-src-legacy/compliance/gdpr): requests to delete   *)
(* one user's data are verified or cancelled, carried out step by step,    *)
(* and recorded as COMPLETED or FAILED.  Calls overlap, queries fail and   *)
(* the process may end.                                                    *)
(***************************************************************************)
EXTENDS Naturals, FiniteSets

CONSTANTS
    Deletions,    \* access_requests of type DATA_DELETION
    Exports,      \* access_requests of type DATA_EXPORT
    Callers,      \* verifications and cancellations in flight at once
    Jobs          \* runs of processDeletion at once

VARIABLES
    user,         \* the user's row
    request,      \* status of each access request
    held,         \* an active legal hold or investigation
    call,         \* verifications and cancellations
    job,          \* runs of processDeletion
    done          \* history: the steps that were carried out on the user

vars == <<user, request, held, call, job, done>>

Requests == Deletions \cup Exports
Quiet    == [pc |-> "quiet"]
Steps    == {"deactivate", "mfa", "requests", "profile"}

Init ==
    /\ user = [there |-> TRUE, status |-> "ACTIVE", mfa |-> TRUE, deletedAt |-> "never"]
    /\ request = [q \in Requests |-> "none"]
    /\ held \in BOOLEAN
    /\ call = [c \in Callers |-> Quiet]
    /\ job = [j \in Jobs |-> Quiet]
    /\ done = {}

Calls(c, next) == call' = [call EXCEPT ![c] = next]
Works(j, next) == job' = [job EXCEPT ![j] = next]
Record(q, status) == request' = [request EXCEPT ![q] = status]

(***************************************************************************)
(* Requests                                                                *)
(***************************************************************************)

\* processDeletion is called and not awaited.
Launch(q) == \E j \in Jobs : job[j] = Quiet /\ Works(j, [pc |-> "deactivate", of |-> q])

\* requestUserDataDeletion: the only place that looks at legal holds.
RequestDeletion(q) ==
    /\ user.there /\ ~held
    /\ request[q] = "none"
    /\ \/ Record(q, "PENDING") /\ UNCHANGED job
       \/ Record(q, "PROCESSING") /\ Launch(q)
    /\ UNCHANGED <<user, held, call, done>>

\* scheduleDataExport: nothing in the code ever carries it out.
ScheduleExport(q) ==
    /\ request[q] = "none"
    /\ Record(q, "PENDING")
    /\ UNCHANGED <<user, held, call, job, done>>

HoldChanges ==
    /\ held' = ~held
    /\ UNCHANGED <<user, request, call, job, done>>

\* verifyDeletionRequest and cancelDeletionRequest find a PENDING request ...
FindPending(c) ==
    /\ call[c] = Quiet
    /\ \E q \in Deletions, pc \in {"verify", "cancel"} :
          request[q] = "PENDING" /\ Calls(c, [pc |-> pc, of |-> q])
    /\ UNCHANGED <<user, request, held, job, done>>

\* ... and write without looking again.
Verify(c) ==
    /\ call[c].pc = "verify"
    /\ Record(call[c].of, "PROCESSING")
    /\ Launch(call[c].of)
    /\ Calls(c, Quiet)
    /\ UNCHANGED <<user, held, done>>

Cancel(c) ==
    /\ call[c].pc = "cancel"
    /\ Record(call[c].of, "CANCELLED")
    /\ Calls(c, Quiet)
    /\ UNCHANGED <<user, held, job, done>>

CallFails(c) ==
    /\ call[c] # Quiet
    /\ Calls(c, Quiet)
    /\ UNCHANGED <<user, request, held, job, done>>

(***************************************************************************)
(* processDeletion; invalidateUserSessions and anonymizeConsents only log  *)
(***************************************************************************)

StepDone(j, step, next) ==
    /\ Works(j, [job[j] EXCEPT !.pc = next])
    /\ done' = done \cup {step}

DeactivateThenRequests(j) ==   \* mutant: the access requests come before MFA
    /\ job[j].pc = "deactivate"
    /\ user.there
    /\ user' = [user EXCEPT !.status = "DELETED"]
    /\ StepDone(j, "deactivate", "mfa")
    /\ request' = [q \in Requests |-> IF request[q] = "none" THEN "none" ELSE "COMPLETED"]
    /\ UNCHANGED <<held, call>>

Deactivate(j) ==
    /\ job[j].pc = "deactivate"
    /\ user.there
    /\ user' = [user EXCEPT !.status = "DELETED"]
    /\ StepDone(j, "deactivate", "mfa")
    /\ UNCHANGED <<request, held, call>>

RemoveMfa(j) ==
    /\ job[j].pc = "mfa"
    /\ user.there
    /\ user' = [user EXCEPT !.mfa = FALSE]
    /\ StepDone(j, "mfa", "requests")
    /\ UNCHANGED <<request, held, call>>

\* processAccessRequests: every request of the user, of whatever type and status.
CompleteRequests(j) ==
    /\ job[j].pc = "requests"
    /\ request' = [q \in Requests |-> IF request[q] = "none" THEN "none" ELSE "COMPLETED"]
    /\ StepDone(j, "requests", "profile")
    /\ UNCHANGED <<user, held, call>>

SoftDelete(j) ==
    /\ job[j].pc = "profile"
    /\ user.there
    /\ user' = [user EXCEPT !.status = "DELETED", !.deletedAt = "recently"]
    /\ StepDone(j, "profile", "COMPLETED")
    /\ UNCHANGED <<request, held, call>>

\* A step that throws, as an update of a row that is gone does.
StepFails(j) ==
    /\ job[j].pc \in Steps
    /\ Works(j, [job[j] EXCEPT !.pc = "FAILED"])
    /\ UNCHANGED <<user, request, held, call, done>>

RecordResult(j) ==
    /\ job[j].pc \in {"COMPLETED", "FAILED"}
    /\ Record(job[j].of, job[j].pc)
    /\ Works(j, Quiet)
    /\ UNCHANGED <<user, held, call, done>>

\* The last update throws, or the process ends: the request stays as it is.
JobEnds(j) ==
    /\ job[j] # Quiet
    /\ Works(j, Quiet)
    /\ UNCHANGED <<user, request, held, call, done>>

(***************************************************************************)
(* What becomes of the row                                                 *)
(***************************************************************************)

\* UsersService.activate and an enrolment ask for no status.
Reactivate ==
    /\ user.there
    /\ user' = [user EXCEPT !.status = "ACTIVE", !.mfa = TRUE]
    /\ UNCHANGED <<request, held, call, job, done>>

RetentionPasses ==
    /\ user.deletedAt = "recently"
    /\ user' = [user EXCEPT !.deletedAt = "years ago"]
    /\ UNCHANGED <<request, held, call, job, done>>

PermanentDeletion ==
    /\ user.there /\ user.status = "DELETED" /\ user.deletedAt = "years ago"
    /\ user' = [user EXCEPT !.there = FALSE]
    /\ UNCHANGED <<request, held, call, job, done>>

Next ==
    \/ \E q \in Deletions : RequestDeletion(q)
    \/ \E q \in Exports : ScheduleExport(q)
    \/ HoldChanges
    \/ \E c \in Callers : FindPending(c) \/ Verify(c) \/ Cancel(c) \/ CallFails(c)
    \/ \E j \in Jobs : Deactivate(j) \/ RemoveMfa(j) \/ CompleteRequests(j) \/ SoftDelete(j)
                           \/ StepFails(j) \/ RecordResult(j) \/ JobEnds(j)
    \/ Reactivate \/ RetentionPasses \/ PermanentDeletion

Spec == Init /\ [][Next]_vars

(***************************************************************************)
(* Properties                                                              *)
(***************************************************************************)

\* The shape of the rows and of what is in flight.
TypeOK ==
    /\ user \in [there : BOOLEAN, status : {"ACTIVE", "DELETED"}, mfa : BOOLEAN,
                 deletedAt : {"never", "recently", "years ago"}]
    /\ request \in [Requests -> {"none", "PENDING", "PROCESSING", "COMPLETED",
                                 "CANCELLED", "FAILED"}]
    /\ held \in BOOLEAN
    /\ call \in [Callers -> {Quiet} \cup [pc : {"verify", "cancel"}, of : Deletions]]
    /\ job \in [Jobs -> {Quiet} \cup [pc : Steps \cup {"COMPLETED", "FAILED"}, of : Deletions]]
    /\ done \subseteq Steps

\* Whichever of overlapping deletions fail or end half-way, a deletion that
\* says COMPLETED, its own run or another's having said so, stands for a user
\* who was deactivated and rid of MFA.
CompletedWasCarriedOut ==
    (\E q \in Deletions : request[q] = "COMPLETED") => {"deactivate", "mfa"} \subseteq done
==============================================================================
