---------------------------- MODULE LoginLockout ----------------------------
(***************************************************************************)
(* The protection of an account against wrong passwords, a counter of      *)
(* failed attempts and a lock: LoginSecurityService (shared-auth), and     *)
(* AuthService with UsersService of the legacy backend, which keep them in *)
(* columns of their own.  Between reading the row and writing it stands a  *)
(* bcrypt comparison, during which other logins go on.                     *)
(***************************************************************************)
EXTENDS Naturals

CONSTANTS
    Logins,        \* logins that may be in flight at once
    MaxAttempts,   \* MAX_ATTEMPTS, lockThreshold
    MaxWrong       \* wrong passwords in a behaviour

VARIABLES
    code,          \* which of the two
    account,       \* the row: [active, failed, locked]
    login,         \* the logins in flight
    \* history, read by properties only
    wrong,         \* wrong passwords so far
    tries          \* recorded wrong passwords since the counter or the lock was last taken back

vars == <<code, account, login, wrong, tries>>

Idle  == [pc |-> "idle", read |-> 0]
Login == [pc : {"idle", "compare", "reread", "fail", "succeed"}, read : 0 .. MaxWrong]

Init ==
    /\ code \in {"shared", "legacy"}
    /\ account = [active |-> TRUE, failed |-> 0, locked |-> FALSE]
    /\ login = [c \in Logins |-> Idle]
    /\ wrong = 0
    /\ tries = 0

Goto(c, pc) == login' = [login EXCEPT ![c].pc = pc]
Ends(c)     == login' = [login EXCEPT ![c] = Idle]

\* verifyOperatorLogin, verifyTenantUserLogin and AuthService.login: lockedUntil
\* is in the past, and the row active.
FindAccount(c) ==
    /\ login[c] = Idle
    /\ account.active /\ ~account.locked
    /\ login' = [login EXCEPT ![c] = [pc |-> "compare", read |-> account.failed]]
    /\ UNCHANGED <<code, account, wrong, tries>>

RightPassword(c) ==
    /\ login[c].pc = "compare"
    /\ Goto(c, "succeed")
    /\ UNCHANGED <<code, account, wrong, tries>>

\* handleFailedLogin of the legacy backend reads the row again.
WrongPassword(c) ==
    /\ login[c].pc = "compare"
    /\ wrong < MaxWrong
    /\ Goto(c, IF code = "legacy" THEN "reread" ELSE "fail")
    /\ wrong' = wrong + 1
    /\ UNCHANGED <<code, account, tries>>

ReadAgain(c) ==
    /\ login[c].pc = "reread"
    /\ login' = [login EXCEPT ![c].pc = "fail", ![c].read = account.failed]
    /\ UNCHANGED <<code, account, wrong, tries>>

LocksAbove(n) == n > MaxAttempts   \* mutant: > for >=

LocksAt(n) == n >= MaxAttempts

\* The counter is the one that was read, plus one; lockedUntil is null when it
\* is short of the threshold.
RecordFailure(c) ==
    /\ login[c].pc = "fail"
    /\ LET n == login[c].read + 1 IN
       account' = [account EXCEPT !.failed = n, !.locked = LocksAt(n)]
    /\ Ends(c)
    /\ tries' = tries + 1
    /\ UNCHANGED <<code, wrong>>

\* The legacy login resets the counter before it asks for the second factor.
RecordSuccess(c) ==
    /\ login[c].pc = "succeed"
    /\ account' = [account EXCEPT !.failed = 0, !.locked = FALSE]
    /\ Ends(c)
    /\ tries' = 0
    /\ UNCHANGED <<code, wrong>>

\* An await of a login throws.
LoginFails(c) ==
    /\ login[c] # Idle
    /\ Ends(c)
    /\ UNCHANGED <<code, account, wrong, tries>>

\* unlockOperator, unlockTenantUser; resetPassword, and activate
Unlock ==
    /\ \E a \in {account.active, TRUE} :
           account' = [active |-> a, failed |-> 0, locked |-> FALSE]
    /\ tries' = 0
    /\ UNCHANGED <<code, login, wrong>>

Deactivate ==
    /\ code = "legacy"
    /\ account.active
    /\ account' = [account EXCEPT !.active = FALSE]
    /\ UNCHANGED <<code, login, wrong, tries>>

\* lockedUntil passes; the counter stays.
LockEnds ==
    /\ account.locked
    /\ account' = [account EXCEPT !.locked = FALSE]
    /\ tries' = 0
    /\ UNCHANGED <<code, login, wrong>>

Next ==
    \/ \E c \in Logins :
           \/ FindAccount(c) \/ RightPassword(c) \/ WrongPassword(c) \/ ReadAgain(c)
           \/ RecordFailure(c) \/ RecordSuccess(c) \/ LoginFails(c)
    \/ Unlock \/ Deactivate \/ LockEnds

Spec == Init /\ [][Next]_vars

(***************************************************************************)
(* Properties                                                              *)
(***************************************************************************)

\* The shape of the row and of the logins; the counter counts wrong passwords.
TypeOK ==
    /\ code \in {"shared", "legacy"}
    /\ account \in [active : BOOLEAN, failed : 0 .. wrong, locked : BOOLEAN]
    /\ login \in [Logins -> Login]
    /\ wrong \in 0 .. MaxWrong
    /\ tries \in 0 .. wrong

\* "Tracks failed login attempts and locks accounts after threshold"
\* (packages/shared-auth/src/services/login-security.service.ts:7).  Two logins
\* at a time can undo each other's counting and even the lock, but not for ever:
\* the account takes no more wrong passwords than this between two resets.  (One
\* login at a time: MaxAttempts.)
FailuresBounded == tries <= (MaxAttempts * (MaxAttempts + 3)) \div 2
=============================================================================
