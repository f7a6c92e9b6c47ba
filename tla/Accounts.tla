------------------------------ MODULE Accounts ------------------------------
(***************************************************************************)
(* From an e-mail address to an account: UserService.register, the lookup  *)
(* that starts AuthService.login, and the audit records both leave.        *)
(*                                                                         *)
(* It refines LoginLockout by superposition: each action on the counter    *)
(* and the lock is that module's, together with the code around it, so     *)
(* what holds there holds here (AccountsProofs).  What login does after    *)
(* its last UPDATE, and all that register does, is the worker's job; while *)
(* it has one, LoginLockout sees the worker idle.                          *)
(*                                                                         *)
(* Everything is about one address, which clients may write in several     *)
(* ways.  A spelling of it is the set of its departures from the plain     *)
(* one: blanks around it, upper case before the @ or after it.  Three      *)
(* places take some of them away, and none of them the same ones.  Any     *)
(* number of rows could hold the address: only the code and the unique     *)
(* index keep it to one.  attempts and lockedUntil are that row's columns, *)
(* and have a new row's values while there is none.                        *)
(***************************************************************************)
EXTENDS LoginLockout

CONSTANTS
    Rows,           \* ids a users row may get
    None,           \* no row, no address
    MaxUnlogged     \* bound: requests that die owing a failure record

Marks     == {"blanks", "upper_local", "upper_domain"}
Spellings == SUBSET Marks

ASSUME NoneIsNoSpelling == \A a \in Spellings : a # None

VARIABLES
    users,          \* users[r]: the email column of row r, None while r is not in the table
    active,         \* users.is_active
    job,            \* job[w]: what worker w does besides req[w]
    registered,     \* audit_logs: rows with a user.register record
    failures,       \* audit_logs: failure records with a user_id, see Forget
    orphaned,       \* history: rows whose registration died before its record
    unlogged        \* history: failures counted whose request died before its record

tables   == <<users, active>>
records  == <<registered, failures>>
ledger   == <<failures, unlogged>>
accounts == <<users, active, job, registered, failures, orphaned, unlogged>>

NoJob  == [pc |-> "none", email |-> None, row |-> None]
JobPCs == {"none", "check_email", "create", "log_register", "log_failed", "log"}
Job    == [pc : JobPCs, email : {None} \cup Spellings, row : Rows \cup {None}]

On(w, pc)   == job[w].pc = pc
Idle(w)     == On(w, "none") /\ At(w, "idle")
Owe(w, pc)  == job' = [job EXCEPT ![w].pc = pc]
Finish(w)   == job' = [job EXCEPT ![w] = NoJob]

\* str.strip and str.lower.  EmailStr strips, and lowers the domain only.
Strip(a)     == a \ {"blanks"}
LowerCase(a) == a \ {"upper_local", "upper_domain"}
EmailStr(a)  == a \ {"blanks", "upper_domain"}

\* What register is given: normalize_email runs before EmailStr.  login has no
\* validator of its own.
NormalizeEmail(a) == LowerCase(Strip(a))
RegisterEmail(a)  == EmailStr(NormalizeEmail(a))
LoginEmail(a)     == EmailStr(a)

RegisterEmails == {RegisterEmail(a) : a \in Spellings}
LoginEmails    == {LoginEmail(a) : a \in Spellings}

\* The rows with exactly e in their email column.
Holding(e) == {r \in Rows : users[r] = e}

\* Mutant: the lookup trusts the schema to have lowered the address.
FoundAsGiven(a) == Holding(a)

\* get_by_email.
Found(a) == Holding(LowerCase(a))

\* What login's lookup can return, over every way to write the address.
Lookups == {Found(e) : e \in LoginEmails}

\* Failures counted whose record is still to be written.
Owing == {w \in Workers : On(w, "log_failed") \/ At(w, "lock")}

\* The counter was cleared: from here, count only the records of failures that
\* come after.  Those still owed for earlier ones will bring this to 0.
Forget ==
    /\ failures' = -Cardinality(Owing)
    /\ unlogged' = 0

Exists == \E r \in Rows : users[r] # None

\* The last conjunct: the columns are a new row's while there is no row.
AccountsTypeOK ==
    /\ users \in [Rows -> {None} \cup Spellings]
    /\ active \in BOOLEAN
    /\ job \in [Workers -> Job]
    /\ registered \subseteq Rows
    /\ failures \in Int
    /\ orphaned \subseteq Rows
    /\ unlogged \in Nat
    /\ ~Exists => attempts = 0 /\ lockedUntil = NULL

AccountsInit ==
    /\ Init
    /\ users = [r \in Rows |-> None]
    /\ active = TRUE
    /\ job = [w \in Workers |-> NoJob]
    /\ registered = {}
    /\ failures = 0
    /\ orphaned = {}
    /\ unlogged = 0

-----------------------------------------------------------------------------
(* POST /users/register *)

\* A request that passes validation, and the address validation leaves of it.
ReceiveRegister(w) == \E e \in RegisterEmails :
    /\ Idle(w)
    /\ job' = [job EXCEPT ![w] = [NoJob EXCEPT !.pc = "check_email", !.email = e]]
    /\ UNCHANGED <<vars, tables, records, orphaned, unlogged>>

\* get_by_email found a row: 409.
EmailTaken(w) ==
    /\ On(w, "check_email")
    /\ Found(job[w].email) # {}
    /\ Finish(w)
    /\ UNCHANGED <<vars, tables, records, orphaned, unlogged>>

\* It found none: hash_password, and on to the INSERT.
EmailFree(w) ==
    /\ On(w, "check_email")
    /\ Found(job[w].email) = {}
    /\ Owe(w, "create")
    /\ UNCHANGED <<vars, tables, records, orphaned, unlogged>>

\* Mutants: the new row is not read back; the record is left to the caller.
CreateUserUnread(w) == \E r \in Rows :
    /\ On(w, "create")
    /\ Holding(LowerCase(job[w].email)) = {}
    /\ users[r] = None
    /\ users' = [users EXCEPT ![r] = LowerCase(job[w].email)]
    /\ Owe(w, "log_register")
    /\ UNCHANGED <<vars, active, records, orphaned, unlogged>>
CreateUserUnrecorded(w) == \E r \in Rows :
    /\ On(w, "create")
    /\ Holding(LowerCase(job[w].email)) = {}
    /\ users[r] = None
    /\ users' = [users EXCEPT ![r] = LowerCase(job[w].email)]
    /\ Finish(w)
    /\ UNCHANGED <<vars, active, records, orphaned, unlogged>>

\* repo.create, under the unique index ix_users_email.
CreateUser(w) == \E r \in Rows :
    /\ On(w, "create")
    /\ Holding(LowerCase(job[w].email)) = {}
    /\ users[r] = None
    /\ users' = [users EXCEPT ![r] = LowerCase(job[w].email)]
    /\ job' = [job EXCEPT ![w].pc = "log_register", ![w].row = r]
    /\ UNCHANGED <<vars, active, records, orphaned, unlogged>>

\* The index refuses a second row for the address: IntegrityError, rollback, 500.
CreateConflict(w) ==
    /\ On(w, "create")
    /\ Holding(LowerCase(job[w].email)) # {}
    /\ Finish(w)
    /\ UNCHANGED <<vars, tables, records, orphaned, unlogged>>

\* _write_audit_log, and 201.
LogRegister(w) ==
    /\ On(w, "log_register")
    /\ registered' = registered \cup {job[w].row}
    /\ Finish(w)
    /\ UNCHANGED <<vars, tables, failures, orphaned, unlogged>>

\* UserRepository.deactivate, which no route calls yet: an operator.
Deactivate ==
    /\ active
    /\ Exists
    /\ active' = FALSE
    /\ UNCHANGED <<vars, users, job, records, orphaned, unlogged>>

-----------------------------------------------------------------------------
(* POST /auth/login and the requests that issue a pair *)

ReceiveCredentials(w) ==
    /\ Idle(w)
    /\ ReceiveLogin(w)
    /\ UNCHANGED accounts

\* A refresh or an MFA verification: its token names the row.
ReceiveToken(w) ==
    /\ Idle(w)
    /\ Exists
    /\ ReceiveOther(w)
    /\ UNCHANGED accounts

\* get_by_email finds nothing: a record without a user_id, and 401.
NotFound(w) == \E rows \in Lookups :
    /\ rows = {}
    /\ Unknown(w)
    /\ Owe(w, "log")
    /\ UNCHANGED <<tables, records, orphaned, unlogged>>

\* 403 account_disabled, which leaves no record.
Disabled(w) == \E rows \in Lookups :
    /\ rows # {}
    /\ ~active
    /\ Unknown(w)
    /\ UNCHANGED accounts

\* The row is there: the tests of locked_until; 403 account_locked leaves no record.
FoundUser(w) == \E rows \in Lookups :
    /\ rows # {}
    /\ active
    /\ GetUser(w)
    /\ UNCHANGED accounts

ResetExpired(w) ==
    /\ Reset(w)
    /\ Forget
    /\ UNCHANGED <<tables, job, registered, orphaned>>

\* Mutant: only an attempt that locks the account is recorded.
WrongPasswordUnrecorded(w) ==
    /\ Increment(w)
    /\ UNCHANGED accounts

\* Below the limit the count is followed by the record of it; at the limit the
\* lock comes first.
WrongPassword(w) ==
    /\ Increment(w)
    /\ IF At(w, "lock")' THEN UNCHANGED job ELSE Owe(w, "log_failed")
    /\ UNCHANGED <<tables, records, orphaned, unlogged>>

LockAccount(w) ==
    /\ LockUser(w)
    /\ Owe(w, "log_failed")
    /\ UNCHANGED <<tables, records, orphaned, unlogged>>

\* Right password: with MFA on, a record of the mfa_token.
RightPassword(w) ==
    /\ Accept(w)
    /\ IF At(w, "idle")' THEN Owe(w, "log") ELSE UNCHANGED job
    /\ UNCHANGED <<tables, records, orphaned, unlogged>>

\* The end of _issue_token_pair, and the record of the sign-in.
SignIn(w) ==
    /\ UpdateLastLogin(w)
    /\ Forget
    /\ Owe(w, "log")
    /\ UNCHANGED <<tables, registered, orphaned>>

\* _log_failed_login with the user's id, and the answer.
LogFailed(w) ==
    /\ On(w, "log_failed")
    /\ failures' = failures + 1
    /\ Finish(w)
    /\ UNCHANGED <<vars, tables, registered, orphaned, unlogged>>

\* A record of anything else, and the answer.
LogOther(w) ==
    /\ On(w, "log")
    /\ Finish(w)
    /\ UNCHANGED <<vars, tables, records, orphaned, unlogged>>

-----------------------------------------------------------------------------
\* The process dies, or the client goes away, before a commit of LoginLockout's ...
CrashBusy(w) ==
    /\ Crash(w)
    /\ IF w \in Owing THEN unlogged < MaxUnlogged /\ unlogged' = unlogged + 1 ELSE UNCHANGED unlogged
    /\ UNCHANGED <<tables, job, records, orphaned>>

\* ... or before one of the others.
CrashJob(w) ==
    /\ ~On(w, "none")
    /\ IF w \in Owing THEN unlogged < MaxUnlogged /\ unlogged' = unlogged + 1 ELSE UNCHANGED unlogged
    /\ orphaned' = IF On(w, "log_register") THEN orphaned \cup {job[w].row} ELSE orphaned
    /\ Finish(w)
    /\ UNCHANGED <<vars, tables, records>>

Register(w) ==
    \/ ReceiveRegister(w) \/ EmailTaken(w) \/ EmailFree(w)
    \/ CreateUser(w) \/ CreateConflict(w) \/ LogRegister(w)

Login(w) ==
    \/ ReceiveCredentials(w) \/ ReceiveToken(w)
    \/ NotFound(w) \/ Disabled(w) \/ FoundUser(w)
    \/ ResetExpired(w) \/ WrongPassword(w) \/ LockAccount(w)
    \/ RightPassword(w) \/ SignIn(w) \/ LogFailed(w) \/ LogOther(w)

AccountsNext ==
    \/ \E w \in Workers : Register(w) \/ Login(w) \/ CrashBusy(w) \/ CrashJob(w)
    \/ Deactivate
    \/ Tick /\ UNCHANGED accounts

AccountsSpec == AccountsInit /\ [][AccountsNext]_<<vars, accounts>>

-----------------------------------------------------------------------------
(* Properties *)

\* However many registrations of an address overlap, and however its owner
\* writes it, it names one account: every spelling of it, given to register or
\* to login, finds the one row there is.  The index alone does not see to that:
\* it compares what create stored, get_by_email compares what it was given, and
\* the schemas of the two requests leave different departures in.
OneAccount ==
    \A r \in Rows : users[r] # None =>
        \A e \in RegisterEmails \cup LoginEmails : Found(e) = {r}

\* An account has the audit record of its registration, unless register is
\* still to write it or died between the two commits.
RegistrationRecorded ==
    \A r \in Rows : users[r] # None =>
        \/ r \in registered \cup orphaned
        \/ \E w \in Workers : On(w, "log_register") /\ job[w].row = r

\* The audit log and the counter tell the same story: since the counter was
\* last cleared, every failure it counts has its record, is about to get it,
\* or lost it to a death; and nothing is recorded twice.
FailuresRecorded ==
    attempts = failures + Cardinality(Owing) + unlogged
=============================================================================
