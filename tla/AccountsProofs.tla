--------------------------- MODULE AccountsProofs ---------------------------
(***************************************************************************)
(* Accounts refines LoginLockout, so the lockout's invariants hold with    *)
(* registration, the lookup and the audit log around it; and an address    *)
(* names one account, for any number of requests, row ids and spellings.   *)
(*                                                                         *)
(* OneAccount is not inductive.  That every spelling finds the row needs   *)
(* all of what the schemas and the repository take away from a spelling    *)
(* to come to the same, for register and for login, and rows to hold that  *)
(* and nothing else; that it is the only row needs the index.              *)
(* FailuresRecorded needs to know that a worker is never at both a step of *)
(* login and a job.                                                        *)
(***************************************************************************)
EXTENDS Accounts, LoginLockoutProofs

\* The address with nothing around it and nothing in upper case.
Plain == {}

\* What is stored is plain, and in one row.
Stored ==
    /\ \A r \in Rows : users[r] # None => users[r] = Plain
    /\ \A r, s \in Rows : users[r] # None /\ users[s] # None => r = s

\* A worker with a job has done with the counter and the lock.
OneTask == \A w \in Workers : At(w, "idle") \/ On(w, "none")

\* A registration that owes its record has made its row.
JobHasRow == \A w \in Workers : On(w, "log_register") => job[w].row \in Rows

\* What register checks and writes is plain.
JobHasEmail == \A w \in Workers : On(w, "check_email") \/ On(w, "create") => job[w].email = Plain

\* Before there is a row no request gets past the lookup.
NothingBefore ==
    ~Exists => \A w \in Workers : At(w, "idle") \/ At(w, "get_user")

AInv ==
    /\ AccountsTypeOK /\ Stored /\ OneTask /\ JobHasRow /\ JobHasEmail /\ NothingBefore
    /\ RegistrationRecorded

avars == <<vars, accounts>>

-----------------------------------------------------------------------------
(* The refinement. *)

\* What Accounts adds to a step of LoginLockout leaves that step as it was;
\* every other step is a stutter there.
LEMMA AccountsStep == [AccountsNext]_avars => [Next]_vars
<1> SUFFICES ASSUME AccountsNext PROVE [Next]_vars
  BY DEF avars, accounts
<1>1. ASSUME NEW w \in Workers, Register(w) PROVE [Next]_vars
  <2>1. CASE ReceiveRegister(w)  BY <2>1 DEF ReceiveRegister
  <2>2. CASE EmailTaken(w)  BY <2>2 DEF EmailTaken
  <2>3. CASE EmailFree(w)  BY <2>3 DEF EmailFree
  <2>4. CASE CreateUser(w)  BY <2>4 DEF CreateUser
  <2>5. CASE CreateConflict(w)  BY <2>5 DEF CreateConflict
  <2>6. CASE LogRegister(w)  BY <2>6 DEF LogRegister
  <2> QED  BY <1>1, <2>1, <2>2, <2>3, <2>4, <2>5, <2>6 DEF Register
<1>2. ASSUME NEW w \in Workers, Login(w) PROVE [Next]_vars
  <2>1. CASE ReceiveCredentials(w)  BY <2>1 DEF ReceiveCredentials, Next
  <2>2. CASE ReceiveToken(w)  BY <2>2 DEF ReceiveToken, Next
  <2>3. CASE NotFound(w)  BY <2>3 DEF NotFound, Next, Step
  <2>4. CASE Disabled(w)  BY <2>4 DEF Disabled, Next, Step
  <2>5. CASE FoundUser(w)  BY <2>5 DEF FoundUser, Next, Step
  <2>6. CASE ResetExpired(w)  BY <2>6 DEF ResetExpired, Next, Step
  <2>7. CASE WrongPassword(w)  BY <2>7 DEF WrongPassword, Next, Step
  <2>8. CASE LockAccount(w)  BY <2>8 DEF LockAccount, Next, Step
  <2>9. CASE RightPassword(w)  BY <2>9 DEF RightPassword, Next, Step
  <2>10. CASE SignIn(w)  BY <2>10 DEF SignIn, Next, Step
  <2>11. CASE LogFailed(w)  BY <2>11 DEF LogFailed
  <2>12. CASE LogOther(w)  BY <2>12 DEF LogOther
  <2> QED
    BY <1>2, <2>1, <2>2, <2>3, <2>4, <2>5, <2>6, <2>7, <2>8, <2>9, <2>10, <2>11, <2>12 DEF Login
<1>3. ASSUME NEW w \in Workers, CrashBusy(w) PROVE [Next]_vars
  BY <1>3 DEF CrashBusy, Next
<1>4. ASSUME NEW w \in Workers, CrashJob(w) PROVE [Next]_vars
  BY <1>4 DEF CrashJob
<1>5. CASE Deactivate  BY <1>5 DEF Deactivate
<1>6. CASE Tick  BY <1>6 DEF Next
<1> QED  BY <1>1, <1>2, <1>3, <1>4, <1>5, <1>6 DEF AccountsNext

\* The counter and the lock go through nothing LoginLockout does not allow.
THEOREM AccountsRefineLockout == AccountsSpec => Spec
<1>1. AccountsInit => Init  BY DEF AccountsInit
<1> QED  BY <1>1, AccountsStep, PTL DEF AccountsSpec, Spec, avars

\* With registration, the lookup and the audit log around it: an account at
\* the limit is locked, about to be, or lost its lock to a death.
THEOREM AccountsThresholdLocks == AccountsSpec => []ThresholdLocks
BY AccountsRefineLockout, ThresholdLocksHolds, PTL

\* ... parallel logins overshoot the limit by no more than their number.
THEOREM AccountsAttemptsBounded == AccountsSpec => []AttemptsBounded
BY AccountsRefineLockout, AttemptsBoundedHolds, PTL

\* ... and a lock answers a full count, or one cleared since it was computed.
THEOREM AccountsLockIsEarned == AccountsSpec => []LockIsEarned
BY AccountsRefineLockout, LockIsEarnedHolds, PTL

\* ... a lock that nobody is past when it is written, and that no other way of
\* signing in goes round, stands until it lapses.
THEOREM AccountsLockHolds == AccountsSpec /\ [][LocksUnopposed]_vars => LockHolds
BY AccountsRefineLockout, LockHoldsUnopposed, PTL

\* ... and lapses: no lock reaches further than LOCKOUT_DURATION_SECONDS.
THEOREM AccountsLockoutLapses == AccountsSpec => [](lockedUntil <= now + LockoutDuration)
BY AccountsRefineLockout, LockoutLapses, PTL

-----------------------------------------------------------------------------
(* One row, found however it is spelled. *)

\* What validation and the repository take away, together, is everything, by
\* either way in.  login's schema leaves upper case before the @: there it is
\* get_by_email that matters.
LEMMA SpellingsAgree ==
    /\ Plain \in Spellings /\ LowerCase(Plain) = Plain
    /\ \A e \in RegisterEmails : e = Plain
    /\ \A e \in RegisterEmails \cup LoginEmails : LowerCase(e) = Plain
BY DEF Plain, RegisterEmails, LoginEmails, Spellings, Marks, RegisterEmail, NormalizeEmail, LoginEmail, EmailStr, LowerCase, Strip

\* With no row there is nothing to look up.
LEMMA NothingToFind ==
    ASSUME ~Exists
    PROVE  /\ \A rows \in Lookups : rows = {}
           /\ Holding(Plain) = {}
BY SpellingsAgree, NoneIsNoSpelling DEF Exists, Lookups, Found, Holding

LEMMA InitAInv == AccountsInit => AInv
<1> SUFFICES ASSUME AccountsInit PROVE AInv
  OBVIOUS
<1> USE DEF AccountsInit, Init, NoJob, NoRequest, NULL, At, On, Exists
<1>1. AccountsTypeOK  BY DEF AccountsTypeOK, Job, JobPCs
<1>2. Stored /\ OneTask /\ JobHasRow /\ JobHasEmail /\ NothingBefore
  BY DEF Stored, OneTask, JobHasRow, JobHasEmail, NothingBefore
<1>3. RegistrationRecorded  BY DEF RegistrationRecorded
<1> QED  BY <1>1, <1>2, <1>3 DEF AInv

\* Only CreateUser writes a row.
LEMMA UsersStep ==
    [AccountsNext]_avars => users' = users \/ \E w \in Workers : CreateUser(w)
BY DEF avars, accounts, tables, records, AccountsNext, Register, Login, ReceiveRegister,
       EmailTaken, EmailFree, CreateConflict, LogRegister, ReceiveCredentials, ReceiveToken,
       NotFound, Disabled, FoundUser, ResetExpired, WrongPassword, LockAccount, RightPassword,
       SignIn, LogFailed, LogOther, CrashBusy, CrashJob, Deactivate

LEMMA StoredStep == AInv /\ [AccountsNext]_avars => Stored'
<1> SUFFICES ASSUME AInv, [AccountsNext]_avars PROVE Stored'
  OBVIOUS
<1>1. Stored /\ JobHasEmail /\ users \in [Rows -> {None} \cup Spellings]  BY DEF AInv, AccountsTypeOK
<1>2. CASE users' = users  BY <1>1, <1>2 DEF Stored
<1>3. ASSUME NEW w \in Workers, CreateUser(w) PROVE Stored'
  <2>1. PICK r \in Rows : Holding(Plain) = {} /\ users' = [users EXCEPT ![r] = Plain]
    BY <1>1, <1>3, SpellingsAgree DEF CreateUser, JobHasEmail
  <2>2. \A s \in Rows : users[s] = None  BY <1>1, <2>1 DEF Holding, Stored
  <2> QED  BY <1>1, <2>1, <2>2 DEF Stored
<1> QED  BY <1>2, <1>3, UsersStep

\* ReceiveLogin and ReceiveOther need an idle worker, register a worker with
\* no request, and what follows a job's first step is only the job's.
LEMMA OneTaskStep == TypeOK /\ AInv /\ [AccountsNext]_avars => OneTask'
<1> SUFFICES ASSUME TypeOK, AInv, [AccountsNext]_avars PROVE OneTask'
  OBVIOUS
<1>1. /\ req \in [Workers -> Request] /\ job \in [Workers -> Job] /\ OneTask
  BY DEF AInv, AccountsTypeOK, TypeOK
<1> USE <1>1 DEF OneTask, Request, Job, NoJob, NoRequest, At, On, Idle, Goto, Reply, Owe, Finish,
        vars, accounts, tables, records
<1>2. ASSUME NEW w \in Workers, Register(w) PROVE OneTask'
  <2>1. CASE ReceiveRegister(w)  BY <2>1 DEF ReceiveRegister
  <2>2. CASE EmailTaken(w)  BY <2>2 DEF EmailTaken
  <2>3. CASE EmailFree(w)  BY <2>3 DEF EmailFree
  <2>4. CASE CreateUser(w)  BY <2>4 DEF CreateUser
  <2>5. CASE CreateConflict(w)  BY <2>5 DEF CreateConflict
  <2>6. CASE LogRegister(w)  BY <2>6 DEF LogRegister
  <2> QED  BY <1>2, <2>1, <2>2, <2>3, <2>4, <2>5, <2>6 DEF Register
<1>3. ASSUME NEW w \in Workers, Login(w) PROVE OneTask'
  <2>1. CASE ReceiveCredentials(w)  BY <2>1 DEF ReceiveCredentials, ReceiveLogin
  <2>2. CASE ReceiveToken(w)  BY <2>2 DEF ReceiveToken, ReceiveOther
  <2>3. CASE NotFound(w)  BY <2>3 DEF NotFound, Unknown
  <2>4. CASE Disabled(w)  BY <2>4 DEF Disabled, Unknown
  <2>5. CASE FoundUser(w)  BY <2>5 DEF FoundUser, GetUser
  <2>6. CASE ResetExpired(w)  BY <2>6 DEF ResetExpired, Reset
  <2>7. CASE WrongPassword(w)  BY <2>7 DEF WrongPassword, Increment
  <2>8. CASE LockAccount(w)  BY <2>8 DEF LockAccount, LockUser
  <2>9. CASE RightPassword(w)  BY <2>9 DEF RightPassword, Accept
  <2>10. CASE SignIn(w)  BY <2>10 DEF SignIn, UpdateLastLogin
  <2>11. CASE LogFailed(w)  BY <2>11 DEF LogFailed
  <2>12. CASE LogOther(w)  BY <2>12 DEF LogOther
  <2> QED
    BY <1>3, <2>1, <2>2, <2>3, <2>4, <2>5, <2>6, <2>7, <2>8, <2>9, <2>10, <2>11, <2>12 DEF Login
<1>4. ASSUME NEW w \in Workers, CrashBusy(w) PROVE OneTask'  BY <1>4 DEF CrashBusy, Crash
<1>5. ASSUME NEW w \in Workers, CrashJob(w) PROVE OneTask'  BY <1>5 DEF CrashJob
<1>6. CASE Deactivate  BY <1>6 DEF Deactivate
<1>7. CASE Tick /\ UNCHANGED accounts  BY <1>7 DEF Tick
<1>8. CASE UNCHANGED avars  BY <1>8 DEF avars
<1> QED  BY <1>2, <1>3, <1>4, <1>5, <1>6, <1>7, <1>8 DEF AccountsNext

\* The jobs' own fields: a row once there is one, an address until then.
LEMMA JobStep == AInv /\ [AccountsNext]_avars => JobHasRow' /\ JobHasEmail'
<1> SUFFICES ASSUME AInv, [AccountsNext]_avars PROVE JobHasRow' /\ JobHasEmail'
  OBVIOUS
<1>1. job \in [Workers -> Job] /\ JobHasRow /\ JobHasEmail
  BY DEF AInv, AccountsTypeOK
<1> USE <1>1, SpellingsAgree DEF JobHasRow, JobHasEmail, Job, NoJob, On, Owe, Finish,
        accounts, tables, records
<1>2. ASSUME NEW w \in Workers, Register(w) PROVE JobHasRow' /\ JobHasEmail'
  <2>1. CASE ReceiveRegister(w)  BY <2>1 DEF ReceiveRegister
  <2>2. CASE EmailTaken(w)  BY <2>2 DEF EmailTaken
  <2>3. CASE EmailFree(w)  BY <2>3 DEF EmailFree
  <2>4. CASE CreateUser(w)  BY <2>4 DEF CreateUser
  <2>5. CASE CreateConflict(w)  BY <2>5 DEF CreateConflict
  <2>6. CASE LogRegister(w)  BY <2>6 DEF LogRegister
  <2> QED  BY <1>2, <2>1, <2>2, <2>3, <2>4, <2>5, <2>6 DEF Register
<1>3. ASSUME NEW w \in Workers, Login(w) PROVE JobHasRow' /\ JobHasEmail'
  <2>1. CASE ReceiveCredentials(w)  BY <2>1 DEF ReceiveCredentials, ReceiveLogin
  <2>2. CASE ReceiveToken(w)  BY <2>2 DEF ReceiveToken, ReceiveOther
  <2>3. CASE NotFound(w)  BY <2>3 DEF NotFound, Unknown
  <2>4. CASE Disabled(w)  BY <2>4 DEF Disabled, Unknown
  <2>5. CASE FoundUser(w)  BY <2>5 DEF FoundUser, GetUser
  <2>6. CASE ResetExpired(w)  BY <2>6 DEF ResetExpired, Reset, Forget
  <2>7. CASE WrongPassword(w)  BY <2>7 DEF WrongPassword, Increment
  <2>8. CASE LockAccount(w)  BY <2>8 DEF LockAccount, LockUser
  <2>9. CASE RightPassword(w)  BY <2>9 DEF RightPassword, Accept
  <2>10. CASE SignIn(w)  BY <2>10 DEF SignIn, UpdateLastLogin, Forget
  <2>11. CASE LogFailed(w)  BY <2>11 DEF LogFailed
  <2>12. CASE LogOther(w)  BY <2>12 DEF LogOther
  <2> QED
    BY <1>3, <2>1, <2>2, <2>3, <2>4, <2>5, <2>6, <2>7, <2>8, <2>9, <2>10, <2>11, <2>12 DEF Login
<1>4. ASSUME NEW w \in Workers, CrashBusy(w) PROVE JobHasRow' /\ JobHasEmail'  BY <1>4 DEF CrashBusy, Crash
<1>5. ASSUME NEW w \in Workers, CrashJob(w) PROVE JobHasRow' /\ JobHasEmail'  BY <1>5 DEF CrashJob
<1>6. CASE Deactivate  BY <1>6 DEF Deactivate
<1>7. CASE Tick /\ UNCHANGED accounts  BY <1>7 DEF Tick
<1>8. CASE UNCHANGED avars  BY <1>8 DEF avars
<1> QED  BY <1>2, <1>3, <1>4, <1>5, <1>6, <1>7, <1>8 DEF AccountsNext

LEMMA AccountsTypeStep == TypeOK /\ AInv /\ [AccountsNext]_avars => AccountsTypeOK'
<1> SUFFICES ASSUME TypeOK, AInv, [AccountsNext]_avars PROVE AccountsTypeOK'
  OBVIOUS
<1>1. TypeOK /\ AccountsTypeOK /\ JobHasRow /\ NothingBefore /\ Plain \in Spellings
  BY SpellingsAgree DEF AInv
<1>2. -Cardinality(Owing) \in Int
  <2>1. Owing \subseteq Workers  BY DEF Owing
  <2>2. IsFiniteSet(Owing)  BY <2>1, FS_Subset, FiniteWorkers
  <2> QED  BY <2>2, FS_CardinalityType
<1> USE <1>1, <1>2
        DEF AccountsTypeOK, TypeOK, JobHasRow, NothingBefore, Exists, JobPCs,
        columns, history, ClearColumns, Request, Job, NoJob, NoRequest, At, On, Idle, Goto, Reply, Owe, Finish,
        vars, accounts, tables, records
<1>3. ASSUME NEW w \in Workers, Register(w) PROVE AccountsTypeOK'
  <2>1. CASE ReceiveRegister(w)
    <3>1. [NoJob EXCEPT !.pc = "check_email", !.email = Plain] \in Job  OBVIOUS
    <3>2. job' = [job EXCEPT ![w] = [NoJob EXCEPT !.pc = "check_email", !.email = Plain]]
      BY <2>1, SpellingsAgree DEF ReceiveRegister
    <3>3. job' \in [Workers -> Job]  BY <3>1, <3>2
    <3> QED  BY <2>1, <3>3 DEF ReceiveRegister
  <2>2. CASE EmailTaken(w)  BY <2>2 DEF EmailTaken
  <2>3. CASE EmailFree(w)  BY <2>3 DEF EmailFree
  <2>4. CASE CreateUser(w)
    <3>1. PICK r \in Rows :
            /\ users' = [users EXCEPT ![r] = Plain]
            /\ job' = [job EXCEPT ![w].pc = "log_register", ![w].row = r]
            /\ UNCHANGED <<vars, active, records, orphaned, unlogged>>
      <4>1. LowerCase(job[w].email) = Plain
        BY <2>4, SpellingsAgree DEF CreateUser, AInv, JobHasEmail
      <4> QED  BY <2>4, <4>1 DEF CreateUser
    <3>a. [job[w] EXCEPT !.pc = "log_register", !.row = r] \in Job
      <4>1. job[w] \in Job  OBVIOUS
      <4> QED  BY <4>1
    <3>b. job' = [job EXCEPT ![w] = [job[w] EXCEPT !.pc = "log_register", !.row = r]]
      BY <3>1
    <3>2. job' \in [Workers -> Job]  BY <3>a, <3>b
    <3>3. users' \in [Rows -> {None} \cup Spellings]  BY <3>1
    <3>5. (~Exists)' => attempts' = 0 /\ lockedUntil' = NULL
      <4>1. users'[r] = Plain  BY <3>1
      <4> QED  BY <4>1, NoneIsNoSpelling
    <3> QED  BY <3>1, <3>2, <3>3, <3>5
  <2>5. CASE CreateConflict(w)  BY <2>5 DEF CreateConflict
  <2>6. CASE LogRegister(w)  BY <2>6 DEF LogRegister
  <2> QED  BY <1>3, <2>1, <2>2, <2>3, <2>4, <2>5, <2>6 DEF Register
<1>4. ASSUME NEW w \in Workers, Login(w) PROVE AccountsTypeOK'
  <2>1. CASE ReceiveCredentials(w)  BY <2>1 DEF ReceiveCredentials, ReceiveLogin
  <2>2. CASE ReceiveToken(w)  BY <2>2 DEF ReceiveToken, ReceiveOther
  <2>3. CASE NotFound(w)
    <3>1. job' \in [Workers -> Job]  BY <2>3 DEF NotFound
    <3>2. UNCHANGED <<columns, tables, records, orphaned, unlogged>>
      BY <2>3 DEF NotFound, Unknown
    <3> QED  BY <3>1, <3>2
  <2>4. CASE Disabled(w)  BY <2>4 DEF Disabled, Unknown
  <2>5. CASE FoundUser(w)  BY <2>5 DEF FoundUser, GetUser
  <2>6. CASE ResetExpired(w)  BY <2>6 DEF ResetExpired, Reset, Forget
  <2>7. CASE WrongPassword(w)
    <3>1. job' \in [Workers -> Job]  BY <2>7 DEF WrongPassword
    <3>2. Exists  BY <2>7 DEF WrongPassword, Increment
    <3>3. UNCHANGED <<tables, records, orphaned, unlogged>>  BY <2>7 DEF WrongPassword
    <3> QED  BY <3>1, <3>2, <3>3
  <2>8. CASE LockAccount(w)  BY <2>8 DEF LockAccount, LockUser
  <2>9. CASE RightPassword(w)
    <3>1. job' \in [Workers -> Job]  BY <2>9 DEF RightPassword
    <3>2. UNCHANGED <<columns, tables, records, orphaned, unlogged>>
      BY <2>9 DEF RightPassword, Accept
    <3> QED  BY <3>1, <3>2
  <2>10. CASE SignIn(w)  BY <2>10 DEF SignIn, UpdateLastLogin, Forget
  <2>11. CASE LogFailed(w)  BY <2>11 DEF LogFailed
  <2>12. CASE LogOther(w)  BY <2>12 DEF LogOther
  <2> QED
    BY <1>4, <2>1, <2>2, <2>3, <2>4, <2>5, <2>6, <2>7, <2>8, <2>9, <2>10, <2>11, <2>12 DEF Login
<1>5. ASSUME NEW w \in Workers, CrashBusy(w) PROVE AccountsTypeOK'  BY <1>5 DEF CrashBusy, Crash
<1>6. ASSUME NEW w \in Workers, CrashJob(w) PROVE AccountsTypeOK'  BY <1>6 DEF CrashJob
<1>7. CASE Deactivate  BY <1>7 DEF Deactivate
<1>8. CASE Tick /\ UNCHANGED accounts  BY <1>8 DEF Tick
<1>9. CASE UNCHANGED avars  BY <1>9 DEF avars
<1> QED  BY <1>3, <1>4, <1>5, <1>6, <1>7, <1>8, <1>9 DEF AccountsNext

LEMMA NothingBeforeStep == TypeOK /\ AInv /\ [AccountsNext]_avars => NothingBefore'
<1> SUFFICES ASSUME TypeOK, AInv, [AccountsNext]_avars PROVE NothingBefore'
  OBVIOUS
<1>1. /\ req \in [Workers -> Request] /\ users \in [Rows -> {None} \cup Spellings] /\ NothingBefore
      /\ JobHasEmail
  BY DEF AInv, AccountsTypeOK, TypeOK
<1> USE <1>1 DEF NothingBefore, Exists, Request, NoRequest, At, On, Idle, Goto, Reply,
        vars, accounts, tables, records
<1>2. ASSUME NEW w \in Workers, Register(w) PROVE NothingBefore'
  <2>1. CASE ReceiveRegister(w)  BY <2>1 DEF ReceiveRegister
  <2>2. CASE EmailTaken(w)  BY <2>2 DEF EmailTaken
  <2>3. CASE EmailFree(w)  BY <2>3 DEF EmailFree
  <2>4. CASE CreateUser(w)
    <3>1. PICK r \in Rows : users' = [users EXCEPT ![r] = Plain]
      BY <2>4, SpellingsAgree DEF CreateUser, JobHasEmail
    <3>2. users'[r] # None  BY <3>1, SpellingsAgree, NoneIsNoSpelling
    <3> QED  BY <3>2
  <2>5. CASE CreateConflict(w)  BY <2>5 DEF CreateConflict
  <2>6. CASE LogRegister(w)  BY <2>6 DEF LogRegister
  <2> QED  BY <1>2, <2>1, <2>2, <2>3, <2>4, <2>5, <2>6 DEF Register
<1>3. ASSUME NEW w \in Workers, Login(w) PROVE NothingBefore'
  <2>1. CASE ReceiveCredentials(w)  BY <2>1 DEF ReceiveCredentials, ReceiveLogin
  <2>2. CASE ReceiveToken(w)  BY <2>2 DEF ReceiveToken, ReceiveOther
  <2>3. CASE NotFound(w)  BY <2>3 DEF NotFound, Unknown
  <2>4. CASE Disabled(w)  BY <2>4, NothingToFind DEF Disabled, Unknown
  <2>5. CASE FoundUser(w)
    <3>1. Exists  BY <2>5, NothingToFind DEF FoundUser
    <3> QED  BY <2>5, <3>1 DEF FoundUser
  <2>6. CASE ResetExpired(w)  BY <2>6 DEF ResetExpired, Reset, Forget
  <2>7. CASE WrongPassword(w)  BY <2>7 DEF WrongPassword, Increment
  <2>8. CASE LockAccount(w)  BY <2>8 DEF LockAccount, LockUser
  <2>9. CASE RightPassword(w)  BY <2>9 DEF RightPassword, Accept
  <2>10. CASE SignIn(w)  BY <2>10 DEF SignIn, UpdateLastLogin, Forget
  <2>11. CASE LogFailed(w)  BY <2>11 DEF LogFailed
  <2>12. CASE LogOther(w)  BY <2>12 DEF LogOther
  <2> QED
    BY <1>3, <2>1, <2>2, <2>3, <2>4, <2>5, <2>6, <2>7, <2>8, <2>9, <2>10, <2>11, <2>12 DEF Login
<1>4. ASSUME NEW w \in Workers, CrashBusy(w) PROVE NothingBefore'  BY <1>4 DEF CrashBusy, Crash
<1>5. ASSUME NEW w \in Workers, CrashJob(w) PROVE NothingBefore'  BY <1>5 DEF CrashJob
<1>6. CASE Deactivate  BY <1>6 DEF Deactivate
<1>7. CASE Tick /\ UNCHANGED accounts  BY <1>7 DEF Tick
<1>8. CASE UNCHANGED avars  BY <1>8 DEF avars
<1> QED  BY <1>2, <1>3, <1>4, <1>5, <1>6, <1>7, <1>8 DEF AccountsNext

LEMMA RegistrationStep == AInv /\ [AccountsNext]_avars => RegistrationRecorded'
<1> SUFFICES ASSUME AInv, [AccountsNext]_avars PROVE RegistrationRecorded'
  OBVIOUS
<1>1. job \in [Workers -> Job] /\ users \in [Rows -> {None} \cup Spellings] /\ OneTask /\ RegistrationRecorded
  BY DEF AInv, AccountsTypeOK
<1> USE <1>1 DEF RegistrationRecorded, OneTask, At, ReceiveLogin, ReceiveOther, Job, NoJob, On, Idle, Owe, Finish,
        accounts, tables, records
<1>2. ASSUME NEW w \in Workers, Register(w) PROVE RegistrationRecorded'
  <2>1. CASE ReceiveRegister(w)  BY <2>1 DEF ReceiveRegister
  <2>2. CASE EmailTaken(w)  BY <2>2 DEF EmailTaken
  <2>3. CASE EmailFree(w)  BY <2>3 DEF EmailFree
  <2>4. CASE CreateUser(w)  BY <2>4 DEF CreateUser
  <2>5. CASE CreateConflict(w)  BY <2>5 DEF CreateConflict
  <2>6. CASE LogRegister(w)  BY <2>6 DEF LogRegister
  <2> QED  BY <1>2, <2>1, <2>2, <2>3, <2>4, <2>5, <2>6 DEF Register
<1>3. ASSUME NEW w \in Workers, Login(w) PROVE RegistrationRecorded'
  <2>1. CASE ReceiveCredentials(w)  BY <2>1 DEF ReceiveCredentials, ReceiveLogin
  <2>2. CASE ReceiveToken(w)  BY <2>2 DEF ReceiveToken, ReceiveOther
  <2>3. CASE NotFound(w)  BY <2>3 DEF NotFound, Unknown
  <2>4. CASE Disabled(w)  BY <2>4 DEF Disabled, Unknown
  <2>5. CASE FoundUser(w)  BY <2>5 DEF FoundUser, GetUser
  <2>6. CASE ResetExpired(w)  BY <2>6 DEF ResetExpired, Reset, Forget
  <2>7. CASE WrongPassword(w)  BY <2>7 DEF WrongPassword, Increment
  <2>8. CASE LockAccount(w)  BY <2>8 DEF LockAccount, LockUser
  <2>9. CASE RightPassword(w)  BY <2>9 DEF RightPassword, Accept
  <2>10. CASE SignIn(w)  BY <2>10 DEF SignIn, UpdateLastLogin, Forget
  <2>11. CASE LogFailed(w)  BY <2>11 DEF LogFailed
  <2>12. CASE LogOther(w)  BY <2>12 DEF LogOther
  <2> QED
    BY <1>3, <2>1, <2>2, <2>3, <2>4, <2>5, <2>6, <2>7, <2>8, <2>9, <2>10, <2>11, <2>12 DEF Login
<1>4. ASSUME NEW w \in Workers, CrashBusy(w) PROVE RegistrationRecorded'  BY <1>4 DEF CrashBusy, Crash
<1>5. ASSUME NEW w \in Workers, CrashJob(w) PROVE RegistrationRecorded'  BY <1>5 DEF CrashJob
<1>6. CASE Deactivate  BY <1>6 DEF Deactivate
<1>7. CASE Tick /\ UNCHANGED accounts  BY <1>7 DEF Tick
<1>8. CASE UNCHANGED avars  BY <1>8 DEF avars
<1> QED  BY <1>2, <1>3, <1>4, <1>5, <1>6, <1>7, <1>8 DEF AccountsNext

LEMMA AInvHolds == AccountsSpec => []AInv
<1>1. TypeOK /\ AInv /\ [AccountsNext]_avars => AInv'
  BY StoredStep, OneTaskStep, JobStep, AccountsTypeStep, NothingBeforeStep, RegistrationStep DEF AInv
<1>2. AccountsSpec => []TypeOK  BY AccountsRefineLockout, LockoutTypeCorrect, PTL
<1> QED  BY <1>1, <1>2, InitAInv, PTL DEF AccountsSpec, avars

\* The state of registration, the lookup and the audit log is what it should
\* be, and an account's counter does not move before the account is there.
THEOREM AccountsTypeCorrect == AccountsSpec => []AccountsTypeOK
<1>1. AInv => AccountsTypeOK  BY DEF AInv
<1> QED  BY <1>1, AInvHolds, PTL

\* register never leaves two rows for an address, nor one that some spelling
\* of the address, given to register or to login, does not find, however many
\* registrations overlap: NormalizeEmail, EmailStr and the lower() of the
\* repository come to the same address by both ways in.
THEOREM OneAccountHolds == AccountsSpec => []OneAccount
<1>1. AInv => OneAccount
  BY SpellingsAgree DEF AInv, Stored, OneAccount, Found, Holding
<1> QED  BY <1>1, AInvHolds, PTL

\* A row of register's has its audit record, or a worker that still owes it,
\* or lost it to a death between the two commits.
THEOREM RegistrationRecordedHolds == AccountsSpec => []RegistrationRecorded
<1>1. AInv => RegistrationRecorded  BY DEF AInv
<1> QED  BY <1>1, AInvHolds, PTL

-----------------------------------------------------------------------------
(* The audit log against the counter. *)

\* The requests that owe a failure record are finitely many.
LEMMA OwingIsFinite == IsFiniteSet(Owing) /\ Cardinality(Owing) \in Nat
<1>1. Owing \subseteq Workers  BY DEF Owing
<1> QED  BY <1>1, FS_Subset, FS_CardinalityType, FiniteWorkers

\* Owes(w): one worker's share of Owing.
Owes(w) == On(w, "log_failed") \/ At(w, "lock")

\* A step of one worker moves the count by that worker's share.
LEMMA OwingStep ==
    ASSUME NEW w \in Workers,
           \A v \in Workers : v # w => job'[v] = job[v] /\ req'[v] = req[v]
    PROVE  /\ Owes(w)' /\ ~Owes(w) => Cardinality(Owing)' = Cardinality(Owing) + 1
           /\ ~Owes(w)' /\ Owes(w) => Cardinality(Owing)' = Cardinality(Owing) - 1
           /\ (Owes(w)' <=> Owes(w)) => Cardinality(Owing)' = Cardinality(Owing)
<1> USE DEF Owing, Owes, On, At
<1>1. CASE Owes(w)' /\ ~Owes(w)
  <2>1. Owing' = Owing \cup {w} /\ w \notin Owing  BY <1>1
  <2>2. Cardinality(Owing \cup {w}) = Cardinality(Owing) + 1
    BY <2>1, OwingIsFinite, FS_AddElement
  <2> QED  BY <1>1, <2>1, <2>2
<1>2. CASE ~Owes(w)' /\ Owes(w)
  <2>1. Owing' = Owing \ {w} /\ w \in Owing  BY <1>2
  <2>2. Cardinality(Owing \ {w}) = Cardinality(Owing) - 1
    BY <2>1, OwingIsFinite, FS_RemoveElement
  <2> QED  BY <1>2, <2>1, <2>2
<1>3. CASE Owes(w)' <=> Owes(w)
  <2>1. Owing' = Owing  BY <1>3
  <2> QED  BY <1>3, <2>1
<1> QED  BY <1>1, <1>2, <1>3

LEMMA FailuresStep ==
    TypeOK /\ AInv /\ FailuresRecorded /\ [AccountsNext]_avars => FailuresRecorded'
<1> SUFFICES ASSUME TypeOK, AInv, FailuresRecorded, [AccountsNext]_avars PROVE FailuresRecorded'
  OBVIOUS
<1>1. /\ req \in [Workers -> Request] /\ job \in [Workers -> Job] /\ OneTask
      /\ attempts \in Nat /\ failures \in Int /\ unlogged \in Nat
  BY DEF AInv, AccountsTypeOK, TypeOK
<1>2. Cardinality(Owing) \in Nat /\ attempts = failures + Cardinality(Owing) + unlogged
  BY OwingIsFinite DEF FailuresRecorded
<1>s. SUFFICES attempts' = failures' + Cardinality(Owing)' + unlogged'
  BY DEF FailuresRecorded
<1> DEFINE Goal == attempts' = failures' + Cardinality(Owing)' + unlogged'
<1> USE DEF Request, Job, NoJob, NoRequest, At, On, Idle, Goto, Reply, Owe, Finish, OneTask, Owes,
        vars, accounts, tables, records, columns, history
<1> HIDE DEF Goal
<1>3. ASSUME NEW w \in Workers, Owes(w)' <=> Owes(w),
             \A v \in Workers : v # w => job'[v] = job[v] /\ req'[v] = req[v],
             UNCHANGED <<attempts, failures, unlogged>>
      PROVE  Goal
  BY <1>2, <1>3, OwingStep DEF Goal
<1>4. ASSUME NEW w \in Workers, Register(w) PROVE Goal
  <2>1. UNCHANGED <<attempts, failures, unlogged, req>>
    BY <1>4 DEF Register, ReceiveRegister, EmailTaken, EmailFree, CreateUser, CreateConflict, LogRegister
  <2>2. ~On(w, "log_failed") /\ ~On(w, "log_failed")'
    <3>1. CASE ReceiveRegister(w)  BY <1>1, <3>1 DEF ReceiveRegister
    <3>2. CASE EmailTaken(w) \/ CreateConflict(w) \/ LogRegister(w)
      BY <1>1, <3>2 DEF EmailTaken, CreateConflict, LogRegister
    <3>3. CASE EmailFree(w)  BY <1>1, <3>3 DEF EmailFree
    <3>4. CASE CreateUser(w)  BY <1>1, <3>4 DEF CreateUser
    <3> QED  BY <1>4, <3>1, <3>2, <3>3, <3>4 DEF Register
  <2>3. \A v \in Workers : v # w => job'[v] = job[v]
    BY <1>1, <1>4 DEF Register, ReceiveRegister, EmailTaken, EmailFree, CreateUser, CreateConflict, LogRegister
  <2> QED  BY <1>3, <2>1, <2>2, <2>3
<1>5. ASSUME NEW w \in Workers, Login(w) PROVE Goal
  <2>1. CASE ReceiveCredentials(w)  BY <1>1, <1>3, <2>1 DEF ReceiveCredentials, ReceiveLogin
  <2>2. CASE ReceiveToken(w)  BY <1>1, <1>3, <2>2 DEF ReceiveToken, ReceiveOther
  <2>3. CASE NotFound(w)  BY <1>1, <1>3, <2>3 DEF NotFound, Unknown
  <2>4. CASE Disabled(w)  BY <1>1, <1>3, <2>4 DEF Disabled, Unknown
  <2>5. CASE FoundUser(w)  BY <1>1, <1>3, <2>5 DEF FoundUser, GetUser
  <2>6. CASE ResetExpired(w)
    <3>1. /\ attempts' = 0 /\ failures' = -Cardinality(Owing) /\ unlogged' = 0
          /\ ~Owes(w) /\ ~Owes(w)'
          /\ \A v \in Workers : v # w => job'[v] = job[v] /\ req'[v] = req[v]
      BY <1>1, <2>6 DEF ResetExpired, Reset, ClearColumns, Forget
    <3>2. Cardinality(Owing)' = Cardinality(Owing)  BY <3>1, OwingStep
    <3> QED  BY <1>2, <3>1, <3>2 DEF Goal
  <2>7. CASE WrongPassword(w)
    <3>1. /\ attempts' = attempts + 1 /\ UNCHANGED <<failures, unlogged>>
          /\ ~Owes(w)
          /\ \A v \in Workers : v # w => job'[v] = job[v] /\ req'[v] = req[v]
      BY <1>1, <2>7 DEF WrongPassword, Increment
    <3>2. Owes(w)'
      BY <1>1, <2>7 DEF WrongPassword
    <3>3. Cardinality(Owing)' = Cardinality(Owing) + 1  BY <3>1, <3>2, OwingStep
    <3> QED  BY <1>1, <1>2, <3>1, <3>3 DEF Goal
  <2>8. CASE LockAccount(w)
    <3>1. /\ UNCHANGED <<attempts, failures, unlogged>> /\ Owes(w) /\ Owes(w)'
          /\ \A v \in Workers : v # w => job'[v] = job[v] /\ req'[v] = req[v]
      BY <1>1, <2>8 DEF LockAccount, LockUser
    <3> QED  BY <1>3, <3>1
  <2>9. CASE RightPassword(w)
    <3>1. /\ UNCHANGED <<attempts, failures, unlogged>> /\ ~Owes(w) /\ ~Owes(w)'
          /\ \A v \in Workers : v # w => job'[v] = job[v] /\ req'[v] = req[v]
      BY <1>1, <2>9 DEF RightPassword, Accept
    <3> QED  BY <1>3, <3>1
  <2>10. CASE SignIn(w)
    <3>1. /\ attempts' = 0 /\ failures' = -Cardinality(Owing) /\ unlogged' = 0
          /\ ~Owes(w) /\ ~Owes(w)'
          /\ \A v \in Workers : v # w => job'[v] = job[v] /\ req'[v] = req[v]
      BY <1>1, <2>10 DEF SignIn, UpdateLastLogin, ClearColumns, Forget
    <3>2. Cardinality(Owing)' = Cardinality(Owing)  BY <3>1, OwingStep
    <3> QED  BY <1>2, <3>1, <3>2 DEF Goal
  <2>11. CASE LogFailed(w)
    <3>1. /\ failures' = failures + 1 /\ UNCHANGED <<attempts, unlogged>>
          /\ Owes(w) /\ ~Owes(w)'
          /\ \A v \in Workers : v # w => job'[v] = job[v] /\ req'[v] = req[v]
      BY <1>1, <2>11 DEF LogFailed
    <3>2. Cardinality(Owing)' = Cardinality(Owing) - 1  BY <3>1, OwingStep
    <3> QED  BY <1>1, <1>2, <3>1, <3>2 DEF Goal
  <2>12. CASE LogOther(w)  BY <1>1, <1>3, <2>12 DEF LogOther
  <2> QED
    BY <1>5, <2>1, <2>2, <2>3, <2>4, <2>5, <2>6, <2>7, <2>8, <2>9, <2>10, <2>11, <2>12 DEF Login
<1>6. ASSUME NEW w \in Workers, CrashBusy(w) \/ CrashJob(w) PROVE Goal
  <2>1. /\ UNCHANGED <<attempts, failures>>
        /\ unlogged' = IF Owes(w) THEN unlogged + 1 ELSE unlogged
        /\ ~Owes(w)'
        /\ \A v \in Workers : v # w => job'[v] = job[v] /\ req'[v] = req[v]
    BY <1>1, <1>6 DEF CrashBusy, CrashJob, Crash, Owing
  <2>2. CASE Owes(w)
    <3>1. Cardinality(Owing)' = Cardinality(Owing) - 1  BY <2>1, <2>2, OwingStep
    <3> QED  BY <1>1, <1>2, <2>1, <2>2, <3>1 DEF Goal
  <2>3. CASE ~Owes(w)  BY <1>3, <2>1, <2>3
  <2> QED  BY <2>2, <2>3
<1>7. CASE UNCHANGED <<attempts, failures, unlogged, req, job>>
  <2>1. Owing' = Owing  BY <1>7 DEF Owing
  <2> QED  BY <1>2, <1>7, <2>1 DEF Goal
<1>8. CASE Deactivate  BY <1>7, <1>8 DEF Deactivate
<1>9. CASE Tick /\ UNCHANGED accounts  BY <1>7, <1>9 DEF Tick
<1>10. CASE UNCHANGED avars  BY <1>7, <1>10 DEF avars
<1> QED  BY <1>4, <1>5, <1>6, <1>8, <1>9, <1>10 DEF AccountsNext, Goal

\* Every failure the counter counts has its audit record, is about to, or lost
\* it to a death; login commits the two one after the other.
THEOREM FailuresRecordedHolds == AccountsSpec => []FailuresRecorded
<1>1. AccountsInit => FailuresRecorded
  <2> SUFFICES ASSUME AccountsInit PROVE FailuresRecorded
    OBVIOUS
  <2>1. Owing = {}  BY DEF AccountsInit, Init, Owing, On, At, NoJob, NoRequest
  <2>2. Cardinality(Owing) = 0  BY <2>1, FS_EmptySet
  <2> QED  BY <2>2 DEF AccountsInit, Init, FailuresRecorded
<1>2. AccountsSpec => []TypeOK  BY AccountsRefineLockout, LockoutTypeCorrect, PTL
<1> QED  BY <1>1, <1>2, AInvHolds, FailuresStep, PTL DEF AccountsSpec, avars
=============================================================================
