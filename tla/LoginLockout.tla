---------------------------- MODULE LoginLockout ----------------------------
(***************************************************************************)
(* AuthService.login's brute-force protection: the failed-attempt counter  *)
(* and the lock of one users row, under logins that run concurrently.      *)
(*                                                                         *)
(* Rows of different users do not interact, so there is one account.       *)
(* login reads the row once (get_by_email) and decides on that snapshot;   *)
(* every UPDATE is a step of its own.  How the account comes to exist, how *)
(* an email finds it and what the audit log records is in Accounts, which  *)
(* implements this module.                                                 *)
(***************************************************************************)
EXTENDS Integers, FiniteSets

CONSTANTS
    Workers,            \* requests in flight at once
    MaxLoginAttempts,   \* settings.MAX_LOGIN_ATTEMPTS
    LockoutDuration,    \* settings.LOCKOUT_DURATION_SECONDS, in ticks
    MaxLost,            \* bound: requests that die with a lock still to write
    MaxTime             \* bound: the clock stops here

\* config.py types both as int and defaults them to 5 and 900.
ASSUME LimitsArePositive ==
    /\ MaxLoginAttempts \in Nat \ {0}
    /\ LockoutDuration \in Nat \ {0}

ASSUME FiniteWorkers == IsFiniteSet(Workers)

VARIABLES
    attempts,       \* users.failed_login_attempts
    lockedUntil,    \* users.locked_until, 0 when NULL
    now,            \* datetime.now(UTC), from 1
    req,            \* req[w]: the login or refresh worker w is serving
    lost,           \* history: requests that died between the count and the lock
    overtaken,      \* history: requests whose lock is still to be written, the count it answers cleared
    lateLock        \* history: the lock in the row was written by one of those

columns == <<attempts, lockedUntil>>
history == <<lost, overtaken, lateLock>>
vars    == <<attempts, lockedUntil, now, req, lost, overtaken, lateLock>>

NULL   == 0
Locked == lockedUntil > now

\* good: the password in the request is right.  until: the locked_until it computed.
NoRequest == [pc |-> "idle", good |-> FALSE, until |-> NULL]
PCs       == {"idle", "get_user", "reset", "verify", "lock", "update_last_login"}
Request   == [pc : PCs, good : BOOLEAN, until : Nat]

At(w, pc)   == req[w].pc = pc
Goto(w, pc) == req' = [req EXCEPT ![w].pc = pc]
Reply(w)    == req' = [req EXCEPT ![w] = NoRequest]

TypeOK ==
    /\ attempts \in Nat
    /\ lockedUntil \in Nat
    /\ now \in Nat
    /\ req \in [Workers -> Request]
    /\ lost \in Nat
    /\ overtaken \subseteq Workers
    /\ lateLock \in BOOLEAN

Init ==
    /\ attempts = 0
    /\ lockedUntil = NULL
    /\ now = 1
    /\ req = [w \in Workers |-> NoRequest]
    /\ lost = 0
    /\ overtaken = {}
    /\ lateLock = FALSE

\* The counter and the lock go back to what a new account has; requests that
\* have still to write a lock for the count so far are overtaken.
ClearColumns ==
    /\ attempts' = 0
    /\ lockedUntil' = NULL
    /\ overtaken' = {w \in Workers : At(w, "lock")}
    /\ lateLock' = FALSE

ReceiveLogin(w) == \E good \in BOOLEAN :
    /\ At(w, "idle")
    /\ req' = [req EXCEPT ![w] = [NoRequest EXCEPT !.pc = "get_user", !.good = good]]
    /\ UNCHANGED <<columns, now, history>>

\* A refresh, or an MFA verification, has got as far as _issue_token_pair.
ReceiveOther(w) ==
    /\ At(w, "idle")
    /\ Goto(w, "update_last_login")
    /\ UNCHANGED <<columns, now, history>>

\* Mutant: the lock is never looked at.
GetUserAlways(w) ==
    /\ At(w, "get_user")
    /\ Goto(w, "verify")
    /\ UNCHANGED <<columns, now, history>>

\* get_by_email, and the two tests of the snapshot's locked_until.
GetUser(w) ==
    /\ At(w, "get_user")
    /\ \/ Locked /\ Reply(w)
       \/ lockedUntil # NULL /\ ~Locked /\ Goto(w, "reset")
       \/ lockedUntil = NULL /\ Goto(w, "verify")
    /\ UNCHANGED <<columns, now, history>>

\* No such email, or a disabled account: refused before these columns matter.
Unknown(w) ==
    /\ At(w, "get_user")
    /\ Reply(w)
    /\ UNCHANGED <<columns, now, history>>

\* reset_failed_attempts: the window the snapshot shows has elapsed.
Reset(w) ==
    /\ At(w, "reset")
    /\ ClearColumns
    /\ Goto(w, "verify")
    /\ UNCHANGED <<now, lost>>

\* Right password: an mfa_token when the snapshot has MFA on, see MfaLogin
\* for the flag, or on to the token pair.
Accept(w) ==
    /\ At(w, "verify")
    /\ req[w].good
    /\ Reply(w) \/ Goto(w, "update_last_login")
    /\ UNCHANGED <<columns, now, history>>

\* Mutants: the limit is off by one; the lockout is subtracted.
IncrementPastLimit(w) ==
    /\ At(w, "verify")
    /\ ~req[w].good
    /\ attempts' = attempts + 1
    /\ IF attempts' > MaxLoginAttempts
       THEN req' = [req EXCEPT ![w].pc = "lock", ![w].until = now + LockoutDuration]
       ELSE Reply(w)
    /\ UNCHANGED <<lockedUntil, now, history>>
IncrementBackdated(w) ==
    /\ At(w, "verify")
    /\ ~req[w].good
    /\ attempts' = attempts + 1
    /\ IF attempts' >= MaxLoginAttempts
       THEN req' = [req EXCEPT ![w].pc = "lock", ![w].until = now - LockoutDuration]
       ELSE Reply(w)
    /\ UNCHANGED <<lockedUntil, now, history>>

\* Wrong password: increment_failed_login_attempts returns the new count, and
\* at the limit the end of the lock is computed from the clock.
Increment(w) ==
    /\ At(w, "verify")
    /\ ~req[w].good
    /\ attempts' = attempts + 1
    /\ IF attempts' >= MaxLoginAttempts
       THEN req' = [req EXCEPT ![w].pc = "lock", ![w].until = now + LockoutDuration]
       ELSE Reply(w)
    /\ UNCHANGED <<lockedUntil, now, history>>

\* lock_user, the audit record and 403.
LockUser(w) ==
    /\ At(w, "lock")
    /\ lockedUntil' = req[w].until
    /\ lateLock' = (w \in overtaken)
    /\ overtaken' = overtaken \ {w}
    /\ Reply(w)
    /\ UNCHANGED <<attempts, now, lost>>

\* Mutant: a sign-in clears the counter and forgets the lock.
UpdateCounterOnly(w) ==
    /\ At(w, "update_last_login")
    /\ attempts' = 0
    /\ overtaken' = {v \in Workers : At(v, "lock")}
    /\ Reply(w)
    /\ UNCHANGED <<lockedUntil, now, lost, lateLock>>

\* update_last_login resets the counter and the lock as well.
UpdateLastLogin(w) ==
    /\ At(w, "update_last_login")
    /\ ClearColumns
    /\ Reply(w)
    /\ UNCHANGED <<now, lost>>

\* The process dies or the client goes away: nothing undoes or finishes its work.
Crash(w) ==
    /\ ~At(w, "idle")
    /\ IF At(w, "lock") THEN lost < MaxLost /\ lost' = lost + 1 ELSE UNCHANGED lost
    /\ overtaken' = overtaken \ {w}
    /\ Reply(w)
    /\ UNCHANGED <<columns, now, lateLock>>

Tick ==
    /\ now < MaxTime
    /\ now' = now + 1
    /\ UNCHANGED <<columns, req, history>>

Step(w) ==
    \/ GetUser(w) \/ Unknown(w) \/ Reset(w) \/ Accept(w) \/ Increment(w) \/ LockUser(w) \/ UpdateLastLogin(w)

Next ==
    \/ \E w \in Workers : ReceiveLogin(w) \/ ReceiveOther(w) \/ Step(w) \/ Crash(w)
    \/ Tick

Spec == Init /\ [][Next]_vars

-----------------------------------------------------------------------------
(* Properties *)

\* An account at the limit is locked (perhaps a lock that has lapsed), or a
\* request that took it there is about to lock it, or such a request died:
\* increment_failed_login_attempts and lock_user are two commits.
ThresholdLocks ==
    attempts >= MaxLoginAttempts =>
        lockedUntil # NULL \/ lost > 0 \/ \E w \in Workers : At(w, "lock")

\* Parallel logins check more than MaxLoginAttempts passwords, because each
\* decides on the row it read before the lock was written; but the excess is
\* at most one for every other request in flight, and one for every lock that
\* was lost.  (increment_failed_login_attempts: "that race would let an
\* attacker running requests in parallel make more password guesses".)
AttemptsBounded ==
    attempts <= MaxLoginAttempts - 1 + Cardinality(Workers) + lost

\* A lock answers a count that has reached the limit.  The one exception is a
\* lock that was computed before a success, or the end of an earlier lock,
\* cleared that count, and was written after it: lock_user is unconditional,
\* so it locks an account whose owner has just signed in.
LockIsEarned ==
    lockedUntil # NULL => attempts >= MaxLoginAttempts \/ lateLock

\* test_locked_account_rejects_correct_password: "Once locked, even the
\* correct password must be rejected until the lockout window elapses."
LockHolds == [][Locked => lockedUntil' # NULL]_vars
=============================================================================
