# SecureAuth Platform in TLA+

SecureAuth is an authentication service: FastAPI handlers over PostgreSQL
(users, sessions, refresh tokens, recovery codes, audit log) and Redis (token
blacklist, rate limits). This directory models its state-changing core, checks
it with TLC and proves the most important facts with TLAPS. Paths below are
relative to the repository's `app/`.

## 1. The system

| Component | State | Operations | Correct when |
|---|---|---|---|
| Token pairs and sessions: `modules/auth/service.py`, `modules/sessions/` | `sessions`, `refresh_tokens` | login, refresh, logout, logout-all, revoke session | a refresh token is used once, sign-out leaves nothing that can be refreshed, nobody loses a session to someone else's request |
| Lockout: `service.py` login, `modules/users/repository.py` | `users.failed_login_attempts`, `locked_until` | count, lock, reset, `update_last_login` | the limit locks, the lock holds, parallel guesses are bounded |
| MFA: `modules/auth/mfa_service.py` | `users.mfa_*`, `mfa_recovery_codes`, blacklist | enable, confirm, disable, verify | MFA is on only with a secret the user holds and codes of that enrollment; an `mfa_token` and a code work once |
| Access tokens: `core/redis_client.py`, `modules/auth/dependencies.py` | the JWT's `exp`, `blacklist:<jti>` with a TTL | issue, authenticate, blacklist | a signed-out token is refused until it expires |
| Rate limiter: `core/rate_limiter.py`, `core/rate_limit_middleware.py` | one sorted set per IP and per user | sliding-window check | no window lets more than the limit through, denials are deserved |
| Registration: `modules/users/service.py`, `modules/users/repository.py` | `users.email`, its unique index | register, look up by email | one account per address, however it is written; every account has its record |
| Audit log: `modules/audit/model.py` | `audit_logs`, append-only | a record in almost every handler | what it says of an account agrees with the account |
| Profile and change-password (their routes answer 501), configuration, hashing, User-Agent parsing, error rendering | none | | |

The components meet in four ways: `register` writes the row that `login` looks
up by email, and both write the audit log; `login` and `MFAService.verify` call
`_issue_token_pair`; `_issue_token_pair` ends in `update_last_login`, which
writes the lockout columns; and `get_current_user` stands before every
authenticated handler and asks the blacklist.

What is hard in it:

* **Every repository method commits.** A handler is a sequence of independent
  commits, with an `await` (and so other requests) between any two. There is no
  transaction, row lock or conditional `UPDATE` around a decision.
* **Decisions are taken on snapshots.** `expire_on_commit=False`, and
  `get_current_user` loads the row several awaits before it is used.
* **A request may die between two commits**, and what it wrote stays.
* **Two stores.** Redis calls fail open and Redis evicts; the clocks of JWT
  expiry, TTLs and lock windows run while a request waits.

`PROJECT.json` lists each hazard at its line.

## 2. The modules

A request is a worker with a program counter. One action is one `await`ed call
with the Python around it, so an interleaving of actions is an interleaving the
event loop (or several processes) can produce. `Crash(w)` ends a request between
two steps and keeps what is committed. Variables marked *history* are not in the
program: they remember what a property needs to name.

**AuthRepository** is the two tables and the statements on them: `session[s]` and
`token[t]` are rows by id (`absent`, then `active`/`live`, then
`inactive`/`revoked`), and an operator per repository method says what its
statement does. A token id stands for its hash too. The type invariant includes
`RowsFilled`: every token row names its session, which `session_id` need not.

**TokenLifecycle** extends it with the handlers. `req[w]` holds the handler's
locals. The steps, by handler:

| Handler | Actions in order |
|---|---|
| login | `LoginVerified` or `LoginRefused`, then `IssueSession`, `IssueTokens`, `IssueReply` |
| refresh | `LookupFound` or `LookupRejected`, `RevokeExpired` or `LoadUser`, `RevokeOld`, `IssueTokens`, `IssueReply` |
| logout | `CurrentUser`, `LogoutLookup`, `LogoutRevoke`, `LogoutDeactivate`, `AuditReply` |
| logout-all | `CurrentUser`, `LogoutAllRevoke`, `LogoutAllDeactivate`, `AuditReply` |
| revoke session | `CurrentUser`, `SessionFound` or `SessionNotFound`, `RevokeSession`, `RevokeSessionTokens`, `AuditReply` |

`held` is what clients have received and can present, `expired` the tokens past
`expires_at`. History: `parent` (which token a rotation consumed), `torn`
(sessions closed over something the closing statement could not see) and `died`.
`DisableUser` is `UserRepository.deactivate`, which no handler calls and an
operator would.

**SessionChain** is what the service promises about a session with requests,
statements and their order left out: a session is a chain of tokens, and only its
beginning or a live token of it gives a *permit* for one more token, to be used
when the token it was given for is over. **TokenRefinement** maps TokenLifecycle
onto it. A request holds the permit in its locals, from the lookup (or
`create_session`) to `create_refresh_token`; the database knows nothing of it,
which is the whole cause of the two races below: two permits may be given for one
token, and closing a session takes no permit back. That is how far the promise
reaches under concurrency, and the refinement holds for any number of overlapping
requests.

**LoginLockout** is one account's counter and lock with a clock; `ReceiveOther`
is a refresh or MFA verification about to run `update_last_login`, `Unknown` a
login refused before the columns matter. `lost` counts requests that died between
the count and the lock; `overtaken` are requests that computed a lock before
somebody cleared the count it answers, and `lateLock` says that the lock in the
row was written by one of those.

**Accounts** puts around it how an account comes to exist, how an email finds it
and what the audit log records. It is LoginLockout by superposition: each of its
actions on the counter and the lock is LoginLockout's action, joined with the
code around it. `job[w]` is what a worker does besides `req[w]`:
`check_email`, `create` and `log_register` of `register`, and the records at the
end of a login. A spelling of the address is the set of its departures from the
plain one: blanks around it, upper case before the `@`, upper case after it. Three
places take departures away, each of them others: register's schema strips and
lowers before `EmailStr` (`RegisterEmail`), login's is `EmailStr` alone, which
strips and lowers the domain (`LoginEmail`), and the repository lowers
(`LowerCase`, in `Found` and `CreateUser`). `OneAccount` says that for every
spelling they come to the same row. `CreateConflict` is the unique index refusing
the second row. `failures` counts the failure records since
the counter was last cleared: `Forget` starts the count below zero when requests
still owe records of failures that were cleared. `orphaned` and `unlogged` are
what deaths cost the log.

**MfaLogin** is one account's enrollment. `req[w].row` is the row the request
decided on; `stale` becomes true when a request writes after that row has
changed. A TOTP code is the secret that made it. `code[c].of` remembers which
enrollment a recovery code was made for. `excused` collects the `mfa_token`s and
codes whose test overlapped another's or met a Redis failure, or whose blacklist
entry was evicted; `died` the writes requests died before, and the codes they had
spent by then. `RedisMayFail` is about calls: `Evict` is possible whatever its
value, since `docker-compose.yml` runs Redis with `allkeys-lru`. (In TokenBlacklist and
RateLimiter the constant covers both, and their theorems say so.)

**SecondFactor** is what `MFAService` promises about one account without
requests, snapshots or a blacklist: a secret is drawn while MFA is off and turns it
on only once somebody holds it, recovery codes are made for the enrollment that is
on and void after it, and a proof (an `mfa_token`, a recovery code) is spent
before the one pair it buys. Two things void the promises and both are on record:
a write by a request that decided on another row (`stale`), and a proof tested
twice at once or by a Redis that failed or forgot it (`excused`). **MfaRefinement** says that
MfaLogin implements it; `stale` and `excused` are the abstraction's own variables
too, so the refinement says that no step needs any other excuse.

**TokenBlacklist** is access tokens against logout: decode, `EXISTS`, load user,
for logout a second decode, `SETEX`, revoke. `late` marks a request that arrived
after logout answered.

**RateLimiter** is `dispatch` with its two checks and the Lua script as one
atomic action on a timestamp the API took earlier. `admitted` remembers when
scripts let requests through.

`MC*` modules add symmetry sets. A comment `Mutant:` marks a definition that is
not part of any specification: it is a plausible mistake in the code, kept
beside the definition it alters, and each property is known to reject one.

## 3. What TLC checks

| Run | Bounds | Shows |
|---|---|---|
| `tokens_concurrent` | 2 requests, 1 user, 2 sessions, 3 tokens, no expiry, deaths | rotation order; every orphaned token and every unusable session has a named cause; revocation is final; the service implements `SessionChain`, and a session that is over stays over |
| `tokens_serial` | 1 request at a time, 2 users, 2 sessions, 3 tokens, 1 expiry, deaths | without overlap the documented promises hold: one successor, one live token per session, sign-out sticks, revocation only by right |
| `tokens_liveness` | 2 requests, 1 session, 2 tokens, deaths | a sign-out that began completes; a rotation that spent its token delivers the next |
| `lockout_concurrent` | 3 requests, limit 2, lock of 2 ticks, clock to 5, 1 lost lock, 2 row ids, all 8 spellings, 1 lost record | the limit locks; guesses are at most limit − 1 + requests + lost; a lock is earned or late; one account per address, found by every spelling; the log agrees with the account |
| `mfa_concurrent` | 2 requests, 2 secrets, 2 codes in batches of one, 1 `mfa_token`, Redis failing and evicting, deaths | enrollment stays consistent while no write is stale; second uses are explained; a spent code is accounted for; the service implements `SecondFactor` |
| `blacklist` | 2 requests, 1 token, lifetime 2 = TTL 2, clock to 6, failing Redis | a logged-out token is dead, logout is whole |
| `rate_limit` | 3 requests, 1 IP, 1 user, limit 2, window 3, latency 1, clock to 6 | the limit, its justification, and its end |

Three tokens make a chain of two rotations, or a rotation beside a second login;
two sessions tell "this session" from "this user"; two requests are enough for
every pair of handlers to interleave at every pair of steps. Expiry beside
concurrency would quadruple the states; `tokens_serial` has it, and the theorems
on the properties of `tokens_concurrent` cover both together. Three requests in
the lockout let two guesses pass a lock a third is writing, and a clock of five
ticks lets a lock lapse and another be set; two row ids are what a second account
for one address needs, and eight spellings are every combination of the
departures that any of the conversions treats on its own. `lockout_concurrent` checks LoginLockout's invariants inside Accounts, so
that a login can also meet no account, a disabled one, or one being registered. In `rate_limit` the
clock covers a full window from the last admission on; there every request ends
and the clock stops, so a final state is expected and deadlock is not checked.

### Disagreements with the documentation

Five runs expect a violation; each checks what a docstring or a test states. For
four of the five a theorem says under which condition, for any number of
overlapping requests, the promise is kept all the same.

| Run | The documentation | What the code does | Kept when |
|---|---|---|---|
| `tokens_reuse` | a reused refresh token revokes all tokens of its user (`service.py:352`, `router.py:78`) | it is answered 401, nothing is revoked | never: no handler does it |
| `tokens_rotation_race` | a used token is rejected, each use invalidates it | two refreshes between lookup and `UPDATE` both get a pair | no two requests present the token between lookup and insert at once (`Apart`) |
| `tokens_revoked_session` | a revoked device can no longer mint tokens (`sessions/service.py:27`) | a refresh in flight inserts a token afterwards, and it keeps rotating | no refresh of the session is past its lookup at the `UPDATE` of its tokens (`RevokesAlone`) |
| `lockout_holds` | the lock holds until its window elapses (`test_brute_force.py:58`) | `update_last_login` of another request clears it | nobody is past login's test when the lock is written, nor signs in by refresh or MFA while it stands (`LocksUnopposed`) |
| `mfa_enable_race` | enable has no effect on an enrolled account (`mfa_service.py:49`) | an enable that read the row earlier replaces the secret | no confirm commits while an enable is between its test and its `UPDATE` (`EnablesDecided`) |

Two more were met and have no run of their own. The second of two overlapping
registrations is refused by the index as an unhandled `IntegrityError`, a 500,
where the route lists 409 (`modules/users/router.py:37`): the answer is wrong and
the table is right, which `OneAccount` shows. And login's docstring lists an
"audit log for both success and failure" (`service.py:193`), but the refusals of
a disabled or a locked account leave no record; `FailuresRecorded` is about the
failures that count.

### Fairness

Only `TokenLifecycle` has fairness: `WF_vars(Step(w))` for every request, since
the event loop resumes a coroutine whose database or Redis call has answered.
Nothing obliges clients to call, tokens to expire or a process to die, and
`Crash` is not fair. The other modules state safety only.

## 4. What TLAPS proves

All theorems are for every value of the constants, under the named assumptions
of the modules. Types are proved first in each module and used everywhere.

**TokenLifecycleProofs.** `RevocationIsFinalHolds` follows from the shape of the
`UPDATE`s alone. `RotationOrderHolds` needs to know that a request about to issue
has revoked what it presents, so the invariant also says: a request at `issue`
with a presented token finds it revoked. `TokenSessionOwnerHolds` needs the
same relation for the request's own locals, which hold the session between the
lookup and the insert. `OrphansExplainedHolds` needs two more facts: a request
that will insert into a closed session has made it `torn`, or the closer has
still to revoke; and the torn set only grows. `ActiveSessionsUsableHolds` follows
a session from hand to hand: whoever revokes its live token goes on to work on it
(`RevokerWorksOn`), and whoever works on it inserts the next token, closes it or
dies (`WorkHandsOver`); its invariant ties the token a request is about to revoke
to the session in the request's locals. `RevokedOnlyByRightHolds` carries the
owner comparison of `revoke_session` over its two writes.

**TokenPromises** is about what the documentation says and overlapping requests
can break: which instant has to be free of whom, and what is so without any
condition. A condition is a premise about the behaviour (`[]Apart`, or `[][...]_vars`
when it concerns one step) and never a constant: concurrent behaviours satisfy it.

* Single use. `SingleUseWhenApart` and `OneLiveWhenApart` assume that no two requests
  are between lookup and insert with one token (`Apart`). The invariant
  (`ApartInv`) says that a request about to insert into a session is alone there
  and presents the only live token of it. Without the condition,
  `SuccessorsBoundedHolds` still bounds the successors of a token by the requests in
  flight: those that exist plus those being made (`Spread`) never grow.
* Sign-out. `SignOutWhenUndisturbed` needs nobody to issue for the session or user
  between the revocation and the answer; the invariant ties a program counter to its
  handler (`OpInv`), because every sign-out ends at the same `audit`.
  `RevokedSessionIsDeadWhenAlone` says more from less: one instant decides, the
  `UPDATE` of the tokens. What makes it inductive is `Over(s)`: no live token in the
  session and nobody about to insert one. `OverForGood` says that nothing brings such
  a session back; `RevocationEndsSessions` and `LogoutEndsSession` say which `UPDATE`
  brings it about.
* What is begun. `SignOutIsNotDropped` and `RotationIsNotDropped` are the halves of
  the two liveness properties that need no fairness: a request that has begun
  stays before the deciding step until it is taken or the request dies.
* `SerialRotation`, `SerialOneLive` and `SerialSignOut` state what `tokens_serial`
  checks: with one worker nobody is ever in anybody's way.

**TokenRefinementProofs.** `ImplementsChainHolds`: the initial states map to
initial states and every step maps to a step of the chain or a stutter, one lemma
per kind of step. Beyond the invariants above it needs that a login's permit
spends nothing (`LoginsSpendNothing`) and that a row not yet inserted names no
session (`FreshRowsEmpty`). `DeadStaysDeadHolds` is then proved of the chain and
carried back.

**LoginLockoutProofs.** `IInv` is the type invariant, `LocksAreDated` (what a
request is about to write as a lock is not NULL) and `Ledger`. While the account
is unlocked, the ledger pays for every attempt from the limit on with a request
that has still to write the lock, or a lost one; once it is locked, the attempts
plus the requests still on their way to the password check stay within the bound,
so they can no longer grow past it. `AttemptsBounded` alone is not inductive: it
does not say how many requests may still count. `LockIsEarnedHolds` adds that a
request about to lock faces a full count or has been overtaken. `LockHoldsUnopposed` is the
broken promise of `lockout_holds` with its condition; its invariant is that nobody
is past the test while the account is locked (`LockInv`). `LockoutLapses` is the
other side, without a condition: a lock written late is computed early, so no
account is ever locked for longer than the duration from now (`LapseInv`).

**AccountsProofs.** `AccountsRefineLockout`: every step of Accounts is a step of
LoginLockout or leaves its variables alone, so the lockout theorems, the conditional one
included, hold of Accounts without another proof. For its own properties the invariant (`AInv`)
says that rows hold the plain address (`Stored`), a worker has one task at a
time (`OneTask`), a registration that will write its record has a row
(`JobHasRow`) and the plain address (`JobHasEmail`), and nothing happened to an account
before it exists (`NothingBefore`). `OneAccountHolds` rests on `SpellingsAgree`: all
that validation and the repository take away from a spelling, by either way in,
comes to the plain address. `FailuresRecordedHolds` counts: each step
moves one worker into or out of `Owing`, and the ledger moves with it.

**MfaLoginProofs.** The three enrollment invariants rest on `Locals`, what a
request has established by each of its writes: when no write is stale, what the
locals say is what the row says. `SecondSignInExplainedHolds` is an exclusion
argument. As long as nothing excuses an `mfa_token`, at most one request is past
the blacklist check with it, it issues exactly when the token is in the
blacklist, and after the issue nobody gets past (`TokenOnce`); the same for a
recovery code and its mark (`CodeOnce`). `SingleUseWhenAlone` draws the conclusion:
while Redis answers and keeps its entries (`RedisKeeps`), and no two verifications
are between test and mark, nothing is accepted twice. `EnableSparesEnrolledWhenDecided` is the broken promise of
`mfa_enable_race` with its condition: while MFA is on, no enable stands before its
`UPDATE` (`SparedInv`).

`MfaImplementsSecondFactor` maps every step, one lemma for enrolling
(`EnrollingImplements`) and one for verifying (`VerifyingImplements`). An enrollment
write is the abstract one because of `Locals`, or it is stale; a token pair is
issued for an `mfa_token` that was issued and a code that is spent (`Proved`), and
`SecondSignInExplained` says of a request about to issue that a second pair would be
excused. `CodesAreUsedForGood` is then proved of SecondFactor and carried back.

**TokenBlacklistProofs.** `IInv` joins `Covered` (a marked token whose entry Redis
kept has an entry that ends no earlier than the token), `IssuedInTime`, the shape
of requests, and the two properties. The named assumption `TtlCoversLifetime` is
exactly what the defaults (15 minutes, 900 seconds) satisfy and nothing in
`config.py` enforces. `LogoutInvalidatesWhileRedisKeeps` leaves one exception when
Redis neither fails nor evicts: a token that expires between its decode and its
lookup.

**RateLimiterProofs.** The script counts members by timestamps that may be
`MaxLatency` old, the properties count admissions by when they happened. Two
matchings, member by member, relate them: every recent member was admitted no
earlier than its score says (`Justified`), and on a key that was not evicted every
recent admission still has its member in the set (`Counted`): what a late script
trims, and what `PEXPIRE` drops, is too old to matter. A request is put to a
key's script once (`Once`), so members are distinct and the matching is one of
numbers (`OneEach`, by the pigeonhole theorem). `WindowLimitHolds` uses the second
matching, `DenialsJustifiedHolds` the first, and `QuietKeyIsFreeHolds` that a key's
expiry is one window after its last admission (`Fed`).

`WindowLimit` is about the stretch that ends now. `EveryStretchIsLimited`
extends it to every stretch of the past: what is admitted is admitted now, so a
stretch that is over does not change. Two stretches cover a window when scripts
are late by half of it at most, hence `WholeWindowIsLimited`: twice the limit,
which TLC finds reached at a limit of 1, a window of 3 and a latency of 1.
`LimitIsExactWhenPrompt` says what remains when there is no latency and Redis
keeps its keys: the limit of the settings, in any window.

Model-checked only: `SignOutCompletes` and `RotationDelivers`, because what
fairness adds, that the deciding step is taken at last, rests on `ENABLED` and is
outside the prover; that the request is not moved away before is proved (see
TokenPromises). Every other property of a passing run is a theorem. Of the five runs
that expect a violation, `ReuseRevokesAll` has no theorem: no condition makes it true.

## 5. Not modelled

* Cryptography: signatures, bcrypt and SHA-256 are assumed to do their job, random
  ids never repeat.
* Timestamps, addresses and device names of rows; audit records other than those
  of registrations and failed logins, whose rows nothing reads.
* `sessions.expires_at` and `last_active_at`, which no check reads.
* Connection pools: exhaustion of the Redis pool is one of the failures
  `RedisMayFail` allows.
* Profile and change-password: their routes answer 501. Admin and OAuth2 are not
  implemented.
* The README's claim that refresh invalidates the previous pair is about refresh
  tokens: an old access token stays valid until it expires.

## 6. Plan

1. *Done.* Tables and token lifecycle; lockout; MFA; blacklist; rate limiter; the
   five disagreements. Registration, lookup and audit log around the lockout.
   `SessionChain` and `SecondFactor` and their refinements. Proofs of every
   safety property that a passing run checks, and of the broken promises under
   their conditions.
2. A composition of `LoginLockout` and `MfaLogin` over one users row: both write
   it through the same repository, `MFAService.verify` ends in `update_last_login`,
   and `login` decides on a snapshot that holds the lock and the MFA flag together.
3. The blacklist's `late` requests together with the token tables, so that one
   property says of a whole logout that neither half of the pair works.
