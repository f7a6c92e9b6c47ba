------------------------------ MODULE MfaLogin ------------------------------
(***************************************************************************)
(* MFAService: enrolling and disabling TOTP for one account, and the       *)
(* second step of a login, by requests that run concurrently.              *)
(*                                                                         *)
(* enable, confirm and disable decide on the users row get_current_user    *)
(* loaded, and write later; verify decides on the row get_by_id returned   *)
(* and on Redis' answer before that.  Every write is a commit of its own,  *)
(* so a request can act on a row that is no longer there, and can die      *)
(* between two of its writes.                                              *)
(*                                                                         *)
(* A TOTP code is the secret that generates it: TOTP(k).verify(code) holds *)
(* iff the code was made from k in the window, and a code outside it is a  *)
(* refusal.  Passwords are right or the request is refused.  The expiry of *)
(* mfa_tokens and of their blacklist entries is TokenBlacklist's subject;  *)
(* here an entry lasts as long as its token, unless Redis evicts it.       *)
(***************************************************************************)
EXTENDS FiniteSets, Naturals

CONSTANTS
    Workers,        \* requests in flight at once
    Secrets,        \* what generate_totp_secret can return
    Codes,          \* recovery codes generate_recovery_codes can return
    MfaTokens,      \* jtis create_mfa_token can hand out
    None,           \* Python's None, SQL's NULL
    BatchSize,      \* settings.MFA_RECOVERY_CODES_COUNT
    RedisMayFail    \* Redis calls may fail: both helpers then fail open

ASSUME NoneIsNoSecret == None \notin Secrets \cup Codes \cup MfaTokens
ASSUME IdsAreDistinct == Codes \cap MfaTokens = {}
ASSUME RedisMayFailIsBoolean == RedisMayFail \in BOOLEAN
ASSUME BatchSizeIsPositive == BatchSize \in Nat \ {0}

VARIABLES
    mfa,        \* users.mfa_enabled and users.mfa_secret of the account
    code,       \* the mfa_recovery_codes table; of: history, the enrollment it was made for, None once disable voided it
    drawn,      \* secrets generated so far
    known,      \* secrets that reached the client in an MFAEnableResponse
    issued,     \* mfa_tokens login has handed out
    blacklist,  \* their jtis in Redis
    req,        \* req[w]: the request worker w is serving
    stale,      \* history: some request wrote after the row it decided on had changed
    died,       \* history: program counters requests died at, codes they had spent
    signedIn,   \* history: mfa_tokens and recovery codes that bought a token pair
    excused     \* history: those whose check overlapped another's or met a Redis failure, or whose entry was evicted

enrollment == <<mfa, code, drawn, known>>
login      == <<issued, blacklist>>
history    == <<stale, died, signedIn, excused>>
vars       == <<mfa, code, drawn, known, issued, blacklist, req,
                stale, died, signedIn, excused>>

Row     == [enabled : BOOLEAN, secret : Secrets \cup {None}]
NoMfa   == [enabled |-> FALSE, secret |-> None]
Ops     == {"none", "enable", "confirm", "disable", "verify"}
PCs     == {"idle", "current_user",
            "set_mfa_secret", "enable_reply",                   \* enable
            "enable_mfa", "create_codes",                       \* confirm
            "disable_mfa", "invalidate_codes",                  \* disable
            "check_blacklist", "load_user", "get_codes",        \* verify
            "mark_used", "blacklist_token", "issue"}

\* row: what the request believes the users row to be.
Request == [op : Ops, pc : PCs, row : Row, totp : Secrets \cup {None},
            recovery : Codes \cup {None}, jti : MfaTokens \cup {None}]

NoRequest == [op |-> "none", pc |-> "idle", row |-> NoMfa, totp |-> None,
              recovery |-> None, jti |-> None]

\* A local the rest of its handler never reads goes back to its first value.
At(w, pc)   == req[w].pc = pc
Goto(w, pc) == req' = [req EXCEPT ![w].pc = pc]
Reply(w)    == req' = [req EXCEPT ![w] = NoRequest]

Active(c)   == code[c].state = "active"

\* The write of a request whose row is not the one in the table.
NoteStaleWrite(w) == stale' = (stale \/ req[w].row # mfa)

\* Verifications of mfa_token m between the blacklist's answer and its entry,
\* and of recovery code c between the list of active codes and the UPDATE.
Checked(m)  == {w \in Workers : req[w].jti = m /\
                    req[w].pc \in {"load_user", "get_codes", "mark_used", "blacklist_token"}}
Listed(c)   == {w \in Workers : At(w, "mark_used") /\ req[w].recovery = c}

\* What verify exchanges for a token pair.
Proof(w) == {req[w].jti, req[w].recovery} \ {None}

\* Worker w has marked recovery code c used, and the token pair is still to come.
Spending(w, c) == req[w].recovery = c /\ req[w].pc \in {"blacklist_token", "issue"}

TypeOK ==
    /\ mfa \in Row
    /\ code \in [Codes -> [state : {"absent", "active", "used"}, of : Secrets \cup {None}]]
    /\ known \subseteq drawn /\ drawn \subseteq Secrets
    /\ issued \subseteq MfaTokens
    /\ blacklist \subseteq MfaTokens
    /\ req \in [Workers -> Request]
    /\ stale \in BOOLEAN
    /\ died \subseteq PCs \cup Codes
    /\ signedIn \subseteq MfaTokens \cup Codes
    /\ excused \subseteq MfaTokens \cup Codes

Init ==
    /\ mfa = NoMfa
    /\ code = [c \in Codes |-> [state |-> "absent", of |-> None]]
    /\ drawn = {} /\ known = {}
    /\ issued = {} /\ blacklist = {}
    /\ req = [w \in Workers |-> NoRequest]
    /\ stale = FALSE
    /\ died = {}
    /\ signedIn = {} /\ excused = {}

-----------------------------------------------------------------------------
(* Requests arrive.  login's own steps are in LoginLockout. *)

Receive(w, r) ==
    /\ At(w, "idle")
    /\ req' = [req EXCEPT ![w] = r]
    /\ UNCHANGED <<enrollment, login, history>>

ReceiveEnable(w) == Receive(w, [NoRequest EXCEPT !.op = "enable", !.pc = "current_user"])

ReceiveConfirm(w) == \E k \in known :
    Receive(w, [NoRequest EXCEPT !.op = "confirm", !.pc = "current_user", !.totp = k])

ReceiveDisable(w) == \E k \in known :
    Receive(w, [NoRequest EXCEPT !.op = "disable", !.pc = "current_user", !.totp = k])

\* MFAVerifyRequest: exactly one of totp_code and recovery_code.
ReceiveVerify(w) == \E m \in issued, k \in known \cup {None}, c \in Codes \cup {None} :
    /\ (k = None) # (c = None)
    /\ c # None => code[c].state # "absent"
    /\ Receive(w, [NoRequest EXCEPT !.op = "verify", !.pc = "check_blacklist",
                                    !.totp = k, !.recovery = c, !.jti = m])

\* login, the password verified: an mfa_token instead of a token pair.
Login == \E m \in MfaTokens \ issued :
    /\ mfa.enabled
    /\ issued' = issued \cup {m}
    /\ UNCHANGED <<enrollment, blacklist, req, history>>

-----------------------------------------------------------------------------
(* get_current_user and the tests that follow it without an await. *)

\* 401, 403, 400, 409: not signed in, wrong password or code, or the row forbids it.
Refused(w) ==
    /\ At(w, "current_user")
    /\ Reply(w)
    /\ UNCHANGED <<enrollment, login, history>>

Decide(w, pc) ==
    /\ At(w, "current_user")
    /\ req' = [req EXCEPT ![w].pc = pc, ![w].row = mfa, ![w].totp = None]
    /\ UNCHANGED <<enrollment, login, history>>

EnableAllowed(w) ==
    /\ req[w].op = "enable"
    /\ ~mfa.enabled
    /\ Decide(w, "set_mfa_secret")

\* Mutant: confirm takes any code.
ConfirmUnproved(w) ==
    /\ req[w].op = "confirm"
    /\ ~mfa.enabled
    /\ Decide(w, "enable_mfa")

ConfirmAllowed(w) ==
    /\ req[w].op = "confirm"
    /\ ~mfa.enabled
    /\ mfa.secret = req[w].totp
    /\ Decide(w, "enable_mfa")

DisableAllowed(w) ==
    /\ req[w].op = "disable"
    /\ mfa.enabled
    /\ mfa.secret = req[w].totp
    /\ Decide(w, "disable_mfa")

-----------------------------------------------------------------------------
(* enable *)

SetMfaSecret(w) == \E k \in Secrets \ drawn :
    /\ At(w, "set_mfa_secret")
    /\ mfa' = [mfa EXCEPT !.secret = k]
    /\ drawn' = drawn \cup {k}
    /\ req' = [req EXCEPT ![w].pc = "enable_reply", ![w].row = NoMfa, ![w].totp = k]
    /\ NoteStaleWrite(w)
    /\ UNCHANGED <<code, known, login, died, signedIn, excused>>

EnableReply(w) ==
    /\ At(w, "enable_reply")
    /\ known' = known \cup {req[w].totp}
    /\ Reply(w)
    /\ UNCHANGED <<mfa, code, drawn, login, history>>

(* confirm *)

\* Mutant: confirm returns without writing recovery codes.
EnableMfaWithoutCodes(w) ==
    /\ At(w, "enable_mfa")
    /\ mfa' = [mfa EXCEPT !.enabled = TRUE]
    /\ Reply(w)
    /\ NoteStaleWrite(w)
    /\ UNCHANGED <<code, drawn, known, login, died, signedIn, excused>>

EnableMfa(w) ==
    /\ At(w, "enable_mfa")
    /\ mfa' = [mfa EXCEPT !.enabled = TRUE]
    /\ req' = [req EXCEPT ![w].pc = "create_codes", ![w].row.enabled = TRUE]
    /\ NoteStaleWrite(w)
    /\ UNCHANGED <<code, drawn, known, login, died, signedIn, excused>>

\* Mutant: the new codes take the rows of old ones.
CreateRecoveryCodesAnew(w) == \E batch \in SUBSET {c \in Codes : ~Active(c)} :
    /\ At(w, "create_codes")
    /\ Cardinality(batch) = BatchSize
    /\ code' = [c \in Codes |-> IF c \in batch
                                THEN [state |-> "active", of |-> req[w].row.secret]
                                ELSE code[c]]
    /\ Reply(w)
    /\ NoteStaleWrite(w)
    /\ UNCHANGED <<mfa, drawn, known, login, died, signedIn, excused>>

\* One batch in one commit, then the audit record and the raw codes.
CreateRecoveryCodes(w) == \E batch \in SUBSET {c \in Codes : code[c].state = "absent"} :
    /\ At(w, "create_codes")
    /\ Cardinality(batch) = BatchSize
    /\ code' = [c \in Codes |-> IF c \in batch
                                THEN [state |-> "active", of |-> req[w].row.secret]
                                ELSE code[c]]
    /\ Reply(w)
    /\ NoteStaleWrite(w)
    /\ UNCHANGED <<mfa, drawn, known, login, died, signedIn, excused>>

(* disable *)

\* Mutant: disable writes NULL into the flag as well.
DisableMfaToNull(w) ==
    /\ At(w, "disable_mfa")
    /\ mfa' = [enabled |-> None, secret |-> None]
    /\ Reply(w)
    /\ NoteStaleWrite(w)
    /\ UNCHANGED <<code, drawn, known, login, died, signedIn, excused>>

DisableMfa(w) ==
    /\ At(w, "disable_mfa")
    /\ mfa' = NoMfa
    /\ req' = [req EXCEPT ![w].pc = "invalidate_codes", ![w].row = NoMfa]
    /\ NoteStaleWrite(w)
    /\ UNCHANGED <<code, drawn, known, login, died, signedIn, excused>>

\* Mutant: disable leaves the recovery codes.
InvalidateNothing(w) ==
    /\ At(w, "invalidate_codes")
    /\ Reply(w)
    /\ NoteStaleWrite(w)
    /\ UNCHANGED <<enrollment, login, died, signedIn, excused>>

InvalidateRecoveryCodes(w) ==
    /\ At(w, "invalidate_codes")
    /\ code' = [c \in Codes |-> IF Active(c) THEN [state |-> "used", of |-> None] ELSE code[c]]
    /\ Reply(w)
    /\ NoteStaleWrite(w)
    /\ UNCHANGED <<mfa, drawn, known, login, died, signedIn, excused>>

-----------------------------------------------------------------------------
(* verify *)

\* is_token_blacklisted, failing open when Redis does.
NotBlacklisted(w) ==
    LET m == req[w].jti
    IN  /\ At(w, "check_blacklist")
        /\ \/ m \notin blacklist
              /\ excused' = IF Checked(m) = {} THEN excused ELSE excused \cup {m}
           \/ RedisMayFail /\ excused' = excused \cup {m}
        /\ Goto(w, "load_user")
        /\ UNCHANGED <<enrollment, login, stale, died, signedIn>>

Blacklisted(w) ==
    /\ At(w, "check_blacklist")
    /\ req[w].jti \in blacklist
    /\ Reply(w)
    /\ UNCHANGED <<enrollment, login, history>>

\* get_by_id, mfa_enabled, and the TOTP code against the row's secret.
LoadUser(w) ==
    /\ At(w, "load_user")
    /\ mfa.enabled
    /\ \/ req[w].totp # None /\ mfa.secret = req[w].totp /\ Goto(w, "blacklist_token")
       \/ req[w].recovery # None /\ Goto(w, "get_codes")
    /\ UNCHANGED <<enrollment, login, history>>

\* 401: user gone or disabled, MFA off, wrong or expired code.
VerifyRefused(w) ==
    /\ At(w, "load_user")
    /\ Reply(w)
    /\ UNCHANGED <<enrollment, login, history>>

\* _consume_recovery_code: the hash among the active ones, then its UPDATE.
GetActiveRecoveryCodes(w) ==
    LET c == req[w].recovery
    IN  /\ At(w, "get_codes")
        /\ IF Active(c) THEN Goto(w, "mark_used") ELSE Reply(w)
        /\ excused' = IF Active(c) /\ Listed(c) # {} THEN excused \cup {c} ELSE excused
        /\ UNCHANGED <<enrollment, login, stale, died, signedIn>>

\* Mutant: the code is matched and not marked.
MatchRecoveryCode(w) ==
    /\ At(w, "mark_used")
    /\ Goto(w, "blacklist_token")
    /\ UNCHANGED <<enrollment, login, history>>

MarkRecoveryCodeUsed(w) ==
    /\ At(w, "mark_used")
    /\ code' = [code EXCEPT ![req[w].recovery].state = "used"]
    /\ Goto(w, "blacklist_token")
    /\ UNCHANGED <<mfa, drawn, known, login, history>>

\* Mutant: blacklist_token lets the failure through, as a 500.
BlacklistTokenOrFail(w) ==
    LET m == req[w].jti
    IN  /\ At(w, "blacklist_token")
        /\ \/ blacklist' = blacklist \cup {m} /\ Goto(w, "issue")
           \/ RedisMayFail /\ Reply(w) /\ UNCHANGED blacklist
        /\ UNCHANGED <<enrollment, issued, history>>

\* blacklist_token never raises: when Redis fails, verify goes on.
BlacklistToken(w) ==
    LET m == req[w].jti
    IN  /\ At(w, "blacklist_token")
        /\ \/ blacklist' = blacklist \cup {m} /\ UNCHANGED excused
           \/ RedisMayFail /\ excused' = excused \cup {m} /\ UNCHANGED blacklist
        /\ Goto(w, "issue")
        /\ UNCHANGED <<enrollment, issued, stale, died, signedIn>>

\* The audit record and _issue_token_pair, see TokenLifecycle.
IssueTokenPair(w) ==
    /\ At(w, "issue")
    /\ signedIn' = signedIn \cup Proof(w)
    /\ Reply(w)
    /\ UNCHANGED <<enrollment, login, stale, died, excused>>

-----------------------------------------------------------------------------
\* Redis runs with maxmemory-policy allkeys-lru: it may drop any entry, whether
\* its calls fail or not.
Evict(m) ==
    /\ m \in blacklist
    /\ blacklist' = blacklist \ {m}
    /\ excused' = excused \cup {m}
    /\ UNCHANGED <<enrollment, issued, req, stale, died, signedIn>>

\* The process dies or the connection breaks; what is committed stays.
Crash(w) ==
    /\ ~At(w, "idle")
    /\ died' = died \cup ({req[w].pc} \cap {"create_codes", "invalidate_codes"})
                    \cup {c \in Codes : Spending(w, c)}
    /\ Reply(w)
    /\ UNCHANGED <<enrollment, login, stale, signedIn, excused>>

Arrive(w) == ReceiveEnable(w) \/ ReceiveConfirm(w) \/ ReceiveDisable(w) \/ ReceiveVerify(w)

Enrolling(w) ==
    \/ Refused(w) \/ EnableAllowed(w) \/ ConfirmAllowed(w) \/ DisableAllowed(w)
    \/ SetMfaSecret(w) \/ EnableReply(w) \/ EnableMfa(w) \/ CreateRecoveryCodes(w)
    \/ DisableMfa(w) \/ InvalidateRecoveryCodes(w)

Verifying(w) ==
    \/ NotBlacklisted(w) \/ Blacklisted(w) \/ LoadUser(w) \/ VerifyRefused(w)
    \/ GetActiveRecoveryCodes(w) \/ MarkRecoveryCodeUsed(w)
    \/ BlacklistToken(w) \/ IssueTokenPair(w)

Next ==
    \/ Login
    \/ \E m \in MfaTokens : Evict(m)
    \/ \E w \in Workers : Arrive(w) \/ Enrolling(w) \/ Verifying(w) \/ Crash(w)

Spec == Init /\ [][Next]_vars

-----------------------------------------------------------------------------
(* Properties *)

\* While every write met the row its request had decided on, MFA is only ever
\* on with a secret the client was given: nobody is locked out by a secret
\* that no authenticator holds.  (enable: "do NOT flip mfa_enabled yet — that
\* only happens once the user proves they can generate a valid code with it".)
EnrolledSecretIsHeld ==
    ~stale /\ mfa.enabled => mfa.secret \in known

\* A recovery code that still works belongs to the enrollment that is on,
\* unless disable is between its two commits or died there.
\* (invalidate_recovery_codes: "none of the previously issued codes should
\* still be redeemable once MFA itself is off".)
CodesBelongToEnrollment ==
    ~stale => \A c \in Codes : Active(c) =>
        \/ mfa = [enabled |-> TRUE, secret |-> code[c].of]
        \/ \E w \in Workers : At(w, "invalidate_codes")
        \/ "invalidate_codes" \in died

\* MFA that is on has had its recovery codes written, unless confirm is
\* between its two commits or died there.
EnrollmentHasCodes ==
    ~stale /\ mfa.enabled =>
        \/ \E c \in Codes : code[c].of = mfa.secret
        \/ \E w \in Workers : At(w, "create_codes")
        \/ "create_codes" \in died

\* An mfa_token or a recovery code buys a second token pair only when two
\* verifications of it overlapped between test and mark, or, an mfa_token,
\* when Redis failed or evicted its entry.
SecondSignInExplained ==
    \A w \in Workers : At(w, "issue") => signedIn \cap Proof(w) \subseteq excused

\* A recovery code is not lost: one that was spent, and not voided by disable,
\* bought a token pair, is about to, or its request died after the mark.
\* (_consume_recovery_code commits before the pair is issued.)
SpentCodesAccounted ==
    \A c \in Codes : code[c].state = "used" /\ code[c].of # None =>
        c \in signedIn \cup died \/ \E w \in Workers : Spending(w, c)

\* enable's docstring: "It has no effect at all on an account that already has
\* MFA enabled."
EnableSparesEnrolled ==
    [][mfa.enabled /\ mfa'.enabled => mfa'.secret = mfa.secret]_vars
=============================================================================
