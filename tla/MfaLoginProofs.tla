---------------------------- MODULE MfaLoginProofs ----------------------------
(***************************************************************************)
(* What MFA enrollment and verification guarantee, for any number of       *)
(* requests, secrets, recovery codes and mfa_tokens.                       *)
(*                                                                         *)
(* The enrollment invariants rest on what a request's locals say at each   *)
(* of its writes (Locals): when no write is stale, that is what the row    *)
(* says.  SecondSignInExplained rests on exclusion: as long as nothing     *)
(* excuses an mfa_token, or a recovery code, one request at most is past   *)
(* its test, and once it is marked nobody else gets there.                 *)
(***************************************************************************)
EXTENDS MfaRefinement, FiniteSetTheorems, TLAPS

VerifyPCs == {"check_blacklist", "load_user", "get_codes", "mark_used", "blacklist_token", "issue"}

\* What a handler has established by the time it writes.
Locals == \A w \in Workers :
    /\ At(w, "set_mfa_secret")   => ~req[w].row.enabled
    /\ At(w, "enable_reply")     => req[w].totp \in drawn
    /\ At(w, "enable_mfa")       => ~req[w].row.enabled /\ req[w].row.secret \in known
    /\ At(w, "create_codes")     => req[w].row.enabled
    /\ At(w, "invalidate_codes") => req[w].row = NoMfa
    /\ At(w, "current_user") /\ req[w].op = "confirm" => req[w].totp \in known
    /\ req[w].pc \in VerifyPCs       => req[w].jti \in MfaTokens
    /\ req[w].pc \in {"get_codes", "mark_used"} => req[w].recovery \in Codes
    /\ req[w].pc \in {"check_blacklist", "load_user"} => None \in {req[w].totp, req[w].recovery}

-----------------------------------------------------------------------------
(* A request's locals. *)

LEMMA NoRequestTyped == NoRequest \in Request /\ \A pc \in PCs : [NoRequest EXCEPT !.pc = pc] \in Request
BY DEF NoRequest, Request, Row, NoMfa, Ops, PCs

LEMMA ReplyTyped ==
    ASSUME TypeOK, NEW w \in Workers, Reply(w)
    PROVE  req' \in [Workers -> Request]
BY NoRequestTyped DEF TypeOK, Reply

LEMMA GotoTyped ==
    ASSUME TypeOK, NEW w \in Workers, NEW pc \in PCs, Goto(w, pc)
    PROVE  req' \in [Workers -> Request]
<1>1. req[w] \in Request  BY DEF TypeOK
<1>2. [req[w] EXCEPT !.pc = pc] \in Request  BY <1>1 DEF Request
<1>3. req' = [req EXCEPT ![w] = [req[w] EXCEPT !.pc = pc]]  BY DEF Goto
<1> QED  BY <1>2, <1>3 DEF TypeOK

LEMMA ReceiveTyped ==
    ASSUME TypeOK, NEW w \in Workers, NEW r \in Request, Receive(w, r)
    PROVE  TypeOK'
BY DEF TypeOK, Receive, enrollment, login, history

LEMMA DecideTyped ==
    ASSUME TypeOK, NEW w \in Workers, NEW pc \in PCs, Decide(w, pc)
    PROVE  TypeOK'
<1>1. req[w] \in Request /\ mfa \in Row  BY DEF TypeOK
<1>2. [req[w] EXCEPT !.pc = pc, !.row = mfa, !.totp = None] \in Request  BY <1>1 DEF Request
<1>3. req' = [req EXCEPT ![w] = [req[w] EXCEPT !.pc = pc, !.row = mfa, !.totp = None]]  BY DEF Decide
<1> QED  BY <1>2, <1>3 DEF TypeOK, Decide, enrollment, login, history

-----------------------------------------------------------------------------
(* Types *)

\* A step keeps the types of the columns, of Redis and of every request.
LEMMA TypeStep == TypeOK /\ Locals /\ [Next]_vars => TypeOK'
<1> SUFFICES ASSUME TypeOK, Locals, [Next]_vars PROVE TypeOK'
  OBVIOUS
<1> USE DEF enrollment, login, history
<1>1. CASE Login  BY <1>1 DEF Login, TypeOK
<1>e. ASSUME NEW n \in MfaTokens, Evict(n) PROVE TypeOK'  BY <1>e DEF Evict, TypeOK
<1>2. ASSUME NEW w \in Workers, Arrive(w) PROVE TypeOK'
  <2> USE DEF NoRequest, Request, Row, NoMfa, Ops, PCs
  <2>1. CASE ReceiveEnable(w)
    <3>1. [NoRequest EXCEPT !.op = "enable", !.pc = "current_user"] \in Request  OBVIOUS
    <3> QED  BY <2>1, <3>1, ReceiveTyped DEF ReceiveEnable
  <2>2. CASE ReceiveConfirm(w)
    <3>1. PICK k \in known : Receive(w, [NoRequest EXCEPT !.op = "confirm", !.pc = "current_user", !.totp = k])
      BY <2>2 DEF ReceiveConfirm
    <3>2. [NoRequest EXCEPT !.op = "confirm", !.pc = "current_user", !.totp = k] \in Request
      BY DEF TypeOK
    <3> QED  BY <3>1, <3>2, ReceiveTyped
  <2>3. CASE ReceiveDisable(w)
    <3>1. PICK k \in known : Receive(w, [NoRequest EXCEPT !.op = "disable", !.pc = "current_user", !.totp = k])
      BY <2>3 DEF ReceiveDisable
    <3>2. [NoRequest EXCEPT !.op = "disable", !.pc = "current_user", !.totp = k] \in Request
      BY DEF TypeOK
    <3> QED  BY <3>1, <3>2, ReceiveTyped
  <2>4. CASE ReceiveVerify(w)
    <3>1. PICK m \in issued, k \in known \cup {None}, c \in Codes \cup {None} :
            Receive(w, [NoRequest EXCEPT !.op = "verify", !.pc = "check_blacklist",
                                         !.totp = k, !.recovery = c, !.jti = m])
      BY <2>4 DEF ReceiveVerify
    <3>2. [NoRequest EXCEPT !.op = "verify", !.pc = "check_blacklist",
                            !.totp = k, !.recovery = c, !.jti = m] \in Request
      BY DEF TypeOK
    <3> QED  BY <3>1, <3>2, ReceiveTyped
  <2> QED  BY <1>2, <2>1, <2>2, <2>3, <2>4 DEF Arrive
<1>3. ASSUME NEW w \in Workers, Enrolling(w) PROVE TypeOK'
  <2>1. CASE Refused(w)  BY <2>1, ReplyTyped DEF Refused, TypeOK
  <2>2. CASE EnableAllowed(w) \/ ConfirmAllowed(w) \/ DisableAllowed(w)
    <3>1. PICK pc \in PCs : Decide(w, pc)
      BY <2>2 DEF EnableAllowed, ConfirmAllowed, DisableAllowed, PCs
    <3> QED  BY <3>1, DecideTyped
  <2>5. CASE SetMfaSecret(w)
    <3>1. PICK k \in Secrets :
            /\ mfa' = [mfa EXCEPT !.secret = k]
            /\ drawn' = drawn \cup {k}
            /\ req' = [req EXCEPT ![w].pc = "enable_reply", ![w].row = NoMfa, ![w].totp = k]
            /\ UNCHANGED <<code, known, login, died, signedIn, excused>>
      BY <2>5 DEF SetMfaSecret
    <3>2. req[w] \in Request /\ mfa \in Row  BY DEF TypeOK
    <3>3. [req[w] EXCEPT !.pc = "enable_reply", !.row = NoMfa, !.totp = k] \in Request
      BY <3>2 DEF Request, PCs, NoMfa, Row
    <3>4. req' = [req EXCEPT ![w] = [req[w] EXCEPT !.pc = "enable_reply", !.row = NoMfa, !.totp = k]]
      BY <3>1
    <3>5. mfa' \in Row  BY <3>1, <3>2 DEF Row
    <3>6. req' \in [Workers -> Request]  BY <3>3, <3>4 DEF TypeOK
    <3>7. stale' \in BOOLEAN  BY <2>5 DEF SetMfaSecret, NoteStaleWrite, TypeOK
    <3> QED  BY <3>1, <3>5, <3>6, <3>7 DEF TypeOK
  <2>6. CASE EnableReply(w)
    <3>1. known' \subseteq drawn'
      <4>1. req[w].totp \in drawn  BY <2>6 DEF EnableReply, Locals, At
      <4> QED  BY <2>6, <4>1 DEF EnableReply, TypeOK
    <3>2. drawn' \subseteq Secrets  BY <2>6 DEF EnableReply, TypeOK
    <3> QED  BY <2>6, <3>1, <3>2, ReplyTyped DEF EnableReply, TypeOK
  <2>7. CASE EnableMfa(w)
    <3>1. req[w] \in Request /\ mfa \in Row  BY DEF TypeOK
    <3>2. [req[w] EXCEPT !.pc = "create_codes", !.row = [req[w].row EXCEPT !.enabled = TRUE]] \in Request
      BY <3>1 DEF Request, PCs, Row, NoMfa
    <3>3. req' = [req EXCEPT ![w] = [req[w] EXCEPT !.pc = "create_codes", !.row = [req[w].row EXCEPT !.enabled = TRUE]]]
      BY <2>7, <3>1 DEF EnableMfa, Request
    <3>4. mfa' \in Row  BY <2>7, <3>1 DEF EnableMfa, Row, NoMfa
    <3>5. stale' \in BOOLEAN  BY <2>7 DEF EnableMfa, NoteStaleWrite, TypeOK
    <3>6. req' \in [Workers -> Request]  BY <3>2, <3>3 DEF TypeOK
    <3> QED  BY <2>7, <3>4, <3>5, <3>6 DEF EnableMfa, TypeOK
  <2>8. CASE CreateRecoveryCodes(w)
    <3>1. req[w].row.secret \in Secrets \cup {None}  BY DEF TypeOK, Request, Row
    <3>2. stale' \in BOOLEAN  BY <2>8 DEF CreateRecoveryCodes, NoteStaleWrite, TypeOK
    <3>3. code' \in [Codes -> [state : {"absent", "active", "used"}, of : Secrets \cup {None}]]
      BY <2>8, <3>1 DEF CreateRecoveryCodes, TypeOK
    <3> QED  BY <2>8, <3>2, <3>3, ReplyTyped DEF CreateRecoveryCodes, TypeOK
  <2>9. CASE DisableMfa(w)
    <3>1. req[w] \in Request /\ mfa \in Row  BY DEF TypeOK
    <3>2. [req[w] EXCEPT !.pc = "invalidate_codes", !.row = NoMfa] \in Request
      BY <3>1 DEF Request, PCs, Row, NoMfa
    <3>3. req' = [req EXCEPT ![w] = [req[w] EXCEPT !.pc = "invalidate_codes", !.row = NoMfa]]
      BY <2>9, <3>1 DEF DisableMfa, Request
    <3>4. mfa' \in Row  BY <2>9, <3>1 DEF DisableMfa, Row, NoMfa
    <3>5. stale' \in BOOLEAN  BY <2>9 DEF DisableMfa, NoteStaleWrite, TypeOK
    <3>6. req' \in [Workers -> Request]  BY <3>2, <3>3 DEF TypeOK
    <3> QED  BY <2>9, <3>4, <3>5, <3>6 DEF DisableMfa, TypeOK
  <2>10. CASE InvalidateRecoveryCodes(w)
    <3>1. stale' \in BOOLEAN  BY <2>10 DEF InvalidateRecoveryCodes, NoteStaleWrite, TypeOK
    <3>2. code' \in [Codes -> [state : {"absent", "active", "used"}, of : Secrets \cup {None}]]
      BY <2>10 DEF InvalidateRecoveryCodes, TypeOK
    <3> QED  BY <2>10, <3>1, <3>2, ReplyTyped DEF InvalidateRecoveryCodes, TypeOK
  <2> QED  BY <1>3, <2>1, <2>2, <2>5, <2>6, <2>7, <2>8, <2>9, <2>10 DEF Enrolling
<1>4. ASSUME NEW w \in Workers, Verifying(w) PROVE TypeOK'
  <2>1. {"load_user", "blacklist_token", "get_codes", "mark_used", "issue"} \subseteq PCs
    BY DEF PCs
  <2>2. /\ req[w].jti \in MfaTokens \cup {None}
        /\ req[w].recovery \in Codes \cup {None}
    BY DEF TypeOK, Request
  <2>4. CASE NotBlacklisted(w)
    <3>1. req' \in [Workers -> Request]  BY <2>1, <2>4, GotoTyped DEF NotBlacklisted
    <3>2. req[w].jti \in MfaTokens  BY <2>4 DEF NotBlacklisted, Locals, VerifyPCs, At
    <3> QED  BY <2>4, <3>1, <3>2 DEF NotBlacklisted, TypeOK
  <2>5. CASE Blacklisted(w)  BY <2>5, ReplyTyped DEF Blacklisted, TypeOK
  <2>6. CASE LoadUser(w)
    <3>1. req' \in [Workers -> Request]  BY <2>1, <2>6, GotoTyped DEF LoadUser
    <3> QED  BY <2>6, <3>1 DEF LoadUser, TypeOK
  <2>7. CASE VerifyRefused(w)  BY <2>7, ReplyTyped DEF VerifyRefused, TypeOK
  <2>8. CASE GetActiveRecoveryCodes(w)
    <3>1. req' \in [Workers -> Request]
      BY <2>1, <2>8, GotoTyped, ReplyTyped DEF GetActiveRecoveryCodes
    <3>2. req[w].recovery \in Codes  BY <2>8 DEF GetActiveRecoveryCodes, Locals, At
    <3> QED  BY <2>8, <3>1, <3>2 DEF GetActiveRecoveryCodes, TypeOK
  <2>9. CASE MarkRecoveryCodeUsed(w)
    <3>1. req' \in [Workers -> Request]  BY <2>1, <2>9, GotoTyped DEF MarkRecoveryCodeUsed
    <3>2. code' \in [Codes -> [state : {"absent", "active", "used"}, of : Secrets \cup {None}]]
      BY <2>9 DEF MarkRecoveryCodeUsed, TypeOK
    <3> QED  BY <2>9, <3>1, <3>2 DEF MarkRecoveryCodeUsed, TypeOK
  <2>10. CASE BlacklistToken(w)
    <3>1. req' \in [Workers -> Request]  BY <2>1, <2>10, GotoTyped DEF BlacklistToken
    <3>2. req[w].jti \in MfaTokens  BY <2>10 DEF BlacklistToken, Locals, VerifyPCs, At
    <3> QED  BY <2>10, <3>1, <3>2 DEF BlacklistToken, TypeOK
  <2>11. CASE IssueTokenPair(w)
    <3>1. req' \in [Workers -> Request]  BY <2>11, ReplyTyped DEF IssueTokenPair
    <3>2. Proof(w) \subseteq MfaTokens \cup Codes  BY <2>2 DEF Proof
    <3> QED  BY <2>11, <3>1, <3>2 DEF IssueTokenPair, TypeOK
  <2> QED  BY <1>4, <2>4, <2>5, <2>6, <2>7, <2>8, <2>9, <2>10, <2>11 DEF Verifying
<1>5. ASSUME NEW w \in Workers, Crash(w) PROVE TypeOK'
  <2>1. req' \in [Workers -> Request]  BY <1>5, ReplyTyped DEF Crash
  <2>2. died' \subseteq PCs \cup Codes  BY <1>5 DEF Crash, TypeOK, PCs
  <2> QED  BY <1>5, <2>1, <2>2 DEF Crash, TypeOK
<1>6. CASE UNCHANGED vars  BY <1>6 DEF vars, TypeOK
<1> QED  BY <1>1, <1>2, <1>3, <1>4, <1>5, <1>6, <1>e DEF Next

\* Each decision is taken before the writes it leads to, and only there do the
\* locals it is about change.
LEMMA LocalsStep == TypeOK /\ Locals /\ [Next]_vars => Locals'
<1> SUFFICES ASSUME TypeOK, Locals, [Next]_vars PROVE Locals'
  OBVIOUS
<1>1. req \in [Workers -> Request] /\ known \subseteq drawn /\ issued \subseteq MfaTokens
  BY DEF TypeOK
<1>2. \A v \in Workers : DOMAIN req[v] = DOMAIN NoRequest
  BY <1>1 DEF Request, NoRequest
<1> USE <1>1, <1>2, NoneIsNoSecret
        DEF Locals, VerifyPCs, At, Goto, Reply, NoRequest, enrollment, login, history
<1>3. CASE Login  BY <1>3 DEF Login
<1>e. ASSUME NEW n \in MfaTokens, Evict(n) PROVE Locals'  BY <1>e DEF Evict
<1>4. ASSUME NEW w \in Workers, Arrive(w) PROVE Locals'
  <2>1. CASE ReceiveEnable(w)  BY <2>1 DEF ReceiveEnable, Receive
  <2>2. CASE ReceiveConfirm(w)  BY <2>2 DEF ReceiveConfirm, Receive
  <2>3. CASE ReceiveDisable(w)  BY <2>3 DEF ReceiveDisable, Receive
  <2>4. CASE ReceiveVerify(w)  BY <2>4 DEF ReceiveVerify, Receive
  <2> QED  BY <1>4, <2>1, <2>2, <2>3, <2>4 DEF Arrive
<1>5. ASSUME NEW w \in Workers, Enrolling(w) PROVE Locals'
  <2>1. CASE Refused(w)  BY <2>1 DEF Refused
  <2>2. CASE EnableAllowed(w)  BY <2>2 DEF EnableAllowed, Decide
  <2>3. CASE ConfirmAllowed(w)  BY <2>3 DEF ConfirmAllowed, Decide
  <2>4. CASE DisableAllowed(w)  BY <2>4 DEF DisableAllowed, Decide
  <2>5. CASE SetMfaSecret(w)  BY <2>5 DEF SetMfaSecret, NoteStaleWrite
  <2>6. CASE EnableReply(w)  BY <2>6 DEF EnableReply
  <2>7. CASE EnableMfa(w)  BY <2>7 DEF EnableMfa, NoteStaleWrite
  <2>8. CASE CreateRecoveryCodes(w)  BY <2>8 DEF CreateRecoveryCodes, NoteStaleWrite
  <2>9. CASE DisableMfa(w)  BY <2>9 DEF DisableMfa, NoteStaleWrite
  <2>10. CASE InvalidateRecoveryCodes(w)  BY <2>10 DEF InvalidateRecoveryCodes, NoteStaleWrite
  <2> QED  BY <1>5, <2>1, <2>2, <2>3, <2>4, <2>5, <2>6, <2>7, <2>8, <2>9, <2>10 DEF Enrolling
<1>6. ASSUME NEW w \in Workers, Verifying(w) PROVE Locals'
  <2>1. CASE NotBlacklisted(w)  BY <2>1 DEF NotBlacklisted
  <2>2. CASE Blacklisted(w)  BY <2>2 DEF Blacklisted
  <2>3. CASE LoadUser(w)
    <3>1. req[w].recovery \in Codes \cup {None}  BY DEF Request
    <3> QED  BY <2>3, <3>1 DEF LoadUser
  <2>4. CASE VerifyRefused(w)  BY <2>4 DEF VerifyRefused
  <2>5. CASE GetActiveRecoveryCodes(w)  BY <2>5 DEF GetActiveRecoveryCodes
  <2>6. CASE MarkRecoveryCodeUsed(w)  BY <2>6 DEF MarkRecoveryCodeUsed
  <2>7. CASE BlacklistToken(w)  BY <2>7 DEF BlacklistToken
  <2>8. CASE IssueTokenPair(w)  BY <2>8 DEF IssueTokenPair, Proof
  <2> QED  BY <1>6, <2>1, <2>2, <2>3, <2>4, <2>5, <2>6, <2>7, <2>8 DEF Verifying
<1>7. ASSUME NEW w \in Workers, Crash(w) PROVE Locals'  BY <1>7 DEF Crash
<1>8. CASE UNCHANGED vars  BY <1>8 DEF vars
<1> QED  BY <1>3, <1>4, <1>5, <1>6, <1>7, <1>8, <1>e DEF Next

LEMMA LocalsHold == Spec => [](TypeOK /\ Locals)
<1>1. Init => TypeOK
  <2> SUFFICES ASSUME Init PROVE TypeOK
    OBVIOUS
  <2>1. mfa \in Row  BY DEF Init, Row, NoMfa
  <2>2. req \in [Workers -> Request]  BY NoRequestTyped DEF Init
  <2>3. code \in [Codes -> [state : {"absent", "active", "used"}, of : Secrets \cup {None}]]
    BY DEF Init
  <2> QED  BY <2>1, <2>2, <2>3 DEF Init, TypeOK
<1>2. Init => Locals  BY DEF Init, Locals, VerifyPCs, At, NoRequest
<1> QED  BY <1>1, <1>2, TypeStep, LocalsStep, PTL DEF Spec

\* The account, the codes, Redis and the requests keep their types, whatever
\* overlaps and whatever dies.
THEOREM MfaTypeCorrect == Spec => []TypeOK
BY LocalsHold, PTL

-----------------------------------------------------------------------------
(* Enrollment, while no write is stale. *)

\* A write that was not stale met the row its request had decided on.
LEMMA HeldStep ==
    TypeOK /\ Locals /\ EnrolledSecretIsHeld /\ [Next]_vars => EnrolledSecretIsHeld'
<1> SUFFICES ASSUME TypeOK, Locals, EnrolledSecretIsHeld, [Next]_vars, ~stale', mfa'.enabled
             PROVE  mfa'.secret \in known'
  BY DEF EnrolledSecretIsHeld
<1>1. /\ req \in [Workers -> Request] /\ mfa \in Row /\ stale \in BOOLEAN
      /\ \A w \in Workers : req[w].row \in Row
  BY DEF TypeOK, Request
<1> USE <1>1 DEF EnrolledSecretIsHeld, Locals, Row, NoMfa, At, enrollment, login, history
<1>2. CASE Login  BY <1>2 DEF Login
<1>e. ASSUME NEW n \in MfaTokens, Evict(n) PROVE mfa'.secret \in known'  BY <1>e DEF Evict
<1>3. ASSUME NEW w \in Workers, Arrive(w) PROVE mfa'.secret \in known'
  <2>1. CASE ReceiveEnable(w)  BY <2>1 DEF ReceiveEnable, Receive
  <2>2. CASE ReceiveConfirm(w)  BY <2>2 DEF ReceiveConfirm, Receive
  <2>3. CASE ReceiveDisable(w)  BY <2>3 DEF ReceiveDisable, Receive
  <2>4. CASE ReceiveVerify(w)  BY <2>4 DEF ReceiveVerify, Receive
  <2> QED  BY <1>3, <2>1, <2>2, <2>3, <2>4 DEF Arrive
<1>4. ASSUME NEW w \in Workers, Enrolling(w) PROVE mfa'.secret \in known'
  <2>1. CASE Refused(w)  BY <2>1 DEF Refused
  <2>2. CASE EnableAllowed(w)  BY <2>2 DEF EnableAllowed, Decide
  <2>3. CASE ConfirmAllowed(w)  BY <2>3 DEF ConfirmAllowed, Decide
  <2>4. CASE DisableAllowed(w)  BY <2>4 DEF DisableAllowed, Decide
  <2>5. CASE SetMfaSecret(w)  BY <2>5 DEF SetMfaSecret, NoteStaleWrite
  <2>6. CASE EnableReply(w)  BY <2>6 DEF EnableReply
  <2>7. CASE EnableMfa(w)  BY <2>7 DEF EnableMfa, NoteStaleWrite
  <2>8. CASE CreateRecoveryCodes(w)  BY <2>8 DEF CreateRecoveryCodes, NoteStaleWrite
  <2>9. CASE DisableMfa(w)  BY <2>9 DEF DisableMfa, NoteStaleWrite
  <2>10. CASE InvalidateRecoveryCodes(w)  BY <2>10 DEF InvalidateRecoveryCodes, NoteStaleWrite
  <2> QED  BY <1>4, <2>1, <2>2, <2>3, <2>4, <2>5, <2>6, <2>7, <2>8, <2>9, <2>10 DEF Enrolling
<1>5. ASSUME NEW w \in Workers, Verifying(w) PROVE mfa'.secret \in known'
  <2>1. CASE NotBlacklisted(w)  BY <2>1 DEF NotBlacklisted
  <2>2. CASE Blacklisted(w)  BY <2>2 DEF Blacklisted
  <2>3. CASE LoadUser(w)  BY <2>3 DEF LoadUser
  <2>4. CASE VerifyRefused(w)  BY <2>4 DEF VerifyRefused
  <2>5. CASE GetActiveRecoveryCodes(w)  BY <2>5 DEF GetActiveRecoveryCodes
  <2>6. CASE MarkRecoveryCodeUsed(w)  BY <2>6 DEF MarkRecoveryCodeUsed
  <2>7. CASE BlacklistToken(w)  BY <2>7 DEF BlacklistToken
  <2>8. CASE IssueTokenPair(w)  BY <2>8 DEF IssueTokenPair, Proof
  <2> QED  BY <1>5, <2>1, <2>2, <2>3, <2>4, <2>5, <2>6, <2>7, <2>8 DEF Verifying
<1>6. ASSUME NEW w \in Workers, Crash(w) PROVE mfa'.secret \in known'  BY <1>6 DEF Crash
<1>7. CASE UNCHANGED vars  BY <1>7 DEF vars
<1> QED  BY <1>2, <1>3, <1>4, <1>5, <1>6, <1>7, <1>e DEF Next

\* Nothing is issued, used or closed behind a disable that has still to void
\* the codes: a code that works is of the enrollment that is on.
LEMMA BelongStep ==
    TypeOK /\ Locals /\ CodesBelongToEnrollment /\ [Next]_vars => CodesBelongToEnrollment'
<1> SUFFICES ASSUME TypeOK, Locals, CodesBelongToEnrollment, [Next]_vars, ~stale',
                    NEW c \in Codes, Active(c)'
             PROVE  \/ mfa' = [enabled |-> TRUE, secret |-> code'[c].of]
                    \/ \E w \in Workers : At(w, "invalidate_codes")'
                    \/ "invalidate_codes" \in died'
  BY DEF CodesBelongToEnrollment
<1> DEFINE Goal == \/ mfa' = [enabled |-> TRUE, secret |-> code'[c].of]
                   \/ \E w \in Workers : At(w, "invalidate_codes")'
                   \/ "invalidate_codes" \in died'
<1>1. /\ req \in [Workers -> Request] /\ mfa \in Row /\ stale \in BOOLEAN
      /\ code \in [Codes -> [state : {"absent", "active", "used"}, of : Secrets \cup {None}]]
      /\ \A w \in Workers : req[w].row \in Row
  BY DEF TypeOK, Request
<1> USE <1>1 DEF CodesBelongToEnrollment, Active, Locals, Row, NoMfa, NoRequest, At, Goto, Reply,
                 enrollment, login, history
<1>2. CASE Login  BY <1>2 DEF Login
<1>e. ASSUME NEW n \in MfaTokens, Evict(n) PROVE Goal  BY <1>e DEF Evict
<1>3. ASSUME NEW w \in Workers, Arrive(w) PROVE Goal
  <2>1. CASE ReceiveEnable(w)  BY <2>1 DEF ReceiveEnable, Receive
  <2>2. CASE ReceiveConfirm(w)  BY <2>2 DEF ReceiveConfirm, Receive
  <2>3. CASE ReceiveDisable(w)  BY <2>3 DEF ReceiveDisable, Receive
  <2>4. CASE ReceiveVerify(w)  BY <2>4 DEF ReceiveVerify, Receive
  <2> QED  BY <1>3, <2>1, <2>2, <2>3, <2>4 DEF Arrive
<1>4. ASSUME NEW w \in Workers, Enrolling(w) PROVE Goal
  <2>1. CASE Refused(w)  BY <2>1 DEF Refused
  <2>2. CASE EnableAllowed(w)  BY <2>2 DEF EnableAllowed, Decide
  <2>3. CASE ConfirmAllowed(w)  BY <2>3 DEF ConfirmAllowed, Decide
  <2>4. CASE DisableAllowed(w)  BY <2>4 DEF DisableAllowed, Decide
  <2>5. CASE SetMfaSecret(w)  BY <2>5 DEF SetMfaSecret, NoteStaleWrite
  <2>6. CASE EnableReply(w)  BY <2>6 DEF EnableReply
  <2>7. CASE EnableMfa(w)
    <3>1. /\ At(w, "enable_mfa") /\ req[w].row = mfa /\ ~stale
          /\ UNCHANGED <<code, died>>
          /\ \A v \in Workers \ {w} : req'[v] = req[v]
      BY <2>7 DEF EnableMfa, NoteStaleWrite
    <3>2. ~mfa.enabled  BY <3>1
    <3>3. CASE "invalidate_codes" \in died  BY <3>1, <3>3
    <3>4. CASE \E v \in Workers : At(v, "invalidate_codes")  BY <3>1, <3>4
    <3> QED  BY <3>1, <3>2, <3>3, <3>4
  <2>8. CASE CreateRecoveryCodes(w)  BY <2>8 DEF CreateRecoveryCodes, NoteStaleWrite
  <2>9. CASE DisableMfa(w)  BY <2>9 DEF DisableMfa, NoteStaleWrite
  <2>10. CASE InvalidateRecoveryCodes(w)  BY <2>10 DEF InvalidateRecoveryCodes, NoteStaleWrite
  <2> QED  BY <1>4, <2>1, <2>2, <2>3, <2>4, <2>5, <2>6, <2>7, <2>8, <2>9, <2>10 DEF Enrolling
<1>5. ASSUME NEW w \in Workers, Verifying(w) PROVE Goal
  <2>1. CASE NotBlacklisted(w)  BY <2>1 DEF NotBlacklisted
  <2>2. CASE Blacklisted(w)  BY <2>2 DEF Blacklisted
  <2>3. CASE LoadUser(w)
    <3>1. /\ UNCHANGED <<mfa, code, stale, died>> /\ req[w].pc = "load_user"
          /\ \A v \in Workers \ {w} : req'[v] = req[v]
      BY <2>3 DEF LoadUser
    <3> QED  BY <3>1
  <2>4. CASE VerifyRefused(w)  BY <2>4 DEF VerifyRefused
  <2>5. CASE GetActiveRecoveryCodes(w)  BY <2>5 DEF GetActiveRecoveryCodes
  <2>6. CASE MarkRecoveryCodeUsed(w)  BY <2>6 DEF MarkRecoveryCodeUsed
  <2>7. CASE BlacklistToken(w)  BY <2>7 DEF BlacklistToken
  <2>8. CASE IssueTokenPair(w)  BY <2>8 DEF IssueTokenPair, Proof
  <2> QED  BY <1>5, <2>1, <2>2, <2>3, <2>4, <2>5, <2>6, <2>7, <2>8 DEF Verifying
<1>6. ASSUME NEW w \in Workers, Crash(w) PROVE Goal  BY <1>6 DEF Crash
<1>7. CASE UNCHANGED vars  BY <1>7 DEF vars
<1> QED  BY <1>2, <1>3, <1>4, <1>5, <1>6, <1>7, <1>e DEF Next

\* confirm writes a batch for the enrollment it turned on, and only disable,
\* which has turned it off, voids one.
LEMMA HasCodesStep ==
    TypeOK /\ Locals /\ EnrollmentHasCodes /\ [Next]_vars => EnrollmentHasCodes'
<1> SUFFICES ASSUME TypeOK, Locals, EnrollmentHasCodes, [Next]_vars, ~stale', mfa'.enabled
             PROVE  \/ \E c \in Codes : code'[c].of = mfa'.secret
                    \/ \E w \in Workers : At(w, "create_codes")'
                    \/ "create_codes" \in died'
  BY DEF EnrollmentHasCodes
<1> DEFINE Goal == \/ \E c \in Codes : code'[c].of = mfa'.secret
                   \/ \E w \in Workers : At(w, "create_codes")'
                   \/ "create_codes" \in died'
<1>1. /\ req \in [Workers -> Request] /\ mfa \in Row /\ stale \in BOOLEAN
      /\ code \in [Codes -> [state : {"absent", "active", "used"}, of : Secrets \cup {None}]]
      /\ \A w \in Workers : req[w].row \in Row
  BY DEF TypeOK, Request
<1> USE <1>1 DEF EnrollmentHasCodes, Active, Locals, Row, NoMfa, NoRequest, At, Goto, Reply,
                 enrollment, login, history
<1>2. CASE Login  BY <1>2 DEF Login
<1>e. ASSUME NEW n \in MfaTokens, Evict(n) PROVE Goal  BY <1>e DEF Evict
<1>3. ASSUME NEW w \in Workers, Arrive(w) PROVE Goal
  <2>1. CASE ReceiveEnable(w)  BY <2>1 DEF ReceiveEnable, Receive
  <2>2. CASE ReceiveConfirm(w)  BY <2>2 DEF ReceiveConfirm, Receive
  <2>3. CASE ReceiveDisable(w)  BY <2>3 DEF ReceiveDisable, Receive
  <2>4. CASE ReceiveVerify(w)  BY <2>4 DEF ReceiveVerify, Receive
  <2> QED  BY <1>3, <2>1, <2>2, <2>3, <2>4 DEF Arrive
<1>4. ASSUME NEW w \in Workers, Enrolling(w) PROVE Goal
  <2>1. CASE Refused(w)  BY <2>1 DEF Refused
  <2>2. CASE EnableAllowed(w)  BY <2>2 DEF EnableAllowed, Decide
  <2>3. CASE ConfirmAllowed(w)  BY <2>3 DEF ConfirmAllowed, Decide
  <2>4. CASE DisableAllowed(w)  BY <2>4 DEF DisableAllowed, Decide
  <2>5. CASE SetMfaSecret(w)  BY <2>5 DEF SetMfaSecret, NoteStaleWrite
  <2>6. CASE EnableReply(w)  BY <2>6 DEF EnableReply
  <2>7. CASE EnableMfa(w)  BY <2>7 DEF EnableMfa, NoteStaleWrite
  <2>8. CASE CreateRecoveryCodes(w)
    <3>1. PICK batch \in SUBSET Codes :
            /\ Cardinality(batch) = BatchSize
            /\ code' = [c \in Codes |-> IF c \in batch
                                        THEN [state |-> "active", of |-> req[w].row.secret]
                                        ELSE code[c]]
      BY <2>8 DEF CreateRecoveryCodes
    <3>2. batch # {}  BY <3>1, FS_EmptySet, BatchSizeIsPositive
    <3>3. req[w].row = mfa /\ mfa' = mfa  BY <2>8 DEF CreateRecoveryCodes, NoteStaleWrite
    <3> QED  BY <3>1, <3>2, <3>3
  <2>9. CASE DisableMfa(w)  BY <2>9 DEF DisableMfa, NoteStaleWrite
  <2>10. CASE InvalidateRecoveryCodes(w)  BY <2>10 DEF InvalidateRecoveryCodes, NoteStaleWrite
  <2> QED  BY <1>4, <2>1, <2>2, <2>3, <2>4, <2>5, <2>6, <2>7, <2>8, <2>9, <2>10 DEF Enrolling
<1>5. ASSUME NEW w \in Workers, Verifying(w) PROVE Goal
  <2>1. CASE NotBlacklisted(w)  BY <2>1 DEF NotBlacklisted
  <2>2. CASE Blacklisted(w)  BY <2>2 DEF Blacklisted
  <2>3. CASE LoadUser(w)  BY <2>3 DEF LoadUser
  <2>4. CASE VerifyRefused(w)  BY <2>4 DEF VerifyRefused
  <2>5. CASE GetActiveRecoveryCodes(w)  BY <2>5 DEF GetActiveRecoveryCodes
  <2>6. CASE MarkRecoveryCodeUsed(w)  BY <2>6 DEF MarkRecoveryCodeUsed
  <2>7. CASE BlacklistToken(w)  BY <2>7 DEF BlacklistToken
  <2>8. CASE IssueTokenPair(w)  BY <2>8 DEF IssueTokenPair, Proof
  <2> QED  BY <1>5, <2>1, <2>2, <2>3, <2>4, <2>5, <2>6, <2>7, <2>8 DEF Verifying
<1>6. ASSUME NEW w \in Workers, Crash(w) PROVE Goal  BY <1>6 DEF Crash
<1>7. CASE UNCHANGED vars  BY <1>7 DEF vars
<1> QED  BY <1>2, <1>3, <1>4, <1>5, <1>6, <1>7, <1>e DEF Next

-----------------------------------------------------------------------------
(* What is spent. *)

\* From the mark to the pair a code is its request's.
LEMMA SpentStep ==
    TypeOK /\ Locals /\ SpentCodesAccounted /\ [Next]_vars => SpentCodesAccounted'
<1> SUFFICES ASSUME TypeOK, Locals, SpentCodesAccounted, [Next]_vars,
                    NEW c \in Codes, code'[c].state = "used", code'[c].of # None
             PROVE  c \in signedIn' \cup died' \/ \E w \in Workers : Spending(w, c)'
  BY DEF SpentCodesAccounted
<1> DEFINE Goal == c \in signedIn' \cup died' \/ \E w \in Workers : Spending(w, c)'
<1>1. /\ req \in [Workers -> Request]
      /\ code \in [Codes -> [state : {"absent", "active", "used"}, of : Secrets \cup {None}]]
  BY DEF TypeOK
<1>2. \A v \in Workers : DOMAIN req[v] = DOMAIN NoRequest
  BY <1>1 DEF Request, NoRequest
<1> USE <1>1, <1>2, NoneIsNoSecret
        DEF SpentCodesAccounted, Spending, Active, Locals, NoRequest, At, Goto, Reply,
            enrollment, login, history
<1>3. CASE Login  BY <1>3 DEF Login
<1>e. ASSUME NEW n \in MfaTokens, Evict(n) PROVE Goal  BY <1>e DEF Evict
<1>4. ASSUME NEW w \in Workers, Arrive(w) PROVE Goal
  <2>1. CASE ReceiveEnable(w)  BY <2>1 DEF ReceiveEnable, Receive
  <2>2. CASE ReceiveConfirm(w)  BY <2>2 DEF ReceiveConfirm, Receive
  <2>3. CASE ReceiveDisable(w)  BY <2>3 DEF ReceiveDisable, Receive
  <2>4. CASE ReceiveVerify(w)  BY <2>4 DEF ReceiveVerify, Receive
  <2> QED  BY <1>4, <2>1, <2>2, <2>3, <2>4 DEF Arrive
<1>5. ASSUME NEW w \in Workers, Enrolling(w) PROVE Goal
  <2>1. CASE Refused(w)  BY <2>1 DEF Refused
  <2>2. CASE EnableAllowed(w)  BY <2>2 DEF EnableAllowed, Decide
  <2>3. CASE ConfirmAllowed(w)  BY <2>3 DEF ConfirmAllowed, Decide
  <2>4. CASE DisableAllowed(w)  BY <2>4 DEF DisableAllowed, Decide
  <2>5. CASE SetMfaSecret(w)  BY <2>5 DEF SetMfaSecret, NoteStaleWrite
  <2>6. CASE EnableReply(w)  BY <2>6 DEF EnableReply
  <2>7. CASE EnableMfa(w)  BY <2>7 DEF EnableMfa, NoteStaleWrite
  <2>8. CASE CreateRecoveryCodes(w)  BY <2>8 DEF CreateRecoveryCodes, NoteStaleWrite
  <2>9. CASE DisableMfa(w)  BY <2>9 DEF DisableMfa, NoteStaleWrite
  <2>10. CASE InvalidateRecoveryCodes(w)  BY <2>10 DEF InvalidateRecoveryCodes, NoteStaleWrite
  <2> QED  BY <1>5, <2>1, <2>2, <2>3, <2>4, <2>5, <2>6, <2>7, <2>8, <2>9, <2>10 DEF Enrolling
<1>6. ASSUME NEW w \in Workers, Verifying(w) PROVE Goal
  <2>1. CASE NotBlacklisted(w)  BY <2>1 DEF NotBlacklisted
  <2>2. CASE Blacklisted(w)  BY <2>2 DEF Blacklisted
  <2>3. CASE LoadUser(w)  BY <2>3 DEF LoadUser
  <2>4. CASE VerifyRefused(w)  BY <2>4 DEF VerifyRefused
  <2>5. CASE GetActiveRecoveryCodes(w)  BY <2>5 DEF GetActiveRecoveryCodes
  <2>6. CASE MarkRecoveryCodeUsed(w)  BY <2>6 DEF MarkRecoveryCodeUsed
  <2>7. CASE BlacklistToken(w)  BY <2>7 DEF BlacklistToken
  <2>8. CASE IssueTokenPair(w)  BY <2>8 DEF IssueTokenPair, Proof
  <2> QED  BY <1>6, <2>1, <2>2, <2>3, <2>4, <2>5, <2>6, <2>7, <2>8 DEF Verifying
<1>7. ASSUME NEW w \in Workers, Crash(w) PROVE Goal  BY <1>7 DEF Crash
<1>8. CASE UNCHANGED vars  BY <1>8 DEF vars
<1> QED  BY <1>3, <1>4, <1>5, <1>6, <1>7, <1>8, <1>e DEF Next

-----------------------------------------------------------------------------
(* No second sign-in without an excuse. *)

\* Requests past the blacklist check of m, and past the match of code c.
PastTest(m)  == {w \in Workers : req[w].jti = m /\ req[w].pc \in VerifyPCs \ {"check_blacklist"}}
PastMatch(c) == {w \in Workers : req[w].recovery = c /\ req[w].pc \in {"mark_used", "blacklist_token", "issue"}}

\* One request at most is past the check of m; it issues once m is in the
\* blacklist, and when it has, nobody gets past the check again.
TokenOnceFor(m) ==
    /\ \A v, w \in PastTest(m) : v = w
    /\ \A w \in PastTest(m) : At(w, "issue") <=> m \in blacklist
    /\ m \in signedIn => m \in blacklist /\ PastTest(m) = {}
TokenOnce == \A m \in MfaTokens \ excused : TokenOnceFor(m)

\* The same of a recovery code, whose mark comes before the issue.
CodeOnceFor(c) ==
    /\ \A v, w \in PastMatch(c) : v = w
    /\ \A w \in PastMatch(c) : ~At(w, "mark_used") => code[c].state = "used"
    /\ c \in signedIn => code[c].state = "used" /\ PastMatch(c) = {}
CodeOnce == \A c \in Codes \ excused : CodeOnceFor(c)

LEMMA TokenOnceStep == TypeOK /\ Locals /\ TokenOnce /\ [Next]_vars => TokenOnce'
<1> SUFFICES ASSUME TypeOK, Locals, TokenOnce, [Next]_vars, NEW m \in MfaTokens, m \notin excused'
             PROVE  TokenOnceFor(m)'
  BY DEF TokenOnce
<1>1. /\ req \in [Workers -> Request]
      /\ \A v \in Workers : DOMAIN req[v] = DOMAIN NoRequest
      /\ \A v \in Workers : req[v].recovery \in Codes \cup {None}
  BY DEF TypeOK, Request, NoRequest
<1>2. m \notin excused => TokenOnceFor(m)  BY DEF TokenOnce
<1> USE <1>1, <1>2, NoneIsNoSecret, IdsAreDistinct
        DEF TokenOnceFor, PastTest, Checked, VerifyPCs, Locals, NoRequest, At, Goto, Reply,
            enrollment, login, history
<1>3. CASE Login  BY <1>3 DEF Login
<1>e. ASSUME NEW n \in MfaTokens, Evict(n) PROVE TokenOnceFor(m)'  BY <1>e DEF Evict
<1>4. ASSUME NEW w \in Workers, Arrive(w) PROVE TokenOnceFor(m)'
  <2>1. CASE ReceiveEnable(w)  BY <2>1 DEF ReceiveEnable, Receive
  <2>2. CASE ReceiveConfirm(w)  BY <2>2 DEF ReceiveConfirm, Receive
  <2>3. CASE ReceiveDisable(w)  BY <2>3 DEF ReceiveDisable, Receive
  <2>4. CASE ReceiveVerify(w)  BY <2>4 DEF ReceiveVerify, Receive
  <2> QED  BY <1>4, <2>1, <2>2, <2>3, <2>4 DEF Arrive
<1>5. ASSUME NEW w \in Workers, Enrolling(w) PROVE TokenOnceFor(m)'
  <2>1. CASE Refused(w)  BY <2>1 DEF Refused
  <2>2. CASE EnableAllowed(w)  BY <2>2 DEF EnableAllowed, Decide
  <2>3. CASE ConfirmAllowed(w)  BY <2>3 DEF ConfirmAllowed, Decide
  <2>4. CASE DisableAllowed(w)  BY <2>4 DEF DisableAllowed, Decide
  <2>5. CASE SetMfaSecret(w)  BY <2>5 DEF SetMfaSecret, NoteStaleWrite
  <2>6. CASE EnableReply(w)  BY <2>6 DEF EnableReply
  <2>7. CASE EnableMfa(w)  BY <2>7 DEF EnableMfa, NoteStaleWrite
  <2>8. CASE CreateRecoveryCodes(w)  BY <2>8 DEF CreateRecoveryCodes, NoteStaleWrite
  <2>9. CASE DisableMfa(w)  BY <2>9 DEF DisableMfa, NoteStaleWrite
  <2>10. CASE InvalidateRecoveryCodes(w)  BY <2>10 DEF InvalidateRecoveryCodes, NoteStaleWrite
  <2> QED  BY <1>5, <2>1, <2>2, <2>3, <2>4, <2>5, <2>6, <2>7, <2>8, <2>9, <2>10 DEF Enrolling
<1>6. ASSUME NEW w \in Workers, Verifying(w) PROVE TokenOnceFor(m)'
  <2>1. CASE NotBlacklisted(w)  BY <2>1 DEF NotBlacklisted
  <2>2. CASE Blacklisted(w)  BY <2>2 DEF Blacklisted
  <2>3. CASE LoadUser(w)  BY <2>3 DEF LoadUser
  <2>4. CASE VerifyRefused(w)  BY <2>4 DEF VerifyRefused
  <2>5. CASE GetActiveRecoveryCodes(w)  BY <2>5 DEF GetActiveRecoveryCodes
  <2>6. CASE MarkRecoveryCodeUsed(w)  BY <2>6 DEF MarkRecoveryCodeUsed
  <2>7. CASE BlacklistToken(w)  BY <2>7 DEF BlacklistToken
  <2>8. CASE IssueTokenPair(w)  BY <2>8 DEF IssueTokenPair, Proof
  <2> QED  BY <1>6, <2>1, <2>2, <2>3, <2>4, <2>5, <2>6, <2>7, <2>8 DEF Verifying
<1>7. ASSUME NEW w \in Workers, Crash(w) PROVE TokenOnceFor(m)'  BY <1>7 DEF Crash
<1>8. CASE UNCHANGED vars  BY <1>8 DEF vars
<1> QED  BY <1>3, <1>4, <1>5, <1>6, <1>7, <1>8, <1>e DEF Next

LEMMA CodeOnceStep == TypeOK /\ Locals /\ CodeOnce /\ [Next]_vars => CodeOnce'
<1> SUFFICES ASSUME TypeOK, Locals, CodeOnce, [Next]_vars, NEW c \in Codes, c \notin excused'
             PROVE  CodeOnceFor(c)'
  BY DEF CodeOnce
<1>1. /\ req \in [Workers -> Request]
      /\ \A v \in Workers : DOMAIN req[v] = DOMAIN NoRequest
      /\ \A v \in Workers : req[v].jti \in MfaTokens \cup {None}
      /\ code \in [Codes -> [state : {"absent", "active", "used"}, of : Secrets \cup {None}]]
  BY DEF TypeOK, Request, NoRequest
<1>2. c \notin excused => CodeOnceFor(c)  BY DEF CodeOnce
<1> USE <1>1, <1>2, NoneIsNoSecret, IdsAreDistinct
        DEF CodeOnceFor, PastMatch, Listed, Active, Locals, NoRequest, At, Goto, Reply,
            enrollment, login, history
<1>3. CASE Login  BY <1>3 DEF Login
<1>e. ASSUME NEW n \in MfaTokens, Evict(n) PROVE CodeOnceFor(c)'  BY <1>e DEF Evict
<1>4. ASSUME NEW w \in Workers, Arrive(w) PROVE CodeOnceFor(c)'
  <2>1. CASE ReceiveEnable(w)  BY <2>1 DEF ReceiveEnable, Receive
  <2>2. CASE ReceiveConfirm(w)  BY <2>2 DEF ReceiveConfirm, Receive
  <2>3. CASE ReceiveDisable(w)  BY <2>3 DEF ReceiveDisable, Receive
  <2>4. CASE ReceiveVerify(w)  BY <2>4 DEF ReceiveVerify, Receive
  <2> QED  BY <1>4, <2>1, <2>2, <2>3, <2>4 DEF Arrive
<1>5. ASSUME NEW w \in Workers, Enrolling(w) PROVE CodeOnceFor(c)'
  <2>1. CASE Refused(w)  BY <2>1 DEF Refused
  <2>2. CASE EnableAllowed(w)  BY <2>2 DEF EnableAllowed, Decide
  <2>3. CASE ConfirmAllowed(w)  BY <2>3 DEF ConfirmAllowed, Decide
  <2>4. CASE DisableAllowed(w)  BY <2>4 DEF DisableAllowed, Decide
  <2>5. CASE SetMfaSecret(w)  BY <2>5 DEF SetMfaSecret, NoteStaleWrite
  <2>6. CASE EnableReply(w)  BY <2>6 DEF EnableReply
  <2>7. CASE EnableMfa(w)  BY <2>7 DEF EnableMfa, NoteStaleWrite
  <2>8. CASE CreateRecoveryCodes(w)  BY <2>8 DEF CreateRecoveryCodes, NoteStaleWrite
  <2>9. CASE DisableMfa(w)  BY <2>9 DEF DisableMfa, NoteStaleWrite
  <2>10. CASE InvalidateRecoveryCodes(w)  BY <2>10 DEF InvalidateRecoveryCodes, NoteStaleWrite
  <2> QED  BY <1>5, <2>1, <2>2, <2>3, <2>4, <2>5, <2>6, <2>7, <2>8, <2>9, <2>10 DEF Enrolling
<1>6. ASSUME NEW w \in Workers, Verifying(w) PROVE CodeOnceFor(c)'
  <2>1. CASE NotBlacklisted(w)  BY <2>1 DEF NotBlacklisted
  <2>2. CASE Blacklisted(w)  BY <2>2 DEF Blacklisted
  <2>3. CASE LoadUser(w)  BY <2>3 DEF LoadUser
  <2>4. CASE VerifyRefused(w)  BY <2>4 DEF VerifyRefused
  <2>5. CASE GetActiveRecoveryCodes(w)  BY <2>5 DEF GetActiveRecoveryCodes
  <2>6. CASE MarkRecoveryCodeUsed(w)  BY <2>6 DEF MarkRecoveryCodeUsed
  <2>7. CASE BlacklistToken(w)  BY <2>7 DEF BlacklistToken
  <2>8. CASE IssueTokenPair(w)  BY <2>8 DEF IssueTokenPair, Proof
  <2> QED  BY <1>6, <2>1, <2>2, <2>3, <2>4, <2>5, <2>6, <2>7, <2>8 DEF Verifying
<1>7. ASSUME NEW w \in Workers, Crash(w) PROVE CodeOnceFor(c)'  BY <1>7 DEF Crash
<1>8. CASE UNCHANGED vars  BY <1>8 DEF vars
<1> QED  BY <1>3, <1>4, <1>5, <1>6, <1>7, <1>8, <1>e DEF Next

LEMMA OnceExplains == TypeOK /\ Locals /\ TokenOnce /\ CodeOnce => SecondSignInExplained
<1> SUFFICES ASSUME TypeOK, Locals, TokenOnce, CodeOnce, NEW w \in Workers, At(w, "issue"),
                    NEW x \in signedIn, x \in Proof(w), x \notin excused
             PROVE  FALSE
  BY DEF SecondSignInExplained
<1>1. req[w].jti \in MfaTokens /\ req[w].recovery \in Codes \cup {None}
  BY DEF TypeOK, Request, Locals, VerifyPCs, At
<1>2. CASE x = req[w].jti
  <2>1. w \in PastTest(x)  BY <1>2 DEF PastTest, VerifyPCs, At
  <2> QED  BY <1>1, <1>2, <2>1 DEF TokenOnce, TokenOnceFor
<1>3. CASE x = req[w].recovery
  <2>1. w \in PastMatch(x)  BY <1>3 DEF PastMatch, At
  <2>2. x \in Codes  BY <1>1, <1>3 DEF Proof
  <2> QED  BY <2>1, <2>2 DEF CodeOnce, CodeOnceFor
<1> QED  BY <1>2, <1>3 DEF Proof

-----------------------------------------------------------------------------
(* The invariant, and what it says. *)

IInv ==
    /\ TypeOK /\ Locals
    /\ EnrolledSecretIsHeld /\ CodesBelongToEnrollment /\ EnrollmentHasCodes
    /\ TokenOnce /\ CodeOnce /\ SpentCodesAccounted

LEMMA IInvHolds == Spec => []IInv
<1>1. Init => EnrolledSecretIsHeld /\ CodesBelongToEnrollment /\ EnrollmentHasCodes
  BY DEF Init, NoMfa, Active, EnrolledSecretIsHeld, CodesBelongToEnrollment, EnrollmentHasCodes
<1>2. Init => TokenOnce /\ CodeOnce /\ SpentCodesAccounted
  BY DEF Init, NoRequest, TokenOnce, TokenOnceFor, PastTest, VerifyPCs, CodeOnce, CodeOnceFor,
         PastMatch, SpentCodesAccounted
<1>3. IInv /\ [Next]_vars => IInv'
  BY TypeStep, LocalsStep, HeldStep, BelongStep, HasCodesStep, TokenOnceStep, CodeOnceStep,
     SpentStep DEF IInv
<1>4. Spec => [](TypeOK /\ Locals)  BY LocalsHold
<1>5. Init /\ TypeOK /\ Locals => IInv  BY <1>1, <1>2 DEF IInv
<1> QED  BY <1>3, <1>4, <1>5, PTL DEF Spec

\* MFA is on only with a secret a client was given, unless a write was stale.
THEOREM EnrolledSecretIsHeldHolds == Spec => []EnrolledSecretIsHeld
<1>1. IInv => EnrolledSecretIsHeld  BY DEF IInv
<1> QED  BY <1>1, IInvHolds, PTL

\* A recovery code that works is of the enrollment that is on, unless disable
\* is between its two commits or died there, or a write was stale.
THEOREM CodesBelongToEnrollmentHolds == Spec => []CodesBelongToEnrollment
<1>1. IInv => CodesBelongToEnrollment  BY DEF IInv
<1> QED  BY <1>1, IInvHolds, PTL

\* MFA that is on has had its codes written, unless confirm is between its two
\* commits or died there, or a write was stale.
THEOREM EnrollmentHasCodesHolds == Spec => []EnrollmentHasCodes
<1>1. IInv => EnrollmentHasCodes  BY DEF IInv
<1> QED  BY <1>1, IInvHolds, PTL

\* An mfa_token or a recovery code buys a second pair only if two tests of it
\* overlapped, or Redis failed or evicted its entry: verify tests and marks in
\* two steps, and the mark of an mfa_token is only in Redis.
THEOREM SecondSignInExplainedHolds == Spec => []SecondSignInExplained
<1>1. IInv => SecondSignInExplained  BY OnceExplains DEF IInv
<1> QED  BY <1>1, IInvHolds, PTL

\* A spent code bought a pair, is about to, or died with its request.
THEOREM SpentCodesAccountedHolds == Spec => []SpentCodesAccounted
<1>1. IInv => SpentCodesAccounted  BY DEF IInv
<1> QED  BY <1>1, IInvHolds, PTL

-----------------------------------------------------------------------------
(* What the documentation promises of overlapping requests, and when it is *)
(* so.                                                                     *)

\* A confirm commits when no enable is between its test and its UPDATE.
EnablesDecided == \A v, w \in Workers : EnableMfa(w) => ~At(v, "set_mfa_secret")

SparedInv == mfa.enabled => \A w \in Workers : ~At(w, "set_mfa_secret")

\* Where the flag goes up, and how a request comes to stand before
\* set_mfa_secret.
LEMMA SparedStep ==
    TypeOK /\ SparedInv /\ EnablesDecided /\ [Next]_vars => SparedInv'
<1> SUFFICES ASSUME TypeOK, SparedInv, EnablesDecided, [Next]_vars, mfa'.enabled,
                    NEW v \in Workers, At(v, "set_mfa_secret")'
             PROVE  FALSE
  BY DEF SparedInv
<1>1. /\ req \in [Workers -> Request] /\ mfa \in Row
      /\ \A w \in Workers : DOMAIN req[w] = DOMAIN NoRequest
  BY DEF TypeOK, Request, NoRequest
<1> USE <1>1 DEF SparedInv, Row, NoMfa, NoRequest, At, Goto, Reply, enrollment, login, history
<1>2. CASE Login  BY <1>2 DEF Login
<1>e. ASSUME NEW n \in MfaTokens, Evict(n) PROVE FALSE  BY <1>e DEF Evict
<1>3. ASSUME NEW w \in Workers, Arrive(w) PROVE FALSE
  <2>1. CASE ReceiveEnable(w)  BY <2>1 DEF ReceiveEnable, Receive
  <2>2. CASE ReceiveConfirm(w)  BY <2>2 DEF ReceiveConfirm, Receive
  <2>3. CASE ReceiveDisable(w)  BY <2>3 DEF ReceiveDisable, Receive
  <2>4. CASE ReceiveVerify(w)  BY <2>4 DEF ReceiveVerify, Receive
  <2> QED  BY <1>3, <2>1, <2>2, <2>3, <2>4 DEF Arrive
<1>4. ASSUME NEW w \in Workers, Enrolling(w) PROVE FALSE
  <2>1. CASE Refused(w)  BY <2>1 DEF Refused
  <2>2. CASE EnableAllowed(w)  BY <2>2 DEF EnableAllowed, Decide
  <2>3. CASE ConfirmAllowed(w)  BY <2>3 DEF ConfirmAllowed, Decide
  <2>4. CASE DisableAllowed(w)  BY <2>4 DEF DisableAllowed, Decide
  <2>5. CASE SetMfaSecret(w)  BY <2>5 DEF SetMfaSecret
  <2>6. CASE EnableReply(w)  BY <2>6 DEF EnableReply
  <2>7. CASE EnableMfa(w)
    <3>1. \A u \in Workers : req[u].pc # "set_mfa_secret"  BY <2>7 DEF EnablesDecided
    <3> QED  BY <2>7, <3>1 DEF EnableMfa
  <2>8. CASE CreateRecoveryCodes(w)  BY <2>8 DEF CreateRecoveryCodes
  <2>9. CASE DisableMfa(w)  BY <2>9 DEF DisableMfa
  <2>10. CASE InvalidateRecoveryCodes(w)  BY <2>10 DEF InvalidateRecoveryCodes
  <2> QED  BY <1>4, <2>1, <2>2, <2>3, <2>4, <2>5, <2>6, <2>7, <2>8, <2>9, <2>10 DEF Enrolling
<1>5. ASSUME NEW w \in Workers, Verifying(w) PROVE FALSE
  <2>1. CASE NotBlacklisted(w)  BY <2>1 DEF NotBlacklisted
  <2>2. CASE Blacklisted(w)  BY <2>2 DEF Blacklisted
  <2>3. CASE LoadUser(w)  BY <2>3 DEF LoadUser
  <2>4. CASE VerifyRefused(w)  BY <2>4 DEF VerifyRefused
  <2>5. CASE GetActiveRecoveryCodes(w)  BY <2>5 DEF GetActiveRecoveryCodes
  <2>6. CASE MarkRecoveryCodeUsed(w)  BY <2>6 DEF MarkRecoveryCodeUsed
  <2>7. CASE BlacklistToken(w)  BY <2>7 DEF BlacklistToken
  <2>8. CASE IssueTokenPair(w)  BY <2>8 DEF IssueTokenPair, Proof
  <2> QED  BY <1>5, <2>1, <2>2, <2>3, <2>4, <2>5, <2>6, <2>7, <2>8 DEF Verifying
<1>6. ASSUME NEW w \in Workers, Crash(w) PROVE FALSE  BY <1>6 DEF Crash
<1>7. CASE UNCHANGED vars  BY <1>7 DEF vars
<1> QED  BY <1>2, <1>3, <1>4, <1>5, <1>6, <1>7, <1>e DEF Next

\* enable "has no effect at all on an account that already has MFA enabled",
\* as its docstring says, if no confirm commits between its test and its
\* UPDATE; disable, and everything else, may overlap it.
THEOREM EnableSparesEnrolledWhenDecided ==
    Spec /\ [][EnablesDecided]_vars => EnableSparesEnrolled
<1>1. Init => SparedInv  BY DEF Init, SparedInv, NoMfa
<1>2. SparedInv /\ UNCHANGED vars => SparedInv'  BY DEF SparedInv, vars, At
<1>3. TypeOK /\ SparedInv /\ [Next]_vars =>
        [mfa.enabled /\ mfa'.enabled => mfa'.secret = mfa.secret]_vars
  <2> SUFFICES ASSUME TypeOK, SparedInv, Next, mfa.enabled, mfa'.enabled
               PROVE  mfa'.secret = mfa.secret
    OBVIOUS
  <2>1. mfa \in Row  BY DEF TypeOK
  <2>2. ASSUME NEW w \in Workers PROVE ~SetMfaSecret(w)
    BY DEF SparedInv, SetMfaSecret
  <2>3. \/ mfa' = mfa \/ mfa' = [mfa EXCEPT !.enabled = TRUE] \/ mfa' = NoMfa
    BY <2>2 DEF Next, Arrive, Enrolling, Verifying, enrollment, Login, ReceiveEnable, ReceiveConfirm,
                ReceiveDisable, ReceiveVerify, Receive, Refused, EnableAllowed, ConfirmAllowed,
                DisableAllowed, Decide, EnableReply, EnableMfa, CreateRecoveryCodes, DisableMfa,
                InvalidateRecoveryCodes, NotBlacklisted, Blacklisted, LoadUser, VerifyRefused,
                GetActiveRecoveryCodes, MarkRecoveryCodeUsed, BlacklistToken, IssueTokenPair, Crash,
                Evict
  <2> QED  BY <2>1, <2>3 DEF Row, NoMfa
<1> QED
  BY <1>1, <1>2, <1>3, SparedStep, LocalsHold, PTL DEF Spec, EnableSparesEnrolled

\* No two verifications of one mfa_token, or of one recovery code, are between
\* test and mark at once.
Alone ==
    /\ \A m \in MfaTokens : \A v, w \in Checked(m) : v = w
    /\ \A c \in Codes : \A v, w \in Listed(c) : v = w

NothingExcused == excused = {}

\* Redis drops no entry.
RedisKeeps == blacklist \subseteq blacklist'

\* The other ways to be excused are a Redis call that fails and an eviction.
LEMMA AloneStep ==
    ASSUME RedisMayFail = FALSE
    PROVE  TypeOK /\ Locals /\ Alone' /\ RedisKeeps /\ NothingExcused /\ [Next]_vars => NothingExcused'
<1> SUFFICES ASSUME TypeOK, Locals, Alone', RedisKeeps, excused = {}, [Next]_vars PROVE excused' = {}
  BY DEF NothingExcused
<1>1. req \in [Workers -> Request]  BY DEF TypeOK
<1>2. ASSUME NEW w \in Workers, NotBlacklisted(w) PROVE excused' = {}
  <2> DEFINE m == req[w].jti
  <2>1. /\ At(w, "check_blacklist") /\ Goto(w, "load_user")
        /\ excused' = IF Checked(m) = {} THEN excused ELSE excused \cup {m}
    BY <1>2 DEF NotBlacklisted
  <2>2. m \in MfaTokens  BY <2>1 DEF Locals, VerifyPCs, At
  <2>3. ASSUME NEW v \in Checked(m) PROVE FALSE
    <3>1. v # w  BY <2>1, <2>3 DEF Checked, At
    <3>2. req'[w] = [req[w] EXCEPT !.pc = "load_user"] /\ req'[v] = req[v]
      BY <1>1, <2>1, <2>3, <3>1 DEF Goto, Checked
    <3>3. req'[w].jti = m /\ req'[w].pc = "load_user"  BY <1>1, <3>2 DEF Request
    <3>4. ASSUME NEW n \in MfaTokens, n = m PROVE FALSE
      <4>1. w \in Checked(n)' /\ v \in Checked(n)'  BY <2>3, <3>2, <3>3, <3>4 DEF Checked
      <4> QED  BY <3>1, <4>1 DEF Alone
    <3> QED  BY <2>2, <3>4
  <2> QED  BY <2>1, <2>3
<1>3. ASSUME NEW w \in Workers, GetActiveRecoveryCodes(w) PROVE excused' = {}
  <2> DEFINE c == req[w].recovery
  <2>1. /\ At(w, "get_codes")
        /\ IF Active(c) THEN Goto(w, "mark_used") ELSE Reply(w)
        /\ excused' = IF Active(c) /\ Listed(c) # {} THEN excused \cup {c} ELSE excused
    BY <1>3 DEF GetActiveRecoveryCodes
  <2>2. c \in Codes  BY <2>1 DEF Locals, At
  <2>3. ASSUME Active(c), NEW v \in Listed(c) PROVE FALSE
    <3>1. v # w  BY <2>1, <2>3 DEF Listed, At
    <3>2. req'[w] = [req[w] EXCEPT !.pc = "mark_used"] /\ req'[v] = req[v]
      BY <1>1, <2>1, <2>3, <3>1 DEF Goto, Listed
    <3>3. req'[w].recovery = c /\ req'[w].pc = "mark_used"  BY <1>1, <3>2 DEF Request
    <3>4. ASSUME NEW d \in Codes, d = c PROVE FALSE
      <4>1. w \in Listed(d)' /\ v \in Listed(d)'  BY <2>3, <3>2, <3>3, <3>4 DEF Listed, At
      <4> QED  BY <3>1, <4>1 DEF Alone
    <3> QED  BY <2>2, <3>4
  <2> QED  BY <2>1, <2>3
<1>4. ASSUME NEW w \in Workers, BlacklistToken(w) PROVE excused' = {}
  BY <1>4 DEF BlacklistToken
<1>e. ASSUME NEW n \in MfaTokens, Evict(n) PROVE FALSE
  BY <1>e DEF Evict, RedisKeeps
<1>5. \/ excused' = excused
      \/ \E w \in Workers : NotBlacklisted(w) \/ GetActiveRecoveryCodes(w) \/ BlacklistToken(w)
  BY <1>e DEF Next, vars, history, Arrive, Enrolling, Verifying, Login, ReceiveEnable, ReceiveConfirm,
         ReceiveDisable, ReceiveVerify, Receive, Refused, EnableAllowed, ConfirmAllowed,
         DisableAllowed, Decide, SetMfaSecret, EnableReply, EnableMfa, CreateRecoveryCodes, DisableMfa,
         InvalidateRecoveryCodes, Blacklisted, LoadUser, VerifyRefused, MarkRecoveryCodeUsed,
         IssueTokenPair, Crash
<1> QED  BY <1>2, <1>3, <1>4, <1>5

\* While Redis answers and keeps its entries, an mfa_token and a recovery code
\* are single-use as long as no two verifications of it are between test and
\* mark at once.  verify's code sees to none of the three.
THEOREM SingleUseWhenAlone ==
    ASSUME RedisMayFail = FALSE
    PROVE  Spec /\ []Alone /\ [][RedisKeeps]_vars =>
             [](\A w \in Workers : At(w, "issue") => signedIn \cap Proof(w) = {})
<1>1. Init => NothingExcused  BY DEF Init, NothingExcused
<1> DEFINE AllNew == \A w \in Workers : At(w, "issue") => signedIn \cap Proof(w) = {}
<1>2. SecondSignInExplained /\ NothingExcused => AllNew
  BY DEF NothingExcused, SecondSignInExplained
<1>3. TypeOK /\ Locals /\ Alone' /\ NothingExcused /\ [Next /\ RedisKeeps]_vars => NothingExcused'
  <2>1. UNCHANGED vars => RedisKeeps  BY DEF vars, RedisKeeps
  <2> QED  BY <2>1, AloneStep
<1> HIDE DEF AllNew
<1>4. Spec /\ []Alone /\ [][RedisKeeps]_vars => []AllNew
  BY <1>1, <1>2, <1>3, LocalsHold, SecondSignInExplainedHolds, PTL DEF Spec
<1> QED  BY <1>4 DEF AllNew

-----------------------------------------------------------------------------
(* MfaLogin implements SecondFactor. *)

\* What a request has done by the time it issues, and knows when it disables.
Proved == \A w \in Workers :
    /\ req[w].pc \in VerifyPCs => req[w].jti \in issued
    /\ At(w, "mark_used") => code[req[w].recovery].state # "absent"
    /\ req[w].pc \in {"blacklist_token", "issue"} /\ req[w].recovery # None =>
           code[req[w].recovery].state = "used"
    /\ At(w, "disable_mfa") => req[w].row.enabled

\* A recovery code goes from absent to active to used.
LEMMA CodesMoveForward ==
    ASSUME TypeOK, [Next]_vars, NEW c \in Codes
    PROVE  /\ code[c].state = "used" => code'[c].state = "used"
           /\ code[c].state # "absent" => code'[c].state # "absent"
<1>1. code[c] \in [state : {"absent", "active", "used"}, of : Secrets \cup {None}] /\ DOMAIN code = Codes
  BY DEF TypeOK
<1>2. ASSUME NEW w \in Workers, CreateRecoveryCodes(w)
      PROVE  code[c].state # "absent" => code'[c] = code[c]
  BY <1>2 DEF CreateRecoveryCodes
<1>3. ASSUME NEW w \in Workers, InvalidateRecoveryCodes(w)
      PROVE  code'[c].state = "used" \/ code'[c] = code[c]
  BY <1>3 DEF InvalidateRecoveryCodes
<1>4. ASSUME NEW w \in Workers, MarkRecoveryCodeUsed(w)
      PROVE  code'[c].state \in {"used", code[c].state}
  BY <1>1, <1>4 DEF MarkRecoveryCodeUsed
<1>5. \/ code' = code
      \/ \E w \in Workers : CreateRecoveryCodes(w) \/ InvalidateRecoveryCodes(w) \/ MarkRecoveryCodeUsed(w)
  BY DEF Next, vars, enrollment, login, Arrive, Enrolling, Verifying, Login, ReceiveEnable,
         ReceiveConfirm, ReceiveDisable, ReceiveVerify, Receive, Refused, EnableAllowed,
         ConfirmAllowed, DisableAllowed, Decide, SetMfaSecret, EnableReply, EnableMfa, DisableMfa,
         NotBlacklisted, Blacklisted, LoadUser, VerifyRefused, GetActiveRecoveryCodes, BlacklistToken,
         IssueTokenPair, Crash, Evict
<1> QED  BY <1>1, <1>2, <1>3, <1>4, <1>5

\* Only a request's own test moves it towards its writes.
LEMMA ProvedStep == TypeOK /\ Locals /\ Proved /\ [Next]_vars => Proved'
<1> SUFFICES ASSUME TypeOK, Locals, Proved, [Next]_vars, NEW v \in Workers
             PROVE  /\ req'[v].pc \in VerifyPCs => req'[v].jti \in issued'
                    /\ req'[v].pc = "mark_used" => code'[req'[v].recovery].state # "absent"
                    /\ req'[v].pc \in {"blacklist_token", "issue"} /\ req'[v].recovery # None =>
                           code'[req'[v].recovery].state = "used"
                    /\ req'[v].pc = "disable_mfa" => req'[v].row.enabled
  BY DEF Proved, At
<1> DEFINE Goal == /\ req'[v].pc \in VerifyPCs => req'[v].jti \in issued'
                   /\ req'[v].pc = "mark_used" => code'[req'[v].recovery].state # "absent"
                   /\ req'[v].pc \in {"blacklist_token", "issue"} /\ req'[v].recovery # None =>
                          code'[req'[v].recovery].state = "used"
                   /\ req'[v].pc = "disable_mfa" => req'[v].row.enabled
<1>1. /\ req \in [Workers -> Request]
      /\ \A w \in Workers : DOMAIN req[w] = DOMAIN NoRequest /\ req[w].recovery \in Codes \cup {None}
  BY DEF TypeOK, Request, NoRequest
<1>2. /\ \A c \in Codes : /\ code[c].state = "used" => code'[c].state = "used"
                          /\ code[c].state # "absent" => code'[c].state # "absent"
      /\ issued \subseteq issued'
  <2>1. \A c \in Codes : /\ code[c].state = "used" => code'[c].state = "used"
                         /\ code[c].state # "absent" => code'[c].state # "absent"
    BY CodesMoveForward
  <2>2. issued \subseteq issued'
    BY DEF Next, vars, login, Arrive, Enrolling, Verifying, Login, ReceiveEnable,
           ReceiveConfirm, ReceiveDisable, ReceiveVerify, Receive, Refused, EnableAllowed,
           ConfirmAllowed, DisableAllowed, Decide, SetMfaSecret, EnableReply, EnableMfa, DisableMfa,
           CreateRecoveryCodes, InvalidateRecoveryCodes, MarkRecoveryCodeUsed,
           NotBlacklisted, Blacklisted, LoadUser, VerifyRefused, GetActiveRecoveryCodes, BlacklistToken,
           IssueTokenPair, Crash, Evict
  <2> QED  BY <2>1, <2>2
\* A request that stays where it is, and one that goes home.
<1>3. CASE req'[v] = req[v]
  <2>1. req[v].pc = "mark_used" => req[v].recovery \in Codes  BY DEF Locals, At
  <2> QED  BY <1>1, <1>2, <1>3, <2>1 DEF Proved, At
<1>4. CASE req'[v].pc \notin VerifyPCs \cup {"disable_mfa"}
  BY <1>4 DEF VerifyPCs
<1> USE <1>1 DEF At, Goto, Reply, NoRequest, VerifyPCs
<1>5. ASSUME NEW w \in Workers, Arrive(w) PROVE Goal
  <2>1. CASE ReceiveVerify(w)
    <3>1. req'[v] = req[v] \/ (req'[v].pc = "check_blacklist" /\ req'[v].jti \in issued)
      BY <2>1 DEF ReceiveVerify, Receive
    <3> QED  BY <1>2, <1>3, <3>1
  <2>2. CASE ReceiveEnable(w) \/ ReceiveConfirm(w) \/ ReceiveDisable(w)
    <3>1. req'[v] = req[v] \/ req'[v].pc = "current_user"
      <4>1. CASE ReceiveEnable(w)  BY <4>1 DEF ReceiveEnable, Receive
      <4>2. CASE ReceiveConfirm(w)  BY <4>2 DEF ReceiveConfirm, Receive
      <4>3. CASE ReceiveDisable(w)  BY <4>3 DEF ReceiveDisable, Receive
      <4> QED  BY <2>2, <4>1, <4>2, <4>3
    <3> QED  BY <1>3, <1>4, <3>1
  <2> QED  BY <1>5, <2>1, <2>2 DEF Arrive
<1>6. ASSUME NEW w \in Workers, Enrolling(w) PROVE Goal
  <2>1. CASE DisableAllowed(w)
    <3>1. req'[v] = req[v] \/ (req'[v].pc = "disable_mfa" /\ req'[v].row.enabled)
      BY <2>1 DEF DisableAllowed, Decide
    <3> QED  BY <1>3, <3>1
  <2>2. CASE EnableAllowed(w) \/ ConfirmAllowed(w)
    <3>1. req'[v] = req[v] \/ req'[v].pc \in {"set_mfa_secret", "enable_mfa"}
      BY <2>2 DEF EnableAllowed, ConfirmAllowed, Decide
    <3> QED  BY <1>3, <1>4, <3>1
  <2>3. CASE SetMfaSecret(w) \/ EnableMfa(w) \/ DisableMfa(w)
    <3>1. req'[v] = req[v] \/ req'[v].pc \in {"enable_reply", "create_codes", "invalidate_codes"}
      BY <2>3 DEF SetMfaSecret, EnableMfa, DisableMfa
    <3> QED  BY <1>3, <1>4, <3>1
  <2>4. CASE Refused(w) \/ EnableReply(w) \/ CreateRecoveryCodes(w) \/ InvalidateRecoveryCodes(w)
    <3>1. req'[v] = req[v] \/ req'[v].pc = "idle"
      BY <2>4 DEF Refused, EnableReply, CreateRecoveryCodes, InvalidateRecoveryCodes
    <3> QED  BY <1>3, <1>4, <3>1
  <2> QED  BY <1>6, <2>1, <2>2, <2>3, <2>4 DEF Enrolling
<1>7. ASSUME NEW w \in Workers, Verifying(w) PROVE Goal
  <2>1. CASE NotBlacklisted(w)
    <3>1. req'[v] = req[v] \/ (req'[v].pc = "load_user" /\ req'[v].jti = req[v].jti /\ req[v].pc \in VerifyPCs)
      BY <2>1 DEF NotBlacklisted
    <3> QED  BY <1>2, <1>3, <3>1 DEF Proved
  <2>2. CASE LoadUser(w)
    <3>1. \/ req'[v] = req[v]
          \/ /\ req'[v].jti = req[v].jti /\ req[v].pc = "load_user" /\ req'[v].recovery = req[v].recovery
             /\ \/ req'[v].pc = "get_codes"
                \/ req'[v].pc = "blacklist_token" /\ req[v].totp # None
      BY <2>2 DEF LoadUser
    <3>2. req[v].pc = "load_user" /\ req[v].totp # None => req[v].recovery = None
      BY DEF Locals
    <3> QED  BY <1>2, <1>3, <3>1, <3>2 DEF Proved
  <2>3. CASE GetActiveRecoveryCodes(w)
    <3>1. \/ req'[v] = req[v]
          \/ req'[v].pc = "idle"
          \/ /\ req'[v].pc = "mark_used" /\ req'[v].jti = req[v].jti /\ req[v].pc = "get_codes"
             /\ req'[v].recovery = req[v].recovery /\ Active(req[v].recovery)
      BY <2>3 DEF GetActiveRecoveryCodes
    <3>2. CASE /\ req'[v].pc = "mark_used" /\ req'[v].jti = req[v].jti /\ req[v].pc = "get_codes"
               /\ req'[v].recovery = req[v].recovery /\ Active(req[v].recovery)
      <4>1. req[v].recovery \in Codes  BY <3>2 DEF Locals
      <4> QED  BY <1>2, <3>2, <4>1 DEF Proved, Active
    <3> QED  BY <1>3, <1>4, <3>1, <3>2
  <2>4. CASE MarkRecoveryCodeUsed(w)
    <3>1. \/ req'[v] = req[v]
          \/ /\ req'[v].pc = "blacklist_token" /\ req'[v].jti = req[v].jti /\ req[v].pc = "mark_used"
             /\ req'[v].recovery = req[v].recovery
             /\ code' = [code EXCEPT ![req[v].recovery].state = "used"]
      BY <2>4 DEF MarkRecoveryCodeUsed
    <3>2. CASE /\ req'[v].pc = "blacklist_token" /\ req'[v].jti = req[v].jti /\ req[v].pc = "mark_used"
               /\ req'[v].recovery = req[v].recovery
               /\ code' = [code EXCEPT ![req[v].recovery].state = "used"]
      <4>1. req[v].recovery \in Codes  BY <3>2 DEF Locals
      <4>2. code'[req[v].recovery].state = "used"  BY <3>2, <4>1 DEF TypeOK
      <4> QED  BY <1>2, <3>2, <4>2 DEF Proved
    <3> QED  BY <1>3, <3>1, <3>2
  <2>5. CASE BlacklistToken(w)
    <3>1. \/ req'[v] = req[v]
          \/ /\ req'[v].pc = "issue" /\ req[v].pc = "blacklist_token"
             /\ req'[v].jti = req[v].jti /\ req'[v].recovery = req[v].recovery
      BY <2>5 DEF BlacklistToken
    <3> QED  BY <1>2, <1>3, <3>1 DEF Proved
  <2>6. CASE Blacklisted(w) \/ VerifyRefused(w) \/ IssueTokenPair(w)
    <3>1. req'[v] = req[v] \/ req'[v].pc = "idle"
      BY <2>6 DEF Blacklisted, VerifyRefused, IssueTokenPair
    <3> QED  BY <1>3, <1>4, <3>1
  <2> QED  BY <1>7, <2>1, <2>2, <2>3, <2>4, <2>5, <2>6 DEF Verifying
<1>8. ASSUME NEW w \in Workers, Crash(w) PROVE Goal
  <2>1. req'[v] = req[v] \/ req'[v].pc = "idle"  BY <1>8 DEF Crash
  <2> QED  BY <1>3, <1>4, <2>1
<1>9. CASE Login \/ UNCHANGED vars \/ \E n \in MfaTokens : Evict(n)
  BY <1>3, <1>9 DEF Login, Evict, vars
<1> QED  BY <1>5, <1>6, <1>7, <1>8, <1>9 DEF Next

\* A commit of enable, confirm or disable is the abstract write, or a stale one.
LEMMA EnrollingImplements ==
    ASSUME TypeOK, Locals, Proved, NEW w \in Workers, Enrolling(w)
    PROVE  Factor!Next \/ UNCHANGED Factor!vars
<1> DEFINE Goal == Factor!Next \/ UNCHANGED Factor!vars
<1>1. /\ mfa \in Row /\ stale \in BOOLEAN /\ req[w].row \in Row
      /\ DOMAIN code = Codes
  BY DEF TypeOK, Request
<1> USE DEF Factor!vars, Factor!enrollment, Factor!signIns, enrollment, login, history, NoteStaleWrite, At
<1>2. CASE Refused(w) \/ EnableAllowed(w) \/ ConfirmAllowed(w) \/ DisableAllowed(w)
  BY <1>2 DEF Refused, EnableAllowed, ConfirmAllowed, DisableAllowed, Decide
<1>3. CASE SetMfaSecret(w)
  <2>1. PICK k \in Secrets \ drawn : mfa' = [mfa EXCEPT !.secret = k] /\ drawn' = drawn \cup {k}
    BY <1>3 DEF SetMfaSecret
  <2>2. Factor!Assured(~mfa.enabled)
    BY <1>1, <1>3 DEF SetMfaSecret, Locals, Factor!Assured
  <2>3. Factor!Draw(k)  BY <1>3, <2>1, <2>2 DEF SetMfaSecret, Factor!Draw
  <2> QED  BY <2>3 DEF Factor!Next
<1>4. CASE EnableReply(w)
  <2>1. Factor!Hand(req[w].totp) /\ req[w].totp \in Secrets
    BY <1>4 DEF EnableReply, Locals, TypeOK, Factor!Hand
  <2> QED  BY <2>1 DEF Factor!Next
<1>5. CASE EnableMfa(w)
  <2>1. Factor!Assured(~mfa.enabled /\ mfa.secret \in known)
    BY <1>1, <1>5 DEF EnableMfa, Locals, Factor!Assured
  <2>2. Factor!TurnOn  BY <1>5, <2>1 DEF EnableMfa, Factor!TurnOn
  <2> QED  BY <2>2 DEF Factor!Next
<1>6. CASE CreateRecoveryCodes(w)
  <2> DEFINE k == req[w].row.secret
  <2>1. PICK batch \in SUBSET {c \in Codes : code[c].state = "absent"} :
          /\ Cardinality(batch) = BatchSize
          /\ code' = [c \in Codes |-> IF c \in batch THEN [state |-> "active", of |-> k] ELSE code[c]]
    BY <1>6 DEF CreateRecoveryCodes
  <2>2. k \in Secrets \cup {None} /\ batch \in SUBSET Codes /\ Cardinality(batch) = BatchSize
    BY <1>1, <2>1 DEF Row
  <2>3. Factor!Assured(mfa = [enabled |-> TRUE, secret |-> k])
    <3>1. req[w].row.enabled  BY <1>6 DEF CreateRecoveryCodes, Locals
    <3>2. req[w].row = mfa => mfa = [enabled |-> TRUE, secret |-> k]  BY <1>1, <3>1 DEF Row
    <3> QED  BY <1>1, <1>6, <3>2 DEF CreateRecoveryCodes, Factor!Assured
  <2>4. \A c \in batch : code[c].state = "absent"  BY <2>1
  <2>5. UNCHANGED <<mfa, drawn, known, issued, signedIn, excused>>
    BY <1>6 DEF CreateRecoveryCodes
  <2> HIDE DEF k
  <2>6. Factor!MakeCodes(batch, k)
    BY <2>1, <2>3, <2>4, <2>5 DEF Factor!MakeCodes
  <2> QED  BY <2>2, <2>6 DEF Factor!Next
<1>7. CASE DisableMfa(w)
  <2>1. Factor!Assured(mfa.enabled)
    BY <1>1, <1>7 DEF DisableMfa, Proved, Factor!Assured
  <2>2. Factor!TurnOff  BY <1>7, <2>1 DEF DisableMfa, NoMfa, Factor!TurnOff, Factor!Off
  <2> QED  BY <2>2 DEF Factor!Next
<1>8. CASE InvalidateRecoveryCodes(w)
  <2>1. Factor!Assured(mfa = Factor!Off)
    BY <1>1, <1>8 DEF InvalidateRecoveryCodes, Locals, NoMfa, Factor!Off, Factor!Assured
  <2>2. Factor!VoidCodes  BY <1>8, <2>1 DEF InvalidateRecoveryCodes, Active, Factor!VoidCodes
  <2> QED  BY <2>2 DEF Factor!Next
<1> QED  BY <1>2, <1>3, <1>4, <1>5, <1>6, <1>7, <1>8 DEF Enrolling

\* verify excuses, spends or signs in, and asks Redis in between.
LEMMA VerifyingImplements ==
    ASSUME TypeOK, Locals, Proved, SecondSignInExplained, NEW w \in Workers, Verifying(w)
    PROVE  Factor!Next \/ UNCHANGED Factor!vars
<1> DEFINE m == req[w].jti
           c == req[w].recovery
<1>1. /\ req[w].pc \in VerifyPCs => m \in MfaTokens /\ m \in issued
      /\ req[w].pc \in {"get_codes", "mark_used"} => c \in Codes
      /\ c \in Codes \cup {None}
      /\ code \in [Codes -> [state : {"absent", "active", "used"}, of : Secrets \cup {None}]]
  BY DEF Locals, Proved, TypeOK, Request
<1>2. ASSUME NEW p \in MfaTokens \cup Codes, excused' = excused \/ excused' = excused \cup {p},
             UNCHANGED <<enrollment, issued, stale, signedIn>>
      PROVE  Factor!Next \/ UNCHANGED Factor!vars
  <2>1. CASE excused' = excused
    BY <1>2, <2>1 DEF Factor!vars, Factor!enrollment, Factor!signIns, enrollment
  <2>2. CASE excused' = excused \cup {p}
    <3>1. Factor!Excuse(p)  BY <1>2, <2>2 DEF Factor!Excuse, Factor!enrollment, enrollment
    <3> QED  BY <3>1 DEF Factor!Next, Factor!Proofs
  <2> QED  BY <1>2, <2>1, <2>2
<1>3. CASE NotBlacklisted(w) \/ BlacklistToken(w)
  <2>1. m \in MfaTokens
    BY <1>1, <1>3 DEF NotBlacklisted, BlacklistToken, VerifyPCs, At
  <2>2. excused' = excused \/ excused' = excused \cup {m}
    BY <1>3 DEF NotBlacklisted, BlacklistToken
  <2>3. UNCHANGED <<enrollment, issued, stale, signedIn>>
    BY <1>3 DEF NotBlacklisted, BlacklistToken, login
  <2> QED  BY <1>2, <2>1, <2>2, <2>3
<1>4. CASE GetActiveRecoveryCodes(w)
  <2>1. c \in Codes  BY <1>1, <1>4 DEF GetActiveRecoveryCodes, At
  <2>2. excused' = excused \/ excused' = excused \cup {c}
    BY <1>4 DEF GetActiveRecoveryCodes
  <2>3. UNCHANGED <<enrollment, issued, stale, signedIn>>
    BY <1>4 DEF GetActiveRecoveryCodes, login
  <2> QED  BY <1>2, <2>1, <2>2, <2>3
<1>5. CASE Blacklisted(w) \/ LoadUser(w) \/ VerifyRefused(w)
  BY <1>5 DEF Blacklisted, LoadUser, VerifyRefused, enrollment, login, history,
              Factor!vars, Factor!enrollment, Factor!signIns
<1>6. CASE MarkRecoveryCodeUsed(w)
  <2>1. /\ c \in Codes /\ code[c].state \in {"active", "used"}
        /\ code' = [code EXCEPT ![c].state = "used"]
        /\ UNCHANGED <<mfa, drawn, known, stale, issued, signedIn, excused>>
    BY <1>1, <1>6 DEF MarkRecoveryCodeUsed, Proved, At, login, history
  <2>2. CASE code[c].state = "active"
    <3>1. Factor!Spend(c)  BY <2>1, <2>2 DEF Factor!Spend, Factor!signIns
    <3> QED  BY <2>1, <3>1 DEF Factor!Next
  <2>3. CASE code[c].state = "used"
    <3>1. code' = code  BY <1>1, <2>1, <2>3
    <3> QED  BY <2>1, <3>1 DEF Factor!vars, Factor!enrollment, Factor!signIns
  <2> QED  BY <2>1, <2>2, <2>3
<1>7. CASE IssueTokenPair(w)
  <2> DEFINE codes == {c} \ {None}
             proof == Proof(w)
  <2>1. /\ At(w, "issue") /\ m \in MfaTokens /\ m \in issued /\ m # None
        /\ c # None => code[c].state = "used"
    BY <1>1, <1>7, NoneIsNoSecret DEF IssueTokenPair, VerifyPCs, Proved, At
  <2>2. /\ signedIn' = signedIn \cup proof
        /\ UNCHANGED <<mfa, code, drawn, known, stale, issued, excused>>
    BY <1>7 DEF IssueTokenPair, enrollment, login
  <2>3. signedIn \cap proof \subseteq excused
    BY <2>1 DEF SecondSignInExplained
  <2>4. proof = {m} \cup codes  BY <2>1 DEF Proof
  <2>5. codes \in {{}} \cup {{d} : d \in Codes}
    <3>1. CASE c = None  BY <3>1
    <3>2. CASE c # None
      <4>1. c \in Codes /\ codes = {c}  BY <1>1, <3>2
      <4> QED  BY <4>1
    <3> QED  BY <3>1, <3>2
  <2>6. \A d \in codes : code[d].state = "used"  BY <2>1
  <2>7. Factor!SignIn(m, codes)
    BY <2>1, <2>2, <2>3, <2>4, <2>6 DEF Factor!SignIn, Factor!enrollment
  <2> QED  BY <2>1, <2>5, <2>7 DEF Factor!Next
<1> QED  BY <1>3, <1>4, <1>5, <1>6, <1>7 DEF Verifying

LEMMA StepImplements ==
    TypeOK /\ Locals /\ Proved /\ SecondSignInExplained /\ [Next]_vars => [Factor!Next]_(Factor!vars)
<1> SUFFICES ASSUME TypeOK, Locals, Proved, SecondSignInExplained, [Next]_vars
             PROVE  Factor!Next \/ UNCHANGED Factor!vars
  OBVIOUS
<1> USE DEF Factor!vars, Factor!enrollment, Factor!signIns, enrollment, login, history
<1>1. CASE Login
  <2>1. PICK m \in MfaTokens \ issued : mfa.enabled /\ issued' = issued \cup {m}
    BY <1>1 DEF Login
  <2>2. Factor!Challenge(m)  BY <1>1, <2>1 DEF Login, Factor!Challenge
  <2> QED  BY <2>2 DEF Factor!Next
<1>2. ASSUME NEW w \in Workers, Arrive(w) PROVE UNCHANGED Factor!vars
  BY <1>2 DEF Arrive, ReceiveEnable, ReceiveConfirm, ReceiveDisable, ReceiveVerify, Receive
<1>3. ASSUME NEW w \in Workers, Crash(w) PROVE UNCHANGED Factor!vars
  BY <1>3 DEF Crash
<1>4. CASE UNCHANGED vars  BY <1>4 DEF vars
<1>5. ASSUME NEW m \in MfaTokens, Evict(m) PROVE Factor!Next
  <2>1. Factor!Excuse(m) /\ m \in Factor!Proofs  BY <1>5 DEF Evict, Factor!Excuse, Factor!Proofs
  <2> QED  BY <2>1 DEF Factor!Next
<1> QED
  BY <1>1, <1>2, <1>3, <1>4, <1>5, EnrollingImplements, VerifyingImplements DEF Next

LEMMA ProvedHolds == Spec => []Proved
<1>1. Init => Proved  BY DEF Init, Proved, NoRequest, VerifyPCs, At
<1> QED  BY <1>1, ProvedStep, LocalsHold, PTL DEF Spec

\* MFAService, in any interleaving and with any deaths, implements
\* SecondFactor: only a write on a row that changed, and a proof tested twice
\* at once or by a Redis that fails or forgets, leave what it promises.
THEOREM MfaImplementsSecondFactor == Spec => ImplementsSecondFactor
<1>1. Init => Factor!Init
  BY DEF Init, NoMfa, Factor!Init, Factor!Off
<1> QED
  BY <1>1, StepImplements, LocalsHold, ProvedHolds, SecondSignInExplainedHolds, PTL
     DEF Spec, ImplementsSecondFactor, Factor!Spec

\* A recovery code that was used, or voided by disable, never works again:
\* no stale confirm and no second enrollment revives it.
THEOREM CodesAreUsedForGood == Spec => Factor!UsedForGood
<1>1. ASSUME TypeOK, Factor!Next, NEW c \in Codes, code[c].state = "used"
      PROVE  code'[c] = code[c]
  <2>1. DOMAIN code = Codes  BY <1>1 DEF TypeOK
  <2>2. ASSUME NEW batch, NEW k, Factor!MakeCodes(batch, k) PROVE code'[c] = code[c]
    BY <1>1, <2>2 DEF Factor!MakeCodes
  <2>3. CASE Factor!VoidCodes  BY <1>1, <2>3 DEF Factor!VoidCodes
  <2>4. ASSUME NEW d \in Codes, Factor!Spend(d) PROVE code'[c] = code[c]
    BY <1>1, <2>1, <2>4 DEF Factor!Spend
  <2> QED
    BY <1>1, <2>2, <2>3, <2>4 DEF Factor!Next, Factor!enrollment, Factor!Draw, Factor!Hand, Factor!TurnOn,
       Factor!TurnOff, Factor!Challenge, Factor!Excuse, Factor!SignIn
<1>2. TypeOK /\ [Factor!Next]_(Factor!vars) =>
        [\A c \in Codes : code[c].state = "used" => code'[c] = code[c]]_(Factor!vars)
  BY <1>1
<1> QED
  BY <1>2, LocalsHold, MfaImplementsSecondFactor, PTL
     DEF ImplementsSecondFactor, Factor!Spec, Factor!UsedForGood
=============================================================================
