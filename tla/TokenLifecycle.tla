--------------------------- MODULE TokenLifecycle ---------------------------
(***************************************************************************)
(* AuthService and SessionService: how token pairs and sessions are        *)
(* issued, rotated and revoked by requests that run concurrently.          *)
(*                                                                         *)
(* A request is a worker with a program counter.  It gives up the event    *)
(* loop at every await, so a step is one repository (or Redis) call with   *)
(* the Python around it, and the steps of different workers interleave.    *)
(* A handler has no transaction around it: when a request dies between two *)
(* steps, what it committed stays.                                         *)
(*                                                                         *)
(* Access tokens are not state of the database: whether get_current_user   *)
(* accepts one (its expiry, logout's Redis blacklist) is TokenBlacklist's  *)
(* subject and a free choice here.  Passwords and lockout are in           *)
(* LoginLockout, the MFA step between login and _issue_token_pair in       *)
(* MfaLogin; here login either reaches _issue_token_pair or is refused.    *)
(***************************************************************************)
EXTENDS AuthRepository, Naturals

CONSTANTS
    Workers,        \* requests in flight at once
    MayCrash,       \* a request may die between two steps
    MaxExpired      \* bound: tokens that outlive their expires_at in a behaviour

ASSUME MayCrashIsBoolean == MayCrash \in BOOLEAN

VARIABLES
    req,        \* req[w]: the request worker w is serving
    expired,    \* refresh tokens whose expires_at has passed
    held,       \* refresh tokens that reached a client in a TokenResponse
    parent,     \* history: the token a rotation consumed to make this one
    torn,       \* history: sessions whose sign-out was not clean, see ClosedOver
    died        \* history: sessions that a request died while working on

tables  == <<session, token, activeUsers>>
history == <<parent, torn, died>>
vars    == <<session, token, activeUsers, req, expired, held, parent, torn, died>>

Ops == {"none", "login", "refresh", "logout", "logout_all", "revoke_session"}
PCs == {"idle",
        "find_user",                                            \* login
        "lookup", "revoke_expired", "load_user", "revoke_old",  \* refresh
        "issue", "update_last_login",                           \* _issue_token_pair
        "authenticate",                                         \* get_current_user
        "find_presented", "revoke_presented", "deactivate",
        "revoke_all", "deactivate_all",
        "get_session", "revoke_session", "revoke_tokens", "audit"}

Request == [op : Ops, pc : PCs, user : Users \cup {None},
            refresh : Tokens \cup {None},
            session : Sessions \cup {None}, new : Tokens \cup {None}]

NoRequest == [op |-> "none", pc |-> "idle", user |-> None, refresh |-> None,
              session |-> None, new |-> None]

\* A local the rest of its handler never reads goes back to None.
At(w, pc)   == req[w].pc = pc
Goto(w, pc) == req' = [req EXCEPT ![w].pc = pc]
Reply(w)    == req' = [req EXCEPT ![w] = NoRequest]

\* Requests that will insert a token into session s: past the lookup that
\* admitted them, before create_refresh_token.
Minting(w, s) ==
    /\ req[w].session = s
    /\ req[w].pc \in {"load_user", "revoke_old", "issue"}

\* Requests between two of their own writes to session s or its tokens.
WorksOn(w, s) ==
    \/ req[w].session = s /\ req[w].pc \in {"issue", "deactivate"}
    \/ At(w, "deactivate_all") /\ session[s].user = req[w].user

TypeOK ==
    /\ TablesTypeOK
    /\ RowsFilled
    /\ req \in [Workers -> Request]
    /\ expired \subseteq Tokens
    /\ held \subseteq Tokens
    /\ parent \in [Tokens -> Tokens \cup {None}]
    /\ torn \subseteq Sessions
    /\ died \subseteq Sessions

Init ==
    /\ EmptyTables
    /\ req = [w \in Workers |-> NoRequest]
    /\ expired = {}
    /\ held = {}
    /\ parent = [t \in Tokens |-> None]
    /\ torn = {}
    /\ died = {}

-----------------------------------------------------------------------------
(* Requests arrive. *)

\* Bounds: ids left for every request that may still need one.
TokensSuffice ==
    Cardinality(FreshTokens) >
        Cardinality({w \in Workers : req[w].op \in {"login", "refresh"} /\ req[w].new = None})
SessionsSuffice ==
    Cardinality(FreshSessions) >
        Cardinality({w \in Workers : req[w].op = "login" /\ req[w].session = None})

Receive(w, r) ==
    /\ At(w, "idle")
    /\ req' = [req EXCEPT ![w] = r]
    /\ UNCHANGED <<tables, expired, held, history>>

ReceiveLogin(w) == \E u \in Users :
    /\ TokensSuffice /\ SessionsSuffice
    /\ Receive(w, [NoRequest EXCEPT !.op = "login", !.pc = "find_user", !.user = u])

ReceiveRefresh(w) == \E t \in held :
    /\ TokensSuffice
    /\ Receive(w, [NoRequest EXCEPT !.op = "refresh", !.pc = "lookup", !.refresh = t])

\* The bearer of an access token authenticates as its `sub'.
Bearers == {token[a].user : a \in held}

\* The body's refresh_token may be empty or unknown to the database: None.
ReceiveLogout(w) == \E u \in Bearers, t \in held \cup {None} :
    Receive(w, [NoRequest EXCEPT !.op = "logout", !.pc = "authenticate",
                                 !.user = u, !.refresh = t])

ReceiveLogoutAll(w) == \E u \in Bearers :
    Receive(w, [NoRequest EXCEPT !.op = "logout_all", !.pc = "authenticate", !.user = u])

ReceiveRevokeSession(w) == \E u \in Bearers, s \in Sessions \ FreshSessions :
    Receive(w, [NoRequest EXCEPT !.op = "revoke_session", !.pc = "authenticate",
                                 !.user = u, !.session = s])

-----------------------------------------------------------------------------
(* get_current_user: before logout, logout_all and revoke_session. *)

FirstStep(op) == CASE op = "logout"         -> "find_presented"
                   [] op = "logout_all"     -> "revoke_all"
                   [] op = "revoke_session" -> "get_session"

\* logout's own first await, blacklist_token, always returns: see TokenBlacklist.
CurrentUser(w) ==
    /\ At(w, "authenticate")
    /\ req[w].user \in activeUsers
    /\ Goto(w, FirstStep(req[w].op))
    /\ UNCHANGED <<tables, expired, held, history>>

\* 401 or 403: the JWT expired or is blacklisted, or the user is disabled.
CurrentUserRefused(w) ==
    /\ At(w, "authenticate")
    /\ Reply(w)
    /\ UNCHANGED <<tables, expired, held, history>>

-----------------------------------------------------------------------------
(* login: the credential check, see LoginLockout for what it does to users. *)

LoginVerified(w) ==
    /\ At(w, "find_user")
    /\ req[w].user \in activeUsers
    /\ Goto(w, "issue")
    /\ UNCHANGED <<tables, expired, held, history>>

LoginRefused(w) ==
    /\ At(w, "find_user")
    /\ Reply(w)
    /\ UNCHANGED <<tables, expired, held, history>>

-----------------------------------------------------------------------------
(* refresh_tokens *)

LookupFound(w) ==
    LET t == req[w].refresh
    IN  /\ At(w, "lookup")
        /\ Found(t)
        /\ req' = [req EXCEPT
                     ![w].pc = IF t \in expired THEN "revoke_expired" ELSE "load_user",
                     ![w].user = token[t].user,
                     ![w].session = token[t].session]
        /\ UNCHANGED <<tables, expired, held, history>>

\* "invalid or has already been used": 401 and nothing else.
LookupRejected(w) ==
    /\ At(w, "lookup")
    /\ ~Found(req[w].refresh)
    /\ Reply(w)
    /\ UNCHANGED <<tables, expired, held, history>>

RevokeExpired(w) ==
    /\ At(w, "revoke_expired")
    /\ RevokeRefreshToken(req[w].refresh)
    /\ Reply(w)
    /\ UNCHANGED <<session, activeUsers, expired, held, history>>

LoadUser(w) ==
    /\ At(w, "load_user")
    /\ IF req[w].user \in activeUsers THEN Goto(w, "revoke_old") ELSE Reply(w)
    /\ UNCHANGED <<tables, expired, held, history>>

\* Mutant: rotation forgets the old token.
RevokeOldForgotten(w) ==
    /\ At(w, "revoke_old")
    /\ Goto(w, "issue")
    /\ UNCHANGED <<tables, expired, held, history>>

RevokeOld(w) ==
    /\ At(w, "revoke_old")
    /\ RevokeRefreshToken(req[w].refresh)
    /\ Goto(w, "issue")
    /\ UNCHANGED <<session, activeUsers, expired, held, history>>

-----------------------------------------------------------------------------
(* _issue_token_pair *)

\* Mutant: a login takes over whatever session is active on its device.
IssueSessionShared(w) == \E s \in Sessions :
    /\ At(w, "issue")
    /\ req[w].session = None
    /\ IF session[s].state = "active" THEN UNCHANGED session ELSE CreateSession(s, req[w].user)
    /\ req' = [req EXCEPT ![w].session = s]
    /\ UNCHANGED <<token, activeUsers, expired, held, history>>

IssueSession(w) == \E s \in Sessions :
    /\ At(w, "issue")
    /\ req[w].session = None
    /\ CreateSession(s, req[w].user)
    /\ req' = [req EXCEPT ![w].session = s]
    /\ UNCHANGED <<token, activeUsers, expired, held, history>>

\* Mutant: create_refresh_token is called without its session_id, which is optional.
IssueTokensSessionless(w) == \E t \in Tokens :
    /\ At(w, "issue")
    /\ req[w].session # None
    /\ CreateRefreshToken(t, req[w].user, None)
    /\ parent' = [parent EXCEPT ![t] = req[w].refresh]
    /\ req' = [req EXCEPT ![w].new = t, ![w].pc = "update_last_login",
                          ![w].user = None, ![w].refresh = None, ![w].session = None]
    /\ UNCHANGED <<session, activeUsers, expired, held, torn, died>>

\* Mutant: the insert refuses a session that was closed since the lookup,
\* after the old token was spent.
IssueTokensIfOpen(w) == \E t \in Tokens :
    /\ At(w, "issue")
    /\ req[w].session # None
    /\ session[req[w].session].state = "active"
    /\ CreateRefreshToken(t, req[w].user, req[w].session)
    /\ parent' = [parent EXCEPT ![t] = req[w].refresh]
    /\ req' = [req EXCEPT ![w].new = t, ![w].pc = "update_last_login",
                          ![w].user = None, ![w].refresh = None, ![w].session = None]
    /\ UNCHANGED <<session, activeUsers, expired, held, torn, died>>

IssueTokens(w) == \E t \in Tokens :
    /\ At(w, "issue")
    /\ req[w].session # None
    /\ CreateRefreshToken(t, req[w].user, req[w].session)
    /\ parent' = [parent EXCEPT ![t] = req[w].refresh]
    /\ req' = [req EXCEPT ![w].new = t, ![w].pc = "update_last_login",
                          ![w].user = None, ![w].refresh = None, ![w].session = None]
    /\ UNCHANGED <<session, activeUsers, expired, held, torn, died>>

\* update_last_login and the audit record, then the TokenResponse.
IssueReply(w) ==
    /\ At(w, "update_last_login")
    /\ held' = held \cup {req[w].new}
    /\ Reply(w)
    /\ UNCHANGED <<tables, expired, history>>

-----------------------------------------------------------------------------
(* logout *)

LogoutLookup(w) ==
    LET t == req[w].refresh
    IN  /\ At(w, "find_presented")
        /\ IF Found(t)
           THEN req' = [req EXCEPT ![w].pc = "revoke_presented", ![w].session = token[t].session]
           ELSE Goto(w, "audit")
        /\ UNCHANGED <<tables, expired, held, history>>

\* Mutant: logout leaves the session row open.
LogoutRevokeOnly(w) ==
    /\ At(w, "revoke_presented")
    /\ RevokeRefreshToken(req[w].refresh)
    /\ req' = [req EXCEPT ![w].pc = "audit", ![w].refresh = None, ![w].session = None]
    /\ UNCHANGED <<session, activeUsers, expired, held, history>>

LogoutRevoke(w) ==
    /\ At(w, "revoke_presented")
    /\ RevokeRefreshToken(req[w].refresh)
    /\ req' = [req EXCEPT ![w].pc = "deactivate", ![w].refresh = None]
    /\ UNCHANGED <<session, activeUsers, expired, held, history>>

\* A session is torn when it is closed over a token that is still live, or
\* under a request that is about to insert one.
ClosedOver(S) ==
    {s \in S : (\E t \in Tokens : token[t].session = s /\ Live(t))
               \/ (\E v \in Workers : Minting(v, s))}

LogoutDeactivate(w) ==
    /\ At(w, "deactivate")
    /\ DeactivateSession(req[w].session)
    /\ torn' = torn \cup ClosedOver({req[w].session})
    /\ Goto(w, "audit")
    /\ UNCHANGED <<token, activeUsers, expired, held, parent, died>>

(* logout_all *)

\* Mutant: logout_all closes the sessions and forgets their tokens.
LogoutAllKeepsTokens(w) ==
    /\ At(w, "revoke_all")
    /\ Goto(w, "deactivate_all")
    /\ UNCHANGED <<tables, expired, held, history>>

LogoutAllRevoke(w) ==
    /\ At(w, "revoke_all")
    /\ RevokeAllUserTokens(req[w].user)
    /\ Goto(w, "deactivate_all")
    /\ UNCHANGED <<session, activeUsers, expired, held, history>>

LogoutAllDeactivate(w) ==
    /\ At(w, "deactivate_all")
    /\ DeactivateAllUserSessions(req[w].user)
    /\ torn' = torn \cup ClosedOver(SessionsOf(req[w].user))
    /\ Goto(w, "audit")
    /\ UNCHANGED <<token, activeUsers, expired, held, parent, died>>

-----------------------------------------------------------------------------
(* SessionService.revoke_session *)

\* Mutant: revoke_session does not compare the session's owner.
SessionFoundOfAnyone(w) ==
    /\ At(w, "get_session")
    /\ session[req[w].session].state = "active"
    /\ Goto(w, "revoke_session")
    /\ UNCHANGED <<tables, expired, held, history>>

SessionFound(w) ==
    LET s == req[w].session
    IN  /\ At(w, "get_session")
        /\ session[s].user = req[w].user
        /\ session[s].state = "active"
        /\ Goto(w, "revoke_session")
        /\ UNCHANGED <<tables, expired, held, history>>

\* 404: unknown, already inactive, or somebody else's.
SessionNotFound(w) ==
    LET s == req[w].session
    IN  /\ At(w, "get_session")
        /\ session[s].user # req[w].user \/ session[s].state # "active"
        /\ Reply(w)
        /\ UNCHANGED <<tables, expired, held, history>>

RevokeSession(w) ==
    /\ At(w, "revoke_session")
    /\ DeactivateSession(req[w].session)
    /\ Goto(w, "revoke_tokens")
    /\ UNCHANGED <<token, activeUsers, expired, held, history>>

\* Mutant: revoke_session closes the session row and forgets its tokens.
RevokeSessionKeepsTokens(w) ==
    /\ At(w, "revoke_tokens")
    /\ Goto(w, "audit")
    /\ UNCHANGED <<tables, expired, held, history>>

RevokeSessionTokens(w) ==
    LET s == req[w].session
    IN  /\ At(w, "revoke_tokens")
        /\ RevokeRefreshTokensBySession(s)
        /\ torn' = torn \cup {r \in {s} : \E v \in Workers : Minting(v, r)}
        /\ Goto(w, "audit")
        /\ UNCHANGED <<session, activeUsers, expired, held, parent, died>>

\* The audit record, then 200: logout, logout_all and revoke_session end here.
AuditReply(w) ==
    /\ At(w, "audit")
    /\ Reply(w)
    /\ UNCHANGED <<tables, expired, held, history>>

-----------------------------------------------------------------------------
(* What happens around the requests. *)

\* The process dies or the connection breaks; get_db rolls back the open
\* statement, which is none here.  revoke_session's tokens stay unrevoked.
Crash(w) ==
    /\ MayCrash
    /\ ~At(w, "idle")
    /\ Reply(w)
    /\ torn' = IF At(w, "revoke_tokens") THEN torn \cup {req[w].session} ELSE torn
    /\ died' = died \cup {s \in Sessions : WorksOn(w, s)}
    /\ UNCHANGED <<tables, expired, held, parent>>

Expire(t) ==
    /\ t \notin FreshTokens
    /\ Cardinality(expired) < MaxExpired
    /\ expired' = expired \cup {t}
    /\ UNCHANGED <<tables, req, held, history>>

\* UserRepository.deactivate: no handler calls it, an operator does.
DisableUser(u) ==
    /\ activeUsers' = activeUsers \ {u}
    /\ UNCHANGED <<session, token, req, expired, held, history>>

Arrive(w) ==
    \/ ReceiveLogin(w) \/ ReceiveRefresh(w) \/ ReceiveLogout(w)
    \/ ReceiveLogoutAll(w) \/ ReceiveRevokeSession(w)

Step(w) ==
    \/ CurrentUser(w) \/ CurrentUserRefused(w)
    \/ LoginVerified(w) \/ LoginRefused(w)
    \/ LookupFound(w) \/ LookupRejected(w) \/ RevokeExpired(w) \/ LoadUser(w) \/ RevokeOld(w)
    \/ IssueSession(w) \/ IssueTokens(w) \/ IssueReply(w)
    \/ LogoutLookup(w) \/ LogoutRevoke(w) \/ LogoutDeactivate(w)
    \/ LogoutAllRevoke(w) \/ LogoutAllDeactivate(w)
    \/ SessionFound(w) \/ SessionNotFound(w) \/ RevokeSession(w) \/ RevokeSessionTokens(w)
    \/ AuditReply(w)

Next ==
    \/ \E w \in Workers : Arrive(w) \/ Step(w) \/ Crash(w)
    \/ \E t \in Tokens : Expire(t)
    \/ \E u \in Users : DisableUser(u)

\* The event loop resumes every coroutine whose database or Redis call has
\* answered; nothing obliges clients to call, tokens to expire or a process
\* to die.
Spec == Init /\ [][Next]_vars /\ \A w \in Workers : WF_vars(Step(w))

-----------------------------------------------------------------------------
(***************************************************************************)
(*                               PROPERTIES                                *)
(***************************************************************************)

\* Rotation revokes before it issues: at no instant, and whatever dies in
\* between, is a refresh token live together with the one it was made from.
\* (refresh_tokens: revoke_refresh_token is awaited before _issue_token_pair.)
RotationOrder ==
    \A t \in Tokens : parent[t] # None => token[parent[t]].state = "revoked"

\* The two tables agree: a token belongs to a session of its own user, also
\* after any number of rotations that copy session_id from the old row.
TokenSessionOwner ==
    \A t \in Tokens \ FreshTokens :
        /\ token[t].session \in Sessions \ FreshSessions
        /\ session[token[t].session].user = token[t].user

\* A live token on a deactivated session has one of three causes and no
\* other: revoke_session is about to revoke it; revoke_session died before
\* it could; or the session was closed over a token, or a request about to
\* insert one, that the closing statements could not see (ClosedOver).
OrphansExplained ==
    \A t \in Tokens :
        LET s == token[t].session
        IN  Live(t) /\ session[s].state = "inactive" =>
                \/ s \in torn
                \/ \E w \in Workers : At(w, "revoke_tokens") /\ req[w].session = s

\* A session that GET /sessions lists as active can still be refreshed,
\* unless a request is working on it, a request died while working on it, or
\* a token of it ran out (the session row is not closed then).
ActiveSessionsUsable ==
    \A s \in Sessions :
        session[s].state = "active" =>
            \/ \E t \in TokensIn(s) : Live(t) \/ t \in expired
            \/ \E w \in Workers : WorksOn(w, s)
            \/ s \in died

\* Revocation is final: rows are marked and never unmarked, and no row changes
\* its owner, so a used or signed-out token cannot come back by any route.
RevocationIsFinal ==
    [][/\ \A t \in Tokens : token[t].state = "revoked" => token'[t] = token[t]
       /\ \A s \in Sessions : session[s].state = "inactive" => session'[s] = session[s]]_vars

\* Who may take a token away: a request that presents it, its owner's
\* logout_all, or its owner's revoke_session of its own session.  (Another
\* device of the same user and every other user stay signed in.)
RevokedOnlyByRight ==
    [][\A t \in Tokens : Live(t) /\ ~Live(t)' =>
         \E w \in Workers :
            \/ req[w].refresh = t
            \/ At(w, "revoke_all") /\ req[w].user = token[t].user
            \/ /\ At(w, "revoke_tokens")
               /\ req[w].session = token[t].session
               /\ req[w].user = token[t].user]_vars

\* At most one refresh token of a session is live.
OneLivePerSession ==
    \A t1, t2 \in Tokens :
        Live(t1) /\ Live(t2) /\ token[t1].session = token[t2].session => t1 = t2

\* A refresh token is good for one rotation.
AtMostOneSuccessor ==
    \A t1, t2 \in Tokens : parent[t1] = parent[t2] /\ parent[t1] # None => t1 = t2

\* When revoke_session or logout_all answers 200, nothing it was to sign out
\* can be refreshed any more.
SignOutSticks ==
    [][\A w \in Workers : AuditReply(w) =>
         \A t \in Tokens :
            \/ req[w].op = "revoke_session" /\ token[t].session = req[w].session
            \/ req[w].op = "logout_all" /\ token[t].user = req[w].user
            => ~Live(t)]_vars

\* A sign-out that has closed its session goes on to revoke what is live on
\* it, unless the request dies.
SignOutCompletes ==
    \A s \in Sessions :
        (\E w \in Workers : At(w, "revoke_tokens") /\ req[w].session = s)
            ~> ((\A t \in TokensIn(s) : ~Live(t)) \/ s \in torn)

\* refresh_tokens' docstring: a token not found because it was used already
\* makes the service revoke ALL tokens of its user.
ReuseRevokesAll ==
    [][\A w \in Workers :
         LET r == req[w].refresh
         IN  LookupRejected(w) /\ token[r].state = "revoked" =>
                 \A t \in TokensOf(token[r].user) : ~Live(t)']_vars

\* revoke_session's docstring: once it answered, the device can no longer
\* mint new access tokens via /auth/refresh.
RevokedSessionIsDead ==
    [][\A w \in Workers : AuditReply(w) /\ req[w].op = "revoke_session" =>
         \A t \in TokensIn(req[w].session) : ~Live(t)]_vars
=============================================================================
