--------------------------- MODULE AuthRepository ---------------------------
(***************************************************************************)
(* The two PostgreSQL tables behind sign-in, and the statements            *)
(* AuthRepository, SessionRepository and UserRepository run on them.       *)
(*                                                                         *)
(* Every repository method executes one statement and commits, under       *)
(* READ COMMITTED, so one method is one atomic step; nothing spans two     *)
(* methods of a handler.  An operator below says what the statement does   *)
(* to its table; the handler that calls it is in TokenLifecycle.           *)
(*                                                                         *)
(* A row's timestamps, IP address, user agent and token hash are left out: *)
(* a token is identified by its id, which stands for the hash as well.     *)
(***************************************************************************)
EXTENDS FiniteSets

CONSTANTS
    Users,      \* ids of registered users
    Sessions,   \* ids create_session can hand out
    Tokens,     \* ids create_refresh_token can hand out
    None        \* Python's None, SQL's NULL

ASSUME NoneIsNoId == None \notin Users \cup Sessions \cup Tokens

VARIABLES
    session,        \* the sessions table, by id
    token,          \* the refresh_tokens table, by id
    activeUsers     \* users.is_active

SessionRow == [user : Users \cup {None}, state : {"absent", "active", "inactive"}]
TokenRow   == [user : Users \cup {None}, session : Sessions \cup {None},
               state : {"absent", "live", "revoked"}]

TablesTypeOK ==
    /\ session \in [Sessions -> SessionRow]
    /\ token \in [Tokens -> TokenRow]
    /\ activeUsers \subseteq Users

\* What the columns allow and no statement writes: both of a token's foreign keys are
\* filled, though refresh_tokens.session_id may be NULL.
RowsFilled ==
    \A t \in Tokens : token[t].state # "absent" =>
        token[t].user \in Users /\ token[t].session \in Sessions

\* alembic upgrade head on an empty database, then the users register.
EmptyTables ==
    /\ session = [s \in Sessions |-> [user |-> None, state |-> "absent"]]
    /\ token = [t \in Tokens |-> [user |-> None, session |-> None, state |-> "absent"]]
    /\ activeUsers = Users

FreshSessions == {s \in Sessions : session[s].state = "absent"}
FreshTokens   == {t \in Tokens : token[t].state = "absent"}

Live(t)          == token[t].state = "live"
TokensOf(u)      == {t \in Tokens : token[t].user = u}
TokensIn(s)      == {t \in Tokens : token[t].session = s}
SessionsOf(u)    == {s \in Sessions : session[s].user = u}

-----------------------------------------------------------------------------
(* refresh_tokens *)

CreateRefreshToken(t, u, s) ==
    /\ t \in FreshTokens
    /\ token' = [token EXCEPT ![t] = [user |-> u, session |-> s, state |-> "live"]]

\* Mutant: the lookup forgets `NOT is_revoked'.
FoundEvenRevoked(t) == t # None /\ token[t].state # "absent"

\* get_refresh_token_by_hash: the row, if there is one and it is not revoked.
Found(t) == t # None /\ Live(t)

\* UPDATE refresh_tokens SET is_revoked = true.  (One of the three statements
\* lacks AND NOT is_revoked, which would only move revoked_at.)
Revoke(S) ==
    token' = [t \in Tokens |-> IF t \in S /\ Live(t)
                               THEN [token[t] EXCEPT !.state = "revoked"]
                               ELSE token[t]]

RevokeRefreshToken(t)             == Revoke({t})
RevokeAllUserTokens(u)            == Revoke(TokensOf(u))
RevokeRefreshTokensBySession(s)   == Revoke(TokensIn(s))

-----------------------------------------------------------------------------
(* sessions *)

\* Mutant: an upsert that reopens a closed session row.
ReopenSession(s, u) ==
    /\ session[s].state # "active"
    /\ session' = [session EXCEPT ![s] = [user |-> u, state |-> "active"]]

CreateSession(s, u) ==
    /\ s \in FreshSessions
    /\ session' = [session EXCEPT ![s] = [user |-> u, state |-> "active"]]

\* UPDATE sessions SET is_active = false.
Deactivate(S) ==
    session' = [s \in Sessions |-> IF s \in S /\ session[s].state = "active"
                                   THEN [session[s] EXCEPT !.state = "inactive"]
                                   ELSE session[s]]

DeactivateSession(s)            == Deactivate({s})
DeactivateAllUserSessions(u)    == Deactivate(SessionsOf(u))
=============================================================================
